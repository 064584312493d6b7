---------------------------- MODULE TreiberStack ----------------------------
(***************************************************************************)
(* TreiberStack<T, Next, Tag>: the lock-free stack under the buffer pool.  *)
(* The pool uses it in two ways: chunks are pushed and popped one by one   *)
(* on a stack whose head carries a tag, and free blocks are pushed in      *)
(* chains and taken all at once on a stack without one.                    *)
(*                                                                         *)
(* Each action is one access to memory that threads share.  A push writes  *)
(* the link of a node nobody else owns, so that write goes with the load   *)
(* before it.  pop() reads the link of a node that it does not own yet,    *)
(* and that its owner may be writing: the read is a step of its own.  A    *)
(* compare_exchange_weak that fails for no reason repeats the loop with    *)
(* the same values and needs no step.                                      *)
(***************************************************************************)
EXTENDS Integers, Sequences, SequencesExt, FiniteSets

CONSTANTS Threads, Nodes,
          Null,      (* nullptr                                             *)
          Tags       (* number of tags of a tagged stack: 2^TagBits         *)

VARIABLES use,       (* what is on the stack: "chunks" or "blocks"          *)
          head,      (* head_: a pointer and a tag                          *)
          next,      (* each node's link                                    *)
          own,       (* the nodes each thread has                           *)
          pc,        (* where each thread is                                *)
          expected,  (* the head each thread loaded                         *)
          link,      (* the link a thread in pop() has read                 *)
          chain      (* the nodes a thread is pushing                       *)

local == <<pc, expected, link, chain>>
vars == <<use, head, next, own, local>>

TagMod == IF use = "chunks" THEN Tags ELSE 1

(* Mutant of Pack: the tag stays the same. *)
Pack_NoTag(p, tag) == [ptr |-> p, tag |-> 0]

Pack(p, tag) == [ptr |-> p, tag |-> tag % TagMod]

Init ==
  /\ use \in {"chunks", "blocks"}
  /\ head = Pack(Null, 0)
  /\ next = [n \in Nodes |-> Null]
  /\ \E holder \in [Nodes -> Threads] :
       own = [t \in Threads |-> {n \in Nodes : holder[n] = t}]
  /\ pc = [t \in Threads |-> "idle"]
  /\ expected = [t \in Threads |-> Pack(Null, 0)]
  /\ link = [t \in Threads |-> Null]
  /\ chain = [t \in Threads |-> <<>>]

(***************************************************************************)
(* The bound under which tags work: while a thread is between its load     *)
(* and its compare-exchange in pop(), the tag does not come round to the   *)
(* one that it loaded.  For chunks that takes 2^21 changes of the head.    *)
(***************************************************************************)
TagIsNew ==
  \A t \in Threads :
    pc[t] \in {"readNext", "popCas"} =>
      (head.tag + 1) % TagMod # expected[t].tag

(* The nodes from p on; a cycle is cut off. *)
From(p) ==
  LET walk[k \in 0..Cardinality(Nodes)] ==
        IF k = 0 THEN p
        ELSE IF walk[k - 1] = Null THEN Null ELSE next[walk[k - 1]]
      before == {k \in 0..Cardinality(Nodes) : walk[k] # Null}
  IN  [k \in 1..Cardinality(before) |-> walk[k - 1]]

Done(t) ==
  /\ pc' = [pc EXCEPT ![t] = "idle"]
  /\ expected' = [expected EXCEPT ![t] = Pack(Null, 0)]
  /\ link' = [link EXCEPT ![t] = Null]
  /\ chain' = [chain EXCEPT ![t] = <<>>]

-----------------------------------------------------------------------------
(* push() and push_chain(): the chain is linked up before the call. *)
Chained(c, last) ==
  [n \in Nodes |->
     IF n \notin ToSet(c) THEN next[n]
     ELSE IF n = c[Len(c)] THEN last
     ELSE c[1 + CHOOSE k \in 1..(Len(c) - 1) : c[k] = n]]

StartPush(t, c) ==
  /\ pc[t] = "idle" /\ c # <<>>
  /\ use = "chunks" => Len(c) = 1
  /\ expected' = [expected EXCEPT ![t] = head]
  /\ next' = Chained(c, head.ptr)
  /\ own' = [own EXCEPT ![t] = @ \ ToSet(c)]
  /\ chain' = [chain EXCEPT ![t] = c]
  /\ pc' = [pc EXCEPT ![t] = "pushCas"]
  /\ UNCHANGED <<use, head, link>>

PushCas(t) ==
  /\ pc[t] = "pushCas"
  /\ \/ /\ head = expected[t] /\ TagIsNew
        /\ head' = Pack(chain[t][1], head.tag + 1)
        /\ Done(t)
        /\ UNCHANGED <<use, next, own>>
     \/ /\ head # expected[t]
        /\ expected' = [expected EXCEPT ![t] = head]
        /\ next' = Chained(chain[t], head.ptr)
        /\ UNCHANGED <<use, head, own, pc, link, chain>>

-----------------------------------------------------------------------------
(* pop() of an empty stack returns nullptr: nothing changes. *)
StartPop(t) ==
  /\ use = "chunks"
  /\ pc[t] = "idle" /\ head.ptr # Null
  /\ expected' = [expected EXCEPT ![t] = head]
  /\ pc' = [pc EXCEPT ![t] = "readNext"]
  /\ UNCHANGED <<use, head, next, own, link, chain>>

ReadNext(t) ==
  /\ pc[t] = "readNext"
  /\ link' = [link EXCEPT ![t] = next[expected[t].ptr]]
  /\ pc' = [pc EXCEPT ![t] = "popCas"]
  /\ UNCHANGED <<use, head, next, own, expected, chain>>

PopCas(t) ==
  /\ pc[t] = "popCas"
  /\ \/ /\ head = expected[t] /\ TagIsNew
        /\ head' = Pack(link[t], head.tag + 1)
        /\ own' = [own EXCEPT ![t] = @ \cup {expected[t].ptr}]
        /\ Done(t)
        /\ UNCHANGED <<use, next>>
     \/ /\ head # expected[t] /\ head.ptr # Null
        /\ expected' = [expected EXCEPT ![t] = head]
        /\ link' = [link EXCEPT ![t] = Null]
        /\ pc' = [pc EXCEPT ![t] = "readNext"]
        /\ UNCHANGED <<use, head, next, own, chain>>
     \/ /\ head # expected[t] /\ head.ptr = Null
        /\ Done(t)
        /\ UNCHANGED <<use, head, next, own>>

-----------------------------------------------------------------------------
(* take_all(): the load before the exchange only serves the tag, which     *)
(* the stacks it is used on do not have.                                   *)
TakeAll(t) ==
  /\ use = "blocks"
  /\ pc[t] = "idle" /\ head.ptr # Null
  /\ own' = [own EXCEPT ![t] = @ \cup ToSet(From(head.ptr))]
  /\ head' = Pack(Null, head.tag + 1)
  /\ UNCHANGED <<use, next, local>>

Next ==
  \E t \in Threads :
    \/ \E S \in SUBSET own[t] : \E c \in SetToSeqs(S) : StartPush(t, c)
    \/ PushCas(t)
    \/ StartPop(t)
    \/ ReadNext(t)
    \/ PopCas(t)
    \/ TakeAll(t)

Spec == Init /\ [][Next]_vars

-----------------------------------------------------------------------------
Atomic == INSTANCE AtomicStack
            WITH stack <- From(head.ptr),
                 own <- [t \in Threads |-> own[t] \cup ToSet(chain[t])]

(* Every operation takes effect in one step: a push or a pop with its      *)
(* compare-exchange, take_all() with its exchange.  No node is lost and    *)
(* none is in two places; in particular a pop() that read a link before    *)
(* the node was popped and pushed again by others does not succeed.        *)
ImplementsStack == Atomic!Spec

=============================================================================
