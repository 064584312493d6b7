---------------------------- MODULE AtomicStack ----------------------------
(***************************************************************************)
(* What a shared stack promises: a chain goes on, the top node or the      *)
(* whole stack comes off, each in one step, and a node is at all times     *)
(* either on the stack or in the hands of one thread.                      *)
(***************************************************************************)
EXTENDS Sequences, SequencesExt

CONSTANTS Threads, Nodes

VARIABLES stack,   (* the nodes on the stack, the top first                 *)
          own      (* the nodes each thread has                             *)

vars == <<stack, own>>

Init ==
  /\ stack = <<>>
  /\ \E holder \in [Nodes -> Threads] :
       own = [t \in Threads |-> {n \in Nodes : holder[n] = t}]

PushChain(t) ==
  \E S \in SUBSET own[t] : \E c \in SetToSeqs(S) :
    /\ stack' = c \o stack
    /\ own' = [own EXCEPT ![t] = @ \ S]

Pop(t) ==
  /\ stack # <<>>
  /\ own' = [own EXCEPT ![t] = @ \cup {Head(stack)}]
  /\ stack' = Tail(stack)

TakeAll(t) ==
  /\ own' = [own EXCEPT ![t] = @ \cup ToSet(stack)]
  /\ stack' = <<>>

Next == \E t \in Threads : PushChain(t) \/ Pop(t) \/ TakeAll(t)

Spec == Init /\ [][Next]_vars

=============================================================================
