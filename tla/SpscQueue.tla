----------------------------- MODULE SpscQueue -----------------------------
(***************************************************************************)
(* SPSCQueue<T, N>: the lock-free ring between the feed thread and a book  *)
(* builder, and between every thread and the logger.                       *)
(*                                                                         *)
(* Each action is one access to memory the two threads share: a load or a  *)
(* store of head_ or tail_, or the construction, move or destruction of an *)
(* object in a slot.  The acquire loads of the other thread's index may    *)
(* return any value it has had since the last one seen (coherence allows   *)
(* no older one), so a load picks from the indices between the cached copy *)
(* and the present value; the release stores make the slots up to the      *)
(* value seen visible with it.                                             *)
(***************************************************************************)
EXTENDS Integers, Sequences

CONSTANTS N,        (* number of slots; the ring holds N - 1 items          *)
          Values,   (* the items pushed                                     *)
          NoValue   (* a slot that holds no object                          *)

ASSUME NAssumption == N \in Nat \ {0}
ASSUME ValuesAssumption == NoValue \notin Values

VARIABLES buffer,      (* what object each slot holds                       *)
          head,        (* head_: next slot to write                         *)
          tail,        (* tail_: next slot to read                          *)
          cachedTail,  (* the producer's copy of tail_                      *)
          cachedHead,  (* the consumer's copy of head_                      *)
          ppc, item,   (* the producer's place in push() and its argument   *)
          cpc, taken,  (* the consumer's place in pop() and the moved value *)
          result,      (* what the last finished pop() returned             *)
          alive        (* the destructor has not run                        *)

pvars == <<head, cachedTail, ppc, item>>
cvars == <<tail, cachedHead, cpc, taken, result>>
vars == <<buffer, head, tail, cachedTail, cachedHead,
          ppc, item, cpc, taken, result, alive>>

Slots == 0..(N - 1)

(* (i + 1) & (N - 1), N a power of two. *)
Inc(i) == (i + 1) % N

(* How many steps of Inc lead from a to b. *)
Dist(a, b) == IF a <= b THEN b - a ELSE b - a + N

(* The values an index moving from a to b has had. *)
Between(a, b) == {i \in Slots : Dist(a, i) <= Dist(a, b)}

(* The slots whose objects are in the queue. *)
Queued == {i \in Slots : Dist(tail, i) < Dist(tail, head)}

Init ==
  /\ buffer = [i \in Slots |-> NoValue]
  /\ head = 0 /\ tail = 0
  /\ cachedTail = 0 /\ cachedHead = 0
  /\ ppc = "idle" /\ item = NoValue
  /\ cpc = "idle" /\ taken = NoValue
  /\ result = NoValue
  /\ alive = TRUE

-----------------------------------------------------------------------------
(* The producer: try_reserve(), placement new, commit(). *)

(* Mutant of Reserve: the check for a full ring is forgotten. *)
Reserve_Unchecked(v) ==
  /\ alive /\ ppc = "idle"
  /\ item' = v
  /\ ppc' = "construct"
  /\ UNCHANGED <<buffer, head, cachedTail, cvars, alive>>

Reserve(v) ==
  /\ alive /\ ppc = "idle"
  /\ item' = v
  /\ ppc' = IF Inc(head) # cachedTail THEN "construct" ELSE "loadTail"
  /\ UNCHANGED <<buffer, head, cachedTail, cvars, alive>>

(* Mutant of LoadTail: the copy gets the index the check compares with,    *)
(* not the one that was loaded.                                            *)
LoadTail_CachesFull(t) ==
  /\ ppc = "loadTail"
  /\ t \in Between(cachedTail, tail)
  /\ cachedTail' = Inc(head)
  /\ ppc' = IF t = Inc(head) THEN "idle" ELSE "construct"
  /\ item' = IF t = Inc(head) THEN NoValue ELSE item
  /\ UNCHANGED <<buffer, head, cvars, alive>>

(* full_at(): look at tail_ again; still full means push() returns false. *)
LoadTail(t) ==
  /\ ppc = "loadTail"
  /\ t \in Between(cachedTail, tail)
  /\ \/ /\ t = Inc(head)
        /\ ppc' = "idle" /\ item' = NoValue
        /\ UNCHANGED cachedTail
     \/ /\ t # Inc(head)
        /\ ppc' = "construct" /\ cachedTail' = t
        /\ UNCHANGED item
  /\ UNCHANGED <<buffer, head, cvars, alive>>

Construct ==
  /\ ppc = "construct"
  /\ buffer' = [buffer EXCEPT ![head] = item]
  /\ ppc' = "commit"
  /\ UNCHANGED <<head, cachedTail, item, cvars, alive>>

Commit ==
  /\ ppc = "commit"
  /\ head' = Inc(head)
  /\ ppc' = "idle" /\ item' = NoValue
  /\ UNCHANGED <<buffer, cachedTail, cvars, alive>>

-----------------------------------------------------------------------------
(* The consumer: empty_at(), move out and destroy, release the slot. *)

(* Mutant of StartPop: the check for an empty ring is forgotten. *)
StartPop_Unchecked ==
  /\ alive /\ cpc = "idle"
  /\ cpc' = "move"
  /\ UNCHANGED <<buffer, pvars, tail, cachedHead, taken, result, alive>>

StartPop ==
  /\ alive /\ cpc = "idle"
  /\ cpc' = IF tail # cachedHead THEN "move" ELSE "loadHead"
  /\ UNCHANGED <<buffer, pvars, tail, cachedHead, taken, result, alive>>

(* Mutant of LoadHead: empty_at() trusts its old copy of head_. *)
LoadHead_NoRefresh(h) ==
  /\ cpc = "loadHead"
  /\ h \in Between(cachedHead, head)
  /\ cpc' = "idle" /\ result' = NoValue
  /\ UNCHANGED <<buffer, pvars, tail, cachedHead, taken, alive>>

(* empty_at(): look at head_ again; still empty means pop() returns nullopt. *)
LoadHead(h) ==
  /\ cpc = "loadHead"
  /\ h \in Between(cachedHead, head)
  /\ \/ /\ h = tail
        /\ cpc' = "idle" /\ result' = NoValue
        /\ UNCHANGED cachedHead
     \/ /\ h # tail
        /\ cpc' = "move" /\ cachedHead' = h
        /\ UNCHANGED result
  /\ UNCHANGED <<buffer, pvars, tail, taken, alive>>

(* Mutant of Move: the object moved from is not destroyed. *)
Move_NoDestroy ==
  /\ cpc = "move"
  /\ taken' = buffer[tail]
  /\ cpc' = "release"
  /\ UNCHANGED <<buffer, pvars, tail, cachedHead, result, alive>>

Move ==
  /\ cpc = "move"
  /\ taken' = buffer[tail]
  /\ buffer' = [buffer EXCEPT ![tail] = NoValue]
  /\ cpc' = "release"
  /\ UNCHANGED <<pvars, tail, cachedHead, result, alive>>

Release ==
  /\ cpc = "release"
  /\ tail' = Inc(tail)
  /\ result' = taken /\ taken' = NoValue
  /\ cpc' = "idle"
  /\ UNCHANGED <<buffer, pvars, cachedHead, alive>>

-----------------------------------------------------------------------------
(* ~SPSCQueue(), once neither thread is inside a call. *)
Destroy ==
  /\ alive /\ ppc = "idle" /\ cpc = "idle"
  /\ buffer' = [i \in Slots |-> IF i \in Queued THEN NoValue ELSE buffer[i]]
  /\ alive' = FALSE
  /\ UNCHANGED <<pvars, cvars>>

Producer ==
  \/ \E v \in Values : Reserve(v)
  \/ \E t \in Slots : LoadTail(t)
  \/ Construct
  \/ Commit

Consumer ==
  \/ StartPop
  \/ \E h \in Slots : LoadHead(h)
  \/ Move
  \/ Release

Next == Producer \/ Consumer \/ Destroy

Spec == Init /\ [][Next]_vars

(***************************************************************************)
(* The consumer's thread polls for ever (BookBuilder::run, logger_thread), *)
(* a push once begun is finished, and a store becomes visible to the other *)
(* thread in finite time: a thread that keeps loading head_ eventually     *)
(* loads its present value.                                                *)
(***************************************************************************)
Fairness ==
  /\ WF_vars(Consumer)
  /\ WF_vars(Construct \/ Commit)
  /\ SF_vars(cachedHead # head /\ LoadHead(head))

FairSpec == Spec /\ Fairness

-----------------------------------------------------------------------------
TypeOK ==
  /\ buffer \in [Slots -> Values \cup {NoValue}]
  /\ head \in Slots /\ tail \in Slots
  /\ cachedTail \in Slots /\ cachedHead \in Slots
  /\ ppc \in {"idle", "loadTail", "construct", "commit"}
  /\ cpc \in {"idle", "loadHead", "move", "release"}
  /\ item \in Values \cup {NoValue}
  /\ taken \in Values \cup {NoValue}
  /\ result \in Values \cup {NoValue}
  /\ alive \in BOOLEAN

(* push() constructs an object while pop() moves one out: the two threads  *)
(* never touch the same slot at the same time (there is no data race on    *)
(* buffer_, whatever index values the loads return).                       *)
NoSlotRace ==
  ~(ppc = "construct" /\ cpc = "move" /\ head = tail)

(* Object lifetimes: placement new in push() never runs over a live        *)
(* object, pop() never moves from a slot without one, and the destructor   *)
(* leaves no object behind.                                                *)
ObjectLifetimes ==
  /\ ppc = "construct" => buffer[head] = NoValue
  /\ cpc = "move" => buffer[tail] # NoValue
  /\ ~alive => \A i \in Slots : buffer[i] = NoValue

(***************************************************************************)
(* The ring implements the bounded FIFO: the queue is what lies between    *)
(* tail_ and head_, the slot being popped standing for the value already   *)
(* moved out of it.  An item enters with the store of head_ in commit()    *)
(* and leaves with the store of tail_ in pop().                            *)
(***************************************************************************)
At(k) ==
  IF k = 1 /\ cpc = "release"
    THEN taken
    ELSE buffer[(tail + k - 1) % N]

Contents ==
  IF alive THEN [k \in 1..Dist(tail, head) |-> At(k)] ELSE <<>>

Fifo == INSTANCE BoundedFifo
          WITH in <- item, queue <- Contents, out <- result, open <- alive,
               Capacity <- N - 1

(* pushed items are popped in order, exactly once, never more than N - 1   *)
(* are held, and a push that returns false changes nothing.                *)
ImplementsFifo == Fifo!Spec

(***************************************************************************)
(* Why the ring works, as an inductive invariant: each cached index lags   *)
(* the real one without falling out of the ring, a reservation is backed   *)
(* by the producer's copy of tail_ and a pop by the consumer's copy of     *)
(* head_, and exactly the slots from tail_ to head_, less the one just     *)
(* emptied and plus the one just built, hold objects.                      *)
(***************************************************************************)
CachesLag ==
  /\ Dist(tail, cachedHead) <= Dist(tail, head)
  /\ Dist(tail, head) <= Dist(cachedTail, head)

Reserved ==
  /\ ppc \in {"construct", "commit"} => Inc(head) # cachedTail
  /\ ppc = "loadTail" => Inc(head) = cachedTail
  /\ cpc \in {"move", "release"} => tail # cachedHead
  /\ cpc = "loadHead" => tail = cachedHead

InHand ==
  /\ item # NoValue <=> ppc # "idle"
  /\ taken # NoValue <=> cpc = "release"
  /\ ppc = "commit" => buffer[head] = item
  /\ ~alive => ppc = "idle" /\ cpc = "idle"

HoldsObject(i) ==
  \/ alive /\ i \in Queued /\ ~(cpc = "release" /\ i = tail)
  \/ ppc = "commit" /\ i = head

LiveSlots ==
  \A i \in Slots : buffer[i] # NoValue <=> HoldsObject(i)

RingInv == CachesLag /\ Reserved /\ InHand /\ LiveSlots

(* Every item committed by push() is popped, unless the queue is destroyed *)
(* first, although pop() may have cached an old head_.                     *)
EveryItemPopped ==
  \A i \in Slots : (tail = i /\ head # i) ~> (tail # i \/ ~alive)

=============================================================================
