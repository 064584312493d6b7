-------------------------- MODULE SpscQueueProofs --------------------------
(***************************************************************************)
(* The ring of SpscQueue is correct for every size N and every set of      *)
(* items: its threads never race for a slot, objects are built in and      *)
(* moved out of the right slots, and it implements the bounded FIFO.       *)
(***************************************************************************)
EXTENDS SpscQueue, SequenceTheorems, TLAPS

(* Inc steps to the next slot and wraps after the last one. *)
LEMMA IncValue ==
  ASSUME NEW i \in Slots
  PROVE  /\ Inc(i) = IF i + 1 = N THEN 0 ELSE i + 1
         /\ Inc(i) \in Slots
  BY NAssumption DEF Inc, Slots

(* Ring distances: from a slot to the next one is one step further,        *)
(* from the next one on is one step less.                                  *)
LEMMA DistRange ==
  ASSUME NEW a \in Slots, NEW b \in Slots
  PROVE  /\ Dist(a, b) \in 0..(N - 1)
         /\ Dist(a, b) = 0 <=> a = b
         /\ Dist(a, b) = N - 1 <=> Inc(b) = a
  BY NAssumption, IncValue DEF Dist, Slots

LEMMA DistStep ==
  ASSUME NEW a \in Slots, NEW b \in Slots
  PROVE  /\ Inc(b) # a => Dist(a, Inc(b)) = Dist(a, b) + 1
         /\ a # b => Dist(Inc(a), b) = Dist(a, b) - 1
  BY NAssumption, IncValue DEF Dist, Slots

LEMMA DistInjective ==
  ASSUME NEW a \in Slots, NEW b \in Slots, NEW c \in Slots,
         Dist(a, b) = Dist(a, c)
  PROVE  b = c
  BY NAssumption DEF Dist, Slots

(* An index that a thread may still see lies no further from the other     *)
(* thread's index than the oldest value it may see.                        *)
LEMMA DistBetween ==
  ASSUME NEW a \in Slots, NEW b \in Slots, NEW c \in Slots,
         NEW t \in Between(a, b),
         Dist(b, c) <= Dist(a, c)
  PROVE  Dist(b, c) <= Dist(t, c)
  BY NAssumption DEF Between, Dist, Slots

(* commit() adds the slot at head_ to the queue, pop() removes the one at  *)
(* tail_.                                                                  *)
LEMMA QueuedGrows ==
  ASSUME TypeOK, Inc(head) # tail, tail' = tail, head' = Inc(head)
  PROVE  Queued' = Queued \cup {head}
<1>1. head \in Slots /\ tail \in Slots
  BY DEF TypeOK
<1>2. Dist(tail, Inc(head)) = Dist(tail, head) + 1
  BY <1>1, DistStep
<1>3. ASSUME NEW i \in Slots
      PROVE  Dist(tail, i) < Dist(tail, head) + 1
               <=> Dist(tail, i) < Dist(tail, head) \/ i = head
  <2>1. Dist(tail, i) \in Int /\ Dist(tail, head) \in Int
    BY <1>1, DistRange, NAssumption
  <2>2. Dist(tail, i) = Dist(tail, head) <=> i = head
    BY <1>1, DistInjective
  <2> QED
    BY <2>1, <2>2
<1> QED
  BY <1>1, <1>2, <1>3 DEF Queued

LEMMA QueuedShrinks ==
  ASSUME TypeOK, tail # head, head' = head, tail' = Inc(tail)
  PROVE  Queued' = Queued \ {tail}
<1>1. head \in Slots /\ tail \in Slots
  BY DEF TypeOK
<1>2. Dist(Inc(tail), head) = Dist(tail, head) - 1
  BY <1>1, DistStep
<1>3. ASSUME NEW i \in Slots
      PROVE  Dist(Inc(tail), i) < Dist(tail, head) - 1
               <=> Dist(tail, i) < Dist(tail, head) /\ i # tail
  <2>1. Dist(tail, i) \in 0..(N - 1) /\ Dist(tail, head) \in 0..(N - 1)
    BY <1>1, DistRange
  <2>2. CASE i = tail
    <3>1. Dist(Inc(tail), tail) = N - 1
      BY <1>1, IncValue, DistRange
    <3> QED
      BY <2>1, <2>2, <3>1, NAssumption
  <2>3. CASE i # tail
    <3>1. Dist(Inc(tail), i) = Dist(tail, i) - 1
      BY <1>1, <2>3, DistStep
    <3> QED
      BY <2>1, <2>3, <3>1, NAssumption
  <2> QED
    BY <2>2, <2>3
<1> QED
  BY <1>1, <1>2, <1>3 DEF Queued

(* A reserved slot is free: the next index is not tail_. *)
LEMMA ReservedIsFree ==
  ASSUME TypeOK, RingInv
  PROVE  /\ ppc \in {"construct", "commit"} => Inc(head) # tail /\ head \notin Queued
         /\ cpc \in {"move", "release"} => tail # head /\ tail \in Queued
  BY NAssumption, DistRange, IncValue DEF TypeOK, RingInv, CachesLag, Reserved, Queued

(* Every variable of the ring keeps its type: the indices stay below N.    *)
THEOREM TypeCorrect == Spec => []TypeOK
<1> USE NAssumption, ValuesAssumption DEF TypeOK
<1>1. Init => TypeOK
  BY DEF Init, Slots
<1>2. TypeOK /\ [Next]_vars => TypeOK'
  <2> SUFFICES ASSUME TypeOK, [Next]_vars PROVE TypeOK'
    OBVIOUS
  <2>1. ASSUME NEW v \in Values, Reserve(v) PROVE TypeOK'
    BY <2>1, IncValue DEF Reserve, pvars, cvars
  <2>2. ASSUME NEW t \in Slots, LoadTail(t) PROVE TypeOK'
    BY <2>2, IncValue DEF LoadTail, pvars, cvars
  <2>3. ASSUME Construct PROVE TypeOK'
    BY <2>3, IncValue DEF Construct, pvars, cvars
  <2>4. ASSUME Commit PROVE TypeOK'
    BY <2>4, IncValue DEF Commit, pvars, cvars
  <2>5. ASSUME StartPop PROVE TypeOK'
    BY <2>5, IncValue DEF StartPop, pvars, cvars
  <2>6. ASSUME NEW h \in Slots, LoadHead(h) PROVE TypeOK'
    BY <2>6, IncValue DEF LoadHead, pvars, cvars
  <2>7. ASSUME Move PROVE TypeOK'
    BY <2>7, IncValue DEF Move, pvars, cvars
  <2>8. ASSUME Release PROVE TypeOK'
    BY <2>8, IncValue DEF Release, pvars, cvars
  <2>9. ASSUME Destroy PROVE TypeOK'
    BY <2>9, IncValue, Zenon DEF Destroy, pvars, cvars
  <2>10. CASE UNCHANGED vars
    BY <2>10 DEF vars
  <2> QED
    BY <2>1, <2>2, <2>3, <2>4, <2>5, <2>6, <2>7, <2>8, <2>9, <2>10
       DEF Next, Producer, Consumer
<1> QED
  BY <1>1, <1>2, PTL DEF Spec

(* The cached indices, the reservations and the slots stay consistent with *)
(* each other in every interleaving of push() and pop().                   *)
THEOREM RingInvariant == Spec => []RingInv
<1> USE NAssumption, ValuesAssumption DEF TypeOK
<1>1. Init => RingInv
  BY DEF Init, RingInv, CachesLag, Reserved, InHand, LiveSlots, HoldsObject,
         Queued, Dist, Slots
<1>2. TypeOK /\ RingInv /\ [Next]_vars => RingInv'
  <2> SUFFICES ASSUME TypeOK, RingInv, [Next]_vars PROVE RingInv'
    OBVIOUS
  <2>1. ASSUME NEW v \in Values, Reserve(v) PROVE RingInv'
    <3>1. CachesLag'
      BY <2>1 DEF Reserve, cvars, RingInv, CachesLag
    <3>2. Reserved'
      BY <2>1 DEF Reserve, cvars, RingInv, Reserved
    <3>3. InHand'
      BY <2>1 DEF Reserve, cvars, RingInv, InHand, Reserved
    <3>4. LiveSlots'
      BY <2>1 DEF Reserve, cvars, RingInv, InHand, LiveSlots, HoldsObject, Queued
    <3> QED BY <3>1, <3>2, <3>3, <3>4 DEF RingInv
  <2>2. ASSUME NEW t \in Slots, LoadTail(t) PROVE RingInv'
    <3>1. CachesLag'
      BY <2>2, DistBetween DEF LoadTail, cvars, RingInv, CachesLag, Between
    <3>2. Reserved'
      BY <2>2 DEF LoadTail, cvars, RingInv, Reserved
    <3>3. InHand'
      BY <2>2 DEF LoadTail, cvars, RingInv, InHand, Reserved
    <3>4. LiveSlots'
      BY <2>2 DEF LoadTail, cvars, RingInv, InHand, LiveSlots, HoldsObject, Queued
    <3> QED BY <3>1, <3>2, <3>3, <3>4 DEF RingInv
  <2>3. ASSUME Construct PROVE RingInv'
    <3>1. CachesLag'
      BY <2>3 DEF Construct, cvars, RingInv, CachesLag
    <3>2. Reserved'
      BY <2>3 DEF Construct, cvars, RingInv, Reserved
    <3>3. InHand'
      BY <2>3 DEF Construct, cvars, RingInv, InHand, Reserved
    <3>4. LiveSlots'
      BY <2>3 DEF Construct, cvars, RingInv, InHand, LiveSlots, HoldsObject, Queued
    <3> QED BY <3>1, <3>2, <3>3, <3>4 DEF RingInv
  <2>4. ASSUME Commit PROVE RingInv'
    <3>1. CachesLag'
      <4>1. Inc(head) # tail /\ Inc(head) # cachedTail
        BY <2>4, ReservedIsFree DEF Commit, RingInv, Reserved
      <4>2. /\ Dist(tail, Inc(head)) = Dist(tail, head) + 1
            /\ Dist(cachedTail, Inc(head)) = Dist(cachedTail, head) + 1
        BY <4>1, DistStep
      <4>3. /\ Dist(tail, head) \in Int
            /\ Dist(cachedTail, head) \in Int
            /\ Dist(tail, cachedHead) \in Int
        BY DistRange
      <4> QED
        BY <2>4, <4>2, <4>3 DEF Commit, cvars, RingInv, CachesLag
    <3>2. Reserved'
      BY <2>4 DEF Commit, cvars, RingInv, Reserved
    <3>3. InHand'
      BY <2>4 DEF Commit, cvars, RingInv, InHand, Reserved
    <3>4. LiveSlots'
      <4>1. Queued' = Queued \cup {head} /\ head \notin Queued
        BY <2>4, ReservedIsFree, QueuedGrows DEF Commit, cvars
      <4>2. alive = TRUE /\ (cpc = "release" => tail # head)
        BY <2>4, ReservedIsFree DEF Commit, RingInv, InHand
      <4> QED
        BY <2>4, <4>1, <4>2 DEF Commit, cvars, RingInv, InHand, LiveSlots, HoldsObject
    <3> QED BY <3>1, <3>2, <3>3, <3>4 DEF RingInv
  <2>5. ASSUME StartPop PROVE RingInv'
    <3>1. CachesLag'
      BY <2>5 DEF StartPop, pvars, RingInv, CachesLag
    <3>2. Reserved'
      BY <2>5 DEF StartPop, pvars, RingInv, Reserved
    <3>3. InHand'
      BY <2>5 DEF StartPop, pvars, RingInv, InHand, Reserved
    <3>4. LiveSlots'
      BY <2>5 DEF StartPop, pvars, RingInv, InHand, LiveSlots, HoldsObject, Queued
    <3> QED BY <3>1, <3>2, <3>3, <3>4 DEF RingInv
  <2>6. ASSUME NEW h \in Slots, LoadHead(h) PROVE RingInv'
    <3>1. CachesLag'
      BY <2>6 DEF LoadHead, pvars, RingInv, CachesLag, Reserved, Between
    <3>2. Reserved'
      BY <2>6 DEF LoadHead, pvars, RingInv, Reserved
    <3>3. InHand'
      BY <2>6 DEF LoadHead, pvars, RingInv, InHand, Reserved
    <3>4. LiveSlots'
      BY <2>6 DEF LoadHead, pvars, RingInv, InHand, LiveSlots, HoldsObject, Queued
    <3> QED BY <3>1, <3>2, <3>3, <3>4 DEF RingInv
  <2>7. ASSUME Move PROVE RingInv'
    <3>1. CachesLag'
      BY <2>7 DEF Move, pvars, RingInv, CachesLag
    <3>2. Reserved'
      BY <2>7 DEF Move, pvars, RingInv, Reserved
    <3>3. InHand'
      <4>1. buffer[tail] # NoValue /\ ~(ppc = "commit" /\ head = tail)
        BY <2>7, ReservedIsFree
           DEF Move, RingInv, InHand, LiveSlots, HoldsObject, Queued
      <4> QED
        BY <2>7, <4>1 DEF Move, pvars, RingInv, InHand
    <3>4. LiveSlots'
      <4>1. Queued' = Queued /\ tail \in Queued /\ ~(ppc = "commit" /\ head = tail)
        BY <2>7, ReservedIsFree DEF Move, pvars, Queued
      <4>2. \A i \in Slots : buffer'[i] = IF i = tail THEN NoValue ELSE buffer[i]
        BY <2>7 DEF Move
      <4> QED
        BY <2>7, <4>1, <4>2 DEF Move, pvars, RingInv, LiveSlots, HoldsObject
    <3> QED BY <3>1, <3>2, <3>3, <3>4 DEF RingInv
  <2>8. ASSUME Release PROVE RingInv'
    <3>1. CachesLag'
      <4>1. tail # head /\ tail # cachedHead
        BY <2>8, ReservedIsFree DEF Release, RingInv, Reserved
      <4>2. /\ Dist(Inc(tail), head) = Dist(tail, head) - 1
            /\ Dist(Inc(tail), cachedHead) = Dist(tail, cachedHead) - 1
        BY <4>1, DistStep
      <4>3. /\ Dist(tail, head) \in Int
            /\ Dist(cachedTail, head) \in Int
            /\ Dist(tail, cachedHead) \in Int
        BY DistRange
      <4> QED
        BY <2>8, <4>2, <4>3 DEF Release, pvars, RingInv, CachesLag
    <3>2. Reserved'
      BY <2>8 DEF Release, pvars, RingInv, Reserved
    <3>3. InHand'
      BY <2>8 DEF Release, pvars, RingInv, InHand, Reserved
    <3>4. LiveSlots'
      <4>1. Queued' = Queued \ {tail} /\ ~(ppc = "commit" /\ head = tail)
        BY <2>8, ReservedIsFree, QueuedShrinks DEF Release, pvars
      <4> QED
        BY <2>8, <4>1 DEF Release, pvars, RingInv, InHand, LiveSlots, HoldsObject
    <3> QED BY <3>1, <3>2, <3>3, <3>4 DEF RingInv
  <2>9. ASSUME Destroy PROVE RingInv'
    <3>1. CachesLag'
      BY <2>9 DEF Destroy, pvars, cvars, RingInv, CachesLag
    <3>2. Reserved'
      BY <2>9 DEF Destroy, pvars, cvars, RingInv, Reserved
    <3>3. InHand'
      BY <2>9 DEF Destroy, pvars, cvars, RingInv, InHand, Reserved
    <3>4. LiveSlots'
      BY <2>9 DEF Destroy, pvars, cvars, RingInv, InHand, LiveSlots, HoldsObject, Queued
    <3> QED BY <3>1, <3>2, <3>3, <3>4 DEF RingInv
  <2>10. CASE UNCHANGED vars
    BY <2>10 DEF vars, RingInv, CachesLag, Reserved, InHand, LiveSlots,
                 HoldsObject, Queued
  <2> QED
    BY <2>1, <2>2, <2>3, <2>4, <2>5, <2>6, <2>7, <2>8, <2>9, <2>10
       DEF Next, Producer, Consumer
<1> QED
  BY <1>1, <1>2, TypeCorrect, PTL DEF Spec

(* No data race on a slot of buffer_: push() and pop() never work on the   *)
(* same slot, for any ring size and any visibility of the indices.         *)
THEOREM SlotRaceFree == Spec => []NoSlotRace
<1>1. TypeOK /\ RingInv => NoSlotRace
  BY ReservedIsFree DEF NoSlotRace
<1> QED
  BY <1>1, TypeCorrect, RingInvariant, PTL

(* Objects are constructed only in empty slots, moved only from full ones, *)
(* and none outlives the queue.                                            *)
THEOREM LifetimesRespected == Spec => []ObjectLifetimes
<1>1. TypeOK /\ RingInv => ObjectLifetimes
  <2> SUFFICES ASSUME TypeOK, RingInv PROVE ObjectLifetimes
    OBVIOUS
  <2>1. ppc = "construct" => buffer[head] = NoValue
    BY ReservedIsFree DEF TypeOK, RingInv, LiveSlots, HoldsObject
  <2>2. cpc = "move" => buffer[tail] # NoValue
    BY ReservedIsFree DEF TypeOK, RingInv, InHand, LiveSlots, HoldsObject
  <2>3. ~alive => \A i \in Slots : buffer[i] = NoValue
    BY DEF RingInv, InHand, LiveSlots, HoldsObject
  <2> QED
    BY <2>1, <2>2, <2>3 DEF ObjectLifetimes
<1> QED
  BY <1>1, TypeCorrect, RingInvariant, PTL

-----------------------------------------------------------------------------
(* The slot k places after i, as an offset that wraps at most once. *)
LEMMA Wrap ==
  ASSUME NEW i \in Slots, NEW k \in 0..(N - 1)
  PROVE  /\ (i + k) % N = IF i + k < N THEN i + k ELSE i + k - N
         /\ (i + k) % N \in Slots
  BY NAssumption DEF Slots

(* The k-th queued slot is in the queue, and only the first is tail_. *)
LEMMA QueuedSlot ==
  ASSUME TypeOK, NEW k \in 1..Dist(tail, head)
  PROVE  /\ (tail + k - 1) % N \in Queued
         /\ (tail + k - 1) % N = tail <=> k = 1
         /\ Dist(tail, (tail + k - 1) % N) = k - 1
<1>1. tail \in Slots /\ head \in Slots
  BY DEF TypeOK
<1>2. k - 1 \in 0..(N - 1) /\ k - 1 < Dist(tail, head)
  BY <1>1, DistRange, NAssumption
<1>3. /\ (tail + (k - 1)) % N \in Slots
      /\ (tail + (k - 1)) % N =
           IF tail + (k - 1) < N THEN tail + (k - 1) ELSE tail + (k - 1) - N
  BY <1>1, <1>2, Wrap
<1>4. tail + (k - 1) = tail + k - 1
  BY <1>1, <1>2, NAssumption DEF Slots
<1> DEFINE s == (tail + k - 1) % N
<1>5. s \in Slots /\ s = IF tail + (k - 1) < N THEN tail + (k - 1) ELSE tail + (k - 1) - N
  BY <1>3, <1>4
<1> HIDE DEF s
<1>6. Dist(tail, s) = k - 1
  BY <1>1, <1>2, <1>5, NAssumption DEF Dist, Slots
<1>7. s = tail <=> k = 1
  BY <1>1, <1>5, <1>6, <1>2, DistRange
<1> QED
  BY <1>2, <1>5, <1>6, <1>7 DEF Queued, s

(* The slot at head_ is the one after the queue's last. *)
LEMMA HeadSlot ==
  ASSUME TypeOK
  PROVE  (tail + Dist(tail, head)) % N = head
<1>1. tail \in Slots /\ head \in Slots /\ Dist(tail, head) \in 0..(N - 1)
  BY DistRange DEF TypeOK
<1> DEFINE d == Dist(tail, head)
<1>2. (tail + d) % N = IF tail + d < N THEN tail + d ELSE tail + d - N
  BY <1>1, Wrap
<1>3. d = IF tail <= head THEN head - tail ELSE head - tail + N
  BY DEF Dist
<1> HIDE DEF d
<1>4. (IF tail + d < N THEN tail + d ELSE tail + d - N) = head
  BY <1>1, <1>3, NAssumption DEF Slots
<1> QED
  BY <1>2, <1>4 DEF d

LEMMA ContentsSeq ==
  ASSUME TypeOK
  PROVE  /\ Contents \in Seq(Values \cup {NoValue})
         /\ alive => Len(Contents) = Dist(tail, head)
         /\ alive => \A k \in 1..Dist(tail, head) : Contents[k] = At(k)
<1>1. Dist(tail, head) \in Nat
  BY DistRange, NAssumption DEF TypeOK
<1>2. ASSUME NEW k \in 1..Dist(tail, head)
      PROVE  At(k) \in Values \cup {NoValue}
  BY <1>2, QueuedSlot DEF At, TypeOK, Queued
<1>3. CASE alive
  BY <1>1, <1>2, <1>3 DEF Contents
<1>4. CASE ~alive
  BY <1>4 DEF Contents
<1> QED
  BY <1>3, <1>4

(* Append and Tail as functions. *)
LEMMA AppendIsFunction ==
  ASSUME NEW S, NEW q \in Seq(S), NEW e \in S
  PROVE  Append(q, e) =
           [k \in 1..(Len(q) + 1) |-> IF k = Len(q) + 1 THEN e ELSE q[k]]
<1> DEFINE f == [k \in 1..(Len(q) + 1) |-> IF k = Len(q) + 1 THEN e ELSE q[k]]
<1>1. Len(q) \in Nat /\ \A k \in 1..Len(q) : q[k] \in S
  BY LenProperties, ElementOfSeq
<1>2. f \in Seq(S) /\ Len(f) = Len(q) + 1
  BY <1>1
<1>3. Append(q, e) \in Seq(S) /\ Len(Append(q, e)) = Len(q) + 1
  BY AppendProperties
<1>4. \A k \in 1..(Len(q) + 1) : Append(q, e)[k] = f[k]
  BY <1>1, AppendProperties
<1> QED
  BY <1>2, <1>3, <1>4, SeqEqual, Zenon

LEMMA TailIsFunction ==
  ASSUME NEW S, NEW q \in Seq(S), q # <<>>
  PROVE  Tail(q) = [k \in 1..(Len(q) - 1) |-> q[k + 1]]
<1> DEFINE f == [k \in 1..(Len(q) - 1) |-> q[k + 1]]
<1>1. Len(q) \in Nat \ {0} /\ \A k \in 1..Len(q) : q[k] \in S
  BY LenProperties, ElementOfSeq, EmptySeq
<1>2. f \in Seq(S) /\ Len(f) = Len(q) - 1
  BY <1>1
<1>3. /\ Tail(q) \in Seq(S) /\ Len(Tail(q)) = Len(q) - 1
      /\ \A k \in 1..(Len(q) - 1) : Tail(q)[k] = q[k + 1]
  BY <1>1, HeadTailProperties
<1> QED
  BY <1>2, <1>3, SeqEqual, Zenon

(* commit() appends the item to the queue. *)
LEMMA CommitAppends ==
  ASSUME TypeOK, TypeOK', RingInv, Commit
  PROVE  Contents' = Append(Contents, item) /\ Len(Contents) < N - 1
<1>0. PICK n \in Nat : n = Dist(tail, head)
  BY DistRange, NAssumption DEF TypeOK
<1>1. alive /\ alive' /\ tail' = tail /\ head' = Inc(head) /\ buffer' = buffer
      /\ cpc' = cpc /\ taken' = taken /\ buffer[head] = item
  BY DEF Commit, cvars, RingInv, InHand
<1>2. Inc(head) # tail /\ (cpc = "release" => tail # head)
  BY ReservedIsFree DEF Commit
<1>3. Dist(tail, head)' = n + 1 /\ n < N - 1
  BY <1>0, <1>1, <1>2, DistStep, DistRange, NAssumption DEF TypeOK
<1>4. Contents' = [k \in 1..(n + 1) |-> At(k)']
  BY <1>1, <1>3 DEF Contents
<1>5. \A k \in 1..n : At(k)' = At(k)
  BY <1>1 DEF At
<1>6. At(n + 1)' = item
  <2>1. n = 0 => cpc # "release"
    BY <1>0, <1>2, DistRange, Zenon DEF TypeOK
  <2>2. (tail + (n + 1) - 1) % N = head
    <3>1. tail + (n + 1) - 1 = tail + n
      BY NAssumption DEF TypeOK, Slots
    <3> QED
      BY <1>0, <3>1, HeadSlot
  <2> QED
    BY <1>1, <1>3, <2>1, <2>2 DEF At
<1>7. Len(Contents) = n /\ \A k \in 1..n : Contents[k] = At(k)
  BY <1>0, <1>1, ContentsSeq
<1>8. Append(Contents, item) = [k \in 1..(n + 1) |-> IF k = n + 1 THEN item ELSE Contents[k]]
  BY <1>7, ContentsSeq, AppendIsFunction DEF TypeOK
<1>9. ASSUME NEW k \in 1..(n + 1)
      PROVE  At(k)' = IF k = n + 1 THEN item ELSE Contents[k]
  BY <1>3, <1>5, <1>6, <1>7
<1> QED
  BY <1>3, <1>4, <1>7, <1>8, <1>9

(* The store of tail_ in pop() takes the first item of the queue. *)
LEMMA ReleaseTakes ==
  ASSUME TypeOK, TypeOK', RingInv, Release
  PROVE  /\ Contents # <<>>
         /\ result' = Head(Contents)
         /\ Contents' = Tail(Contents)
<1>0. PICK n \in Nat : n = Dist(tail, head)
  BY DistRange, NAssumption DEF TypeOK
<1>1. alive /\ alive' /\ head' = head /\ tail' = Inc(tail) /\ buffer' = buffer
      /\ cpc = "release" /\ cpc' = "idle" /\ result' = taken
  BY DEF Release, pvars, RingInv, InHand
<1>2. Dist(tail, head)' = n - 1 /\ n >= 1 /\ n <= N - 1
  <2>1. tail # head
    BY <1>1, ReservedIsFree
  <2> QED
    BY <1>0, <1>1, <2>1, DistStep, DistRange, NAssumption DEF TypeOK
<1>3. /\ Contents \in Seq(Values \cup {NoValue})
      /\ Len(Contents) = n
      /\ \A k \in 1..n : Contents[k] = At(k)
  BY <1>0, <1>1, ContentsSeq
<1>4. Contents # <<>> /\ Head(Contents) = taken
  <2>1. Contents # <<>>
    BY <1>2, <1>3
  <2>2. Head(Contents) = At(1)
    BY <1>2, <1>3
  <2> QED
    BY <1>1, <2>1, <2>2 DEF At
<1>5. Tail(Contents) = [k \in 1..(n - 1) |-> Contents[k + 1]]
  BY <1>3, <1>4, TailIsFunction
<1>6. Contents' = [k \in 1..(n - 1) |-> At(k)']
  BY <1>1, <1>2 DEF Contents
<1>7. ASSUME NEW k \in 1..(n - 1)
      PROVE  At(k)' = Contents[k + 1]
  <2>1. At(k)' = buffer[(Inc(tail) + k - 1) % N]
    BY <1>1 DEF At
  <2>2. At(k + 1) = buffer[(tail + (k + 1) - 1) % N]
    BY <1>1, <1>2 DEF At
  <2>3. (Inc(tail) + k - 1) % N = (tail + (k + 1) - 1) % N
    <3>1. tail \in Slots /\ Inc(tail) \in Slots
      BY IncValue DEF TypeOK
    <3>2. k \in 0..(N - 1) /\ k - 1 \in 0..(N - 1)
      BY <1>2, NAssumption
    <3>3. (tail + k) % N = IF tail + k < N THEN tail + k ELSE tail + k - N
      BY <3>1, <3>2, Wrap
    <3>4. (Inc(tail) + (k - 1)) % N =
            IF Inc(tail) + (k - 1) < N THEN Inc(tail) + (k - 1)
                                       ELSE Inc(tail) + (k - 1) - N
      BY <3>1, <3>2, Wrap
    <3>5. Inc(tail) = IF tail + 1 = N THEN 0 ELSE tail + 1
      BY <3>1, IncValue
    <3>6. (Inc(tail) + (k - 1)) % N = (tail + k) % N
      BY <3>1, <3>2, <3>3, <3>4, <3>5, NAssumption DEF Slots
    <3>7. Inc(tail) + (k - 1) = Inc(tail) + k - 1 /\ tail + k = tail + (k + 1) - 1
      BY <3>1, <3>2, NAssumption DEF Slots
    <3> QED
      BY <3>6, <3>7
  <2> QED
    BY <1>2, <1>3, <2>1, <2>2, <2>3
<1> QED
  BY <1>1, <1>4, <1>5, <1>6, <1>7

(* Building an object in the reserved slot, and moving one out of the slot *)
(* at tail_, leave the queue as it is.                                     *)
LEMMA ConstructKeepsContents ==
  ASSUME TypeOK, RingInv, Construct
  PROVE  Contents' = Contents
<1>1. head \notin Queued
  BY ReservedIsFree DEF Construct
<1>2. ASSUME NEW k \in 1..Dist(tail, head)
      PROVE  At(k)' = At(k)
  BY <1>1, <1>2, QueuedSlot DEF At, Construct, cvars, TypeOK
<1> QED
  BY <1>2, Zenon DEF Construct, cvars, Contents

LEMMA MoveKeepsContents ==
  ASSUME TypeOK, Move
  PROVE  Contents' = Contents
<1>1. ASSUME NEW k \in 1..Dist(tail, head)
      PROVE  At(k)' = At(k)
  BY <1>1, QueuedSlot DEF At, Move, pvars, TypeOK
<1> QED
  BY <1>1, Zenon DEF Move, pvars, Contents

(* SPSCQueue implements the bounded FIFO of capacity N - 1: items come out *)
(* in order, each once, and a push that fails or is unfinished is not seen *)
(* by pop().                                                               *)
THEOREM Refinement == Spec => ImplementsFifo
<1> USE NAssumption, ValuesAssumption
<1>1. Init => Fifo!Init
  BY DEF Init, Fifo!Init, Contents, Dist
<1>2. TypeOK /\ TypeOK' /\ RingInv /\ [Next]_vars => [Fifo!Next]_(Fifo!vars)
  <2> SUFFICES ASSUME TypeOK, TypeOK', RingInv, [Next]_vars
               PROVE  [Fifo!Next]_(Fifo!vars)
    OBVIOUS
  <2>1. ASSUME NEW v \in Values, Reserve(v) PROVE Fifo!Offer(v)
    BY <2>1 DEF Reserve, Fifo!Offer, cvars, Contents, At, RingInv, InHand
  <2>2. ASSUME NEW t \in Slots, LoadTail(t) PROVE Fifo!Refuse \/ UNCHANGED Fifo!vars
    BY <2>2 DEF LoadTail, Fifo!Refuse, Fifo!vars, cvars, Contents, At, RingInv, InHand
  <2>3. ASSUME Construct PROVE UNCHANGED Fifo!vars
    BY <2>3, ConstructKeepsContents DEF Construct, Fifo!vars, cvars
  <2>4. ASSUME Commit PROVE Fifo!Accept
    BY <2>4, CommitAppends DEF Commit, Fifo!Accept, cvars, RingInv, InHand
  <2>5. ASSUME StartPop PROVE UNCHANGED Fifo!vars
    BY <2>5 DEF StartPop, Fifo!vars, pvars, Contents, At
  <2>6. ASSUME NEW h \in Slots, LoadHead(h) PROVE Fifo!TakeNothing \/ UNCHANGED Fifo!vars
    BY <2>6, Zenon DEF LoadHead, Fifo!TakeNothing, Fifo!vars, pvars, Contents,
       At, RingInv, InHand, TypeOK
  <2>7. ASSUME Move PROVE UNCHANGED Fifo!vars
    BY <2>7, MoveKeepsContents DEF Move, Fifo!vars, pvars
  <2>8. ASSUME Release PROVE Fifo!Take
    BY <2>8, ReleaseTakes DEF Release, Fifo!Take, pvars
  <2>9. ASSUME Destroy PROVE Fifo!Destroy
    BY <2>9 DEF Destroy, Fifo!Destroy, pvars, cvars, Contents, RingInv, InHand, TypeOK
  <2>10. CASE UNCHANGED vars
    BY <2>10 DEF vars, Fifo!vars, Contents, At
  <2> QED
    BY <2>1, <2>2, <2>3, <2>4, <2>5, <2>6, <2>7, <2>8, <2>9, <2>10
       DEF Next, Producer, Consumer, Fifo!Next
<1> QED
  BY <1>1, <1>2, TypeCorrect, RingInvariant, PTL DEF Spec, ImplementsFifo, Fifo!Spec

=============================================================================
