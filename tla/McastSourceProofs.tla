-------------------------- MODULE McastSourceProofs --------------------------
(***************************************************************************)
(* McastSource for every size of the pool and of a batch and every set of  *)
(* handles.                                                                *)
(***************************************************************************)
EXTENDS McastSource, BuffersProofs, SequenceTheorems, FiniteSetTheorems

Left == (nextMsg + 1)..Len(claimed)

IsFree(d) == \E i \in 1..Len(free) : free[i] = d
IsUnserved(d) == \E i \in Left : claimed[i] = d

FreeOnce == \A i, j \in 1..Len(free) : free[i] = free[j] => i = j
UnservedOnce == \A i, j \in Left : claimed[i] = claimed[j] => i = j

McastTypes ==
  /\ HandlesTyped(Dgrams)
  /\ content \in [Dgrams -> Nat \X Nat]
  /\ sent \in Nat /\ got \in Nat
  /\ free \in Seq(Dgrams) /\ claimed \in Seq(Dgrams)
  /\ nextMsg \in Nat /\ nextMsg <= Len(claimed)
  /\ size \in [Dgrams -> Nat]

(* Where the datagrams are. *)
Placed ==
  /\ FreeOnce /\ UnservedOnce /\ HandlesDiffer
  /\ \A d \in Dgrams :
       /\ IsFree(d) => ~IsUnserved(d) /\ d \notin Held
       /\ IsUnserved(d) => d \notin Held
       /\ IsFree(d) \/ IsUnserved(d) \/ d \in Held

(* The rest of the batch holds what follows the datagrams returned, with   *)
(* the lengths that recvmmsg reported, and so do the Buffers.              *)
BatchFollows ==
  /\ Pulled <= sent
  /\ \A i \in Left :
       /\ content[claimed[i]] = <<got + i - nextMsg, got + i - nextMsg>>
       /\ lens[i] = got + i - nextMsg
  /\ \A h \in Handles :
       hold[h] # NoBuffer =>
         content[hold[h]] = <<size[hold[h]], size[hold[h]]>>

McastInv == McastTypes /\ Placed /\ BatchFollows

-----------------------------------------------------------------------------
(* release_range_ *)

(* Where the j-th datagram of the pool was before, see ReleaseShape.       *)
Turn(L, k, n, j) == IF j <= L - k THEN j ELSE 2 * L + 1 - n - k - j

(* A batch of k datagrams was taken from the end of the pool F, and all    *)
(* but the first n are put back: the pool is F without its last n, the     *)
(* others of the batch in reverse.                                         *)
IsRelease(D, F, L, k, n, B, R) ==
  /\ F \in Seq(D) /\ L \in Nat /\ L = Len(F)
  /\ k \in 0..L /\ n \in 0..k
  /\ B \in Seq(D) /\ Len(B) = k /\ \A i \in 1..k : B[i] = F[L + 1 - i]
  /\ R = SubSeq(F, 1, L - k) \o SubSeq(B, n + 1, k)

LEMMA ReleaseShape ==
  ASSUME NEW D, NEW F, NEW L, NEW k, NEW n, NEW B, NEW R,
         IsRelease(D, F, L, k, n, B, R)
  PROVE  /\ R \in Seq(D) /\ Len(R) = L - n
         /\ \A j \in 1..(L - n) : R[j] = F[Turn(L, k, n, j)]
<1> DEFINE S == SubSeq(F, 1, L - k)
           T == SubSeq(B, n + 1, k)
<1>a. L \in Nat /\ k \in 0..L /\ n \in 0..k
  BY DEF IsRelease
<1>b. F \in Seq(D) /\ \A i \in 1..L : F[i] \in D
  BY LenProperties DEF IsRelease
<1>c. B \in Seq(D) /\ \A i \in 1..k : B[i] \in D /\ B[i] = F[L + 1 - i]
  BY LenProperties DEF IsRelease
<1>d. R = S \o T
  BY Zenon DEF IsRelease
<1>1. S \in Seq(D) /\ Len(S) = L - k /\ \A j \in 1..(L - k) : S[j] = F[j]
  <2>1. \A i \in 1..(L - k) : F[i] \in D
    BY <1>a, <1>b
  <2>2. /\ L - k \in Int /\ 1 \in Int
        /\ (L - k) - 1 + 1 = L - k /\ (1 <= L - k \/ L - k = 0)
        /\ \A j \in 1..(L - k) : 1 + j - 1 = j
    BY <1>a
  <2>3. /\ S \in Seq(D)
        /\ Len(S) = IF 1 <= L - k THEN (L - k) - 1 + 1 ELSE 0
        /\ \A j \in 1..((L - k) - 1 + 1) : S[j] = F[1 + j - 1]
    BY <1>b, <2>1, <2>2, SubSeqProperties
  <2> HIDE DEF S
  <2> QED
    BY <2>2, <2>3
<1>2. /\ T \in Seq(D) /\ Len(T) = k - n
      /\ \A j \in 1..(k - n) : T[j] = F[L + 1 - n - j]
  <2>1. \A i \in (n + 1)..k : B[i] \in D
    BY <1>a, <1>c
  <2>2. /\ n + 1 \in Int /\ k \in Int
        /\ k - (n + 1) + 1 = k - n /\ (n + 1 <= k \/ k - n = 0)
    BY <1>a
  <2>3. /\ T \in Seq(D)
        /\ Len(T) = IF n + 1 <= k THEN k - (n + 1) + 1 ELSE 0
        /\ \A j \in 1..(k - (n + 1) + 1) : T[j] = B[n + 1 + j - 1]
    BY <1>c, <2>1, <2>2, SubSeqProperties, SMTT(30)
  <2>4. \A j \in 1..(k - n) : /\ n + 1 + j - 1 \in 1..k
                              /\ L + 1 - (n + 1 + j - 1) = L + 1 - n - j
    BY <1>a
  <2> HIDE DEF T
  <2>5. Len(T) = k - n /\ \A j \in 1..(k - n) : T[j] = B[n + 1 + j - 1]
    BY <2>2, <2>3
  <2>6. \A j \in 1..(k - n) : T[j] = F[L + 1 - n - j]
    <3> TAKE j \in 1..(k - n)
    <3>1. B[n + 1 + j - 1] = F[L + 1 - (n + 1 + j - 1)]
      BY <1>c, <2>4, Zenon
    <3> QED
      BY <2>4, <2>5, <3>1, Zenon
  <2> QED
    BY <2>3, <2>5, <2>6
<1> HIDE DEF S, T
<1>3. /\ R \in Seq(D) /\ Len(R) = Len(S) + Len(T)
      /\ \A j \in 1..(Len(S) + Len(T)) :
           R[j] = IF j <= Len(S) THEN S[j] ELSE T[j - Len(S)]
  <2>1. /\ S \o T \in Seq(D) /\ Len(S \o T) = Len(S) + Len(T)
        /\ \A j \in 1..(Len(S) + Len(T)) :
             (S \o T)[j] = IF j <= Len(S) THEN S[j] ELSE T[j - Len(S)]
    BY <1>1, <1>2, ConcatProperties, Zenon
  <2> QED
    BY <1>d, <2>1, Zenon
<1>4. /\ Len(S) + Len(T) = L - n
      /\ \A j \in 1..(L - n) : R[j] = IF j <= L - k THEN S[j] ELSE T[j - (L - k)]
  <2>1. (L - k) + (k - n) = L - n
    BY <1>a
  <2>2. Len(S) = L - k /\ Len(T) = k - n
    BY <1>1, <1>2
  <2> QED
    BY <1>3, <2>1, <2>2, Zenon
<1>5. ASSUME NEW j \in 1..(L - n) PROVE R[j] = F[Turn(L, k, n, j)]
  <2>1. CASE j <= L - k
    <3>1. j \in 1..(L - k) /\ Turn(L, k, n, j) = j
      BY <1>a, <2>1 DEF Turn
    <3>2. R[j] = S[j]
      BY <1>4, <2>1, Zenon
    <3> QED
      BY <1>1, <3>1, <3>2, Zenon
  <2>2. CASE ~(j <= L - k)
    <3>1. /\ j - (L - k) \in 1..(k - n)
          /\ Turn(L, k, n, j) = L + 1 - n - (j - (L - k))
      BY <1>a, <2>2 DEF Turn
    <3>2. R[j] = T[j - (L - k)]
      BY <1>4, <2>2, Zenon
    <3> QED
      BY <1>2, <3>1, <3>2, Zenon
  <2> QED
    BY <2>1, <2>2, Zenon
<1> QED
  BY <1>3, <1>4, <1>5, Zenon

(* So it holds what the first L - n places of F hold, each once.           *)
EachOnce(F, L) == \A i, j \in 1..L : F[i] = F[j] => i = j

LEMMA ReleaseHolds ==
  ASSUME NEW D, NEW F, NEW L, NEW k, NEW n, NEW B, NEW R,
         IsRelease(D, F, L, k, n, B, R), EachOnce(F, L)
  PROVE  /\ EachOnce(R, L - n)
         /\ \A d : (\E j \in 1..(L - n) : R[j] = d)
                     <=> (\E i \in 1..(L - n) : F[i] = d)
<1>1. \A j \in 1..(L - n) :
        /\ Turn(L, k, n, j) \in 1..(L - n) /\ Turn(L, k, n, j) \in 1..L
        /\ Turn(L, k, n, Turn(L, k, n, j)) = j
  BY DEF Turn, IsRelease
<1>2. \A j \in 1..(L - n) : R[j] = F[Turn(L, k, n, j)]
  BY ReleaseShape
<1>3. \A i, j \in 1..(L - n) : R[i] = R[j] => i = j
  BY <1>1, <1>2 DEF EachOnce
<1> QED
  BY <1>1, <1>2, <1>3 DEF EachOnce

BatchLen == IF Len(free) < VLen THEN Len(free) ELSE VLen

LEMMA ClaimFacts ==
  ASSUME McastTypes
  PROVE  /\ Len(free) \in Nat /\ BatchLen \in 0..Len(free)
         /\ Claim \in Seq(Dgrams) /\ Len(Claim) = BatchLen
         /\ \A i \in 1..BatchLen : Claim[i] = free[Len(free) + 1 - i]
<1>1. free \in Seq(Dgrams) /\ Len(free) \in Nat
  BY DEF McastTypes
<1>2. BatchLen \in 0..Len(free) /\ BatchLen \in Nat
  BY <1>1, McastAssumption DEF BatchLen
<1>3. Claim = [i \in 1..BatchLen |-> free[Len(free) + 1 - i]]
  BY DEF Claim, BatchLen
<1>4. \A i \in 1..BatchLen : free[Len(free) + 1 - i] \in Dgrams
  <2> TAKE i \in 1..BatchLen
  <2>1. \A l \in Nat : \A b \in 0..l : \A j \in 1..b : l + 1 - j \in 1..l
    OBVIOUS
  <2>2. Len(free) + 1 - i \in 1..Len(free)
    BY <1>1, <1>2, <2>1, Zenon
  <2> QED
    BY <1>1, <2>2, LenProperties
<1>5. Claim \in [1..BatchLen -> Dgrams]
  BY <1>3, <1>4
<1>6. Claim \in Seq(Dgrams) /\ Len(Claim) = BatchLen
  <2>1. \A b \in Nat : \A f \in [1..b -> Dgrams] : f \in Seq(Dgrams) /\ Len(f) = b
    OBVIOUS
  <2> QED
    BY <1>2, <1>5, <2>1, Zenon
<1> QED
  BY <1>1, <1>2, <1>3, <1>6

(* refill_ keeps the first n datagrams of its batch out of the pool.       *)
LEMMA ReleasedFacts ==
  ASSUME McastTypes, FreeOnce, NEW n \in 0..BatchLen, free' = Released(Claim, n)
  PROVE  /\ free' \in Seq(Dgrams) /\ FreeOnce'
         /\ \A d : IsFree(d)' <=> \E i \in 1..(Len(free) - n) : free[i] = d
<1> DEFINE L == Len(free)
           k == BatchLen
           B == Claim
<1>1. /\ L \in Nat /\ k \in 0..L /\ B \in Seq(Dgrams) /\ Len(B) = k
      /\ \A i \in 1..k : B[i] = free[L + 1 - i]
  BY ClaimFacts
<1>2. free' = SubSeq(free, 1, L - k) \o SubSeq(B, n + 1, k)
  BY <1>1 DEF Released
<1>3. free \in Seq(Dgrams) /\ L = Len(free) /\ n \in 0..k
  BY DEF McastTypes
<1>4. EachOnce(free, L)
  BY DEF FreeOnce, EachOnce
<1> HIDE DEF L, k, B
<1>5. /\ free' \in Seq(Dgrams) /\ Len(free') = L - n
  <2>1. IsRelease(Dgrams, free, L, k, n, B, free')
    BY <1>1, <1>2, <1>3 DEF IsRelease
  <2> QED
    BY <2>1, ReleaseShape
<1>6. /\ EachOnce(free', L - n)
      /\ \A d : (\E j \in 1..(L - n) : free'[j] = d)
                  <=> (\E i \in 1..(L - n) : free[i] = d)
  <2>1. IsRelease(Dgrams, free, L, k, n, B, free')
    BY <1>1, <1>2, <1>3 DEF IsRelease
  <2> QED
    BY <1>4, <2>1, ReleaseHolds
<1>7. FreeOnce'
  BY <1>5, <1>6 DEF FreeOnce, EachOnce
<1>8. \A d : IsFree(d)' <=> \E i \in 1..(L - n) : free[i] = d
  BY <1>5, <1>6, Zenon DEF IsFree
<1> QED
  BY <1>5, <1>7, <1>8 DEF L

LEMMA McastInitInv == McastInit => McastInv
<1> SUFFICES ASSUME McastInit PROVE McastInv
  OBVIOUS
<1>1. /\ free = [i \in 1..DgramPool |-> DgramPool + 1 - i]
      /\ claimed = <<>> /\ nextMsg = 0 /\ got = 0 /\ sent = 0
      /\ hold = [h \in Handles |-> NoBuffer]
  BY DEF McastInit, NewPool
<1>2. /\ free \in Seq(Dgrams) /\ Len(free) = DgramPool
      /\ \A i \in 1..DgramPool : free[i] = DgramPool + 1 - i
  <2>1. free \in [1..DgramPool -> Dgrams]
    BY <1>1, McastAssumption DEF Dgrams
  <2> QED
    BY <1>1, <2>1, McastAssumption
<1>3. Len(claimed) = 0 /\ Left = {} /\ Held = {} /\ HandlesDiffer
  BY <1>1 DEF Left, Held, HandlesDiffer
<1>4. McastTypes
  <2>1. HandlesTyped(Dgrams) /\ content \in [Dgrams -> Nat \X Nat]
        /\ size \in [Dgrams -> Nat]
    BY BuffersAssumption DEF McastInit, HandlesTyped, Dgrams
  <2> QED
    BY <1>1, <1>2, <1>3, <2>1 DEF McastTypes
<1>5. Placed
  <2>1. FreeOnce
    BY <1>2, McastAssumption DEF FreeOnce
  <2>2. \A d \in Dgrams : IsFree(d)
    <3> TAKE d \in Dgrams
    <3>1. /\ DgramPool + 1 - d \in 1..DgramPool
          /\ DgramPool + 1 - (DgramPool + 1 - d) = d
      BY McastAssumption DEF Dgrams
    <3> QED
      BY <1>2, <3>1 DEF IsFree
  <2> QED
    BY <1>3, <2>1, <2>2 DEF Placed, UnservedOnce, IsUnserved
<1>6. BatchFollows
  BY <1>1, <1>3 DEF BatchFollows, Pulled
<1> QED
  BY <1>4, <1>5, <1>6 DEF McastInv

-----------------------------------------------------------------------------
(* The steps *)

LEMMA Facts ==
  ASSUME McastInv
  PROVE  /\ McastTypes /\ Placed /\ BatchFollows /\ HandlesTyped(Dgrams)
         /\ FreeOnce /\ UnservedOnce /\ HandlesDiffer
         /\ got \in Nat /\ sent \in Nat /\ nextMsg \in Nat
         /\ claimed \in Seq(Dgrams) /\ Len(claimed) \in Nat
         /\ nextMsg <= Len(claimed)
         /\ content \in [Dgrams -> Nat \X Nat] /\ size \in [Dgrams -> Nat]
         /\ Left \subseteq Int
         /\ \A i \in Left : claimed[i] \in Dgrams
  BY SMTT(30) DEF McastInv, McastTypes, Placed, Left

LEMMA StillInv ==
  ASSUME McastInv, UNCHANGED <<hold, content, sent, got>>,
         UNCHANGED <<free, claimed, lens, size, nextMsg>>
  PROVE  McastInv'
<1>1. McastTypes'
  BY DEF McastInv, McastTypes, HandlesTyped
<1>2. Placed'
  BY DEF McastInv, Placed, FreeOnce, UnservedOnce, IsFree, IsUnserved, Left,
         HandlesDiffer, Held
<1>3. BatchFollows'
  BY Zenon DEF McastInv, BatchFollows, Left, Pulled
<1> QED
  BY <1>1, <1>2, <1>3 DEF McastInv

LEMMA ArriveStep ==
  ASSUME McastInv, McastArrive PROVE McastInv'
<1>1. /\ sent' = sent + 1
      /\ UNCHANGED <<hold, content, got, free, claimed, lens, size, nextMsg>>
  BY DEF McastArrive, batchVars
<1>2. McastTypes'
  BY <1>1 DEF McastInv, McastTypes, HandlesTyped
<1>3. Placed'
  BY <1>1 DEF McastInv, Placed, FreeOnce, UnservedOnce, IsFree, IsUnserved, Left,
         HandlesDiffer, Held
<1>4. Pulled' <= sent'
  <2>1. \A p \in Int, m \in Nat : p <= m => p <= m + 1
    OBVIOUS
  <2>2. Pulled \in Int /\ Pulled' = Pulled /\ Pulled <= sent /\ sent \in Nat
    BY <1>1, Facts, SMTT(30) DEF Pulled, BatchFollows
  <2> QED
    BY <1>1, <2>1, <2>2, Zenon
<1>5. BatchFollows'
  BY <1>1, <1>4, Facts, Zenon DEF BatchFollows, Left
<1> QED
  BY <1>2, <1>3, <1>5 DEF McastInv

LEMMA NothingStep ==
  ASSUME McastInv, McastNothing PROVE McastInv'
<1>1. /\ free' = Released(Claim, 0)
      /\ UNCHANGED <<hold, content, sent, got, claimed, lens, size, nextMsg>>
  BY DEF McastNothing, bufferVars
<1>2. 0 \in 0..BatchLen /\ Len(free) - 0 = Len(free)
  BY Facts, ClaimFacts
<1>3. free' \in Seq(Dgrams) /\ FreeOnce' /\ \A d : IsFree(d)' <=> IsFree(d)
  <2>1. /\ free' \in Seq(Dgrams) /\ FreeOnce'
        /\ \A d : IsFree(d)' <=> \E i \in 1..(Len(free) - 0) : free[i] = d
    BY <1>1, <1>2, Facts, ReleasedFacts
  <2>2. \A d : IsFree(d) <=> \E i \in 1..(Len(free) - 0) : free[i] = d
    BY <1>2, Zenon DEF IsFree
  <2> QED
    BY <2>1, <2>2, Zenon
<1>4. McastTypes'
  BY <1>1, <1>3 DEF McastInv, McastTypes, HandlesTyped
<1>5. Placed'
  BY <1>1, <1>3, Facts, SMTT(30) DEF Placed, UnservedOnce, IsUnserved, Left,
         HandlesDiffer, Held
<1>6. BatchFollows'
  BY <1>1, Facts, Zenon DEF BatchFollows, Left, Pulled
<1> QED
  BY <1>4, <1>5, <1>6 DEF McastInv

(* A handle takes the datagram d: what Buffers show has the right lengths. *)
LEMMA HandLengths ==
  ASSUME McastInv, NEW h \in Handles, CanTake(h), NEW d \in Dgrams, d \notin Held,
         Hand(h, d), NEW u \in Nat, size' = [size EXCEPT ![d] = u],
         content' \in [Dgrams -> Nat \X Nat],
         content'[d] = <<u, u>>, \A e \in Held : content'[e] = content[e]
  PROVE  /\ hold' \in [Handles -> Dgrams \cup {NoBuffer}]
         /\ size' \in [Dgrams -> Nat]
         /\ \A g \in Handles : hold'[g] # NoBuffer =>
              content'[hold'[g]] = <<size'[hold'[g]], size'[hold'[g]]>>
<1>1. /\ hold \in [Handles -> Dgrams \cup {NoBuffer}]
      /\ hold' = [hold EXCEPT ![h] = d] /\ size \in [Dgrams -> Nat]
  BY Facts, SMTT(30) DEF HandlesTyped, Hand
<1>2. hold' \in [Handles -> Dgrams \cup {NoBuffer}] /\ size' \in [Dgrams -> Nat]
  BY <1>1
<1>3. ASSUME NEW g \in Handles, hold'[g] # NoBuffer
      PROVE  content'[hold'[g]] = <<size'[hold'[g]], size'[hold'[g]]>>
  <2>1. CASE g = h
    <3>1. hold'[g] = d /\ size'[d] = u
      BY <1>1, <2>1
    <3> QED
      BY <3>1
  <2>2. CASE g # h
    <3>1. hold'[g] = hold[g] /\ hold[g] \in Held /\ hold[g] \in Dgrams
      BY <1>1, <1>3, <2>2 DEF Held
    <3>2. size'[hold[g]] = size[hold[g]]
      BY <1>1, <3>1
    <3>3. content[hold[g]] = <<size[hold[g]], size[hold[g]]>>
      BY <1>3, <3>1, Facts, SMTT(30) DEF BatchFollows
    <3> QED
      BY <3>1, <3>2, <3>3
  <2> QED
    BY <2>1, <2>2
<1> QED
  BY <1>2, <1>3

(* serve_ hands out the datagram that follows, and no Buffer is written to. *)
Takes(h) ==
  /\ CanTake(h) /\ got < sent /\ got' = got + 1 /\ sent' = sent
  /\ \E d \in Dgrams : /\ d \notin Held /\ Hand(h, d)
                       /\ content'[d] = <<got + 1, got + 1>>
  /\ \A e \in Held : content'[e] = content[e]

LEMMA ServeStep ==
  ASSUME McastInv, NEW h \in Handles, McastServe(h) PROVE McastInv' /\ Takes(h)
<1> DEFINE first == claimed[nextMsg + 1]
<1>1. /\ CanTake(h) /\ nextMsg < Len(claimed) /\ nextMsg' = nextMsg + 1
      /\ Hand(h, first) /\ size' = [size EXCEPT ![first] = lens[nextMsg + 1]]
      /\ got' = got + 1 /\ UNCHANGED <<content, sent, free, claimed, lens>>
  BY DEF McastServe, Serve
<1>2. /\ nextMsg + 1 \in Left /\ Left' = Left \ {nextMsg + 1}
      /\ got + (nextMsg + 1) - nextMsg = got + 1 /\ got + 1 \in Nat
      /\ \A i \in Left : got' + i - nextMsg' = got + i - nextMsg
  <2>1. \A n, m, g \in Nat : n < m =>
          /\ n + 1 \in (n + 1)..m /\ ((n + 1) + 1)..m = ((n + 1)..m) \ {n + 1}
          /\ g + (n + 1) - n = g + 1 /\ g + 1 \in Nat
          /\ \A i \in (n + 1)..m : (g + 1) + i - (n + 1) = g + i - n
    OBVIOUS
  <2>2. nextMsg \in Nat /\ Len(claimed) \in Nat /\ got \in Nat
    BY Facts
  <2>3. claimed' = claimed /\ nextMsg' = nextMsg + 1 /\ got' = got + 1
        /\ nextMsg < Len(claimed)
    BY <1>1
  <2> DEFINE n == nextMsg
             m == Len(claimed)
             g == got
  <2>4. /\ n + 1 \in (n + 1)..m /\ ((n + 1) + 1)..m = ((n + 1)..m) \ {n + 1}
        /\ g + (n + 1) - n = g + 1 /\ g + 1 \in Nat
        /\ \A i \in (n + 1)..m : (g + 1) + i - (n + 1) = g + i - n
    <3>1. n \in Nat /\ m \in Nat /\ g \in Nat /\ n < m
      BY <2>2, <2>3
    <3> HIDE DEF n, m, g
    <3> QED
      BY <2>1, <3>1
  <2>5. Left = (n + 1)..m /\ Left' = ((n + 1) + 1)..m
    BY <2>3, Zenon DEF Left
  <2> QED
    BY <2>3, <2>4, <2>5, Zenon
<1>3. /\ first \in Dgrams /\ content[first] = <<got + 1, got + 1>>
      /\ lens[nextMsg + 1] = got + 1
  BY <1>2, Facts, SMTT(30) DEF BatchFollows
<1>4. IsUnserved(first) /\ first \notin Held /\ ~IsFree(first)
  <2>1. IsUnserved(first)
    BY <1>2 DEF IsUnserved
  <2> QED
    BY <1>3, <2>1, Facts, SMTT(30) DEF Placed
<1>5. /\ \A d : IsUnserved(d)' <=> IsUnserved(d) /\ d # first
      /\ UnservedOnce'
  BY <1>1, <1>2, Facts, Zenon DEF IsUnserved, UnservedOnce
<1>6. HandlesDiffer' /\ Held' = Held \cup {first}
  <2>1. HandlesTyped(Dgrams) /\ HandlesDiffer
    BY Facts
  <2>2. CanTake(h) /\ Hand(h, first) /\ first \in Dgrams /\ first \notin Held
    BY <1>1, <1>3, <1>4
  <2> HIDE DEF first
  <2> QED
    BY <2>1, <2>2, HandDiffers
<1>7. /\ hold' \in [Handles -> Dgrams \cup {NoBuffer}]
      /\ size' \in [Dgrams -> Nat]
      /\ \A g \in Handles : hold'[g] # NoBuffer =>
           content'[hold'[g]] = <<size'[hold'[g]], size'[hold'[g]]>>
  <2>1. /\ size' = [size EXCEPT ![first] = got + 1] /\ got + 1 \in Nat
        /\ content' \in [Dgrams -> Nat \X Nat]
        /\ content'[first] = <<got + 1, got + 1>>
        /\ \A e \in Held : content'[e] = content[e]
    BY <1>1, <1>2, <1>3, Facts, SMTT(30)
  <2> HIDE DEF first
  <2> QED
    <3>1. CanTake(h) /\ Hand(h, first) /\ first \in Dgrams /\ first \notin Held
      BY <1>1, <1>3, <1>4
    <3> QED
      BY <2>1, <3>1, HandLengths, Zenon
<1>8. \A d : IsFree(d)' <=> IsFree(d)
  BY <1>1 DEF IsFree
<1>9. McastTypes'
  <2>1. nextMsg' \in Nat /\ nextMsg' <= Len(claimed') /\ got' \in Nat
    BY <1>1, Facts, SMTT(20)
  <2> QED
    BY <1>1, <1>7, <2>1, Facts, Zenon DEF McastTypes, HandlesTyped
<1>10. Placed'
  <2>1. FreeOnce'
    BY <1>1, Facts DEF FreeOnce
  <2> HIDE DEF first
  <2> QED
    BY <1>3, <1>4, <1>5, <1>6, <1>8, <2>1, Facts, SMTT(30) DEF Placed
<1>11. Pulled' <= sent'
  <2>1. \A g, c, m \in Int : (g + 1) + c - (m + 1) = g + c - m
    OBVIOUS
  <2>2. Pulled' = Pulled
    <3>1. got \in Int /\ Len(claimed) \in Int /\ nextMsg \in Int
      BY Facts
    <3>2. got' = got + 1 /\ nextMsg' = nextMsg + 1 /\ claimed' = claimed
      BY <1>1
    <3> QED
      BY <2>1, <3>1, <3>2, Zenon DEF Pulled
  <2> QED
    BY <1>1, <2>2, Facts, SMTT(30) DEF BatchFollows
<1>12. BatchFollows'
  <2>1. ASSUME NEW i \in Left'
        PROVE  /\ content'[claimed'[i]] = <<got' + i - nextMsg', got' + i - nextMsg'>>
               /\ lens'[i] = got' + i - nextMsg'
    BY <1>1, <1>2, Facts, Zenon DEF BatchFollows
  <2> QED
    BY <1>7, <1>11, <2>1, SMTT(30) DEF BatchFollows
<1>13. Takes(h)
  <2>1. got < sent
    <3>1. \A g, c, m, t \in Int : m < c /\ g + c - m <= t => g < t
      OBVIOUS
    <3>2. got \in Int /\ Len(claimed) \in Int /\ nextMsg \in Int /\ sent \in Int
      BY Facts
    <3>3. nextMsg < Len(claimed) /\ got + Len(claimed) - nextMsg <= sent
      BY <1>1, Facts, SMTT(30) DEF BatchFollows, Pulled
    <3> QED
      BY <3>1, <3>2, <3>3, Zenon
  <2> HIDE DEF first
  <2> QED
    BY <1>1, <1>3, <1>4, <2>1 DEF Takes
<1> QED
  BY <1>9, <1>10, <1>12, <1>13 DEF McastInv

LEMMA DestroyStep ==
  ASSUME McastInv, NEW h \in Handles, McastDestroy(h) PROVE McastInv'
<1> DEFINE d == hold[h]
<1>1. /\ d # NoBuffer /\ free' = Append(free, d)
      /\ size' = [size EXCEPT ![d] = 0] /\ Hand(h, NoBuffer)
      /\ UNCHANGED <<content, sent, got, claimed, lens, nextMsg>>
  BY DEF McastDestroy, Restore
<1>2. /\ hold \in [Handles -> Dgrams \cup {NoBuffer}] /\ d \in Dgrams /\ d \in Held
      /\ hold' = [hold EXCEPT ![h] = NoBuffer]
  BY <1>1, Facts, SMTT(30) DEF HandlesTyped, Held, Hand
<1>3. HandlesDiffer' /\ Held' = Held \ {d}
  BY <1>1, Facts, DestroyDiffers
<1>4. /\ free' \in Seq(Dgrams) /\ Len(free') = Len(free) + 1 /\ Len(free) \in Nat
      /\ free'[Len(free) + 1] = d /\ \A i \in 1..Len(free) : free'[i] = free[i]
  BY <1>1, <1>2, Facts, SMTT(30) DEF McastTypes
<1>5. ~IsFree(d) /\ ~IsUnserved(d)
  BY <1>2, Facts DEF Placed
<1> HIDE DEF d
<1>6. (\A e : IsFree(e)' <=> IsFree(e) \/ e = d) /\ FreeOnce'
  <2>1. 1..(Len(free) + 1) = (1..Len(free)) \cup {Len(free) + 1}
    BY <1>4
  <2>2. \A e : IsFree(e)' <=> IsFree(e) \/ e = d
    BY <1>4, <2>1 DEF IsFree
  <2>3. FreeOnce'
    <3> SUFFICES ASSUME NEW i \in 1..Len(free'), NEW j \in 1..Len(free'),
                        free'[i] = free'[j]
                 PROVE  i = j
      BY DEF FreeOnce
    <3>1. /\ i \in 1..Len(free) \/ i = Len(free) + 1
          /\ j \in 1..Len(free) \/ j = Len(free) + 1
      BY <1>4, <2>1
    <3>2. \A k \in 1..Len(free) : free'[k] = free[k] /\ free[k] # d
      BY <1>4, <1>5 DEF IsFree
    <3>3. \A k, l \in 1..Len(free) : free[k] = free[l] => k = l
      BY Facts DEF FreeOnce
    <3> QED
      BY <1>4, <3>1, <3>2, <3>3, Zenon
  <2> QED
    BY <2>2, <2>3
<1>7. UnservedOnce' /\ \A e : IsUnserved(e)' <=> IsUnserved(e)
  BY <1>1, Facts DEF UnservedOnce, IsUnserved, Left
<1>8. Placed'
  BY <1>2, <1>3, <1>5, <1>6, <1>7, Facts, SMTT(30) DEF Placed
<1>9. McastTypes'
  BY <1>1, <1>2, <1>4, Facts, SMTT(30) DEF McastTypes, HandlesTyped
<1>10. ASSUME NEW g \in Handles, hold'[g] # NoBuffer
       PROVE  content'[hold'[g]] = <<size'[hold'[g]], size'[hold'[g]]>>
  <2>1. hold'[g] = hold[g] /\ g # h /\ hold[g] \in Dgrams
    BY <1>2, <1>10
  <2>2. hold[g] # d
    BY <1>10, <2>1, Facts DEF HandlesDiffer, d
  <2>3. size'[hold[g]] = size[hold[g]]
    BY <1>1, <2>1, <2>2, Facts
  <2> QED
    BY <1>1, <1>10, <2>1, <2>3, Facts, SMTT(30) DEF BatchFollows
<1>11. BatchFollows'
  BY <1>1, <1>10, Facts, Zenon DEF BatchFollows, Left, Pulled
<1> QED
  BY <1>8, <1>9, <1>11 DEF McastInv

LEMMA MoveStep ==
  ASSUME McastInv, NEW g \in Handles, NEW h \in Handles, McastMove(g, h)
  PROVE  McastInv'
<1>1. /\ MoveBuffer(g, h)
      /\ UNCHANGED <<content, sent, got, free, claimed, lens, size, nextMsg>>
  BY DEF McastMove, MoveBuffer, batchVars
<1>2. HandlesDiffer' /\ Held' = Held
  BY <1>1, Facts, MoveDiffers
<1>3. Placed'
  BY <1>1, <1>2, Facts, SMTT(30) DEF Placed, FreeOnce, UnservedOnce, IsFree,
     IsUnserved, Left
<1>4. /\ hold \in [Handles -> Dgrams \cup {NoBuffer}]
      /\ hold' = [hold EXCEPT ![h] = hold[g], ![g] = hold[h]]
  BY <1>1, Facts DEF HandlesTyped, MoveBuffer
<1>5. McastTypes'
  BY <1>1, <1>4, Facts, Zenon DEF McastTypes, HandlesTyped
<1>6. ASSUME NEW e \in Handles, hold'[e] # NoBuffer
      PROVE  content'[hold'[e]] = <<size'[hold'[e]], size'[hold'[e]]>>
  <2>1. \E f \in Handles : hold'[e] = hold[f]
    BY <1>4
  <2> QED
    BY <1>1, <1>6, <2>1, Facts, Zenon DEF BatchFollows
<1>7. BatchFollows'
  BY <1>1, <1>6, Facts, Zenon DEF BatchFollows, Left, Pulled
<1> QED
  BY <1>3, <1>5, <1>7 DEF McastInv

(* The batch of n datagrams that recvmmsg fills, and what is left free.    *)
LEMMA BatchFacts ==
  ASSUME McastInv, NEW n \in 1..BatchLen, NEW B, B = Claim
  PROVE  /\ \A i \in 1..n : B[i] \in Dgrams /\ IsFree(B[i])
         /\ \A i, j \in 1..n : B[i] = B[j] => i = j
         /\ \A d : IsFree(d) <=> \/ \E i \in 1..(Len(free) - n) : free[i] = d
                                 \/ \E i \in 1..n : B[i] = d
         /\ \A i \in 1..n : ~\E j \in 1..(Len(free) - n) : free[j] = B[i]
         /\ SubSeq(B, 1, n) \in Seq(Dgrams) /\ Len(SubSeq(B, 1, n)) = n
         /\ \A i \in 1..n : SubSeq(B, 1, n)[i] = B[i]
<1> DEFINE L == Len(free)
           k == BatchLen
<1>1. /\ L \in Nat /\ k \in 0..L /\ B \in Seq(Dgrams) /\ Len(B) = k
      /\ \A i \in 1..k : B[i] = free[L + 1 - i]
  BY Facts, ClaimFacts, Zenon
<1>2. free \in Seq(Dgrams) /\ \A i \in 1..L : free[i] \in Dgrams
  BY Facts DEF McastTypes
<1>3. \A i, j \in 1..L : free[i] = free[j] => i = j
  BY Facts DEF FreeOnce
<1>4. \A d : IsFree(d) <=> \E i \in 1..L : free[i] = d
  BY DEF IsFree
<1>5. n \in 1..k
  OBVIOUS
<1> HIDE DEF L, k
<1>6. \A i \in 1..n : L + 1 - i \in 1..L /\ B[i] = free[L + 1 - i] /\ i \in Int
  BY <1>1, <1>5, SMTT(30)
<1>7. \A i \in 1..n : B[i] \in Dgrams /\ IsFree(B[i])
  BY <1>2, <1>4, <1>6, Zenon
<1>8. \A i, j \in 1..n : B[i] = B[j] => i = j
  <2> SUFFICES ASSUME NEW i \in 1..n, NEW j \in 1..n, B[i] = B[j] PROVE i = j
    OBVIOUS
  <2>1. L + 1 - i = L + 1 - j
    BY <1>3, <1>6
  <2> QED
    BY <1>1, <1>6, <2>1
<1>9. ASSUME NEW d
      PROVE  IsFree(d) <=> \/ \E i \in 1..(L - n) : free[i] = d
                           \/ \E i \in 1..n : B[i] = d
  <2>1. ASSUME NEW i \in 1..L, free[i] = d
        PROVE  \/ \E j \in 1..(L - n) : free[j] = d
               \/ \E j \in 1..n : B[j] = d
    <3>1. CASE i <= L - n
      BY <1>1, <1>5, <2>1, <3>1
    <3>2. CASE ~(i <= L - n)
      <4>1. L + 1 - i \in 1..n /\ L + 1 - (L + 1 - i) = i
        BY <1>1, <1>5, <3>2
      <4>2. B[L + 1 - i] = free[i]
        BY <1>6, <4>1
      <4> QED
        BY <2>1, <4>1, <4>2
    <3> QED
      BY <3>1, <3>2
  <2>2. \A i \in 1..(L - n) : i \in 1..L
    BY <1>1, <1>5
  <2> QED
    BY <1>4, <1>6, <2>1, <2>2, Zenon
<1>10. ASSUME NEW i \in 1..n, NEW j \in 1..(L - n), free[j] = B[i] PROVE FALSE
  <2>1. j \in 1..L /\ L + 1 - i \in 1..L /\ j # L + 1 - i
    BY <1>1, <1>5, <1>6
  <2>2. free[j] = free[L + 1 - i]
    BY <1>6, <1>10
  <2> QED
    BY <1>3, <2>1, <2>2
<1>11. /\ SubSeq(B, 1, n) \in Seq(Dgrams) /\ Len(SubSeq(B, 1, n)) = n
       /\ \A i \in 1..n : SubSeq(B, 1, n)[i] = B[i]
  <2>1. 1 \in Int /\ n \in Int /\ n - 1 + 1 = n /\ 1 <= n
        /\ \A i \in 1..n : 1 + i - 1 = i
    BY <1>1, <1>5
  <2>2. \A i \in 1..n : B[i] \in Dgrams
    BY <1>7
  <2>3. /\ SubSeq(B, 1, n) \in Seq(Dgrams)
        /\ Len(SubSeq(B, 1, n)) = IF 1 <= n THEN n - 1 + 1 ELSE 0
        /\ \A i \in 1..(n - 1 + 1) : SubSeq(B, 1, n)[i] = B[1 + i - 1]
    BY <1>1, <2>1, <2>2, SubSeqProperties
  <2> QED
    BY <2>1, <2>3, Zenon
<1> QED
  BY <1>7, <1>8, <1>9, <1>10, <1>11, Zenon DEF L

LEMMA ReceiveStep ==
  ASSUME McastInv, NEW h \in Handles, NEW n \in 1..VLen, McastReceive(h, n)
  PROVE  McastInv' /\ Takes(h)
<1> DEFINE B == Claim
<1>1. /\ CanTake(h) /\ nextMsg = Len(claimed)
      /\ n <= Len(B) /\ n <= sent - Pulled
      /\ claimed' = SubSeq(B, 1, n) /\ lens' = [i \in 1..n |-> Pulled + i]
      /\ content' = Filled(B, n) /\ free' = Released(B, n)
      /\ nextMsg' = 1 /\ sent' = sent
  BY DEF McastReceive
<1>2. /\ Hand(h, B[1]) /\ size' = [size EXCEPT ![B[1]] = lens'[1]]
      /\ got' = got + 1
  <2>1. Serve(h, B, lens')
    BY DEF McastReceive
  <2> QED
    BY <1>1, <2>1 DEF Serve
<1>3. Pulled = got /\ Left = {}
  <2>1. \A g, m \in Nat : g + m - m = g /\ (m + 1)..m = {}
    OBVIOUS
  <2>2. got \in Nat /\ Len(claimed) \in Nat
    BY Facts
  <2>3. Pulled = got + Len(claimed) - Len(claimed)
        /\ Left = (Len(claimed) + 1)..Len(claimed)
    BY <1>1, Zenon DEF Pulled, Left
  <2> QED
    BY <2>1, <2>2, <2>3
<1>4. n \in 1..BatchLen /\ n \in 0..BatchLen /\ 1 \in 1..n /\ n \in Nat
  <2>1. Len(B) = BatchLen /\ BatchLen \in Int
    BY Facts, ClaimFacts
  <2> HIDE DEF B
  <2> QED
    BY <1>1, <2>1, McastAssumption
<1>5. /\ \A i \in 1..n : B[i] \in Dgrams /\ IsFree(B[i])
      /\ \A i, j \in 1..n : B[i] = B[j] => i = j
      /\ \A d : IsFree(d) <=> \/ \E i \in 1..(Len(free) - n) : free[i] = d
                              \/ \E i \in 1..n : B[i] = d
      /\ \A i \in 1..n : ~\E j \in 1..(Len(free) - n) : free[j] = B[i]
      /\ claimed' \in Seq(Dgrams) /\ Len(claimed') = n
      /\ \A i \in 1..n : claimed'[i] = B[i]
  BY <1>1, <1>4, BatchFacts, SMTT(30)
<1>6. /\ free' \in Seq(Dgrams) /\ FreeOnce'
      /\ \A d : IsFree(d)' <=> \E i \in 1..(Len(free) - n) : free[i] = d
  BY <1>1, <1>4, Facts, ReleasedFacts, SMTT(30)
<1>7. Left' = 2..n
  <2>1. Left' = (1 + 1)..n /\ 1 + 1 = 2
    BY <1>1, <1>5 DEF Left
  <2> QED
    BY <2>1, Zenon
<1>8. /\ \A d \in Dgrams : content'[d] =
           IF \E i \in 1..n : B[i] = d
             THEN LET u == got + CHOOSE i \in 1..n : B[i] = d IN <<u, u>>
             ELSE content[d]
      /\ DOMAIN content' = Dgrams
  BY <1>1, <1>3 DEF Filled
<1>9. \A i \in 1..n : lens'[i] = got + i
  BY <1>1, <1>3
<1> HIDE DEF B
<1>10. \A i \in 1..n : content'[B[i]] = <<got + i, got + i>>
  <2> TAKE i \in 1..n
  <2>1. (CHOOSE j \in 1..n : B[j] = B[i]) = i
    BY <1>5
  <2>2. content'[B[i]] = LET u == got + CHOOSE j \in 1..n : B[j] = B[i] IN <<u, u>>
    BY <1>5, <1>8, SMTT(30)
  <2> QED
    BY <2>1, <2>2, Zenon
<1>11. \A d \in Dgrams : ~(\E i \in 1..n : B[i] = d) => content'[d] = content[d]
  BY <1>8
<1>12. content' \in [Dgrams -> Nat \X Nat]
  <2>1. \A d \in Dgrams : content'[d] \in Nat \X Nat
    <3> TAKE d \in Dgrams
    <3>1. CASE \E i \in 1..n : B[i] = d
      <4>1. PICK i \in 1..n : B[i] = d
        BY <3>1
      <4>2. got + i \in Nat
        BY <1>4, Facts, SMTT(30)
      <4> QED
        BY <1>10, <4>1, <4>2
    <3>2. CASE ~\E i \in 1..n : B[i] = d
      BY <1>11, <3>2, Facts, Zenon
    <3> QED
      BY <3>1, <3>2
  <2>2. content' = [d \in Dgrams |-> content'[d]]
    BY <1>1 DEF Filled
  <2> QED
    BY <2>1, <2>2, Zenon
<1>13. B[1] \in Dgrams /\ B[1] \notin Held /\ \A i \in 1..n : B[i] \notin Held
  <2>1. \A i \in 1..n : B[i] \in Dgrams /\ IsFree(B[i])
    BY <1>5, SMTT(30)
  <2>2. \A d \in Dgrams : IsFree(d) => d \notin Held
    BY Facts DEF Placed
  <2> QED
    BY <1>4, <2>1, <2>2, Zenon
<1>14. HandlesDiffer' /\ Held' = Held \cup {B[1]}
  BY <1>1, <1>2, <1>13, Facts, HandDiffers, SMTT(20)
<1>15. /\ hold' \in [Handles -> Dgrams \cup {NoBuffer}]
       /\ size' \in [Dgrams -> Nat]
       /\ \A g \in Handles : hold'[g] # NoBuffer =>
            content'[hold'[g]] = <<size'[hold'[g]], size'[hold'[g]]>>
  <2>1. /\ size' = [size EXCEPT ![B[1]] = got + 1] /\ got + 1 \in Nat
        /\ content'[B[1]] = <<got + 1, got + 1>>
    <3>1. lens'[1] = got + 1 /\ content'[B[1]] = <<got + 1, got + 1>>
      BY <1>4, <1>9, <1>10, Zenon
    <3>2. got + 1 \in Nat
      BY Facts
    <3> QED
      BY <1>2, <3>1, <3>2, Zenon
  <2>2. \A e \in Held : e \in Dgrams
    BY Facts DEF HandlesTyped, Held
  <2>3. \A e \in Held : content'[e] = content[e]
    BY <1>11, <1>13, <2>2
  <2> QED
    <3>1. /\ CanTake(h) /\ Hand(h, B[1]) /\ B[1] \in Dgrams /\ B[1] \notin Held
      BY <1>1, <1>2, <1>13
    <3> QED
      BY <1>12, <2>1, <2>3, <3>1, HandLengths, Zenon
<1>16. McastTypes'
  <2>1. got' \in Nat /\ nextMsg' \in Nat /\ nextMsg' <= Len(claimed')
    BY <1>1, <1>2, <1>4, <1>5, Facts, SMTT(20)
  <2> QED
    BY <1>1, <1>5, <1>6, <1>12, <1>15, <2>1, Facts, SMTT(20) DEF McastTypes, HandlesTyped
<1>17. /\ 2..n \subseteq 1..n /\ 1 \notin 2..n /\ 1..n = {1} \cup 2..n
  BY <1>4
<1>18. /\ \A d : IsUnserved(d)' <=> \E i \in 2..n : B[i] = d
       /\ UnservedOnce'
  <2>1. \A i \in 2..n : i \in 1..n /\ claimed'[i] = B[i]
    BY <1>5, <1>17, SMTT(30)
  <2>2. \A d : IsUnserved(d)' <=> \E i \in 2..n : B[i] = d
    BY <1>7, <2>1, Zenon DEF IsUnserved
  <2>3. UnservedOnce'
    <3>1. \A i, j \in 1..n : B[i] = B[j] => i = j
      BY <1>5
    <3>2. \A i, j \in 2..n : claimed'[i] = claimed'[j] => i = j
      BY <2>1, <3>1, Zenon
    <3> QED
      BY <1>7, <3>2, Zenon DEF UnservedOnce
  <2> QED
    BY <2>2, <2>3
<1>19. Placed'
  <2>1. ASSUME NEW d \in Dgrams, IsFree(d)' PROVE ~IsUnserved(d)' /\ d \notin Held'
    <3>1. IsFree(d) /\ ~\E i \in 1..n : B[i] = d
      BY <1>5, <1>6, <2>1
    <3>2. d \notin Held
      BY <3>1, Facts DEF Placed
    <3> QED
      BY <1>4, <1>14, <1>17, <1>18, <3>1, <3>2
  <2>2. ASSUME NEW d \in Dgrams, IsUnserved(d)' PROVE d \notin Held'
    <3>1. PICK i \in 2..n : B[i] = d
      BY <1>18, <2>2
    <3>2. i \in 1..n /\ i # 1
      BY <1>17
    <3>3. d # B[1] /\ d \notin Held
      BY <1>4, <1>5, <1>13, <3>1, <3>2
    <3> QED
      BY <1>14, <3>3
  <2>3. ASSUME NEW d \in Dgrams PROVE IsFree(d)' \/ IsUnserved(d)' \/ d \in Held'
    <3>1. CASE IsFree(d)
      <4>1. CASE \E i \in 1..n : B[i] = d
        BY <1>14, <1>17, <1>18, <4>1
      <4>2. CASE ~\E i \in 1..n : B[i] = d
        BY <1>5, <1>6, <3>1, <4>2
      <4> QED
        BY <4>1, <4>2
    <3>2. ~IsUnserved(d)
      BY <1>3 DEF IsUnserved
    <3>3. CASE d \in Held
      BY <1>14, <3>3
    <3> QED
      BY <3>1, <3>2, <3>3, Facts DEF Placed
  <2> QED
    BY <1>6, <1>14, <1>18, <2>1, <2>2, <2>3 DEF Placed
<1>20. Pulled' <= sent'
  <2>1. \A g, m, s \in Int : m <= s - g => (g + 1) + m - 1 <= s
    OBVIOUS
  <2>2. got \in Int /\ n \in Int /\ sent \in Int /\ n <= sent - got
    BY <1>1, <1>3, <1>4, Facts
  <2>3. Pulled' = (got + 1) + n - 1 /\ sent' = sent
    BY <1>1, <1>2, <1>5, SMTT(20) DEF Pulled
  <2> QED
    BY <2>1, <2>2, <2>3, Zenon
<1>21. ASSUME NEW i \in Left'
       PROVE  /\ content'[claimed'[i]] = <<got' + i - nextMsg', got' + i - nextMsg'>>
              /\ lens'[i] = got' + i - nextMsg'
  <2>1. i \in 1..n /\ got' + i - nextMsg' = got + i
    <3>1. i \in 2..n /\ i \in 1..n /\ i \in Int
      BY <1>7, <1>17
    <3>2. got \in Nat /\ got' = got + 1 /\ nextMsg' = 1
      BY <1>1, <1>2, Facts, SMTT(20)
    <3> QED
      BY <3>1, <3>2
  <2> QED
    BY <1>5, <1>9, <1>10, <2>1, Zenon
<1>22. BatchFollows'
  BY <1>15, <1>20, <1>21, SMTT(20) DEF BatchFollows
<1>23. Takes(h)
  <2>1. got < sent
    BY <1>1, <1>3, <1>4, Facts
  <2>2. content'[B[1]] = <<got + 1, got + 1>>
    BY <1>4, <1>10, Zenon
  <2>3. \A e \in Held : e \in Dgrams
    BY Facts DEF HandlesTyped, Held
  <2>4. \A e \in Held : content'[e] = content[e]
    BY <1>11, <1>13, <2>3
  <2> QED
    BY <1>1, <1>2, <1>13, <2>1, <2>2, <2>4, Zenon DEF Takes
<1> QED
  BY <1>16, <1>19, <1>22, <1>23 DEF McastInv

LEMMA McastInvariant == McastSpec => []McastInv
<1>1. McastInv /\ [McastNext]_mcastVars => McastInv'
  <2> SUFFICES ASSUME McastInv, [McastNext]_mcastVars PROVE McastInv'
    OBVIOUS
  <2>1. CASE McastNext
    BY <2>1, ArriveStep, ServeStep, ReceiveStep, NothingStep, DestroyStep,
       MoveStep DEF McastNext
  <2>2. CASE UNCHANGED mcastVars
    BY <2>2, StillInv DEF mcastVars, bufferVars, batchVars
  <2> QED
    BY <2>1, <2>2
<1> QED
  BY <1>1, McastInitInv, PTL DEF McastSpec

-----------------------------------------------------------------------------
(* How many places hold a datagram.                                        *)

LEMMA CountOnce ==
  ASSUME NEW T, \A i, j \in T : i = j
  PROVE  /\ T # {} => Cardinality(T) = 1
         /\ T = {} => Cardinality(T) = 0
<1>1. ASSUME NEW i \in T PROVE Cardinality(T) = 1
  <2>1. T = {i}
    OBVIOUS
  <2> QED
    BY <2>1, FS_Singleton, Zenon
<1> QED
  BY <1>1, FS_EmptySet, Zenon

LEMMA UnservedCount ==
  ASSUME McastInv, NEW d, NEW U, U = SubSeq(claimed, nextMsg + 1, Len(claimed))
  PROVE  /\ \A i, j \in {k \in 1..Len(U) : U[k] = d} : i = j
         /\ {k \in 1..Len(U) : U[k] = d} # {} <=> IsUnserved(d)
<1> DEFINE m == nextMsg
           c == Len(claimed)
<1>1. m \in Nat /\ c \in Nat /\ m <= c /\ claimed \in Seq(Dgrams)
      /\ U = SubSeq(claimed, m + 1, c)
  BY Facts
<1>2. \A i \in (m + 1)..c : claimed[i] \in Dgrams
  BY Facts DEF Left
<1>3. Left = (m + 1)..c
  BY DEF Left
<1> HIDE DEF m, c
<1>4. /\ Len(U) = IF m + 1 <= c THEN c - (m + 1) + 1 ELSE 0
      /\ \A i \in 1..(c - (m + 1) + 1) : U[i] = claimed[(m + 1) + i - 1]
  <2>1. m + 1 \in Int /\ c \in Int
    BY <1>1
  <2>2. LET V == SubSeq(claimed, m + 1, c)
        IN  /\ Len(V) = IF m + 1 <= c THEN c - (m + 1) + 1 ELSE 0
            /\ \A i \in 1..(c - (m + 1) + 1) : V[i] = claimed[(m + 1) + i - 1]
    BY <1>1, <1>2, <2>1, SubSeqProperties
  <2> QED
    BY <1>1, <2>2, Zenon
<1>5. Len(U) = c - m /\ \A i \in 1..(c - m) : U[i] = claimed[m + i]
  <2>1. /\ (IF m + 1 <= c THEN c - (m + 1) + 1 ELSE 0) = c - m
        /\ c - (m + 1) + 1 = c - m
        /\ \A i \in 1..(c - m) : (m + 1) + i - 1 = m + i
    BY <1>1
  <2> QED
    BY <1>4, <2>1, Zenon
<1>6. /\ \A i \in 1..(c - m) : m + i \in Left /\ i \in Int
      /\ \A i \in Left : i - m \in 1..(c - m) /\ m + (i - m) = i
  BY <1>1, <1>3
<1>7. ASSUME NEW i \in 1..Len(U), NEW j \in 1..Len(U), U[i] = d, U[j] = d
      PROVE  i = j
  <2>1. m + i = m + j
    <3>1. m + i \in Left /\ m + j \in Left
      BY <1>5, <1>6, Zenon
    <3>2. claimed[m + i] = d /\ claimed[m + j] = d
      BY <1>5, <1>7, Zenon
    <3>3. \A k, l \in Left : claimed[k] = claimed[l] => k = l
      BY Facts DEF UnservedOnce
    <3> QED
      BY <3>1, <3>2, <3>3, Zenon
  <2> QED
    BY <1>1, <1>5, <1>6, <2>1, SMTT(30)
<1>8. (\E k \in 1..Len(U) : U[k] = d) <=> IsUnserved(d)
  <2>1. ASSUME NEW k \in 1..Len(U), U[k] = d PROVE IsUnserved(d)
    <3>1. m + k \in Left /\ claimed[m + k] = d
      BY <1>5, <1>6, <2>1, Zenon
    <3> QED
      BY <3>1, Zenon DEF IsUnserved
  <2>2. ASSUME NEW i \in Left, claimed[i] = d PROVE \E k \in 1..Len(U) : U[k] = d
    <3>1. i - m \in 1..(c - m) /\ m + (i - m) = i
      BY <1>6, Zenon
    <3>2. i - m \in 1..Len(U) /\ U[i - m] = claimed[m + (i - m)]
      BY <1>5, <3>1, Zenon
    <3>3. U[i - m] = d
      BY <2>2, <3>1, <3>2, Zenon
    <3> QED
      BY <3>2, <3>3, Zenon
  <2> QED
    BY <2>1, <2>2, Zenon DEF IsUnserved
<1> QED
  BY <1>7, <1>8, Zenon

(* Every datagram of the pool is in one place, whatever batches recvmmsg   *)
(* returns and in whatever order Buffers are destroyed, and a Buffer has   *)
(* the length of what was received into it.                                *)
THEOREM McastDgramsInOnePlace == McastSpec => []DgramsInOnePlace
<1>1. McastInv => DgramsInOnePlace
  <2> SUFFICES ASSUME McastInv PROVE DgramsInOnePlace
    OBVIOUS
  <2> DEFINE U == SubSeq(claimed, nextMsg + 1, Len(claimed))
             A(d) == {i \in 1..Len(free) : free[i] = d}
             C(d) == {i \in 1..Len(U) : U[i] = d}
             H(d) == {h \in Handles : hold[h] = d}
  <2>1. ASSUME NEW d \in Dgrams
        PROVE  Cardinality(A(d)) + Cardinality(C(d)) + Cardinality(H(d)) = 1
    <3>1. (\A i, j \in A(d) : i = j) /\ (A(d) # {} <=> IsFree(d))
      BY Facts, Zenon DEF FreeOnce, IsFree
    <3>2. (\A i, j \in C(d) : i = j) /\ (C(d) # {} <=> IsUnserved(d))
      BY UnservedCount, Zenon
    <3>3. (\A i, j \in H(d) : i = j) /\ (H(d) # {} <=> d \in Held)
      BY Facts DEF HandlesDiffer, HandlesTyped, Held
    <3> HIDE DEF A, C, H
    <3>4. /\ Cardinality(A(d)) = IF IsFree(d) THEN 1 ELSE 0
          /\ Cardinality(C(d)) = IF IsUnserved(d) THEN 1 ELSE 0
          /\ Cardinality(H(d)) = IF d \in Held THEN 1 ELSE 0
      BY <3>1, <3>2, <3>3, CountOnce
    <3>5. /\ IsFree(d) => ~IsUnserved(d) /\ d \notin Held
          /\ IsUnserved(d) => d \notin Held
          /\ IsFree(d) \/ IsUnserved(d) \/ d \in Held
      BY Facts DEF Placed
    <3> QED
      BY <3>4, <3>5
  <2>2. HandlesDiffer /\ \A h \in Handles :
          hold[h] # NoBuffer => content[hold[h]] = <<size[hold[h]], size[hold[h]]>>
    BY Facts, Zenon DEF BatchFollows
  <2> QED
    BY <2>1, <2>2, Zenon DEF DgramsInOnePlace
<1> QED
  BY <1>1, McastInvariant, PTL

LEMMA TakesDelivers ==
  ASSUME McastInv, NEW h \in Handles, Takes(h) PROVE Promise!Next
<1>1. PICK d \in Dgrams : /\ d \notin Held /\ Hand(h, d)
                          /\ content'[d] = <<got + 1, got + 1>>
  BY DEF Takes
<1>2. /\ hold[h] = NoBuffer /\ got < sent /\ got' = got + 1 /\ sent' = sent
      /\ \A e \in Held : content'[e] = content[e]
  BY DEF Takes, CanTake
<1>3. /\ hold \in [Handles -> Dgrams \cup {NoBuffer}] /\ NoBuffer \notin Dgrams
      /\ hold' = [hold EXCEPT ![h] = d]
  BY <1>1, Facts DEF HandlesTyped, Hand
<1>4. Shown' = [Shown EXCEPT ![h] = <<got + 1, got + 1>>]
  <2>1. \A g \in Handles : g # h => hold'[g] = hold[g]
    BY <1>3
  <2>2. \A g \in Handles : hold[g] # NoBuffer => content'[hold[g]] = content[hold[g]]
    BY <1>2 DEF Held
  <2>3. hold'[h] = d /\ d # NoBuffer
    BY <1>3
  <2> QED
    BY <1>1, <2>1, <2>2, <2>3, Zenon DEF Shown
<1>5. got + 1 \in (got + 1)..sent
  BY <1>2, Facts, SMTT(30)
<1>6. Shown[h] = NoBuffer
  BY <1>2 DEF Shown
<1>7. Promise!Deliver(h)
  BY <1>2, <1>4, <1>5, <1>6, Zenon DEF Promise!Deliver
<1> QED
  BY <1>7 DEF Promise!Next

(* Every datagram taken from the socket is returned once and in order, and *)
(* recvmmsg never writes to the datagram of a Buffer that the caller has.  *)
THEOREM McastRefinement == McastSpec => ImplementsTransport
<1>1. McastInit => Promise!Init
  BY DEF McastInit, Promise!Init, Shown
<1>2. McastInv /\ [McastNext]_mcastVars => [Promise!Next]_<<sent, got, Shown>>
  <2> SUFFICES ASSUME McastInv, [McastNext]_mcastVars
               PROVE  Promise!Next \/ UNCHANGED <<sent, got, Shown>>
    OBVIOUS
  <2>1. CASE UNCHANGED <<hold, content, sent, got>>
    BY <2>1 DEF Shown
  <2>2. CASE McastArrive
    <3>1. Promise!Arrive
      BY <2>2 DEF McastArrive, Promise!Arrive, Shown
    <3> QED
      BY <3>1 DEF Promise!Next
  <2>3. ASSUME NEW h \in Handles, McastServe(h) PROVE Promise!Next
    BY <2>3, ServeStep, TakesDelivers
  <2>4. ASSUME NEW h \in Handles, NEW n \in 1..VLen, McastReceive(h, n)
        PROVE  Promise!Next
    BY <2>4, ReceiveStep, TakesDelivers
  <2>5. ASSUME NEW h \in Handles, McastDestroy(h) PROVE Promise!Next
    BY <2>5, Facts, DestroyShows, SMTT(30) DEF McastDestroy
  <2>6. ASSUME NEW g \in Handles, NEW h \in Handles, McastMove(g, h)
        PROVE  Promise!Next
    BY <2>6, Facts, MoveShows DEF McastMove
  <2> QED
    BY <2>1, <2>2, <2>3, <2>4, <2>5, <2>6 DEF McastNext, McastNothing,
       mcastVars, bufferVars
<1> QED
  BY <1>1, <1>2, McastInvariant, PTL
     DEF McastSpec, ImplementsTransport, Promise!Spec
=============================================================================
