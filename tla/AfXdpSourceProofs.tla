-------------------------- MODULE AfXdpSourceProofs --------------------------
(***************************************************************************)
(* AfXdpSource for every number of frames, ring and batch size and set of  *)
(* handles.                                                                *)
(***************************************************************************)
EXTENDS AfXdpSource, BuffersProofs, SequenceTheorems, FiniteSetTheorems

XdpTypes ==
  /\ HandlesTyped(Frames)
  /\ content \in [Frames -> Nat \X Nat]
  /\ sent \in Nat /\ got \in Nat
  /\ fill \subseteq Frames /\ rx \in Seq(Frames)
  /\ batch \in Nat /\ peeked \in Nat /\ batch <= peeked /\ peeked <= Len(rx)

IsListed(f) == \E i \in Listed : rx[i] = f
ListedOnce == \A i, j \in Listed : rx[i] = rx[j] => i = j

(* FramesInOnePlace, with IsListed by name. *)
Placed ==
  /\ ListedOnce
  /\ HandlesDiffer
  /\ \A f \in Frames :
       /\ f \in fill => ~IsListed(f) /\ f \notin Held
       /\ IsListed(f) => f \notin Held
       /\ f \in fill \/ IsListed(f) \/ f \in Held

(* The entries that follow the batch hold the packets next() has not       *)
(* returned yet, in order.                                                 *)
PacketsFollow ==
  /\ sent = got + Len(rx) - batch
  /\ \A i \in Listed :
       content[rx[i]] = <<got + i - batch, got + i - batch>>

XdpInv == XdpTypes /\ Placed /\ PacketsFollow

LEMMA PlacedIsInOnePlace == Placed <=> FramesInOnePlace
  BY DEF Placed, FramesInOnePlace, ListedOnce, IsListed

LEMMA XdpInitInv == XdpInit => XdpInv
<1> SUFFICES ASSUME XdpInit PROVE XdpInv
  OBVIOUS
<1>1. Listed = {} /\ Held = {} /\ HandlesDiffer
  BY DEF XdpInit, Listed, Held, HandlesDiffer
<1>2. XdpTypes
  BY BuffersAssumption DEF XdpInit, XdpTypes, HandlesTyped, Frames
<1>3. Placed
  BY <1>1 DEF XdpInit, Placed, ListedOnce, IsListed
<1>4. PacketsFollow
  BY <1>1 DEF XdpInit, PacketsFollow
<1>5. QED
  BY <1>2, <1>3, <1>4 DEF XdpInv

-----------------------------------------------------------------------------
(* What the steps do to the entries listed. *)

LEMMA PacketLists ==
  ASSUME XdpTypes, NEW f \in fill, rx' = Append(rx, f), batch' = batch
  PROVE  /\ rx' \in Seq(Frames) /\ Len(rx') = Len(rx) + 1
         /\ rx'[Len(rx) + 1] = f
         /\ Listed' = Listed \cup {Len(rx) + 1} /\ Len(rx) + 1 \notin Listed
         /\ \A i \in Listed : rx'[i] = rx[i]
<1>1. rx \in Seq(Frames) /\ f \in Frames /\ batch \in Nat /\ batch <= Len(rx)
  BY DEF XdpTypes
<1>2. /\ rx' \in Seq(Frames) /\ Len(rx') = Len(rx) + 1
      /\ rx'[Len(rx) + 1] = f /\ Len(rx) \in Nat
      /\ \A i \in 1..Len(rx) : rx'[i] = rx[i]
  BY <1>1
<1>3. QED
  BY <1>1, <1>2 DEF Listed

(* next() takes the first entry listed.  The rest is as before, but for a  *)
(* shift of the places when the batch is released.                         *)
LEMMA ServeLists ==
  ASSUME XdpTypes, batch < Len(rx), rx' = rx, batch' = batch + 1
  PROVE  /\ batch + 1 \in Listed /\ rx[batch + 1] \in Frames
         /\ Listed' = Listed \ {batch + 1}
<1>1. Len(rx) \in Nat /\ batch \in Nat
  BY DEF XdpTypes
<1>2. rx[batch + 1] \in Frames
  BY <1>1 DEF XdpTypes
<1>3. batch + 1 \in Listed
  BY <1>1 DEF Listed
<1>4. Listed' = Listed \ {batch + 1}
  BY <1>1 DEF Listed
<1>5. QED
  BY <1>2, <1>3, <1>4

LEMMA RearmLists ==
  ASSUME XdpTypes, batch = peeked, peeked < Len(rx),
         rx' = SubSeq(rx, peeked + 1, Len(rx)), batch' = 1
  PROVE  /\ batch + 1 \in Listed /\ rx[batch + 1] \in Frames
         /\ rx' \in Seq(Frames) /\ Len(rx') = Len(rx) - batch
         /\ \A i \in Listed' : /\ batch + i \in Listed \ {batch + 1}
                               /\ rx'[i] = rx[batch + i]
         /\ \A i \in Listed \ {batch + 1} : /\ i - batch \in Listed'
                                            /\ rx'[i - batch] = rx[i]
<1>1. Len(rx) \in Nat /\ batch \in Nat /\ rx \in Seq(Frames) /\ batch < Len(rx)
  BY DEF XdpTypes
<1>2. \A i \in (batch + 1)..Len(rx) : rx[i] \in Frames
  BY <1>1
<1>3. /\ rx' \in Seq(Frames)
      /\ Len(rx') = IF batch + 1 <= Len(rx) THEN Len(rx) - (batch + 1) + 1 ELSE 0
      /\ \A i \in 1..(Len(rx) - (batch + 1) + 1) :
           rx'[i] = rx[(batch + 1) + i - 1]
  BY <1>1, <1>2, SubSeqProperties, SMTT(30)
<1>4. Len(rx') = Len(rx) - batch
  <2>1. \A n, m \in Nat : m < n =>
          (IF m + 1 <= n THEN n - (m + 1) + 1 ELSE 0) = n - m
    OBVIOUS
  <2>2. QED
    BY <1>1, <1>3, <2>1, Zenon
<1>5. ASSUME NEW i \in 1..(Len(rx) - batch) PROVE rx'[i] = rx[batch + i]
  <2>1. i \in 1..(Len(rx) - (batch + 1) + 1) /\ (batch + 1) + i - 1 = batch + i
    BY <1>1
  <2>2. QED
    BY <1>3, <2>1
<1>6. Listed = (batch + 1)..Len(rx) /\ Listed' = 2..(Len(rx) - batch)
  <2>1. Listed = (batch + 1)..Len(rx) /\ Listed' = (1 + 1)..(Len(rx) - batch)
    BY <1>4, Zenon DEF Listed
  <2>2. 1 + 1 = 2
    OBVIOUS
  <2>3. QED
    BY <2>1, <2>2, Zenon
<1>7. batch + 1 \in Listed /\ rx[batch + 1] \in Frames
  BY <1>1, <1>2, <1>6
<1>8. ASSUME NEW i \in Listed'
      PROVE  batch + i \in Listed \ {batch + 1} /\ rx'[i] = rx[batch + i]
  BY <1>1, <1>5, <1>6
<1>9. ASSUME NEW i \in Listed \ {batch + 1}
      PROVE  i - batch \in Listed' /\ rx'[i - batch] = rx[i]
  <2>1. i - batch \in 1..(Len(rx) - batch) /\ i - batch \in Listed' /\ batch + (i - batch) = i
    BY <1>1, <1>6
  <2>2. QED
    BY <1>5, <2>1, Zenon
<1>10. QED
  BY <1>3, <1>4, <1>7, <1>8, <1>9, Zenon

(* The frame at the head of the list moves to a handle, the rest stays.    *)
LEMMA TakeFirst ==
  ASSUME XdpInv, NEW h \in Handles, CanTake(h), Hand(h, rx[batch + 1]),
         UNCHANGED <<content, sent, fill>>, got' = got + 1,
         batch < Len(rx),
         \/ rx' = rx /\ batch' = batch + 1
         \/ /\ batch = peeked /\ batch' = 1
            /\ rx' = SubSeq(rx, peeked + 1, Len(rx))
  PROVE  Placed' /\ PacketsFollow'
<1> DEFINE first == rx[batch + 1]
<1>0. /\ XdpTypes /\ Placed /\ PacketsFollow /\ HandlesTyped(Frames)
      /\ got \in Nat /\ sent \in Nat /\ batch \in Nat /\ Len(rx) \in Nat
  BY SMTT(30) DEF XdpInv, XdpTypes
<1>1. batch + 1 \in Listed /\ first \in Frames
  BY <1>0, ServeLists, RearmLists, SMTT(30) DEF Listed, XdpTypes
<1>2. PICK d \in Int :
        /\ batch' = batch + 1 - d /\ Len(rx') = Len(rx) - d
        /\ \A i \in Listed' : /\ d + i \in Listed \ {batch + 1}
                              /\ rx'[i] = rx[d + i]
        /\ \A i \in Listed \ {batch + 1} : /\ i - d \in Listed'
                                           /\ rx'[i - d] = rx[i]
  <2>1. CASE rx' = rx /\ batch' = batch + 1
    <3>1. Listed' = Listed \ {batch + 1} /\ Listed \subseteq Int
      BY <1>0, <2>1, ServeLists DEF Listed
    <3>2. WITNESS 0 \in Int
    <3>3. QED
      BY <1>0, <2>1, <3>1
  <2>2. CASE batch = peeked /\ batch' = 1 /\ rx' = SubSeq(rx, peeked + 1, Len(rx))
    <3>1. batch \in Int /\ batch' = batch + 1 - batch
      BY <1>0, <2>2
    <3>2. /\ Len(rx') = Len(rx) - batch
          /\ \A i \in Listed' : /\ batch + i \in Listed \ {batch + 1}
                                /\ rx'[i] = rx[batch + i]
          /\ \A i \in Listed \ {batch + 1} : /\ i - batch \in Listed'
                                             /\ rx'[i - batch] = rx[i]
      <4>1. peeked < Len(rx)
        BY <2>2
      <4>2. QED
        BY <1>0, <2>2, <4>1, RearmLists, Zenon
    <3>3. QED
      BY <3>1, <3>2, Zenon
  <2>3. QED
    BY <2>1, <2>2
<1>3. Listed \subseteq Int /\ Listed' \subseteq Int
  BY <1>0, <1>2 DEF Listed
<1>4. \A f \in Frames : IsListed(f)' <=> IsListed(f) /\ f # first
  <2>1. ASSUME NEW f \in Frames, IsListed(f)' PROVE IsListed(f) /\ f # first
    BY <1>0, <1>1, <1>2, <2>1 DEF IsListed, Placed, ListedOnce
  <2>2. ASSUME NEW f \in Frames, IsListed(f), f # first PROVE IsListed(f)'
    <3>1. PICK i \in Listed : rx[i] = f
      BY <2>2 DEF IsListed
    <3>2. i \in Listed \ {batch + 1}
      BY <2>2, <3>1
    <3>3. QED
      BY <1>2, <3>1, <3>2 DEF IsListed
  <2>3. QED
    BY <2>1, <2>2
<1>5. ListedOnce'
  <2>1. ASSUME NEW i \in Listed', NEW j \in Listed', rx'[i] = rx'[j] PROVE i = j
    <3>1. d + i = d + j
      BY <1>0, <1>2, <2>1 DEF Placed, ListedOnce
    <3>2. QED
      BY <1>3, <3>1
  <2>2. QED
    BY <2>1 DEF ListedOnce
<1>6. IsListed(first) /\ first \notin Held
  BY <1>0, <1>1 DEF IsListed, Placed
<1>7. HandlesDiffer' /\ Held' = Held \cup {first}
  BY <1>0, <1>1, <1>6, HandDiffers DEF Placed
<1>8. Placed'
  BY <1>0, <1>4, <1>5, <1>6, <1>7 DEF Placed
<1>9. PacketsFollow'
  <2>1. sent' = got' + Len(rx') - batch'
    <3>1. \A g, n, b, e \in Int : g + n - b = (g + 1) + (n - e) - (b + 1 - e)
      OBVIOUS
    <3>2. got \in Int /\ Len(rx) \in Int /\ batch \in Int /\ d \in Int
      BY <1>0
    <3>3. sent' = got + Len(rx) - batch
      BY <1>0, Zenon DEF PacketsFollow
    <3>4. got + Len(rx) - batch = (got + 1) + (Len(rx) - d) - (batch + 1 - d)
      BY <3>1, <3>2
    <3>5. got' = got + 1 /\ Len(rx') = Len(rx) - d /\ batch' = batch + 1 - d
      BY <1>2
    <3>6. QED
      BY <3>3, <3>4, <3>5, Zenon
  <2>2. ASSUME NEW i \in Listed'
        PROVE  content'[rx'[i]] = <<got' + i - batch', got' + i - batch'>>
    <3>1. content[rx[d + i]] = <<got + (d + i) - batch, got + (d + i) - batch>>
      BY <1>0, <1>2, SMTT(30) DEF PacketsFollow
    <3>2. got + (d + i) - batch = got' + i - batch'
      BY <1>0, <1>2, <1>3
    <3>3. rx'[i] = rx[d + i]
      BY <1>2
    <3>4. QED
      BY <3>1, <3>2, <3>3
  <2>3. QED
    BY <2>1, <2>2 DEF PacketsFollow
<1>10. QED
  BY <1>8, <1>9

LEMMA StillInv ==
  ASSUME XdpInv, UNCHANGED <<hold, content, sent, got, fill, rx, peeked, batch>>
  PROVE  XdpInv'
<1>1. XdpTypes'
  BY DEF XdpInv, XdpTypes, HandlesTyped
<1>2. Placed'
  BY DEF XdpInv, Placed, ListedOnce, IsListed, Listed, HandlesDiffer, Held
<1>3. PacketsFollow'
  BY DEF XdpInv, PacketsFollow, Listed
<1>4. QED
  BY <1>1, <1>2, <1>3 DEF XdpInv

LEMMA XdpStep ==
  ASSUME XdpInv, XdpNext PROVE XdpInv'
<1>0. /\ XdpTypes /\ Placed /\ PacketsFollow /\ HandlesTyped(Frames)
      /\ got \in Nat /\ sent \in Nat /\ batch \in Nat /\ peeked \in Nat
      /\ Len(rx) \in Nat /\ rx \in Seq(Frames) /\ NoBuffer \notin Frames
  BY BuffersAssumption DEF XdpInv, XdpTypes, Frames
<1>1. CASE XdpPacket
  <2>1. PICK f \in fill :
          /\ fill' = fill \ {f} /\ rx' = Append(rx, f)
          /\ content' = [content EXCEPT ![f] = <<sent + 1, sent + 1>>]
    BY <1>1, Zenon DEF XdpPacket
  <2>2. sent' = sent + 1 /\ UNCHANGED <<hold, got, peeked, batch>>
    BY <1>1 DEF XdpPacket
  <2>3. /\ rx' \in Seq(Frames) /\ Len(rx') = Len(rx) + 1
        /\ rx'[Len(rx) + 1] = f
        /\ Listed' = Listed \cup {Len(rx) + 1} /\ Len(rx) + 1 \notin Listed
        /\ \A i \in Listed : rx'[i] = rx[i]
    BY <1>0, <2>1, <2>2, PacketLists, Zenon
  <2>4. f \in Frames /\ ~IsListed(f)
    BY <1>0, <2>1 DEF XdpTypes, Placed
  <2>5. XdpTypes'
    <3>1. content' \in [Frames -> Nat \X Nat]
      <4>1. <<sent + 1, sent + 1>> \in Nat \X Nat
        BY <1>0
      <4>2. QED
        BY <1>0, <2>1, <2>4, <4>1 DEF XdpTypes
    <3>2. peeked' <= Len(rx')
      <4>1. \A m, n \in Nat : m <= n => m <= n + 1
        OBVIOUS
      <4>2. QED
        BY <1>0, <2>2, <2>3, <4>1, Zenon DEF XdpTypes
    <3>3. sent' \in Nat
      BY <1>0, <2>2
    <3>4. QED
      BY <1>0, <2>1, <2>2, <2>3, <3>1, <3>2, <3>3 DEF XdpTypes, HandlesTyped
  <2>6. Placed'
    <3>1. \A g \in Frames : IsListed(g)' <=> IsListed(g) \/ g = f
      BY <2>3 DEF IsListed
    <3>2. ListedOnce'
      BY <1>0, <2>3, <2>4 DEF ListedOnce, Placed, IsListed
    <3>3. HandlesDiffer' /\ Held' = Held
      BY <1>0, <2>2 DEF Placed, HandlesDiffer, Held
    <3>4. QED
      BY <1>0, <2>1, <2>4, <3>1, <3>2, <3>3 DEF Placed
  <2>7. PacketsFollow'
    <3>1. sent' = got' + Len(rx') - batch'
      <4>1. \A g, n, b \in Int : g + n - b + 1 = g + (n + 1) - b
        OBVIOUS
      <4>2. got \in Int /\ Len(rx) \in Int /\ batch \in Int
        BY <1>0
      <4>3. sent = got + Len(rx) - batch
        BY <1>0 DEF PacketsFollow
      <4>4. got + Len(rx) - batch + 1 = got + (Len(rx) + 1) - batch
        BY <4>1, <4>2, Zenon
      <4>5. sent' = sent + 1 /\ got' = got /\ batch' = batch /\ Len(rx') = Len(rx) + 1
        BY <2>2, <2>3, Zenon
      <4>6. QED
        BY <4>3, <4>4, <4>5, Zenon
    <3>2. ASSUME NEW i \in Listed
          PROVE  content'[rx'[i]] = <<got + i - batch, got + i - batch>>
      <4>1. rx[i] \in Frames
        BY <1>0 DEF Listed
      <4>2. rx[i] # f
        BY <2>4 DEF IsListed
      <4>3. QED
        BY <1>0, <2>1, <2>3, <4>1, <4>2, Zenon DEF PacketsFollow, XdpTypes
    <3>3. content'[rx'[Len(rx) + 1]] = <<sent + 1, sent + 1>>
      BY <1>0, <2>1, <2>3, <2>4 DEF XdpTypes
    <3>4. sent + 1 = got + (Len(rx) + 1) - batch
      BY <2>2, <2>3, <3>1, Zenon
    <3>5. QED
      BY <2>2, <2>3, <3>1, <3>2, <3>3, <3>4, SMTT(30) DEF PacketsFollow
  <2>8. QED
    BY <2>5, <2>6, <2>7 DEF XdpInv
<1>2. CASE XdpSleep
  <2>1. UNCHANGED <<hold, content, sent, got, fill, rx, peeked, batch>>
    BY <1>2 DEF XdpSleep, bufferVars
  <2>2. QED
    BY <2>1, StillInv
<1>3. ASSUME NEW h \in Handles, XdpServe(h) PROVE XdpInv'
  <2>1. /\ CanTake(h) /\ Hand(h, rx[batch + 1]) /\ batch < peeked
        /\ batch' = batch + 1 /\ got' = got + 1
        /\ UNCHANGED <<content, sent, fill, rx, peeked>>
    BY <1>3 DEF XdpServe
  <2>2. batch < Len(rx)
    BY <1>0, <2>1 DEF XdpTypes
  <2>3. Placed' /\ PacketsFollow'
    BY <2>1, <2>2, TakeFirst
  <2>4. rx[batch + 1] \in Frames
    BY <1>0, <2>1, <2>2, ServeLists
  <2>5. hold' \in [Handles -> Frames \cup {NoBuffer}]
    BY <1>0, <2>1, <2>4 DEF HandlesTyped, Hand
  <2>6. XdpTypes'
    BY <1>0, <2>1, <2>5, SMTT(30) DEF XdpTypes, HandlesTyped
  <2>7. QED
    BY <2>3, <2>6 DEF XdpInv
<1>4. ASSUME NEW h \in Handles, XdpRearm(h) PROVE XdpInv'
  <2>1. PICK n \in 1..(Len(rx) - peeked) : peeked' = n
    BY <1>4 DEF XdpRearm
  <2>2. /\ CanTake(h) /\ batch = peeked /\ batch' = 1 /\ got' = got + 1
        /\ rx' = SubSeq(rx, peeked + 1, Len(rx)) /\ Hand(h, rx[batch + 1])
        /\ UNCHANGED <<content, sent, fill>>
    BY <1>4 DEF XdpRearm
  <2>3. peeked < Len(rx) /\ batch < Len(rx) /\ n \in Nat /\ 1 <= n
        /\ n <= Len(rx) - batch
    BY <1>0, <2>1, <2>2
  <2>4. Placed' /\ PacketsFollow'
    BY <2>2, <2>3, TakeFirst
  <2>5. /\ rx[batch + 1] \in Frames
        /\ rx' \in Seq(Frames) /\ Len(rx') = Len(rx) - batch
    BY <1>0, <2>2, <2>3, RearmLists
  <2>6. hold' \in [Handles -> Frames \cup {NoBuffer}]
    BY <1>0, <2>2, <2>5 DEF HandlesTyped, Hand
  <2>7. batch' \in Nat /\ peeked' \in Nat /\ batch' <= peeked'
        /\ peeked' <= Len(rx') /\ got' \in Nat
    <3>1. peeked' <= Len(rx')
      BY <2>1, <2>3, <2>5, Zenon
    <3>2. QED
      BY <1>0, <2>1, <2>2, <2>3, <3>1
  <2>8. XdpTypes'
    BY <1>0, <2>2, <2>5, <2>6, <2>7, Zenon DEF XdpTypes, HandlesTyped
  <2>9. QED
    BY <2>4, <2>8 DEF XdpInv
<1>5. CASE XdpWouldBlock
  <2>1. /\ batch = peeked /\ Len(rx) = peeked
        /\ rx' = << >> /\ peeked' = 0 /\ batch' = 0
        /\ UNCHANGED <<hold, content, sent, got, fill>>
    BY <1>5 DEF XdpWouldBlock, bufferVars
  <2>2. Listed = {} /\ Listed' = {}
    BY <1>0, <2>1 DEF Listed
  <2>3. XdpTypes'
    BY <1>0, <2>1 DEF XdpTypes, HandlesTyped
  <2>4. Placed'
    BY <1>0, <2>1, <2>2 DEF Placed, ListedOnce, IsListed, HandlesDiffer, Held
  <2>5. PacketsFollow'
    BY <1>0, <2>1, <2>2 DEF PacketsFollow
  <2>6. QED
    BY <2>3, <2>4, <2>5 DEF XdpInv
<1>6. ASSUME NEW h \in Handles, XdpDestroy(h) PROVE XdpInv'
  <2>1. /\ hold[h] \in Frames /\ hold[h] \in Held
        /\ fill' = fill \cup {hold[h]} /\ Hand(h, NoBuffer)
        /\ UNCHANGED <<content, sent, got, rx, peeked, batch>>
    BY <1>0, <1>6 DEF XdpDestroy, HandlesTyped, Held
  <2>2. HandlesDiffer' /\ Held' = Held \ {hold[h]}
    BY <1>0, <2>1, DestroyDiffers, SMTT(30) DEF Placed
  <2>3. Listed' = Listed /\ \A f \in Frames : IsListed(f)' <=> IsListed(f)
    BY <2>1 DEF Listed, IsListed
  <2>4. Placed'
    BY <1>0, <2>1, <2>2, <2>3 DEF Placed, ListedOnce
  <2>5. hold' \in [Handles -> Frames \cup {NoBuffer}]
    BY <1>0, <2>1 DEF HandlesTyped, Hand
  <2>6. XdpTypes' /\ PacketsFollow'
    BY <1>0, <2>1, <2>3, <2>5, SMTT(30) DEF XdpTypes, HandlesTyped,
       PacketsFollow
  <2>7. QED
    BY <2>4, <2>6 DEF XdpInv
<1>7. ASSUME NEW g \in Handles, NEW h \in Handles, XdpMove(g, h) PROVE XdpInv'
  <2>1. /\ MoveBuffer(g, h)
        /\ UNCHANGED <<content, sent, got, fill, rx, peeked, batch>>
    BY <1>7 DEF XdpMove, MoveBuffer
  <2>2. HandlesDiffer' /\ Held' = Held
    BY <1>0, <2>1, MoveDiffers DEF Placed
  <2>3. Listed' = Listed /\ \A f \in Frames : IsListed(f)' <=> IsListed(f)
    BY <2>1 DEF Listed, IsListed
  <2>4. Placed'
    BY <1>0, <2>1, <2>2, <2>3 DEF Placed, ListedOnce
  <2>5. hold' \in [Handles -> Frames \cup {NoBuffer}]
    BY <1>0, <2>1 DEF HandlesTyped, MoveBuffer
  <2>6. XdpTypes' /\ PacketsFollow'
    BY <1>0, <2>1, <2>3, <2>5, SMTT(30) DEF XdpTypes, HandlesTyped,
       PacketsFollow
  <2>7. QED
    BY <2>4, <2>6 DEF XdpInv
<1>8. QED
  BY <1>1, <1>2, <1>3, <1>4, <1>5, <1>6, <1>7 DEF XdpNext, XdpPoll

LEMMA XdpInvariant == XdpSpec => []XdpInv
<1>1. XdpInv /\ [XdpNext]_xdpVars => XdpInv'
  BY XdpStep, StillInv DEF xdpVars, bufferVars
<1>2. QED
  BY <1>1, XdpInitInv, PTL DEF XdpSpec

-----------------------------------------------------------------------------
(* No frame is lost or in two places, whatever batches the receive ring is *)
(* read in and in whatever order Buffers are destroyed.                    *)
THEOREM XdpFramesInOnePlace == XdpSpec => []FramesInOnePlace
<1>1. XdpInv => FramesInOnePlace
  BY PlacedIsInOnePlace DEF XdpInv
<1>2. QED
  BY <1>1, XdpInvariant, PTL

(* The assertion in ~Buffer() holds: a Buffer's frame always has a slot in *)
(* the fill ring to return to.                                             *)
THEOREM XdpFillHasRoom == XdpSpec => []FillHasRoom
<1>1. XdpInv => FillHasRoom
  <2> SUFFICES ASSUME XdpInv, NEW f \in Held
               PROVE  Cardinality(fill) < NFrames
    BY DEF FillHasRoom
  <2>1. f \in Frames /\ f \notin fill /\ fill \subseteq Frames
    BY SMTT(30) DEF XdpInv, XdpTypes, HandlesTyped, Held, Placed
  <2>2. IsFiniteSet(Frames) /\ Cardinality(Frames) = NFrames
    BY XdpAssumption, FS_Interval DEF Frames
  <2>3. /\ IsFiniteSet(fill) /\ Cardinality(fill) <= NFrames
        /\ Cardinality(fill) # NFrames
    BY <2>1, <2>2, FS_Subset
  <2>4. Cardinality(fill) \in Nat
    BY <2>3, FS_CardinalityType
  <2>5. QED
    BY <2>3, <2>4, XdpAssumption
<1>2. QED
  BY <1>1, XdpInvariant, PTL

(* Every packet the kernel lists is returned once and in order, and the    *)
(* frame of a Buffer is not written to before the Buffer is destroyed.     *)
THEOREM XdpRefinement == XdpSpec => ImplementsTransport
<1>1. XdpInit => Promise!Init
  BY DEF XdpInit, Promise!Init, Shown
<1>2. XdpInv /\ [XdpNext]_xdpVars => [Promise!Next]_<<sent, got, Shown>>
  <2> SUFFICES ASSUME XdpInv, [XdpNext]_xdpVars
               PROVE  Promise!Next \/ UNCHANGED <<sent, got, Shown>>
    OBVIOUS
  <2>0. /\ XdpTypes /\ HandlesTyped(Frames) /\ Placed /\ PacketsFollow
        /\ got \in Nat /\ sent \in Nat /\ batch \in Nat /\ Len(rx) \in Nat
    BY DEF XdpInv, XdpTypes
  <2>1. CASE UNCHANGED <<hold, content, sent, got>>
    BY <2>1 DEF Shown
  <2>2. CASE XdpPacket
    <3>1. PICK f \in fill : content' = [content EXCEPT ![f] = <<sent + 1, sent + 1>>]
      BY <2>2, Zenon DEF XdpPacket
    <3>2. f \in Frames /\ f \notin Held
      BY <2>0 DEF XdpTypes, Placed
    <3>3. Shown' = Shown
      BY <2>0, <2>2, <3>1, <3>2, WriteShows, Zenon DEF XdpPacket
    <3>4. Promise!Arrive
      BY <2>2, <3>3 DEF XdpPacket, Promise!Arrive
    <3>5. QED
      BY <3>4 DEF Promise!Next
  <2>3. ASSUME NEW h \in Handles, XdpServe(h) \/ XdpRearm(h) PROVE Promise!Next
    <3>1. /\ hold[h] = NoBuffer /\ Hand(h, rx[batch + 1])
          /\ got' = got + 1 /\ UNCHANGED <<content, sent>>
      BY <2>3 DEF XdpServe, XdpRearm, CanTake
    <3>2. batch < Len(rx)
      BY <2>0, <2>3 DEF XdpServe, XdpRearm, XdpTypes
    <3>3. batch + 1 \in Listed /\ rx[batch + 1] \in Frames
      BY <2>0, <3>2, SMTT(30) DEF Listed, XdpTypes
    <3>4. content[rx[batch + 1]] = <<got + 1, got + 1>>
      <4>1. got + (batch + 1) - batch = got + 1
        BY <2>0
      <4>2. QED
        BY <2>0, <3>3, <4>1, SMTT(30) DEF PacketsFollow
    <3>5. got + 1 \in (got + 1)..sent
      <4>1. \A g, n, b \in Nat : b < n => g + 1 \in (g + 1)..(g + n - b)
        OBVIOUS
      <4>2. sent = got + Len(rx) - batch
        BY <2>0 DEF PacketsFollow
      <4>3. QED
        BY <2>0, <3>2, <4>1, <4>2, Zenon
    <3>6. Shown' = [Shown EXCEPT ![h] = <<got + 1, got + 1>>]
      <4>1. Shown' = [Shown EXCEPT ![h] = content[rx[batch + 1]]]
        BY <2>0, <3>1, <3>3, HandShows
      <4>2. QED
        BY <3>4, <4>1, Zenon
    <3>7. Shown[h] = NoBuffer
      BY <3>1 DEF Shown
    <3>8. Promise!Deliver(h)
      BY <3>1, <3>5, <3>6, <3>7, Zenon DEF Promise!Deliver
    <3>9. QED
      BY <3>8 DEF Promise!Next
  <2>4. ASSUME NEW h \in Handles, XdpDestroy(h) PROVE Promise!Next
    BY <2>0, <2>4, DestroyShows DEF XdpDestroy
  <2>5. ASSUME NEW g \in Handles, NEW h \in Handles, XdpMove(g, h)
        PROVE  Promise!Next
    BY <2>0, <2>5, MoveShows DEF XdpMove
  <2>6. QED
    BY <2>1, <2>2, <2>3, <2>4, <2>5 DEF XdpNext, XdpPoll, XdpSleep,
       XdpWouldBlock, xdpVars, bufferVars
<1>3. QED
  BY <1>1, <1>2, XdpInvariant, PTL DEF XdpSpec, ImplementsTransport, Promise!Spec
=============================================================================
