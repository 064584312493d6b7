---------------------------- MODULE BuffersProofs ----------------------------
(***************************************************************************)
(* What the steps on handles mean for the promise of Transport, for every  *)
(* source: what a handle shows changes only with what it refers to.        *)
(***************************************************************************)
EXTENDS Buffers, TLAPS

(* Handles refer to pieces of the memory M. *)
HandlesTyped(M) ==
  /\ hold \in [Handles -> M \cup {NoBuffer}]
  /\ NoBuffer \notin M
  /\ DOMAIN content = M

LEMMA HandShows ==
  ASSUME NEW M, HandlesTyped(M), NEW h \in Handles, NEW b \in M,
         Hand(h, b), content' = content
  PROVE  Shown' = [Shown EXCEPT ![h] = content[b]]
  BY Zenon DEF HandlesTyped, Hand, Shown

(* Moving and destroying Buffers are the caller's steps of Transport.      *)
LEMMA MoveShows ==
  ASSUME NEW M, HandlesTyped(M), NEW g \in Handles, NEW h \in Handles,
         MoveBuffer(g, h)
  PROVE  Promise!Next
<1>1. Shown' = [Shown EXCEPT ![g] = Shown[h], ![h] = Shown[g]]
  BY Zenon DEF HandlesTyped, MoveBuffer, Shown
<1>2. Promise!Move(g, h)
  BY <1>1 DEF Promise!Move, MoveBuffer
<1>3. QED
  BY <1>2 DEF Promise!Next

LEMMA DestroyShows ==
  ASSUME NEW M, HandlesTyped(M), NEW h \in Handles, Hand(h, NoBuffer),
         UNCHANGED <<content, sent, got>>
  PROVE  Promise!Next
<1>1. Shown' = [Shown EXCEPT ![h] = NoBuffer]
  BY Zenon DEF HandlesTyped, Hand, Shown
<1>2. Promise!Destroy(h)
  BY <1>1 DEF Promise!Destroy
<1>3. QED
  BY <1>2 DEF Promise!Next

(* Memory that no handle refers to may be written. *)
LEMMA WriteShows ==
  ASSUME NEW M, HandlesTyped(M), NEW b \in M, b \notin Held, NEW v,
         content' = [content EXCEPT ![b] = v], hold' = hold
  PROVE  Shown' = Shown
  BY DEF HandlesTyped, Held, Shown

(* Exchanging handles and emptying one keep them apart; filling one does   *)
(* if nobody has the memory.                                               *)
LEMMA MoveDiffers ==
  ASSUME NEW M, HandlesTyped(M), HandlesDiffer,
         NEW g \in Handles, NEW h \in Handles, MoveBuffer(g, h)
  PROVE  HandlesDiffer' /\ Held' = Held
  BY DEF HandlesTyped, MoveBuffer, HandlesDiffer, Held

LEMMA DestroyDiffers ==
  ASSUME NEW M, HandlesTyped(M), HandlesDiffer, NEW h \in Handles,
         Hand(h, NoBuffer)
  PROVE  HandlesDiffer' /\ Held' = Held \ {hold[h]}
  BY DEF HandlesTyped, Hand, HandlesDiffer, Held

LEMMA HandDiffers ==
  ASSUME NEW M, HandlesTyped(M), HandlesDiffer, NEW h \in Handles,
         CanTake(h), NEW b \in M, b \notin Held, Hand(h, b)
  PROVE  HandlesDiffer' /\ Held' = Held \cup {b}
  BY DEF HandlesTyped, CanTake, Hand, HandlesDiffer, Held
=============================================================================
