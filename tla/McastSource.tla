----------------------------- MODULE McastSource -----------------------------
(***************************************************************************)
(* McastUDPSource: recvmmsg fills a batch of datagrams from a pool; next() *)
(* hands them out one by one and receives again when the batch is used up. *)
(* Units are datagrams.                                                    *)
(***************************************************************************)
EXTENDS Buffers, ObjectPool

CONSTANTS VLen,       (* VLEN: datagrams in a batch                         *)
          DgramPool   (* POOL_SIZE                                          *)

ASSUME McastAssumption == VLen \in Nat \ {0} /\ DgramPool \in Nat \ {0}

VARIABLES free,       (* pool_                                              *)
          claimed,    (* batch_ up to msgs_received_                        *)
          lens,       (* the lengths recvmmsg left in msgs_                 *)
          size,       (* sz of each datagram                                *)
          nextMsg     (* next_msg_                                          *)

batchVars == <<free, claimed, lens, size, nextMsg>>
mcastVars == <<bufferVars, batchVars>>

Dgrams == 1..DgramPool

McastInit ==
  /\ free = NewPool(DgramPool)
  /\ claimed = << >> /\ lens = << >> /\ nextMsg = 0
  /\ size = [d \in Dgrams |-> 0]
  /\ hold = [h \in Handles |-> NoBuffer]
  /\ content = [d \in Dgrams |-> <<0, 0>>]
  /\ sent = 0 /\ got = 0

(* A datagram arrives at the socket. *)
McastArrive ==
  /\ sent < MaxSent
  /\ sent' = sent + 1
  /\ UNCHANGED <<hold, content, got, batchVars>>

(* Datagrams taken from the socket. *)
Pulled == got + Len(claimed) - nextMsg

-----------------------------------------------------------------------------
(* refill_ takes up to VLEN datagrams from the top of the pool. *)
Claim == LET k == IF Len(free) < VLen THEN Len(free) ELSE VLen
         IN  [i \in 1..k |-> free[Len(free) + 1 - i]]

(* Mutant of Released: one datagram too many is returned. *)
Released_OneMore(batch, from) ==
  SubSeq(free, 1, Len(free) - Len(batch))
    \o SubSeq(batch, IF from = 0 THEN 1 ELSE from, Len(batch))

(* The pool after refill_ claimed the batch and release_range_(from, k).   *)
Released(batch, from) ==
  SubSeq(free, 1, Len(free) - Len(batch)) \o SubSeq(batch, from + 1, Len(batch))

(* serve_, from the batch b with the lengths l. *)
Serve(h, b, l) ==
  /\ Hand(h, b[nextMsg'])
  /\ size' = [size EXCEPT ![b[nextMsg']] = l[nextMsg']]
  /\ got' = got + 1

(* next() with datagrams of the batch left. *)
McastServe(h) ==
  /\ CanTake(h)
  /\ nextMsg < Len(claimed)
  /\ nextMsg' = nextMsg + 1
  /\ Serve(h, claimed, lens)
  /\ UNCHANGED <<content, sent, free, claimed, lens>>

(* What recvmmsg writes to the first n datagrams of the batch. *)
Filled(batch, n) ==
  [d \in Dgrams |->
     IF \E i \in 1..n : batch[i] = d
       THEN LET u == Pulled + CHOOSE i \in 1..n : batch[i] = d IN <<u, u>>
       ELSE content[d]]

(* next() receives n datagrams into a new batch, returns the rest of it to *)
(* the pool and serves the first.                                          *)
McastReceive(h, n) ==
  LET batch == Claim
  IN  /\ CanTake(h)
      /\ nextMsg = Len(claimed)
      /\ n <= Len(batch) /\ n <= sent - Pulled
      /\ claimed' = SubSeq(batch, 1, n)
      /\ lens' = [i \in 1..n |-> Pulled + i]
      /\ content' = Filled(batch, n)
      /\ free' = Released(batch, n)
      /\ nextMsg' = 1
      /\ Serve(h, batch, lens')
      /\ UNCHANGED sent

(* recvmmsg receives nothing or fails: the whole batch goes back, in       *)
(* another order.  If the pool is empty next() does not get that far.      *)
McastNothing ==
  /\ nextMsg = Len(claimed)
  /\ free' = Released(Claim, 0)
  /\ UNCHANGED <<bufferVars, claimed, lens, size, nextMsg>>

McastMove(g, h) == MoveBuffer(g, h) /\ UNCHANGED batchVars

(* ~Buffer() *)
McastDestroy(h) ==
  /\ hold[h] # NoBuffer
  /\ free' = Restore(free, hold[h])
  /\ size' = [size EXCEPT ![hold[h]] = 0]
  /\ Hand(h, NoBuffer)
  /\ UNCHANGED <<content, sent, got, claimed, lens, nextMsg>>

McastNext ==
  \/ McastArrive
  \/ \E h \in Handles : McastServe(h) \/ McastDestroy(h)
  \/ \E h \in Handles, n \in 1..VLen : McastReceive(h, n)
  \/ McastNothing
  \/ \E g, h \in Handles : McastMove(g, h)

McastSpec == McastInit /\ [][McastNext]_mcastVars

-----------------------------------------------------------------------------
(* Every datagram is in the pool, in the part of the batch not yet served, *)
(* or in one Buffer, and in one of these only; what a Buffer shows has the *)
(* length of what was received into it.                                    *)
DgramsInOnePlace ==
  LET unserved == SubSeq(claimed, nextMsg + 1, Len(claimed))
  IN  /\ HandlesDiffer
      /\ \A d \in Dgrams :
           Cardinality({i \in 1..Len(free) : free[i] = d})
             + Cardinality({i \in 1..Len(unserved) : unserved[i] = d})
             + Cardinality({h \in Handles : hold[h] = d}) = 1
      /\ \A h \in Handles :
           hold[h] # NoBuffer => content[hold[h]] = <<size[hold[h]], size[hold[h]]>>
=============================================================================
