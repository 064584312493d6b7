----------------------------- MODULE AfXdpSource -----------------------------
(***************************************************************************)
(* AfXDPSource: frames of a memory area go round between the kernel and    *)
(* the program.  The fill ring gives free frames to the kernel, which      *)
(* writes a packet to one and lists it in the receive ring; next() hands   *)
(* it out in a Buffer, and the Buffer's destructor returns it to the fill  *)
(* ring.  Entries of the receive ring are peeked and released in batches,  *)
(* so an entry stays in the ring after its frame has left.                 *)
(*                                                                         *)
(* The kernel takes frames of the fill ring in any order.  A slot of the   *)
(* fill ring is free once the frame in it has been taken.                  *)
(***************************************************************************)
EXTENDS Buffers

CONSTANTS NFrames,   (* N_FRAMES, also the size of the fill ring            *)
          RxSize,    (* entries of the receive ring                         *)
          BatchSize  (* BATCH_SIZE                                          *)

ASSUME XdpAssumption ==
  NFrames \in Nat \ {0} /\ RxSize \in Nat \ {0} /\ BatchSize \in Nat \ {0}

VARIABLES fill,      (* frames in fq_                                       *)
          rx,        (* entries of rx_ not yet released                     *)
          peeked,    (* peeked_rx_                                          *)
          batch,     (* batch_rx_                                           *)
          asleep     (* the kernel found no frame and waits for a wakeup    *)

xdpVars == <<bufferVars, fill, rx, peeked, batch, asleep>>

Frames == 1..NFrames

(* The constructor puts every frame into the fill ring. *)
XdpInit ==
  /\ fill = Frames
  /\ rx = << >> /\ peeked = 0 /\ batch = 0
  /\ asleep = FALSE
  /\ hold = [h \in Handles |-> NoBuffer]
  /\ content = [f \in Frames |-> <<0, 0>>]
  /\ sent = 0 /\ got = 0

-----------------------------------------------------------------------------
(* The kernel: a packet that the filter redirects is written to a frame;   *)
(* without a frame or an entry to list it in it is dropped.                *)
XdpPacket ==
  /\ ~asleep /\ sent < MaxSent /\ Len(rx) < RxSize
  /\ \E f \in fill :
       /\ fill' = fill \ {f}
       /\ rx' = Append(rx, f)
       /\ content' = [content EXCEPT ![f] = <<sent + 1, sent + 1>>]
  /\ sent' = sent + 1
  /\ UNCHANGED <<hold, got, peeked, batch, asleep>>

XdpSleep ==
  /\ fill = {} /\ ~asleep
  /\ asleep' = TRUE
  /\ UNCHANGED <<bufferVars, fill, rx, peeked, batch>>

(* next() with an entry of the batch left. *)
XdpServe(h) ==
  /\ CanTake(h)
  /\ batch < peeked
  /\ Hand(h, rx[batch + 1])
  /\ batch' = batch + 1
  /\ got' = got + 1
  /\ UNCHANGED <<content, sent, fill, rx, peeked, asleep>>

(* next() after the last entry: rearm_batch releases the batch and peeks   *)
(* as many entries as it sees, up to BATCH_SIZE.                           *)
XdpRearm(h) ==
  /\ CanTake(h)
  /\ batch = peeked
  /\ \E n \in 1..(Len(rx) - peeked) : n <= BatchSize /\ peeked' = n
  /\ rx' = SubSeq(rx, peeked + 1, Len(rx))
  /\ Hand(h, rx[peeked + 1])
  /\ batch' = 1
  /\ got' = got + 1
  /\ UNCHANGED <<content, sent, fill, asleep>>

(* Mutant of XdpWouldBlock: needs_wakeup is not looked at. *)
XdpWouldBlock_NoWakeup ==
  /\ batch = peeked /\ Len(rx) = peeked
  /\ rx' = << >> /\ peeked' = 0 /\ batch' = 0
  /\ UNCHANGED <<bufferVars, fill, asleep>>

(* rearm_batch finds nothing: it wakes the kernel if that waits, which     *)
(* goes on if there is a frame by now.                                     *)
XdpWouldBlock ==
  /\ batch = peeked /\ Len(rx) = peeked
  /\ rx' = << >> /\ peeked' = 0 /\ batch' = 0
  /\ asleep' = (asleep /\ fill = {})
  /\ UNCHANGED <<bufferVars, fill>>

(* ~Buffer() *)
XdpDestroy(h) ==
  /\ hold[h] # NoBuffer
  /\ fill' = fill \cup {hold[h]}
  /\ Hand(h, NoBuffer)
  /\ UNCHANGED <<content, sent, got, rx, peeked, batch, asleep>>

XdpMove(g, h) ==
  MoveBuffer(g, h) /\ UNCHANGED <<fill, rx, peeked, batch, asleep>>

XdpPoll == (\E h \in Handles : XdpServe(h) \/ XdpRearm(h)) \/ XdpWouldBlock

XdpNext ==
  \/ XdpPacket \/ XdpSleep \/ XdpPoll
  \/ \E h \in Handles : XdpDestroy(h)
  \/ \E g, h \in Handles : XdpMove(g, h)

XdpSpec == XdpInit /\ [][XdpNext]_xdpVars

-----------------------------------------------------------------------------
(* Entries whose frames have not been handed out. *)
Listed == (batch + 1)..Len(rx)

(* Every frame is in the fill ring, listed in the receive ring or in one   *)
(* Buffer, and in one of these only.                                       *)
FramesInOnePlace ==
  /\ \A i, j \in Listed : rx[i] = rx[j] => i = j
  /\ HandlesDiffer
  /\ \A f \in Frames :
       LET listed == \E i \in Listed : rx[i] = f
       IN  /\ f \in fill => ~listed /\ f \notin Held
           /\ listed => f \notin Held
           /\ f \in fill \/ listed \/ f \in Held

(* The assertion in ~Buffer(): the fill ring has room for the frame. *)
FillHasRoom == Held # {} => Cardinality(fill) < NFrames
=============================================================================
