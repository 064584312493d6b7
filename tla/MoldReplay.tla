----------------------------- MODULE MoldReplay -----------------------------
(***************************************************************************)
(* mold_replay, the exchange's side of a test session: it multicasts the   *)
(* messages of a capture in datagrams, leaving some out on purpose, and    *)
(* between datagrams answers re-requests, which may ask for anything.      *)
(* Then it repeats end-of-session and answers re-requests for a while.     *)
(*                                                                         *)
(* A message is its size in the capture; positions are byte offsets.  The  *)
(* last message of the capture may be cut off.                             *)
(***************************************************************************)
EXTENDS Integers, Sequences
LOCAL INSTANCE FiniteSetsExt

CONSTANTS MsgSizes,      (* sizes of message blocks, their prefix included  *)
          MaxMessages,   (* bound: messages in the capture                  *)
          HeaderSize, MaxDatagram,
          EndCount,      (* END_OF_SESSION, as a message count              *)
          DropEvery, DropBurst,
          MaxRequests    (* bound: re-requests that arrive                  *)

VARIABLES capture,    (* the sizes of the messages                          *)
          cut,        (* the capture ends within the last of them           *)
          seqNum,     (* seq: the next sequence number                      *)
          pos,        (* how far the capture has been sent                  *)
          index,      (* the first number and offset of each datagram       *)
          phase,      (* "send", "serve", "linger" or "done"                *)
          waiting,    (* re-requests waiting at the socket                  *)
          asked,      (* re-requests that have arrived                      *)
          out,        (* what the last step sent                            *)
          answering   (* the range those datagrams must cover               *)

replayVars == <<capture, cut, seqNum, pos, index, phase, waiting, asked, out,
                answering>>

(* Where each message begins, and the last one ends. *)
Offset == LET at[i \in 0..Len(capture)] ==
                IF i = 0 THEN 0 ELSE at[i - 1] + capture[i]
          IN  at

(* The message that begins at p. *)
At(p) == 1 + CHOOSE i \in 0..Len(capture) : Offset[i] = p

(* message_size finds the first n messages from p on whole. *)
Whole(p, n) ==
  At(p) + n - 1 <= Len(capture) - (IF cut THEN 1 ELSE 0)

ReplayInit ==
  /\ \E n \in 1..MaxMessages : capture \in [1..n -> MsgSizes]
  /\ cut \in BOOLEAN
  /\ seqNum = 1 /\ pos = 0 /\ index = << >>
  /\ phase = "send"
  /\ waiting = << >> /\ asked = 0
  /\ out = << >> /\ answering = <<1, 1>>

Sent(seq, b) == [seq |-> seq, count |-> b.count, begin |-> b.begin, end |-> b.end]

-----------------------------------------------------------------------------
(* pack: as many whole messages from p on as fit, at least one, at most    *)
(* max, and fewer than the count that means end of session.                *)
Pack(p, max) ==
  LET end(n) == Offset[At(p) - 1 + n]
      fits == {n \in 1..Min({max, EndCount - 1}) :
                 /\ Whole(p, n)
                 /\ n = 1 \/ HeaderSize + end(n) - p <= MaxDatagram}
      n == IF fits = {} THEN 0 ELSE Max(fits)
  IN  [begin |-> p, end |-> end(n), count |-> n]

(* serve_requests: the replies to a request for remaining messages, of     *)
(* which the first has number seq and begins at p.                         *)
RECURSIVE Resent(_, _, _)
Resent(p, seq, remaining) ==
  LET b == Pack(p, remaining)
  IN  IF remaining = 0 \/ b.count = 0 THEN << >>
      ELSE <<Sent(seq, b)>> \o Resent(b.end, seq + b.count, remaining - b.count)

(* Where message seq begins: the last datagram that begins at or before    *)
(* it, then message by message.                                            *)
Locate(seq) ==
  LET entry == index[Max({i \in 1..Len(index) : index[i].first <= seq})]
  IN  Offset[At(entry.offset) - 1 + (seq - entry.first)]

(* A request that is not ignored. *)
Answerable(r) == r.ours /\ r.seq # 0 /\ r.seq < seqNum

(* Mutant of Clamped: the count is taken as asked. *)
Clamped_AsAsked(r) == r.count

(* The number of messages it gets. *)
Clamped(r) == Min({r.count, seqNum - r.seq})

-----------------------------------------------------------------------------
(* A re-request arrives. *)
ReplayRequest ==
  /\ asked < MaxRequests /\ phase # "done"
  /\ \E ours \in BOOLEAN, seq \in 0..(MaxMessages + 1), n \in 0..MaxMessages :
       waiting' = Append(waiting, [ours |-> ours, seq |-> seq, count |-> n])
  /\ asked' = asked + 1
  /\ UNCHANGED <<capture, cut, seqNum, pos, index, phase, out, answering>>

(* One turn of the main loop, up to serve_requests.  A datagram left out   *)
(* uses its numbers and is indexed all the same.                           *)
ReplaySend ==
  LET b == Pack(pos, MaxMessages)
      drop == DropEvery > 0 /\ (Len(index) + 1) % DropEvery < DropBurst
  IN  /\ phase = "send" /\ b.count > 0
      /\ index' = Append(index, [first |-> seqNum, offset |-> b.begin])
      /\ out' = IF drop THEN << >> ELSE <<Sent(seqNum, b)>>
      /\ answering' = <<seqNum, IF drop THEN seqNum ELSE seqNum + b.count>>
      /\ seqNum' = seqNum + b.count
      /\ pos' = b.end
      /\ phase' = "serve"
      /\ UNCHANGED <<capture, cut, waiting, asked>>

(* serve_requests takes a request, and ignores or answers it. *)
ReplayServe ==
  LET r == Head(waiting)
  IN  /\ phase \in {"serve", "linger"} /\ waiting # << >>
      /\ waiting' = Tail(waiting)
      /\ IF Answerable(r)
           THEN /\ out' = Resent(Locate(r.seq), r.seq, Clamped(r))
                /\ answering' = <<r.seq, Min({r.seq + r.count, seqNum})>>
           ELSE out' = << >> /\ answering' = <<1, 1>>
      /\ UNCHANGED <<capture, cut, seqNum, pos, index, phase, asked>>

ReplayServed ==
  /\ phase = "serve" /\ waiting = << >>
  /\ phase' = "send"
  /\ UNCHANGED <<capture, cut, seqNum, pos, index, waiting, asked, out, answering>>

(* The linger loop's end-of-session, sent and sent again. *)
ReplayEndOfSession ==
  /\ phase = "linger"
  /\ out' = <<[seq |-> seqNum, count |-> EndCount, begin |-> pos, end |-> pos]>>
  /\ answering' = <<seqNum, seqNum>>
  /\ UNCHANGED <<capture, cut, seqNum, pos, index, phase, waiting, asked>>

(* No message is left: the replay lingers, and ends. *)
ReplayEnds ==
  /\ \/ phase = "send" /\ Pack(pos, MaxMessages).count = 0 /\ phase' = "linger"
     \/ phase = "linger" /\ phase' = "done"
  /\ UNCHANGED <<capture, cut, seqNum, pos, index, waiting, asked, out, answering>>

ReplayNext ==
  \/ ReplayRequest \/ ReplaySend \/ ReplayServe \/ ReplayServed
  \/ ReplayEndOfSession \/ ReplayEnds

-----------------------------------------------------------------------------
(* How many messages a receiver expects in d. *)
Announced(d) == IF d.count = EndCount THEN 0 ELSE d.count

(* What a request gets, or the group, are the messages with the numbers    *)
(* the datagrams state, whole, in order and none missing, never one that   *)
(* has not been sent; and a datagram is too large only for one message     *)
(* that is.  Numbers and byte offsets are kept apart in the code, and a    *)
(* re-request may begin in the middle of a datagram, or of one left out.   *)
(* No datagram with messages reads as end-of-session, which has the number *)
(* after the last and comes when every whole message has had its own.      *)
RepliesAsNumbered ==
  /\ \A i \in 1..Len(out) :
       /\ out[i].begin = Offset[out[i].seq - 1]
       /\ out[i].end = Offset[out[i].seq - 1 + Announced(out[i])]
       /\ Announced(out[i]) = 1 \/ HeaderSize + out[i].end - out[i].begin <= MaxDatagram
       /\ out[i].seq = IF i = 1 THEN answering[1]
                       ELSE out[i - 1].seq + Announced(out[i - 1])
  /\ answering[2] <= seqNum
  /\ IF out = << >> THEN answering[2] <= answering[1]
     ELSE out[Len(out)].seq + Announced(out[Len(out)]) = answering[2]
  /\ phase \in {"linger", "done"} =>
       seqNum - 1 = Len(capture) - (IF cut THEN 1 ELSE 0)
=============================================================================
