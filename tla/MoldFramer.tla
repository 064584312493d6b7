----------------------------- MODULE MoldFramer -----------------------------
(***************************************************************************)
(* MoldUDP64Framer: checks the sequence numbers of MoldUDP64 datagrams and *)
(* hands the messages of a session to its sink, each once and in order.    *)
(*                                                                         *)
(* A datagram is its header and the messages that are intact in it: a      *)
(* truncated datagram announces more messages (count) than it holds        *)
(* (msgs), and one too short for a header is "short".                      *)
(***************************************************************************)
EXTENDS Naturals, Sequences

CONSTANTS Sessions,        (* session names                                *)
          NoSession,       (* has_session_ = false                         *)
          END_OF_SESSION   (* the message count 0xFFFF                     *)

ASSUME SessionsAssumption == NoSession \notin Sessions
ASSUME EndAssumption == END_OF_SESSION \in Nat

VARIABLES session,    (* last_session_, or NoSession                       *)
          expSeq,     (* exp_seq_: the next sequence number expected       *)
          gapEnd,     (* gap_end_: where the last gap seen ended           *)
          delivered   (* the messages handed to the sink, oldest first     *)

framer == <<session, expSeq, gapEnd, delivered>>

FramerInit ==
  /\ session = NoSession
  /\ expSeq = 1
  /\ gapEnd = 0
  /\ delivered = <<>>

(* Message number n of session s. *)
Message(s, n) == [session |-> s, number |-> n]

(* A datagram of session s whose count messages begin at seq; the first    *)
(* intact ones have not been cut off.                                      *)
Datagram(s, seq, count, intact) ==
  [short |-> FALSE, session |-> s, seq |-> seq, count |-> count,
   msgs |-> [i \in 1..intact |-> Message(s, seq + i - 1)]]

ShortDatagram(s) ==
  [short |-> TRUE, session |-> s, seq |-> 0, count |-> 0, msgs |-> <<>>]

-----------------------------------------------------------------------------
(* feed(d, sink) returns res: one disjunct per return statement.           *)

HeaderMissing(d, res) ==
  /\ d.short
  /\ res = "Malformed"
  /\ UNCHANGED framer

OtherSession(d, res) ==
  /\ ~d.short
  /\ session \notin {NoSession, d.session}
  /\ res = "SessionChanged"
  /\ session' = d.session
  /\ expSeq' = 1
  /\ UNCHANGED <<gapEnd, delivered>>

(* The checks that follow have adopted or recognised the session. *)
InSession(d) ==
  /\ ~d.short
  /\ session \in {NoSession, d.session}
  /\ session' = d.session

SeesGap(d, res) ==
  /\ InSession(d)
  /\ d.seq > expSeq
  /\ res = "Gap"
  /\ gapEnd' = d.seq
  /\ UNCHANGED <<expSeq, delivered>>

(* Mutant of SeesEnd: end-of-session is checked before the gap. *)
SeesEnd_BeforeGap(d, res) ==
  /\ InSession(d)
  /\ d.count = END_OF_SESSION
  /\ res = "EndOfSession"
  /\ UNCHANGED <<expSeq, gapEnd, delivered>>

SeesEnd(d, res) ==
  /\ InSession(d)
  /\ d.seq <= expSeq
  /\ d.count = END_OF_SESSION
  /\ res = "EndOfSession"
  /\ UNCHANGED <<expSeq, gapEnd, delivered>>

NothingNew(d, res) ==
  /\ InSession(d)
  /\ d.count # END_OF_SESSION
  /\ d.seq + d.count <= expSeq
  /\ res = "ok"
  /\ UNCHANGED <<expSeq, gapEnd, delivered>>

(* Mutant of Delivers: messages delivered before are not skipped. *)
Delivers_NoSkip(d, res) ==
  /\ InSession(d)
  /\ d.seq <= expSeq
  /\ d.count # END_OF_SESSION
  /\ d.seq + d.count > expSeq
  /\ delivered' = delivered \o d.msgs
  /\ expSeq' = d.seq + Len(d.msgs)
  /\ res = IF Len(d.msgs) < d.count THEN "Malformed" ELSE "ok"
  /\ UNCHANGED gapEnd

(* The message loop: skip what was delivered before, deliver the rest, and *)
(* stop at the first message that is cut off.                              *)
Delivers(d, res) ==
  LET fresh == SubSeq(d.msgs, expSeq - d.seq + 1, Len(d.msgs))
  IN  /\ InSession(d)
      /\ d.seq <= expSeq
      /\ d.count # END_OF_SESSION
      /\ d.seq + d.count > expSeq
      /\ delivered' = delivered \o fresh
      /\ expSeq' = expSeq + Len(fresh)
      /\ res = IF Len(d.msgs) < d.count THEN "Malformed" ELSE "ok"
      /\ UNCHANGED gapEnd

Feed(d, res) ==
  \/ HeaderMissing(d, res)
  \/ OtherSession(d, res)
  \/ SeesGap(d, res)
  \/ SeesEnd(d, res)
  \/ NothingNew(d, res)
  \/ Delivers(d, res)

Results == {"ok", "Malformed", "SessionChanged", "Gap", "EndOfSession"}

=============================================================================
