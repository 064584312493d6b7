------------------------------ MODULE MoldFeed ------------------------------
(***************************************************************************)
(* The feed thread of the MoldUDP64 pipeline: VenueFeed::run polls the     *)
(* multicast source and feeds the framer; on a gap on_framer_error runs    *)
(* MoldRetransmitRecoverer::recover, which asks the re-request server for  *)
(* the missing messages, and then feeds the datagram again.                *)
(*                                                                         *)
(* Around it: the exchange publishes the messages of a session in          *)
(* datagrams of its choice, and UDP may lose, repeat, reorder or cut any   *)
(* of them, so the feed receives any datagram ever sent, any number of     *)
(* times.  The main thread may ask the feed to stop at any moment.  What   *)
(* the sink does with a message is the matter of Pipeline.                 *)
(***************************************************************************)
EXTENDS MoldFramer

CONSTANTS MaxSeq,         (* bound: messages the session publishes          *)
          MaxBatch,       (* bound: messages per datagram                   *)
          MaxTruncated,   (* bound: datagrams that arrive cut               *)
          MaxForeign,     (* bound: datagrams of another session that come  *)
          MaxAttempts,    (* max_attempts_                                  *)
          MaxPerRequest,  (* max_per_request_                               *)
          MaxRecoveries,  (* MAX_RECOVERIES                                 *)
          Home,           (* the session the exchange publishes             *)
          NoDatagram      (* no datagram is being retried                   *)

ASSUME BoundsAssumption ==
  /\ MaxSeq \in Nat /\ MaxTruncated \in Nat /\ MaxForeign \in Nat
  /\ MaxBatch \in Nat \ {0} /\ MaxBatch < END_OF_SESSION
ASSUME RecovererAssumption ==
  /\ MaxAttempts \in Nat \ {0}
  /\ MaxPerRequest \in Nat \ {0}
  /\ MaxRecoveries \in Nat \ {0, 1}
ASSUME HomeAssumption == Home \in Sessions

VARIABLES nextSeq,    (* the next sequence number the exchange will use     *)
          sent,       (* datagrams <<seq, count>> multicast so far          *)
          ended,      (* the exchange has begun to send end-of-session      *)
          requests,   (* re-requests <<first, count>> sent so far           *)
          truncated,  (* how many datagrams have arrived cut                *)
          foreign     (* how many of another session have arrived           *)

VARIABLES pc,         (* where the feed thread is                           *)
          stopReq,    (* stop_requested_                                    *)
          malformed,  (* malformed_                                         *)
          buf,        (* on_framer_error: the datagram that showed the gap  *)
          rounds,     (* on_framer_error: i                                 *)
          target, attempts, first, count,   (* recover()'s locals           *)
          expired,    (* the deadline of recover() has passed               *)
          why,        (* what ended the feed, or "none"                     *)
          unanswered, (* re-requests sent since a reply last brought news   *)
          cutNews,    (* a reply that arrived cut brought news in recover() *)
          turn        (* flips with every reply taken in a wait, so that a  *)
                      (* repeated reply is a step and not a stutter         *)

network == <<nextSeq, sent, ended, requests, truncated, foreign>>
recovery == <<buf, rounds, target, attempts, first, count, expired,
              unanswered, cutNews, turn>>
thread == <<pc, stopReq, malformed, why>>
vars == <<framer, network, recovery, thread>>

Min(a, b) == IF a <= b THEN a ELSE b

Init ==
  /\ FramerInit
  /\ nextSeq = 1 /\ sent = {} /\ ended = FALSE
  /\ requests = {} /\ truncated = 0 /\ foreign = 0
  /\ pc = "poll" /\ stopReq = FALSE /\ malformed = 0 /\ why = "none"
  /\ buf = NoDatagram /\ rounds = 0
  /\ target = 0 /\ attempts = 0 /\ first = 0 /\ count = 0
  /\ expired = FALSE /\ unanswered = 0
  /\ cutNews = FALSE /\ turn = FALSE

-----------------------------------------------------------------------------
(* The exchange, the re-request server and the network. *)

Publish(n) ==
  /\ ~ended
  /\ nextSeq + n <= MaxSeq + 1
  /\ sent' = sent \cup {<<nextSeq, n>>}
  /\ nextSeq' = nextSeq + n
  /\ UNCHANGED <<framer, recovery, thread, ended, requests, truncated, foreign>>

EndSession ==
  /\ ~ended
  /\ ended' = TRUE
  /\ UNCHANGED <<framer, recovery, thread, nextSeq, sent, requests,
                 truncated, foreign>>

(* What may arrive of a datagram: all of it, or a part cut after some of   *)
(* its messages or inside its header.                                      *)
Copies(seq, n) ==
  {Datagram(Home, seq, n, k) : k \in 0..n} \cup {ShortDatagram(Home)}

(* The first datagram of another session. *)
Foreign == {Datagram(s, 1, 1, 1) : s \in Sessions \ {Home}}

(* The multicast group: what was published; between datagrams, heartbeats, *)
(* which announce no message, or end-of-session, both with the next        *)
(* sequence number.                                                        *)
Multicast ==
  (UNION {Copies(p[1], p[2]) : p \in sent})
    \cup {Datagram(Home, nextSeq, IF ended THEN END_OF_SESSION ELSE 0, 0)}
    \cup Foreign

(* The re-request socket: the server splits the requested range, clamped   *)
(* to what has been sent, into replies of any size; once the session is    *)
(* over it may answer with end-of-session instead.                         *)
RepliesTo(r) ==
  LET end == Min(r[1] + r[2], nextSeq)
  IN  UNION {Copies(p[1], p[2]) :
               p \in {q \in (r[1]..end) \X (1..MaxBatch) : q[1] + q[2] <= end}}

Replies ==
  (UNION {RepliesTo(r) : r \in requests})
    \cup {Datagram(Home, r[1], END_OF_SESSION, 0) :
            r \in {q \in requests : ended}}
    \cup Foreign

(* d comes off a socket; cut and foreign datagrams do so a bounded number  *)
(* of times.                                                               *)
IsCut(d) == d.short \/ (d.count # END_OF_SESSION /\ Len(d.msgs) < d.count)

Arrives(d) ==
  /\ IsCut(d) => truncated < MaxTruncated
  /\ d \in Foreign => foreign < MaxForeign
  /\ truncated' = IF IsCut(d) THEN truncated + 1 ELSE truncated
  /\ foreign' = IF d \in Foreign THEN foreign + 1 ELSE foreign

-----------------------------------------------------------------------------
(* The feed thread. *)

(* stop() called by the feed thread itself, for the reason given. *)
Stop(reason) ==
  /\ stopReq' = TRUE
  /\ why' = reason
  /\ pc' = "poll"

(* on_framer_error's loop body for an error e that is not a gap. *)
HandleError(e) ==
  \/ /\ e = "Malformed"
     /\ malformed' = malformed + 1
     /\ pc' = "poll"
     /\ UNCHANGED <<stopReq, why>>
  \/ /\ e \in {"SessionChanged", "EndOfSession"}
     /\ Stop(e)
     /\ UNCHANGED malformed

(* Mutant of StartRecovery: gap_end() is read before the framer sets it. *)
StartRecovery_StaleTarget(d, i) ==
  /\ pc' = "request"
  /\ buf' = d /\ rounds' = i
  /\ target' = gapEnd /\ attempts' = 0
  /\ expired' = FALSE /\ unanswered' = 0
  /\ cutNews' = FALSE /\ turn' = FALSE
  /\ UNCHANGED <<first, count, stopReq, malformed, why>>

(* Entering recover(): the gap ends where the framer says it does now. *)
StartRecovery(d, i) ==
  /\ pc' = "request"
  /\ buf' = d /\ rounds' = i
  /\ target' = gapEnd' /\ attempts' = 0
  /\ expired' = FALSE /\ unanswered' = 0
  /\ cutNews' = FALSE /\ turn' = FALSE
  /\ UNCHANGED <<first, count, stopReq, malformed, why>>

(* One turn of run()'s loop: next() gives d, then feed() and, on an error, *)
(* on_framer_error().  FeedThread and Recover say where d comes from.      *)
Receive(d, res) ==
  /\ pc = "poll" /\ ~stopReq
  /\ Arrives(d)
  /\ Feed(d, res)
  /\ \/ res = "ok" /\ UNCHANGED <<recovery, thread>>
     \/ res = "Gap" /\ StartRecovery(d, 0)
     \/ HandleError(res) /\ UNCHANGED recovery
  /\ UNCHANGED <<nextSeq, sent, ended, requests>>

SourceFails ==
  /\ pc = "poll" /\ ~stopReq
  /\ Stop("SourceFailed")
  /\ UNCHANGED <<framer, network, recovery, malformed>>

Finish ==
  /\ pc = "poll" /\ stopReq
  /\ pc' = "finished"
  /\ UNCHANGED <<framer, network, recovery, stopReq, malformed, why>>

(* recover() returns an error: on_framer_error stops the feed. *)
Fail(error) ==
  /\ Stop(error)
  /\ UNCHANGED malformed

(* The head of recover()'s outer loop, up to the request it sends.  The    *)
(* loop's test always holds there, which RecoveryClosesGap checks.         *)
GiveUp ==
  /\ pc = "request" /\ expSeq < target
  /\ attempts = MaxAttempts
  /\ Fail("RetriesExhausted")
  /\ UNCHANGED <<framer, network, recovery>>

(* Mutant of Request: the datagram that showed the gap is asked for too. *)
Request_OneMore ==
  LET n == Min(target - expSeq + 1, MaxPerRequest)
  IN  /\ pc = "request" /\ expSeq < target
      /\ attempts < MaxAttempts
      /\ requests' = requests \cup {<<expSeq, n>>}
      /\ first' = expSeq /\ count' = n
      /\ attempts' = attempts + 1
      /\ unanswered' = unanswered + 1 /\ turn' = FALSE
      /\ pc' = "await"
      /\ UNCHANGED <<framer, nextSeq, sent, ended, truncated, foreign>>
      /\ UNCHANGED <<stopReq, malformed, why, buf, rounds, target, expired,
                     cutNews>>

Request ==
  LET n == Min(target - expSeq, MaxPerRequest)
  IN  /\ pc = "request" /\ expSeq < target
      /\ attempts < MaxAttempts
      /\ requests' = requests \cup {<<expSeq, n>>}
      /\ first' = expSeq /\ count' = n
      /\ attempts' = attempts + 1
      /\ unanswered' = unanswered + 1 /\ turn' = FALSE
      /\ pc' = "await"
      /\ UNCHANGED <<framer, nextSeq, sent, ended, truncated, foreign>>
      /\ UNCHANGED <<stopReq, malformed, why, buf, rounds, target, expired,
                     cutNews>>

RequestFails ==
  /\ pc = "request" /\ expSeq < target
  /\ attempts < MaxAttempts
  /\ Fail("TransportError")
  /\ UNCHANGED <<framer, network, recovery>>

(* recover()'s inner loop: the deadline, then what transp_.next() returns. *)
DeadlinePasses ==
  /\ pc \in {"request", "await"} /\ ~expired
  /\ expired' = TRUE
  /\ UNCHANGED <<framer, network, thread, buf, rounds, target, attempts,
                 first, count, unanswered, cutNews, turn>>

TimeOut ==
  /\ pc = "await" /\ expired
  /\ Fail("Timeout")
  /\ UNCHANGED <<framer, network, recovery>>

NoReply ==
  /\ pc = "await" /\ ~expired
  /\ pc' = "request"
  /\ UNCHANGED <<framer, network, recovery, stopReq, malformed, why>>

ReplyFails ==
  /\ pc = "await" /\ ~expired
  /\ Fail("TransportError")
  /\ UNCHANGED <<framer, network, recovery>>

(* Mutant of ReplyAccepted: progress does not reset the counter. *)
ReplyAccepted_NoReset ==
  /\ pc' = IF expSeq' >= target THEN "refeed"
           ELSE IF expSeq' >= first + count THEN "request" ELSE "await"
  /\ UNCHANGED <<attempts, stopReq, malformed, why>>

(* A reply the framer accepts: done, ask for the next part, or wait on. *)
ReplyAccepted ==
  /\ attempts' = IF expSeq' < target /\ expSeq' > expSeq THEN 0 ELSE attempts
  /\ pc' = IF expSeq' >= target THEN "refeed"
           ELSE IF expSeq' >= first + count THEN "request" ELSE "await"
  /\ UNCHANGED <<stopReq, malformed, why>>

(* Mutant of TakeReply: the deadline is checked only when no reply comes. *)
TakeReply_NoDeadline(d, res) ==
  /\ pc = "await"
  /\ Arrives(d)
  /\ Feed(d, res)
  /\ \/ res = "ok" /\ ReplyAccepted
     \/ /\ res = "Gap"
        /\ pc' = "request"
        /\ UNCHANGED <<attempts, stopReq, malformed, why>>
     \/ res = "Malformed" /\ UNCHANGED <<attempts, thread>>
     \/ res = "SessionChanged" /\ Fail("SessionChanged") /\ UNCHANGED attempts
     \/ res = "EndOfSession" /\ Fail("SessionEnded") /\ UNCHANGED attempts
  /\ unanswered' = IF expSeq' > expSeq THEN 0 ELSE unanswered
  /\ cutNews' = (cutNews \/ (res = "Malformed" /\ expSeq' > expSeq))
  /\ turn' = (pc' = "await" /\ ~turn)
  /\ UNCHANGED <<nextSeq, sent, ended, requests>>
  /\ UNCHANGED <<buf, rounds, target, first, count, expired>>

TakeReply(d, res) ==
  /\ pc = "await" /\ ~expired
  /\ Arrives(d)
  /\ Feed(d, res)
  /\ \/ res = "ok" /\ ReplyAccepted
     \/ /\ res = "Gap"
        /\ pc' = "request"
        /\ UNCHANGED <<attempts, stopReq, malformed, why>>
     \/ res = "Malformed" /\ UNCHANGED <<attempts, thread>>
     \/ res = "SessionChanged" /\ Fail("SessionChanged") /\ UNCHANGED attempts
     \/ res = "EndOfSession" /\ Fail("SessionEnded") /\ UNCHANGED attempts
  /\ unanswered' = IF expSeq' > expSeq THEN 0 ELSE unanswered
  /\ cutNews' = (cutNews \/ (res = "Malformed" /\ expSeq' > expSeq))
  /\ turn' = (pc' = "await" /\ ~turn)
  /\ UNCHANGED <<nextSeq, sent, ended, requests>>
  /\ UNCHANGED <<buf, rounds, target, first, count, expired>>

(* recover() succeeded: feed the datagram again; an error goes round       *)
(* on_framer_error's loop, which gives up after MAX_RECOVERIES turns.      *)
Refeed(res) ==
  /\ pc = "refeed"
  /\ Feed(buf, res)
  /\ \/ /\ res = "ok"
        /\ pc' = "poll"
        /\ UNCHANGED <<recovery, stopReq, malformed, why>>
     \/ /\ res # "ok"
        /\ IF rounds + 1 = MaxRecoveries
           THEN Fail("GapStillOpen") /\ UNCHANGED recovery
           ELSE IF res = "Gap" THEN StartRecovery(buf, rounds + 1)
                               ELSE HandleError(res) /\ UNCHANGED recovery
  /\ UNCHANGED network

(* VenueFeed::stop() from the main thread. *)
MainStops ==
  /\ ~stopReq
  /\ stopReq' = TRUE
  /\ UNCHANGED <<framer, network, recovery, pc, malformed, why>>

Recover ==
  \/ GiveUp \/ Request \/ RequestFails
  \/ TimeOut \/ NoReply \/ ReplyFails
  \/ \E d \in Replies, res \in Results : TakeReply(d, res)
  \/ \E res \in Results : Refeed(res)

FeedThread ==
  \/ \E d \in Multicast, res \in Results : Receive(d, res)
  \/ SourceFails
  \/ Finish
  \/ Recover

Exchange ==
  \/ \E n \in 1..MaxBatch : Publish(n)
  \/ EndSession

Next == FeedThread \/ Exchange \/ DeadlinePasses \/ MainStops

Spec == Init /\ [][Next]_vars

(* run() and recover() poll without blocking for good, so the feed thread  *)
(* takes its next step, and the monotonic clock reaches every deadline.    *)
Fairness ==
  /\ WF_vars(Recover)
  /\ WF_vars(Finish)
  /\ WF_vars(DeadlinePasses)

-----------------------------------------------------------------------------
(* Properties. *)

(* Whatever the network loses, repeats, reorders or cuts, and however many *)
(* recoveries interrupt the stream, the sink gets the messages of one      *)
(* session, from the first, each once and in order; until the session      *)
(* changes expected() is the number after the last of them.                *)
InOrderOnce ==
  /\ \A i \in 1..Len(delivered) :
       delivered[i] = Message(delivered[1].session, i)
  /\ why # "SessionChanged" => expSeq = Len(delivered) + 1

(* The feed ends quietly at the end of the session only when it has        *)
(* delivered every message the exchange published.                         *)
EndOfSessionComplete ==
  why = "EndOfSession" =>
    delivered = [i \in 1..(nextSeq - 1) |-> Message(Home, i)]

(* A successful recover() has closed the gap of the datagram fed again:    *)
(* the second and third turn of on_framer_error's loop, and its "Gap still *)
(* open" error, are never needed.  recover() returns from its inner loop   *)
(* as soon as the gap is closed: its outer loop never finds it closed.     *)
RecoveryClosesGap ==
  /\ pc = "request" => expSeq < target
  /\ pc = "refeed" => buf.seq <= expSeq
  /\ why # "GapStillOpen"

(* Every re-request asks for messages the server has: it lies within what  *)
(* the exchange has published, and is not empty.                           *)
RequestsAnswerable ==
  \A r \in requests : r[2] > 0 /\ r[1] + r[2] <= nextSeq

(* recover() reports RetriesExhausted only when max_attempts_ requests in  *)
(* a row brought no new message.  The exception is a reply of this         *)
(* recovery that arrived cut: its leading messages are delivered, but the  *)
(* Malformed branch does not reset the attempts.                           *)
RetriesMeanNoProgress ==
  why = "RetriesExhausted" => unanswered >= MaxAttempts \/ cutNews

(* The same without the exception, as src/feed/recovery.hpp has it:        *)
(* "MAX_ATTEMPTS requests in a row with no progress".                      *)
RetriesInARow ==
  why = "RetriesExhausted" => unanswered >= MaxAttempts

(* Every recovery ends, with the gap closed or with an error, although     *)
(* duplicates and cut replies can keep recover()'s inner loop busy.        *)
RecoveryEnds ==
  pc \in {"request", "await", "refeed"} ~> pc \in {"poll", "finished"}

(* A stop request ends the feed thread, although recover() does not look   *)
(* at stop_requested_.                                                     *)
StopEndsFeed == stopReq ~> pc = "finished"

=============================================================================
