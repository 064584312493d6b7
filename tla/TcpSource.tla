------------------------------ MODULE TcpSource ------------------------------
(***************************************************************************)
(* TcpSource: at most one receive is in flight in an io_uring, into a      *)
(* buffer of a pool.  next() takes its completion and arms the next one;   *)
(* send() may be called by another thread, and both may find the           *)
(* connection dead and shut it down.  Units are bytes.                     *)
(*                                                                         *)
(* The socket and conn_status_ are all that the two threads share: each    *)
(* access to them is a step, and the rest of a call goes with it.          *)
(***************************************************************************)
EXTENDS Buffers, ObjectPool

CONSTANTS PoolSize,   (* POOL_SIZE                                          *)
          MaxChunk    (* IO_URING_BUF_MAX_SZ                                *)

ASSUME TcpAssumption == PoolSize \in Nat \ {0} /\ MaxChunk \in Nat \ {0}

VARIABLES pool,       (* pool_                                              *)
          armed,      (* recv_armed_                                        *)
          flight,     (* the buffer of the receive in the kernel            *)
          cqe,        (* the completion: its buffer and result              *)
          arrived,    (* bytes that receives have taken from the socket     *)
          shut,       (* whether and by whom the socket was shut down       *)
          connStatus, (* conn_status_                                       *)
          reader,     (* where the receiving thread is                      *)
          failure,    (* the status that its fail_ is about to store        *)
          sender,     (* where the sending thread is                        *)
          ended       (* the receiving thread knows a terminal status       *)

ringVars == <<pool, armed, flight, cqe, arrived>>
connVars == <<shut, connStatus, reader, failure, sender, ended>>
tcpVars == <<bufferVars, ringVars, connVars>>

Entries == 1..PoolSize
NoCqe == [buf |-> NoBuffer, res |-> "none"]

IsTerminal(s) == s \in {"Eof", "Error"}

(* The constructor arms the first receive, or fails to submit it: it does  *)
(* not look at what rearm_recv_ returns.                                   *)
TcpInit ==
  /\ \/ /\ pool = Get(NewPool(PoolSize))
        /\ flight = Top(NewPool(PoolSize)) /\ armed = TRUE
        /\ shut = "no" /\ connStatus = "WouldBlock"
     \/ /\ pool = NewPool(PoolSize)
        /\ flight = NoBuffer /\ armed = FALSE
        /\ shut = "us" /\ connStatus = "Error"
  /\ cqe = NoCqe /\ arrived = 0
  /\ reader = "out" /\ failure = "Error" /\ sender = "out" /\ ended = FALSE
  /\ hold = [h \in Handles |-> NoBuffer]
  /\ content = [b \in Entries |-> <<0, 0>>]
  /\ sent = 0 /\ got = 0

-----------------------------------------------------------------------------
(* The peer sends a byte, or closes the connection. *)
TcpArrive ==
  /\ shut = "no" /\ sent < MaxSent
  /\ sent' = sent + 1
  /\ UNCHANGED <<hold, content, got, ringVars, connVars>>

TcpClose ==
  /\ shut = "no"
  /\ shut' = "peer"
  /\ UNCHANGED <<bufferVars, ringVars, connStatus, reader, failure, sender, ended>>

(* The kernel completes the receive: with bytes, with an error that may    *)
(* pass or one that may not, or at the end of the stream.                  *)
TcpComplete(res) ==
  /\ flight # NoBuffer
  /\ res = "end" => shut = "us" \/ (shut = "peer" /\ arrived = sent)
  /\ cqe' = [buf |-> flight, res |-> res]
  /\ flight' = NoBuffer
  /\ \/ /\ res = "bytes"
        /\ \E last \in (arrived + 1)..sent :
             /\ last <= arrived + MaxChunk
             /\ content' = [content EXCEPT ![flight] = <<arrived + 1, last>>]
             /\ arrived' = last
     \/ res # "bytes" /\ UNCHANGED <<content, arrived>>
  /\ UNCHANGED <<hold, sent, got, pool, armed, connVars>>

-----------------------------------------------------------------------------
(* next() finds a terminal status. *)
NextTerminal ==
  /\ reader = "out" /\ IsTerminal(connStatus)
  /\ ended' = TRUE
  /\ UNCHANGED <<bufferVars, ringVars, shut, connStatus, reader, failure, sender>>

(* Mutant of NextBegins: the status is not looked at. *)
NextBegins_Unchecked ==
  /\ reader = "out"
  /\ reader' = "in"
  /\ UNCHANGED <<bufferVars, ringVars, shut, connStatus, failure, sender, ended>>

NextBegins ==
  /\ reader = "out" /\ ~IsTerminal(connStatus)
  /\ reader' = "in"
  /\ UNCHANGED <<bufferVars, ringVars, shut, connStatus, failure, sender, ended>>

(* rearm_recv_ with the pool as p: it succeeds, finds the pool empty, or   *)
(* fails to submit and shuts the socket down.  The receiving thread goes   *)
(* on at after, through fail_ if it must.  (The submission queue holds at  *)
(* most the one receive, so there is always an entry left in it.)          *)
RearmRecv(p, after) ==
  \/ /\ p # << >>
     /\ flight' = Top(p) /\ pool' = Get(p) /\ armed' = TRUE
     /\ reader' = after
     /\ UNCHANGED <<shut, failure>>
  \/ /\ p = << >>
     /\ pool' = p /\ armed' = FALSE /\ reader' = "out"
     /\ UNCHANGED <<flight, shut, failure>>
  \/ /\ p # << >>
     /\ pool' = p /\ armed' = FALSE /\ reader' = "failing"
     /\ shut' = "us" /\ failure' = "Error"
     /\ UNCHANGED flight

(* next() without a receive in flight.  If it cannot arm one it returns    *)
(* the status, which the sender may have made terminal.                    *)
NextRearms ==
  /\ reader = "in" /\ ~armed
  /\ RearmRecv(pool, "in")
  /\ ended' = (ended \/ (reader' = "out" /\ IsTerminal(connStatus)))
  /\ UNCHANGED <<bufferVars, cqe, arrived, connStatus, sender>>

NextWouldBlock ==
  /\ reader = "in" /\ armed /\ cqe = NoCqe
  /\ reader' = "out"
  /\ UNCHANGED <<bufferVars, ringVars, shut, connStatus, failure, sender, ended>>

(* Mutant of NextTakes: the entry is returned to the pool although the     *)
(* Buffer has it.                                                          *)
NextTakes_RestoresToo(h) ==
  /\ reader = "in" /\ armed /\ cqe.res = "bytes" /\ CanTake(h)
  /\ Hand(h, cqe.buf) /\ got' = content[cqe.buf][2]
  /\ cqe' = NoCqe
  /\ RearmRecv(Restore(pool, cqe.buf), "out")
  /\ UNCHANGED <<content, sent, arrived, connStatus, sender, ended>>

(* next() takes a completion with bytes, and arms the next receive.        *)
NextTakes(h) ==
  /\ reader = "in" /\ armed /\ cqe.res = "bytes" /\ CanTake(h)
  /\ Hand(h, cqe.buf) /\ got' = content[cqe.buf][2]
  /\ cqe' = NoCqe
  /\ RearmRecv(pool, "out")
  /\ UNCHANGED <<content, sent, arrived, connStatus, sender, ended>>

(* EAGAIN or EINTR: next() returns WouldBlock. *)
NextRetries ==
  /\ reader = "in" /\ armed /\ cqe.res = "again"
  /\ pool' = Restore(pool, cqe.buf) /\ cqe' = NoCqe /\ armed' = FALSE
  /\ reader' = "out"
  /\ UNCHANGED <<bufferVars, flight, arrived, shut, connStatus, failure,
                 sender, ended>>

(* An error, or the end of the stream: fail_ shuts the socket down, ...    *)
NextFails ==
  /\ reader = "in" /\ armed /\ cqe.res \in {"error", "end"}
  /\ pool' = Restore(pool, cqe.buf) /\ cqe' = NoCqe /\ armed' = FALSE
  /\ shut' = "us"
  /\ failure' = IF cqe.res = "end" THEN "Eof" ELSE "Error"
  /\ reader' = "failing"
  /\ UNCHANGED <<bufferVars, flight, arrived, connStatus, sender, ended>>

(* ... and stores the status. *)
NextStores ==
  /\ reader = "failing"
  /\ connStatus' = failure
  /\ reader' = "out" /\ ended' = TRUE
  /\ UNCHANGED <<bufferVars, ringVars, shut, failure, sender>>

-----------------------------------------------------------------------------
(* send(): blocking, so that it succeeds or fails; the connection is shut  *)
(* down first and then the status is stored.                               *)
SendBegins ==
  /\ sender = "out" /\ ~IsTerminal(connStatus) /\ reader \notin {"closing", "gone"}
  /\ sender' = "sending"
  /\ UNCHANGED <<bufferVars, ringVars, shut, connStatus, reader, failure, ended>>

SendEnds ==
  /\ sender = "sending"
  /\ \/ sender' = "out" /\ UNCHANGED shut
     \/ sender' = "failing" /\ shut' = "us"
  /\ UNCHANGED <<bufferVars, ringVars, connStatus, reader, failure, ended>>

SendStores ==
  /\ sender = "failing"
  /\ connStatus' = "Error"
  /\ sender' = "out"
  /\ UNCHANGED <<bufferVars, ringVars, shut, reader, failure, ended>>

-----------------------------------------------------------------------------
TcpMove(g, h) == MoveBuffer(g, h) /\ UNCHANGED <<ringVars, connVars>>

(* ~PoolEntry() *)
TcpDestroy(h) ==
  /\ hold[h] # NoBuffer
  /\ pool' = Restore(pool, hold[h])
  /\ Hand(h, NoBuffer)
  /\ UNCHANGED <<content, sent, got, armed, flight, cqe, arrived, connVars>>

(* ~TcpSource(), when no call is under way and no Buffer is left: it waits *)
(* for the receive in flight before the memory goes.                       *)
CloseBegins ==
  /\ reader = "out" /\ sender = "out" /\ Held = {}
  /\ shut' = "us"
  /\ reader' = "closing"
  /\ UNCHANGED <<bufferVars, ringVars, connStatus, failure, sender, ended>>

CloseEnds ==
  /\ reader = "closing" /\ (armed => cqe # NoCqe)
  /\ reader' = "gone"
  /\ UNCHANGED <<bufferVars, ringVars, shut, connStatus, failure, sender, ended>>

TcpPoll ==
  \/ NextTerminal \/ NextBegins \/ NextRearms \/ NextWouldBlock
  \/ \E h \in Handles : NextTakes(h)
  \/ NextRetries \/ NextFails \/ NextStores

TcpResults == {"bytes", "again", "error", "end"}

TcpNext ==
  \/ TcpArrive \/ TcpClose
  \/ \E res \in TcpResults : TcpComplete(res)
  \/ TcpPoll
  \/ SendBegins \/ SendEnds \/ SendStores
  \/ \E h \in Handles : TcpDestroy(h)
  \/ \E g, h \in Handles : TcpMove(g, h)
  \/ CloseBegins \/ CloseEnds

TcpSpec == TcpInit /\ [][TcpNext]_tcpVars

-----------------------------------------------------------------------------
InPool(b) == \E i \in 1..Len(pool) : pool[i] = b

(* Every buffer is in the pool, in the kernel, in the completion queue or  *)
(* in one Buffer, and in one of these only.                                *)
EntriesInOnePlace ==
  /\ \A i, j \in 1..Len(pool) : pool[i] = pool[j] => i = j
  /\ HandlesDiffer
  /\ \A b \in Entries :
       /\ InPool(b) => flight # b /\ cqe.buf # b /\ b \notin Held
       /\ flight = b => cqe.buf # b /\ b \notin Held
       /\ cqe.buf = b => b \notin Held
       /\ InPool(b) \/ flight = b \/ cqe.buf = b \/ b \in Held

(* recv_armed_ says whether a receive is in flight or completed, which     *)
(* the destructor relies on: no buffer is the kernel's when it returns.    *)
ArmedMeansInFlight ==
  /\ armed <=> (flight # NoBuffer \/ cqe # NoCqe)
  /\ flight # NoBuffer => cqe = NoCqe
  /\ reader = "gone" => flight = NoBuffer

(* "the socket never recovers": when the status is terminal the socket is  *)
(* shut down, and once the receiving thread knows nothing is handed out.   *)
FailureIsFinal ==
  /\ IsTerminal(connStatus) => shut = "us"
  /\ ended => IsTerminal(connStatus) /\ reader \notin {"in", "failing"}
=============================================================================
