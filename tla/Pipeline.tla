------------------------------ MODULE Pipeline ------------------------------
(***************************************************************************)
(* FeedHandler: the main thread starts the feed thread and one book        *)
(* builder per shard behind a start gate, the feed routes every event to   *)
(* the queue of the builder that owns its instrument, and shutdown stops   *)
(* and joins the feed first and the builders after it.                     *)
(*                                                                         *)
(* The queues are the bounded FIFOs of BoundedFifo, which SpscQueue        *)
(* implements: a push may be refused, and a pop come back empty, because   *)
(* of an old copy of the other side's index.  Event number e carries       *)
(* instrument parsed[e].  How datagrams become events is the matter of     *)
(* MoldFeed, what a builder does with an event that of OrderBook.          *)
(***************************************************************************)
EXTENDS Integers, Sequences

CONSTANTS NShards,      (* N_SHARDS                                         *)
          Capacity,     (* items a queue holds: QUEUE_SIZE - 1              *)
          Instruments,  (* instrument numbers                               *)
          MaxEvents,    (* bound: events parsed                             *)
          MaxBatch      (* bound: events per datagram                       *)

ASSUME ShardsAssumption == NShards \in Nat \ {0}
ASSUME CapacityAssumption == Capacity \in Nat \ {0}
ASSUME InstrumentsAssumption == Instruments \subseteq Nat
ASSUME EventsAssumption == MaxEvents \in Nat /\ MaxBatch \in Nat

Shards == 0..(NShards - 1)
Feed == NShards
Threads == Shards \cup {Feed}

VARIABLES mainpc,    (* where the main thread is                            *)
          startOk,   (* start_ok_                                           *)
          sig,       (* SIGINT or SIGTERM was received                      *)
          ready, go, failed,  (* the StartGate's latches and counter        *)
          tpc,       (* where each thread is                                *)
          feedStop,  (* the feed's stop_requested_                          *)
          finished,  (* the feed's finished_                                *)
          stop       (* each builder's stop_                                *)

VARIABLES parsed,    (* the instruments of the events parsed, in order      *)
          cursor,    (* the event the feed is routing, if already parsed    *)
          dropped,   (* events given up in on_event()                       *)
          queue,     (* each shard's queue of events                        *)
          applied,   (* the events each builder has applied, in order       *)
          ordered    (* how many pushes happen before the store of stop_    *)

gate == <<ready, go, failed>>
data == <<parsed, cursor, dropped, queue, applied, ordered>>
vars == <<mainpc, startOk, sig, gate, tpc, feedStop, finished, stop, data>>

Init ==
  /\ mainpc = "spawn" /\ startOk = FALSE /\ sig = FALSE
  /\ ready = NShards + 1 /\ go = 1 /\ failed = 0
  /\ tpc = [t \in Threads |-> "none"]
  /\ feedStop = FALSE /\ finished = FALSE
  /\ stop = [b \in Shards |-> FALSE]
  /\ parsed = <<>> /\ cursor = 1 /\ dropped = {}
  /\ queue = [b \in Shards |-> <<>>]
  /\ applied = [b \in Shards |-> <<>>]
  /\ ordered = [b \in Shards |-> 0]

(* instrument & (N_SHARDS - 1), N_SHARDS a power of two. *)
Shard(e) == parsed[e] % NShards

Pushed(b) == Len(applied[b]) + Len(queue[b])

-----------------------------------------------------------------------------
(* The main thread: init_and_pin_threads(), run_until_done(),              *)
(* stop_and_wait().                                                        *)

(* The feed thread first, then the builders in order. *)
Spawn(t) ==
  /\ mainpc = "spawn"
  /\ tpc[t] = "none"
  /\ t # Feed => tpc[Feed] # "none" /\ \A b \in 0..(t - 1) : tpc[b] # "none"
  /\ tpc' = [tpc EXCEPT ![t] = "pin"]
  /\ mainpc' = IF t = NShards - 1 THEN "ready" ELSE "spawn"
  /\ UNCHANGED <<startOk, sig, gate, feedStop, finished, stop, data>>

(* ThreadConfig::load or std::thread throws. *)
SpawnFails ==
  /\ mainpc = "spawn"
  /\ mainpc' = "abort"
  /\ UNCHANGED <<startOk, sig, gate, tpc, feedStop, finished, stop, data>>

AllReady ==
  /\ mainpc = "ready" /\ ready = 0
  /\ mainpc' = IF failed > 0 THEN "abort" ELSE "open"
  /\ startOk' = (failed = 0)
  /\ UNCHANGED <<sig, gate, tpc, feedStop, finished, stop, data>>

(* Mutant of Abort: the threads are not asked to stop. *)
Abort_NoStop ==
  /\ mainpc = "abort"
  /\ mainpc' = "open"
  /\ UNCHANGED <<startOk, sig, gate, tpc, feedStop, finished, stop, data>>

(* Mutant of Abort: the gate stays closed. *)
Abort_NoOpen ==
  /\ mainpc = "abort"
  /\ feedStop' = TRUE
  /\ stop' = [b \in Shards |-> TRUE]
  /\ mainpc' = "stop"
  /\ UNCHANGED <<startOk, sig, gate, tpc, finished, data>>

(* stop_fn: stop every thread, and only then open the gate. *)
Abort ==
  /\ mainpc = "abort"
  /\ feedStop' = TRUE
  /\ stop' = [b \in Shards |-> TRUE]
  /\ mainpc' = "open"
  /\ UNCHANGED <<startOk, sig, gate, tpc, finished, data>>

Open ==
  /\ mainpc = "open"
  /\ go' = go - 1
  /\ mainpc' = IF startOk THEN "poll" ELSE "stop"
  /\ UNCHANGED <<startOk, sig, ready, failed, tpc, feedStop, finished, stop,
                 data>>

Signal ==
  /\ mainpc = "poll"
  /\ sig' = TRUE
  /\ mainpc' = "stop"
  /\ UNCHANGED <<startOk, gate, tpc, feedStop, finished, stop, data>>

FeedFinished ==
  /\ mainpc = "poll" /\ finished
  /\ mainpc' = "stop"
  /\ UNCHANGED <<startOk, sig, gate, tpc, feedStop, finished, stop, data>>

StopFeed ==
  /\ mainpc = "stop"
  /\ feedStop' = TRUE
  /\ mainpc' = "joinFeed"
  /\ UNCHANGED <<startOk, sig, gate, tpc, finished, stop, data>>

(* Mutant of JoinFeed: the builders are stopped without waiting. *)
JoinFeed_NoWait ==
  /\ mainpc = "joinFeed"
  /\ mainpc' = "stopBuilders"
  /\ UNCHANGED <<startOk, sig, gate, tpc, feedStop, finished, stop, data>>

JoinFeed ==
  /\ mainpc = "joinFeed"
  /\ tpc[Feed] \in {"none", "exited"}
  /\ mainpc' = "stopBuilders"
  /\ UNCHANGED <<startOk, sig, gate, tpc, feedStop, finished, stop, data>>

(* The release store of stop_; what the feed pushed before it was joined   *)
(* happens before it.                                                      *)
StopBuilders ==
  /\ mainpc = "stopBuilders"
  /\ stop' = [b \in Shards |-> TRUE]
  /\ ordered' = [b \in Shards |-> IF stop[b] THEN ordered[b] ELSE Pushed(b)]
  /\ mainpc' = "joinBuilders"
  /\ UNCHANGED <<startOk, sig, gate, tpc, feedStop, finished>>
  /\ UNCHANGED <<parsed, cursor, dropped, queue, applied>>

JoinBuilders ==
  /\ mainpc = "joinBuilders"
  /\ \A b \in Shards : tpc[b] \in {"none", "exited"}
  /\ mainpc' = "done"
  /\ UNCHANGED <<startOk, sig, gate, tpc, feedStop, finished, stop, data>>

-----------------------------------------------------------------------------
(* What the feed and the builders do before their loops. *)

Pin(t) ==
  /\ tpc[t] = "pin"
  /\ tpc' = [tpc EXCEPT ![t] = "pinned"]
  /\ UNCHANGED <<mainpc, startOk, sig, gate, feedStop, finished, stop, data>>

PinFails(t) ==
  /\ tpc[t] = "pin"
  /\ failed' = failed + 1
  /\ tpc' = [tpc EXCEPT ![t] = "failed"]
  /\ UNCHANGED <<mainpc, startOk, sig, ready, go, feedStop, finished, stop,
                 data>>

(* Mutant of CountDown: a thread that failed leaves the latch alone. *)
CountDown_OnlyPinned(t) ==
  /\ tpc[t] = "pinned"
  /\ ready' = ready - 1
  /\ tpc' = [tpc EXCEPT ![t] = "gate"]
  /\ UNCHANGED <<mainpc, startOk, sig, go, failed, feedStop, finished, stop,
                 data>>

CountDown(t) ==
  /\ tpc[t] \in {"pinned", "failed"}
  /\ ready' = ready - 1
  /\ tpc' = [tpc EXCEPT ![t] = IF @ = "pinned" THEN "gate" ELSE "exited"]
  /\ UNCHANGED <<mainpc, startOk, sig, go, failed, feedStop, finished, stop,
                 data>>

PassGate(t) ==
  /\ tpc[t] = "gate" /\ go = 0
  /\ tpc' = [tpc EXCEPT ![t] = "run"]
  /\ UNCHANGED <<mainpc, startOk, sig, gate, feedStop, finished, stop, data>>

-----------------------------------------------------------------------------
(* The feed thread: VenueFeed::run and on_event. *)

Receive(events) ==
  /\ tpc[Feed] = "run" /\ ~feedStop
  /\ Len(parsed) + Len(events) <= MaxEvents
  /\ parsed' = parsed \o events
  /\ tpc' = [tpc EXCEPT ![Feed] = "route"]
  /\ UNCHANGED <<mainpc, startOk, sig, gate, feedStop, finished, stop>>
  /\ UNCHANGED <<cursor, dropped, queue, applied, ordered>>

(* End of session, end of file or an error: stop() by the feed itself. *)
FeedStops ==
  /\ tpc[Feed] = "run" /\ ~feedStop
  /\ feedStop' = TRUE
  /\ UNCHANGED <<mainpc, startOk, sig, gate, tpc, finished, stop, data>>

(* The feed has dealt with the event at the cursor. *)
NextEvent ==
  /\ cursor' = cursor + 1
  /\ tpc' = [tpc EXCEPT ![Feed] =
                IF cursor = Len(parsed) THEN "run" ELSE "route"]

(* Mutant of Push: an event refused once is not tried again. *)
Push_Once ==
  LET b == Shard(cursor)
  IN  /\ tpc[Feed] = "route"
      /\ Len(queue[b]) < Capacity
      /\ queue' = [queue EXCEPT ![b] = Append(@, cursor)]
      /\ NextEvent
      /\ UNCHANGED <<mainpc, startOk, sig, gate, feedStop, finished, stop>>
      /\ UNCHANGED <<parsed, dropped, applied, ordered>>

(* Mutant of Push: the first push succeeds and the loop pushes again. *)
Push_NoReturn ==
  LET b == Shard(cursor)
  IN  /\ tpc[Feed] \in {"route", "full"}
      /\ Len(queue[b]) < Capacity
      /\ queue' = [queue EXCEPT ![b] = Append(@, cursor)]
      /\ IF tpc[Feed] = "full" THEN NextEvent
           ELSE tpc' = [tpc EXCEPT ![Feed] = "full"] /\ UNCHANGED cursor
      /\ UNCHANGED <<mainpc, startOk, sig, gate, feedStop, finished, stop>>
      /\ UNCHANGED <<parsed, dropped, applied, ordered>>

Push ==
  LET b == Shard(cursor)
  IN  /\ tpc[Feed] \in {"route", "full"}
      /\ Len(queue[b]) < Capacity
      /\ queue' = [queue EXCEPT ![b] = Append(@, cursor)]
      /\ NextEvent
      /\ UNCHANGED <<mainpc, startOk, sig, gate, feedStop, finished, stop>>
      /\ UNCHANGED <<parsed, dropped, applied, ordered>>

(* push() returns false: the ring is full, or was when last looked at. *)
Refused ==
  /\ tpc[Feed] = "route"
  /\ Pushed(Shard(cursor)) >= Capacity
  /\ tpc' = [tpc EXCEPT ![Feed] = "full"]
  /\ UNCHANGED <<mainpc, startOk, sig, gate, feedStop, finished, stop, data>>

(* Refused again, and asked to stop. *)
Drop ==
  /\ tpc[Feed] = "full" /\ feedStop
  /\ dropped' = dropped \cup {cursor}
  /\ NextEvent
  /\ UNCHANGED <<mainpc, startOk, sig, gate, feedStop, finished, stop>>
  /\ UNCHANGED <<parsed, queue, applied, ordered>>

FeedExits ==
  /\ tpc[Feed] = "run" /\ feedStop
  /\ finished' = TRUE
  /\ tpc' = [tpc EXCEPT ![Feed] = "exited"]
  /\ UNCHANGED <<mainpc, startOk, sig, gate, feedStop, stop, data>>

-----------------------------------------------------------------------------
(* A builder: BookBuilder::run. *)

Apply(b) ==
  /\ tpc[b] \in {"run", "drain"}
  /\ queue[b] # <<>>
  /\ applied' = [applied EXCEPT ![b] = Append(@, Head(queue[b]))]
  /\ queue' = [queue EXCEPT ![b] = Tail(@)]
  /\ UNCHANGED <<mainpc, startOk, sig, gate, tpc, feedStop, finished, stop>>
  /\ UNCHANGED <<parsed, cursor, dropped, ordered>>

SeesStop(b) ==
  /\ tpc[b] = "run" /\ stop[b]
  /\ tpc' = [tpc EXCEPT ![b] = "drain"]
  /\ UNCHANGED <<mainpc, startOk, sig, gate, feedStop, finished, stop, data>>

(* pop() comes back empty: it has seen at least the pushes that happen     *)
(* before the store of stop_ it has read.                                  *)
BuilderExits(b) ==
  /\ tpc[b] = "drain"
  /\ Len(applied[b]) >= ordered[b]
  /\ tpc' = [tpc EXCEPT ![b] = "exited"]
  /\ UNCHANGED <<mainpc, startOk, sig, gate, feedStop, finished, stop, data>>

-----------------------------------------------------------------------------
Batches == UNION {[1..n -> Instruments] : n \in 1..MaxBatch}

MainThread ==
  \/ \E t \in Threads : Spawn(t)
  \/ AllReady \/ Abort \/ Open
  \/ FeedFinished
  \/ StopFeed \/ JoinFeed \/ StopBuilders \/ JoinBuilders

Startup(t) ==
  \/ Pin(t)
  \/ PinFails(t)
  \/ CountDown(t)
  \/ PassGate(t)

FeedThread ==
  \/ \E events \in Batches : Receive(events)
  \/ FeedStops
  \/ Push \/ Refused \/ Drop
  \/ FeedExits

Builder(b) ==
  \/ Apply(b)
  \/ SeesStop(b)
  \/ BuilderExits(b)

Next ==
  \/ MainThread
  \/ SpawnFails
  \/ Signal
  \/ \E t \in Threads : Startup(t)
  \/ FeedThread
  \/ \E b \in Shards : Builder(b)

Spec == Init /\ [][Next]_vars

(* Every hot thread has a core of its own (ThreadConfig::validate), and    *)
(* all of them poll: each takes its next step.  Input, failures and        *)
(* signals are not due.                                                    *)
Fairness ==
  /\ WF_vars(MainThread)
  /\ \A t \in Threads : WF_vars(Startup(t))
  /\ WF_vars(Push \/ Drop \/ FeedExits)
  /\ \A b \in Shards : WF_vars(Builder(b))

FairSpec == Spec /\ Fairness

-----------------------------------------------------------------------------
(* Properties. *)

Elements(s) == {s[i] : i \in 1..Len(s)}

Increasing(s) == \A i, j \in 1..Len(s) : i < j => s[i] < s[j]

(* The latches are never counted below zero, which would be undefined.     *)
TypeOK ==
  /\ mainpc \in {"spawn", "ready", "abort", "open", "poll", "stop",
                 "joinFeed", "stopBuilders", "joinBuilders", "done"}
  /\ startOk \in BOOLEAN /\ sig \in BOOLEAN
  /\ feedStop \in BOOLEAN /\ finished \in BOOLEAN
  /\ stop \in [Shards -> BOOLEAN]
  /\ ready \in 0..(NShards + 1) /\ go \in 0..1 /\ failed \in 0..(NShards + 1)
  /\ tpc \in [Threads -> {"none", "pin", "pinned", "failed", "gate", "run",
                          "route", "full", "drain", "exited"}]
  /\ parsed \in Seq(Instruments)
  /\ cursor \in 1..(Len(parsed) + 1)
  /\ dropped \subseteq 1..(cursor - 1)
  /\ queue \in [Shards -> Seq(Nat)] /\ applied \in [Shards -> Seq(Nat)]
  /\ ordered \in [Shards -> Nat]

(* Routing: a builder applies exactly the events of its own instruments    *)
(* that the feed has dealt with, each once and in feed order, but for      *)
(* those still queued and those given up.  Back-pressure gives none up:    *)
(* when a ring is full the feed waits, unless the main thread has received *)
(* a signal.                                                               *)
RoutedInOrder ==
  /\ \A b \in Shards :
       LET events == applied[b] \o queue[b]
       IN  /\ Increasing(events)
           /\ Elements(events) =
                {e \in 1..(cursor - 1) : Shard(e) = b /\ e \notin dropped}
  /\ dropped # {} => sig

(* Shutdown loses nothing that was queued: when stop_and_wait() returns,   *)
(* every event pushed has been applied.                                    *)
QueuesDrained ==
  mainpc = "done" => \A b \in Shards : queue[b] = <<>>

(* If a thread cannot be created, pinned or named, in whatever order the   *)
(* threads report it, the pipeline never reads its source.                 *)
FailedStartIsIdle == parsed # <<>> => startOk /\ failed = 0

(* Once the feed is over, a signal has come or startup has failed, the     *)
(* pipeline shuts down, also with the feed waiting on a full queue.        *)
ShutsDown ==
  (sig \/ finished \/ mainpc = "abort") ~> mainpc = "done"

(* A feed stalled on a full queue goes on.                                 *)
StallEnds == tpc[Feed] = "full" ~> tpc[Feed] # "full"

(* Startup is decided: the gate opens on a running pipeline, or all of it  *)
(* is shut down, although threads that failed never wait at the gate.      *)
StartDecided == mainpc = "ready" ~> mainpc \in {"poll", "done"}

=============================================================================
