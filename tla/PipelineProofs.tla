--------------------------- MODULE PipelineProofs ---------------------------
(***************************************************************************)
(* Pipeline for every number of shards, every capacity of the queues and   *)
(* every bound: routing, shutdown and failed starts.                       *)
(***************************************************************************)
EXTENDS Pipeline, FiniteSetTheorems, SequenceTheorems, TLAPS

BeforeLatch == {"none", "pin", "pinned", "failed"}
BeforeGate == {"spawn", "ready", "abort", "open"}
BeforeStop == {"spawn", "ready", "abort", "open", "poll", "stop", "joinFeed",
               "stopBuilders"}

Waiting == {t \in Threads : tpc[t] \in BeforeLatch}
Unpinned == {t \in Threads : tpc[t] \in {"none", "pin"}}

(* The types, without the bounds of the latches and of the cursor. *)
ControlTypes ==
  /\ mainpc \in BeforeStop \cup {"joinBuilders", "done"}
  /\ startOk \in BOOLEAN /\ sig \in BOOLEAN
  /\ feedStop \in BOOLEAN /\ finished \in BOOLEAN
  /\ stop \in [Shards -> BOOLEAN]
  /\ ready \in Int /\ go \in Int /\ failed \in Nat
  /\ tpc \in [Threads -> BeforeLatch \cup {"gate", "run", "route", "full",
                                           "drain", "exited"}]

DataTypes ==
  /\ parsed \in Seq(Instruments) /\ cursor \in Nat \ {0}
  /\ dropped \subseteq 1..(cursor - 1)
  /\ queue \in [Shards -> Seq(Nat)] /\ applied \in [Shards -> Seq(Nat)]
  /\ ordered \in [Shards -> Nat]

Types == ControlTypes /\ DataTypes

(* The latch counts the threads that have still to count it down, and      *)
(* failed those that could not be pinned.                                  *)
LatchCounts ==
  /\ ready = Cardinality(Waiting)
  /\ failed + Cardinality(Unpinned) <= NShards + 1

(* How the start was decided.  A thread passes the gate only when it is    *)
(* open; before that it exits only if it failed.                           *)
Decided ==
  /\ go = IF mainpc \in BeforeGate THEN 1 ELSE 0
  /\ mainpc \in {"spawn", "ready", "abort"} => ~startOk
  /\ startOk => failed = 0 /\ Waiting = {}
  /\ ~startOk /\ mainpc \notin {"spawn", "ready", "abort"} => feedStop
  /\ \A t \in Threads :
       /\ tpc[t] \in {"run", "route", "full", "drain"} => go = 0
       /\ tpc[t] = "failed" => failed > 0
       /\ tpc[t] = "exited" => go = 0 \/ failed > 0
  /\ parsed # <<>> => startOk

(* Where the feed is in its input, and why it may be asked to stop.        *)
FeedPlace ==
  /\ cursor <= Len(parsed) + 1
  /\ tpc[Feed] \in {"route", "full"} <=> cursor <= Len(parsed)
  /\ tpc[Feed] # "drain"
  /\ tpc[Feed] \in {"route", "full"} /\ feedStop => sig
  /\ finished => tpc[Feed] = "exited"
  /\ mainpc = "stop" => sig \/ finished \/ ~startOk
  /\ mainpc \in {"stopBuilders", "joinBuilders", "done"}
       => tpc[Feed] \in {"none", "exited"}

(* In a started pipeline stop_ is stored after the feed was joined, and a  *)
(* builder leaves its loop after it, with all of its queue applied.        *)
Ordered ==
  /\ mainpc \in {"spawn", "ready"} => \A b \in Shards : ~stop[b]
  /\ startOk =>
       \A b \in Shards :
         /\ stop[b] <=> mainpc \in {"joinBuilders", "done"}
         /\ stop[b] => ordered[b] = Pushed(b)
         /\ tpc[b] \in {"drain", "exited"} => stop[b]
         /\ tpc[b] = "exited" => Len(applied[b]) >= ordered[b]
  /\ mainpc = "done" => \A b \in Shards : tpc[b] \in {"none", "exited"}

PipelineInv ==
  /\ Types
  /\ LatchCounts
  /\ Decided
  /\ FeedPlace
  /\ Ordered
  /\ RoutedInOrder

-----------------------------------------------------------------------------
(* Shards and threads. *)
LEMMA ThreadFacts ==
  /\ Shards \subseteq Nat /\ Shards \subseteq Threads
  /\ Feed \in Threads /\ Feed \notin Shards
  /\ IsFiniteSet(Threads) /\ Cardinality(Threads) = NShards + 1
<1>1. Threads = 0..NShards
  BY ShardsAssumption DEF Threads, Shards, Feed
<1>2. IsFiniteSet(Threads) /\ Cardinality(Threads) = NShards + 1
  BY <1>1, FS_Interval, ShardsAssumption
<1>3. QED
  BY <1>2, ShardsAssumption DEF Threads, Shards, Feed

(* A batch has at least one event. *)
LEMMA BatchFacts ==
  ASSUME NEW events \in Batches
  PROVE  events \in Seq(Instruments) /\ Len(events) > 0
<1>1. PICK n \in 1..MaxBatch : events \in [1..n -> Instruments]
  BY EventsAssumption DEF Batches
<1>2. QED
  BY <1>1

LEMMA Remainder ==
  ASSUME NEW x \in Nat, NEW n \in Nat \ {0}
  PROVE  x % n \in 0..(n - 1)
  OBVIOUS

(* The event at the cursor belongs to a shard. *)
LEMMA ShardFacts ==
  ASSUME Types, FeedPlace, tpc[Feed] \in {"route", "full"}
  PROVE  Shard(cursor) \in Shards
<1>1. cursor \in 1..Len(parsed)
  BY DEF Types, DataTypes, FeedPlace
<1>2. parsed[cursor] \in Instruments
  BY <1>1, ElementOfSeq DEF Types, DataTypes
<1>3. QED
  BY <1>2, Remainder, InstrumentsAssumption, ShardsAssumption, Zenon
     DEF Shard, Shards

LEMMA TypesInit == Init => Types
<1> SUFFICES ASSUME Init PROVE Types
  OBVIOUS
<1>1. ControlTypes
  <2>1. /\ startOk \in BOOLEAN /\ sig \in BOOLEAN
        /\ feedStop \in BOOLEAN /\ finished \in BOOLEAN
        /\ stop \in [Shards -> BOOLEAN]
    BY Zenon DEF Init
  <2>2. ready \in Int /\ go \in Int /\ failed \in Nat
    BY ShardsAssumption DEF Init
  <2>3. QED
    BY <2>1, <2>2 DEF Init, ControlTypes, BeforeLatch, BeforeStop
<1>2. DataTypes
  BY EmptySeq DEF Init, DataTypes
<1>3. QED
  BY <1>1, <1>2 DEF Types

LEMMA ControlTypesStep == ControlTypes /\ [Next]_vars => ControlTypes'
<1> SUFFICES ASSUME ControlTypes, [Next]_vars PROVE ControlTypes'
  OBVIOUS
<1> USE DEF ControlTypes, BeforeLatch, BeforeStop
<1>1. ASSUME NEW t \in Threads, Spawn(t) PROVE ControlTypes'
  BY <1>1 DEF Spawn, gate
<1>2. CASE AllReady
  <2>1. startOk' \in BOOLEAN
    BY <1>2 DEF AllReady
  <2>2. QED
    BY <1>2, <2>1 DEF AllReady, gate
<1>3. CASE Open
  <2>1. mainpc' \in {"poll", "stop"}
    BY <1>3 DEF Open
  <2>2. QED
    BY <1>3, <2>1 DEF Open
<1>4. CASE Abort \/ SpawnFails \/ Signal
  BY <1>4, Zenon DEF Abort, SpawnFails, Signal, gate
<1>5. CASE FeedFinished \/ StopFeed \/ JoinFeed \/ StopBuilders \/ JoinBuilders
  BY <1>5, Zenon DEF FeedFinished, StopFeed, JoinFeed, StopBuilders,
     JoinBuilders,
     gate
<1>6. ASSUME NEW t \in Threads, Startup(t) PROVE ControlTypes'
  <2>1. CASE Pin(t) \/ PassGate(t)
    BY <2>1 DEF Pin, PassGate, gate
  <2>2. CASE PinFails(t)
    BY <2>2 DEF PinFails
  <2>3. CASE CountDown(t)
    BY <2>3 DEF CountDown
  <2>4. QED
    BY <1>6, <2>1, <2>2, <2>3 DEF Startup
<1>7. CASE FeedThread
  BY <1>7, ThreadFacts, ZenonT(30) DEF FeedThread, Receive, FeedStops, Push,
     Refused,
     Drop, NextEvent, FeedExits, gate
<1>8. ASSUME NEW b \in Shards, Builder(b) PROVE ControlTypes'
  BY <1>8, ThreadFacts, SMTT(30) DEF Builder, Apply, SeesStop, BuilderExits,
     gate
<1>9. CASE UNCHANGED vars
  BY <1>9 DEF vars, gate
<1>10. QED
  BY <1>1, <1>2, <1>3, <1>4, <1>5, <1>6, <1>7, <1>8, <1>9
     DEF Next, MainThread

(* The steps that change the data. *)
LEMMA DataCases ==
  [Next]_vars =>
    \/ UNCHANGED data
    \/ StopBuilders
    \/ \E events \in Batches : Receive(events)
    \/ Push \/ Drop
    \/ \E b \in Shards : Apply(b)
  BY SMTT(30) DEF Next, MainThread, Startup, FeedThread, Builder, Spawn,
     AllReady,
     Abort, Open, FeedFinished, StopFeed, JoinFeed, JoinBuilders, SpawnFails,
     Signal, Pin, PinFails, CountDown, PassGate, FeedStops, Refused, FeedExits,
     SeesStop, BuilderExits, vars

LEMMA DataTypesStep ==
  Types /\ FeedPlace /\ [Next]_vars => DataTypes'
<1> SUFFICES ASSUME Types, FeedPlace, [Next]_vars PROVE DataTypes'
  OBVIOUS
<1>0. DataTypes
  BY DEF Types
<1> USE DEF DataTypes
<1>1. CASE UNCHANGED data
  BY <1>0, <1>1 DEF data
<1>2. CASE StopBuilders
  BY <1>0, <1>2 DEF StopBuilders, Pushed
<1>3. ASSUME NEW events \in Batches, Receive(events) PROVE DataTypes'
  BY <1>0, <1>3, BatchFacts DEF Receive
<1>4. CASE Push
  <2>1. Shard(cursor) \in Shards
    BY <1>4, ShardFacts DEF Push
  <2>2. QED
    BY <1>0, <1>4, <2>1 DEF Push, NextEvent
<1>5. CASE Drop
  BY <1>0, <1>5 DEF Drop, NextEvent
<1>6. ASSUME NEW b \in Shards, Apply(b) PROVE DataTypes'
  BY <1>0, <1>6, SMTT(30) DEF Apply
<1>7. QED
  BY <1>1, <1>2, <1>3, <1>4, <1>5, <1>6, DataCases

-----------------------------------------------------------------------------
(* The start. *)

LEMMA WaitingFacts ==
  /\ IsFiniteSet(Waiting) /\ Cardinality(Waiting) \in Nat
  /\ IsFiniteSet(Unpinned) /\ Cardinality(Unpinned) \in Nat
  /\ Cardinality(Waiting) = 0 <=> Waiting = {}
<1>1. Waiting \subseteq Threads /\ Unpinned \subseteq Threads
  BY DEF Waiting, Unpinned
<1>2. IsFiniteSet(Waiting) /\ IsFiniteSet(Unpinned)
  BY <1>1, ThreadFacts, FS_Subset, Zenon
<1>3. QED
  BY <1>2, FS_CardinalityType, FS_EmptySet

LEMMA LatchInit == Init => LatchCounts
<1> SUFFICES ASSUME Init PROVE LatchCounts
  OBVIOUS
<1>1. Waiting = Threads /\ Unpinned = Threads
  BY DEF Init, Waiting, Unpinned, BeforeLatch
<1>2. QED
  BY <1>1, ThreadFacts, ShardsAssumption DEF Init, LatchCounts

LEMMA LatchStep ==
  ControlTypes /\ LatchCounts /\ [Next]_vars => LatchCounts'
<1> SUFFICES ASSUME ControlTypes, LatchCounts, [Next]_vars PROVE LatchCounts'
  OBVIOUS
<1> USE DEF ControlTypes
<1>1. ASSUME Waiting' = Waiting, Unpinned' = Unpinned, ready' = ready,
             failed' = failed
      PROVE  LatchCounts'
  BY <1>1 DEF LatchCounts
<1>2. ASSUME NEW t \in Threads, Spawn(t) PROVE LatchCounts'
  <2>1. Waiting' = Waiting /\ Unpinned' = Unpinned
    BY <1>2 DEF Spawn, Waiting, Unpinned, BeforeLatch
  <2>2. QED
    BY <1>1, <1>2, <2>1 DEF Spawn, gate
<1>3. ASSUME NEW t \in Threads, Pin(t) PROVE LatchCounts'
  <2>1. /\ Waiting' = Waiting
        /\ Unpinned' = Unpinned \ {t} /\ t \in Unpinned
    BY <1>3 DEF Pin, Waiting, Unpinned, BeforeLatch
  <2>2. Cardinality(Unpinned') = Cardinality(Unpinned) - 1
    BY <2>1, WaitingFacts, FS_RemoveElement, Zenon
  <2>3. QED
    BY <1>3, <2>1, <2>2, WaitingFacts, ShardsAssumption
       DEF Pin, gate, LatchCounts
<1>4. ASSUME NEW t \in Threads, PinFails(t) PROVE LatchCounts'
  <2>1. /\ Waiting' = Waiting
        /\ Unpinned' = Unpinned \ {t} /\ t \in Unpinned
    BY <1>4 DEF PinFails, Waiting, Unpinned, BeforeLatch
  <2>2. Cardinality(Unpinned') = Cardinality(Unpinned) - 1
    BY <2>1, WaitingFacts, FS_RemoveElement, Zenon
  <2>3. QED
    BY <1>4, <2>1, <2>2, WaitingFacts, ShardsAssumption
       DEF PinFails, LatchCounts
<1>5. ASSUME NEW t \in Threads, CountDown(t) PROVE LatchCounts'
  <2>1. /\ Unpinned' = Unpinned
        /\ Waiting' = Waiting \ {t} /\ t \in Waiting
    BY <1>5 DEF CountDown, Waiting, Unpinned, BeforeLatch
  <2>2. Cardinality(Waiting') = Cardinality(Waiting) - 1
    BY <2>1, WaitingFacts, FS_RemoveElement, Zenon
  <2>3. QED
    BY <1>5, <2>1, <2>2 DEF CountDown, LatchCounts
<1>6. ASSUME NEW t \in Threads, PassGate(t) PROVE LatchCounts'
  <2>1. Waiting' = Waiting /\ Unpinned' = Unpinned
    BY <1>6 DEF PassGate, Waiting, Unpinned, BeforeLatch
  <2>2. QED
    BY <1>1, <1>6, <2>1 DEF PassGate, gate
<1>7. CASE FeedThread
  <2>1. Waiting' = Waiting /\ Unpinned' = Unpinned
    BY <1>7, ThreadFacts, Zenon DEF FeedThread, Receive, FeedStops, Push,
       Refused,
       Drop, NextEvent, FeedExits, Waiting, Unpinned, BeforeLatch
  <2>2. QED
    BY <1>1, <1>7, <2>1, SMTT(30) DEF FeedThread, Receive, FeedStops, Push,
       Refused,
       Drop, FeedExits, gate
<1>8. ASSUME NEW b \in Shards, Builder(b) PROVE LatchCounts'
  <2>1. Waiting' = Waiting /\ Unpinned' = Unpinned
    BY <1>8, ThreadFacts, Zenon DEF Builder, Apply, SeesStop, BuilderExits,
       Waiting,
       Unpinned, BeforeLatch
  <2>2. QED
    BY <1>1, <1>8, <2>1, SMTT(30) DEF Builder, Apply, SeesStop, BuilderExits,
       gate
<1>9. CASE UNCHANGED <<tpc, ready, failed>>
  BY <1>1, <1>9 DEF Waiting, Unpinned
<1>10. QED
  BY <1>2, <1>3, <1>4, <1>5, <1>6, <1>7, <1>8, <1>9, SMTT(30) DEF Next,
     MainThread,
     Startup, AllReady, Abort, Open, FeedFinished, StopFeed, JoinFeed,
     StopBuilders, JoinBuilders, SpawnFails, Signal, vars, gate

LEMMA DecidedInit == Init => Decided
  BY ThreadFacts DEF Init, Decided, BeforeGate

LEMMA DecidedStep ==
  Types /\ LatchCounts /\ Decided /\ FeedPlace /\ [Next]_vars => Decided'
<1> SUFFICES ASSUME Types, LatchCounts, Decided, FeedPlace, [Next]_vars
             PROVE  Decided'
  OBVIOUS
<1> USE DEF Types, ControlTypes, Decided, BeforeGate, BeforeStop, BeforeLatch,
        Waiting
<1>1. ASSUME NEW t \in Threads, Spawn(t) PROVE Decided'
  BY <1>1 DEF Spawn, gate, data
<1>2. CASE AllReady
  <2>1. Waiting = {}
    BY <1>2, WaitingFacts DEF AllReady, LatchCounts
  <2>2. CASE failed = 0
    <3>1. startOk'
      BY <1>2, <2>2, Zenon DEF AllReady
    <3>2. mainpc' = "open"
      BY <1>2, <2>2 DEF AllReady
    <3>3. QED
      BY <1>2, <2>1, <2>2, <3>1, <3>2 DEF AllReady, gate, data
  <2>3. CASE failed # 0
    <3>1. ~startOk'
      BY <1>2, <2>3, Zenon DEF AllReady
    <3>2. mainpc' = "abort"
      BY <1>2, <2>3 DEF AllReady
    <3>3. QED
      BY <1>2, <3>1, <3>2 DEF AllReady, gate, data
  <2>4. QED
    BY <2>2, <2>3, SMTT(30)
<1>3. CASE Abort \/ SpawnFails \/ Signal
  BY <1>3, SMTT(30) DEF Abort, SpawnFails, Signal, gate, data
<1>4. CASE Open
  BY <1>4 DEF Open, data
<1>5. CASE FeedFinished \/ StopFeed \/ JoinFeed \/ StopBuilders \/ JoinBuilders
  BY <1>5, SMTT(30) DEF FeedFinished, StopFeed, JoinFeed, StopBuilders,
     JoinBuilders,
     gate, data
<1>6. ASSUME NEW t \in Threads, Pin(t) \/ PassGate(t) PROVE Decided'
  BY <1>6, SMTT(30) DEF Pin, PassGate, gate, data
<1>7. ASSUME NEW t \in Threads, PinFails(t) PROVE Decided'
  BY <1>7 DEF PinFails, data
<1>8. ASSUME NEW t \in Threads, CountDown(t) PROVE Decided'
  BY <1>8 DEF CountDown, data
<1>9. ASSUME NEW events \in Batches, Receive(events) PROVE Decided'
  BY <1>9, ThreadFacts, SMTT(30) DEF Receive, gate
<1>10. CASE FeedStops \/ Push \/ Refused \/ Drop \/ FeedExits
  <2>1. CASE FeedStops
    BY <2>1 DEF FeedStops, gate, data
  <2>2. CASE Push \/ Drop
    <3>1. \E p \in {"run", "route"} : tpc' = [tpc EXCEPT ![Feed] = p]
      BY <2>2, SMTT(30) DEF Push, Drop, NextEvent
    <3>2. tpc[Feed] \in {"route", "full"} /\ Feed \in Threads
      BY <2>2, ThreadFacts, SMTT(30) DEF Push, Drop
    <3>3. UNCHANGED <<mainpc, startOk, go, failed, feedStop, parsed>>
      BY <2>2, SMTT(30) DEF Push, Drop, gate
    <3>4. QED
      BY <3>1, <3>2, <3>3
  <2>3. CASE Refused
    BY <2>3, ThreadFacts, SMTT(30) DEF Refused, gate, data
  <2>4. CASE FeedExits
    BY <2>4, ThreadFacts, SMTT(30) DEF FeedExits, gate, data
  <2>5. QED
    BY <1>10, <2>1, <2>2, <2>3, <2>4, SMTT(30)
<1>11. ASSUME NEW b \in Shards, Builder(b) PROVE Decided'
  <2>0. b \in Threads
    BY ThreadFacts
  <2>1. CASE Apply(b)
    BY <2>1, SMTT(30) DEF Apply, gate
  <2>2. CASE SeesStop(b)
    BY <2>0, <2>2, SMTT(30) DEF SeesStop, gate, data
  <2>3. CASE BuilderExits(b)
    BY <2>0, <2>3, SMTT(30) DEF BuilderExits, gate, data
  <2>4. QED
    BY <1>11, <2>1, <2>2, <2>3, SMTT(30) DEF Builder
<1>12. CASE UNCHANGED vars
  BY <1>12, SMTT(30) DEF vars, gate, data
<1>13. QED
  BY <1>1, <1>2, <1>3, <1>4, <1>5, <1>6, <1>7, <1>8, <1>9, <1>10, <1>11,
     <1>12, Zenon
     DEF Next, MainThread, Startup, FeedThread

LEMMA FeedPlaceInit == Init => FeedPlace
  BY ThreadFacts DEF Init, FeedPlace

LEMMA FeedPlaceStep ==
  Types /\ Decided /\ FeedPlace /\ [Next]_vars => FeedPlace'
<1> SUFFICES ASSUME Types, Decided, FeedPlace, [Next]_vars PROVE FeedPlace'
  OBVIOUS
<1> USE ThreadFacts
    DEF Types, ControlTypes, DataTypes, FeedPlace, BeforeStop, BeforeLatch
<1>1. ASSUME NEW t \in Threads, Spawn(t) PROVE FeedPlace'
  BY <1>1, SMTT(30) DEF Spawn, gate, data
<1>2. CASE AllReady \/ SpawnFails \/ Signal
  BY <1>2, SMTT(30) DEF AllReady, SpawnFails, Signal, gate, data
<1>3. CASE Abort
  BY <1>3, SMTT(30) DEF Abort, gate, data, Decided
<1>4. CASE Open
  BY <1>4, SMTT(30) DEF Open, data
<1>5. CASE FeedFinished \/ JoinFeed \/ StopBuilders \/ JoinBuilders
  BY <1>5, SMTT(30) DEF FeedFinished, JoinFeed, StopBuilders, JoinBuilders,
     gate, data
<1>6. CASE StopFeed
  BY <1>6, SMTT(30) DEF StopFeed, gate, data, Decided
<1>7. ASSUME NEW t \in Threads, Startup(t) PROVE FeedPlace'
  BY <1>7, SMTT(30) DEF Startup, Pin, PinFails, CountDown, PassGate, gate, data
<1>8. ASSUME NEW events \in Batches, Receive(events) PROVE FeedPlace'
  BY <1>8, BatchFacts, SMTT(30) DEF Receive, gate
<1>9. CASE FeedStops \/ Refused \/ FeedExits
  BY <1>9, SMTT(30) DEF FeedStops, Refused, FeedExits, gate, data
<1>10. CASE Push \/ Drop
  BY <1>10, SMTT(30) DEF Push, Drop, NextEvent, gate
<1>11. ASSUME NEW b \in Shards, Builder(b) PROVE FeedPlace'
  <2>1. tpc'[Feed] = tpc[Feed]
    BY <1>11, SMTT(30) DEF Builder, Apply, SeesStop, BuilderExits
  <2>2. QED
    BY <1>11, <2>1, SMTT(30) DEF Builder, Apply, SeesStop, BuilderExits, data
<1>12. CASE UNCHANGED vars
  BY <1>12, SMTT(30) DEF vars, gate, data
<1>13. QED
  BY <1>1, <1>2, <1>3, <1>4, <1>5, <1>6, <1>7, <1>8, <1>9, <1>10, <1>11,
     <1>12, Zenon
     DEF Next, MainThread, FeedThread

-----------------------------------------------------------------------------
(* Routing. *)

(* Appending an event to a queue, and moving the first event of a queue to *)
(* those applied, as seen in the events pushed so far.                     *)
LEMMA AppendPushed ==
  ASSUME NEW s \in Seq(Nat), NEW q \in Seq(Nat), NEW e \in Nat
  PROVE  s \o Append(q, e) = Append(s \o q, e)
  BY SMTT(30)

LEMMA ApplyPushed ==
  ASSUME NEW s \in Seq(Nat), NEW q \in Seq(Nat), q # <<>>
  PROVE  Append(s, Head(q)) \o Tail(q) = s \o q
  BY SMTT(30)

(* Applying the first event of a queue changes the number applied, not the *)
(* number pushed; with all that was pushed applied, nothing is queued.     *)
LEMMA ApplyCounts ==
  ASSUME NEW s \in Seq(Nat), NEW q \in Seq(Nat), q # <<>>
  PROVE  /\ Len(Append(s, Head(q))) + Len(Tail(q)) = Len(s) + Len(q)
         /\ Len(Append(s, Head(q))) >= Len(s)
  OBVIOUS

LEMMA AllApplied ==
  ASSUME NEW s \in Seq(Nat), NEW q \in Seq(Nat), Len(s) >= Len(s) + Len(q)
  PROVE  q = <<>>
  OBVIOUS

LEMMA NothingSent ==
  ASSUME NEW s \in Seq(Nat), NEW q \in Seq(Nat), Elements(s \o q) = {}
  PROVE  q = <<>>
<1> SUFFICES ASSUME q # <<>> PROVE FALSE
  OBVIOUS
<1>1. Len(s) + 1 \in 1..Len(s \o q)
  OBVIOUS
<1>2. QED
  BY <1>1, Zenon DEF Elements

LEMMA AtLeast ==
  ASSUME NEW a \in Nat, NEW b \in Nat, NEW c \in Nat, a >= b, b >= c
  PROVE  a >= c
  OBVIOUS

(* A number larger than the events pushed may follow them. *)
LEMMA AppendLarger ==
  ASSUME NEW s \in Seq(Nat), NEW e \in Nat, Increasing(s),
         \A x \in Elements(s) : x < e
  PROVE  Increasing(Append(s, e)) /\ Elements(Append(s, e)) = Elements(s) \cup {e}
<1>1. Increasing(Append(s, e))
  <2> SUFFICES ASSUME NEW i \in 1..Len(Append(s, e)),
                      NEW j \in 1..Len(Append(s, e)), i < j
               PROVE  Append(s, e)[i] < Append(s, e)[j]
    BY DEF Increasing
  <2>1. i \in 1..Len(s) /\ Append(s, e)[i] = s[i]
    OBVIOUS
  <2>2. CASE j \in 1..Len(s)
    <3>1. Append(s, e)[j] = s[j] /\ s[i] < s[j]
      BY <2>1, <2>2 DEF Increasing
    <3>2. QED
      BY <2>1, <3>1
  <2>3. CASE j = Len(s) + 1
    <3>1. Append(s, e)[j] = e
      BY <2>3
    <3>2. s[i] < e
      BY <2>1 DEF Elements
    <3>3. QED
      BY <2>1, <3>1, <3>2
  <2>4. QED
    BY <2>2, <2>3
<1>2. Elements(Append(s, e)) \subseteq Elements(s) \cup {e}
  BY SMTT(30) DEF Elements
<1>3. Elements(s) \cup {e} \subseteq Elements(Append(s, e))
  <2>1. e \in Elements(Append(s, e))
    <3>1. Append(s, e)[Len(s) + 1] = e /\ Len(s) + 1 \in 1..Len(Append(s, e))
      OBVIOUS
    <3>2. QED
      BY <3>1 DEF Elements
  <2>2. ASSUME NEW x \in Elements(s) PROVE x \in Elements(Append(s, e))
    <3>1. PICK k \in 1..Len(s) : x = s[k]
      BY DEF Elements
    <3>2. Append(s, e)[k] = x /\ k \in 1..Len(Append(s, e))
      BY <3>1
    <3>3. QED
      BY <3>2 DEF Elements
  <2>3. QED
    BY <2>1, <2>2
<1>4. QED
  BY <1>1, <1>2, <1>3

(* What a builder has been sent, and what it should have been sent.        *)
Sent(b) == applied[b] \o queue[b]
Due(b) == {e \in 1..(cursor - 1) : Shard(e) = b /\ e \notin dropped}
RoutedTo(b) == Increasing(Sent(b)) /\ Elements(Sent(b)) = Due(b)

LEMMA RoutedInit == Init => RoutedInOrder
<1> SUFFICES ASSUME Init PROVE RoutedInOrder
  OBVIOUS
<1>1. ASSUME NEW b \in Shards PROVE RoutedTo(b)
  <2>1. Sent(b) = <<>>
    BY DEF Init, Sent
  <2>2. Due(b) = {}
    BY DEF Init, Due
  <2>3. QED
    BY <2>1, <2>2 DEF RoutedTo, Increasing, Elements
<1>2. QED
  BY <1>1 DEF Init, RoutedInOrder, RoutedTo, Sent, Due

LEMMA RoutedStep ==
  Types /\ FeedPlace /\ RoutedInOrder /\ [Next]_vars => RoutedInOrder'
<1> SUFFICES ASSUME Types, FeedPlace, RoutedInOrder, [Next]_vars
             PROVE  RoutedInOrder'
  OBVIOUS
<1>0. DataTypes /\ cursor <= Len(parsed) + 1
  BY DEF Types, FeedPlace
<1>1. \A b \in Shards : RoutedTo(b)
  BY DEF RoutedInOrder, RoutedTo, Sent, Due
<1>2. ASSUME NEW b \in Shards PROVE RoutedTo(b)'
  <2>0. RoutedTo(b)
    BY <1>1
  <2>1. ASSUME Sent(b)' = Sent(b), Due(b)' = Due(b) PROVE RoutedTo(b)'
    BY <2>0, <2>1 DEF RoutedTo
  <2>2. CASE UNCHANGED data \/ StopBuilders
    BY <2>1, <2>2, Zenon DEF data, StopBuilders, Sent, Due, Shard
  <2>3. ASSUME NEW events \in Batches, Receive(events) PROVE RoutedTo(b)'
    <3>1. \A e \in 1..(cursor - 1) : parsed'[e] = parsed[e]
      BY <1>0, <2>3, BatchFacts, SMTT(30) DEF Receive, DataTypes
    <3>2. UNCHANGED <<cursor, dropped, queue, applied>>
      BY <2>3 DEF Receive
    <3>3. Due(b)' = Due(b)
      BY <3>1, <3>2 DEF Due, Shard
    <3>4. QED
      BY <2>1, <3>2, <3>3, SMTT(30) DEF Sent
  <2>4. CASE Push
    <3>1. /\ Shard(cursor) \in Shards /\ cursor \in Nat \ {0}
          /\ cursor' = cursor + 1
          /\ UNCHANGED <<parsed, dropped, applied>>
      BY <1>0, <2>4, ShardFacts DEF Push, NextEvent, DataTypes
    <3>2. dropped \subseteq 1..(cursor - 1)
      BY <1>0 DEF DataTypes
    <3>3. CASE b = Shard(cursor)
      <4>1. Sent(b)' = Append(Sent(b), cursor)
        <5>1. queue'[b] = Append(queue[b], cursor)
          BY <1>0, <2>4, <3>1, <3>3, SMTT(30) DEF Push, DataTypes
        <5>2. applied[b] \in Seq(Nat) /\ queue[b] \in Seq(Nat)
          BY <1>0 DEF DataTypes
        <5>3. applied[b] \o Append(queue[b], cursor) = Append(Sent(b), cursor)
          BY <3>1, <5>2, AppendPushed, Zenon DEF Sent
        <5>4. QED
          BY <3>1, <5>1, <5>3, SMTT(30) DEF Sent
      <4>2. Sent(b) \in Seq(Nat) /\ \A x \in Elements(Sent(b)) : x < cursor
        BY <1>0, <2>0, <3>1, SMTT(30) DEF RoutedTo, Due, Sent, DataTypes
      <4>3. Increasing(Sent(b)') /\ Elements(Sent(b)') = Due(b) \cup {cursor}
        BY <2>0, <3>1, <4>1, <4>2, AppendLarger DEF RoutedTo
      <4>4. Due(b)' = Due(b) \cup {cursor}
        BY <3>1, <3>2, <3>3 DEF Due, Shard
      <4>5. QED
        BY <4>3, <4>4 DEF RoutedTo
    <3>4. CASE b # Shard(cursor)
      <4>1. Due(b)' = Due(b)
        BY <3>1, <3>4 DEF Due, Shard
      <4>2. Sent(b)' = Sent(b)
        BY <1>0, <2>4, <3>4, SMTT(30) DEF Push, Sent, DataTypes
      <4>3. QED
        BY <2>1, <4>1, <4>2
    <3>5. QED
      BY <3>3, <3>4
  <2>5. CASE Drop
    <3>1. /\ cursor' = cursor + 1 /\ dropped' = dropped \cup {cursor}
          /\ cursor \in Nat \ {0}
          /\ UNCHANGED <<parsed, queue, applied>>
      BY <1>0, <2>5 DEF Drop, NextEvent, DataTypes
    <3>2. Due(b)' = Due(b)
      BY <3>1 DEF Due, Shard
    <3>3. QED
      BY <2>1, <3>1, <3>2 DEF Sent
  <2>6. ASSUME NEW c \in Shards, Apply(c) PROVE RoutedTo(b)'
    <3>1. Sent(b)' = Sent(b)
      <4>1. CASE b = c
        BY <1>0, <2>6, <4>1, ApplyPushed, Zenon DEF Apply, Sent, DataTypes
      <4>2. CASE b # c
        BY <1>0, <2>6, <4>2, Zenon DEF Apply, Sent, DataTypes
      <4>3. QED
        BY <4>1, <4>2
    <3>2. QED
      BY <2>1, <2>6, <3>1 DEF Apply, Due, Shard
  <2>7. QED
    BY <2>2, <2>3, <2>4, <2>5, <2>6, DataCases
<1>3. (dropped # {} => sig)'
  <2>1. sig => sig'
    BY Zenon DEF Next, MainThread, Startup, FeedThread, Builder, Spawn,
       AllReady,
       Abort, Open, FeedFinished, StopFeed, JoinFeed, StopBuilders,
       JoinBuilders, SpawnFails, Signal, Pin, PinFails, CountDown, PassGate,
       Receive, Push, Drop, FeedStops, Refused, FeedExits, Apply, SeesStop,
       BuilderExits, vars
  <2>2. CASE Drop
    BY <2>1, <2>2 DEF Drop, FeedPlace
  <2>3. CASE dropped' = dropped
    BY <2>1, <2>3 DEF RoutedInOrder
  <2>4. QED
    BY <2>2, <2>3, DataCases, SMTT(30) DEF data, StopBuilders, Receive, Push,
       Apply
<1>4. QED
  BY <1>2, <1>3 DEF RoutedInOrder, RoutedTo, Sent, Due

-----------------------------------------------------------------------------
(* Shutdown. *)

LEMMA OrderedInit == Init => Ordered
  BY DEF Init, Ordered

LEMMA OrderedStep ==
  Types /\ LatchCounts /\ Decided /\ FeedPlace /\ Ordered /\ [Next]_vars
    => Ordered'
<1> SUFFICES ASSUME Types, LatchCounts, Decided, FeedPlace, Ordered,
                    [Next]_vars
             PROVE  Ordered'
  OBVIOUS
<1> USE ThreadFacts DEF Types, ControlTypes, BeforeStop, BeforeLatch, Ordered,
        Pushed
<1>0. ASSUME UNCHANGED <<startOk, stop, tpc, data>>,
             startOk => mainpc' \in {"joinBuilders", "done"}
                          <=> mainpc \in {"joinBuilders", "done"},
             mainpc' \in {"spawn", "ready"} => mainpc \in {"spawn", "ready"},
             mainpc' = "done" =>
               mainpc = "done" \/ \A b \in Shards : tpc[b] \in {"none", "exited"}
      PROVE  Ordered'
  BY <1>0, Zenon DEF data
<1>1. ASSUME NEW t \in Threads, Spawn(t) PROVE Ordered'
  BY <1>1, Zenon DEF Spawn, gate, data, Decided
<1>2. CASE AllReady
  <2>1. Waiting = {}
    BY <1>2, WaitingFacts, SMTT(30) DEF AllReady, LatchCounts
  <2>2. CASE failed = 0
    <3>1. \A b \in Shards : tpc[b] = "gate" /\ ~stop[b]
      BY <1>2, <2>1, <2>2, SMTT(30) DEF AllReady, Waiting, Decided, BeforeGate
    <3>2. QED
      BY <1>2, <3>1, Zenon DEF AllReady, gate, data
  <2>3. CASE failed # 0
    <3>1. ~startOk'
      BY <1>2, <2>3, Zenon DEF AllReady
    <3>2. QED
      BY <1>2, <3>1, Zenon DEF AllReady, gate, data
  <2>4. QED
    BY <2>2, <2>3, Zenon
<1>3. CASE Abort
  BY <1>3, SMTT(30) DEF Abort, data, Decided
<1>4. CASE SpawnFails \/ Open \/ Signal
  BY <1>0, <1>4, Zenon DEF SpawnFails, Open, Signal
<1>5. CASE FeedFinished \/ StopFeed \/ JoinFeed \/ JoinBuilders
  BY <1>0, <1>5, Zenon DEF FeedFinished, StopFeed, JoinFeed, JoinBuilders
<1>6. CASE StopBuilders
  BY <1>6, Zenon DEF StopBuilders, gate
<1>7. ASSUME NEW t \in Threads, Startup(t) PROVE Ordered'
  <2>1. CASE Pin(t) \/ PinFails(t)
    <3>1. /\ UNCHANGED <<mainpc, startOk, stop, applied, queue, ordered>>
          /\ tpc[t] = "pin"
          /\ \E p \in {"pinned", "failed"} : tpc' = [tpc EXCEPT ![t] = p]
      BY <2>1, Zenon DEF Pin, PinFails, data
    <3>2. QED
      BY <3>1, Zenon
  <2>2. CASE CountDown(t)
    BY <2>2, Zenon DEF CountDown, data, Decided, Waiting
  <2>3. CASE PassGate(t)
    BY <2>3, Zenon DEF PassGate, gate, data
  <2>4. QED
    BY <1>7, <2>1, <2>2, <2>3, Zenon DEF Startup
<1>8. CASE FeedThread
  <2>1. \A b \in Shards : tpc'[b] = tpc[b]
    BY <1>8, Zenon DEF FeedThread, Receive, FeedStops, Push, Refused, Drop,
       NextEvent, FeedExits
  <2>2. mainpc \notin {"stopBuilders", "joinBuilders", "done"}
    BY <1>8, Zenon DEF FeedThread, Receive, FeedStops, Push, Refused, Drop,
       FeedExits, FeedPlace
  <2>3. UNCHANGED <<mainpc, startOk, stop, applied, ordered>>
    BY <1>8, Zenon DEF FeedThread, Receive, FeedStops, Push, Refused, Drop,
       FeedExits, data
  <2>4. QED
    BY <2>1, <2>2, <2>3, Zenon
<1>9. ASSUME NEW c \in Shards, Apply(c) PROVE Ordered'
  <2>1. ASSUME NEW b \in Shards
        PROVE  /\ Pushed(b)' = Pushed(b)
               /\ Len(applied'[b]) >= Len(applied[b])
    <3>1. queue[b] \in Seq(Nat) /\ applied[b] \in Seq(Nat)
      BY SMTT(30) DEF DataTypes
    <3>2. CASE b = c
      <4>1. /\ queue[b] # <<>>
            /\ queue'[b] = Tail(queue[b])
            /\ applied'[b] = Append(applied[b], Head(queue[b]))
        BY <1>9, <3>2, SMTT(30) DEF Apply, DataTypes
      <4>2. QED
        BY <3>1, <4>1, ApplyCounts, ZenonT(30)
    <3>3. CASE b # c
      BY <1>9, <3>1, <3>3, SMTT(30) DEF Apply, DataTypes
    <3>4. QED
      BY <3>2, <3>3, Zenon
  <2>2. \A b \in Shards : /\ ordered[b] \in Nat
                          /\ Len(applied[b]) \in Nat
                          /\ Len(applied'[b]) \in Nat
    <3>1. DataTypes'
      BY DataTypesStep, SMTT(30)
    <3> TAKE b \in Shards
    <3>2. ordered[b] \in Nat /\ applied[b] \in Seq(Nat)
      BY DEF DataTypes
    <3>3. applied'[b] \in Seq(Nat)
      BY <3>1 DEF DataTypes
    <3>4. QED
      BY <3>2, <3>3
  <2>3. UNCHANGED <<mainpc, startOk, stop, tpc, ordered>>
    BY <1>9, SMTT(30) DEF Apply
  <2>4. ASSUME startOk, NEW b \in Shards
        PROVE  /\ stop[b] => ordered[b] = Pushed(b)'
               /\ tpc[b] = "exited" => Len(applied'[b]) >= ordered[b]
    <3>1. /\ stop[b] => ordered[b] = Pushed(b)
          /\ tpc[b] = "exited" => Len(applied[b]) >= ordered[b]
      BY <2>4, Zenon
    <3>2. QED
      BY <2>1, <2>2, <3>1, AtLeast, Zenon
  <2>5. QED
    BY <2>3, <2>4, Zenon
<1>10. ASSUME NEW c \in Shards, SeesStop(c) \/ BuilderExits(c) PROVE Ordered'
  <2>1. CASE SeesStop(c)
    BY <2>1, Zenon DEF SeesStop, data
  <2>2. CASE BuilderExits(c)
    BY <2>2, Zenon DEF BuilderExits, data
  <2>3. QED
    BY <1>10, <2>1, <2>2, Zenon
<1>11. CASE UNCHANGED vars
  BY <1>11, Zenon DEF vars, data
<1>12. QED
  BY <1>1, <1>2, <1>3, <1>4, <1>5, <1>6, <1>7, <1>8, <1>9, <1>10, <1>11, Zenon
     DEF Next, MainThread, Builder

LEMMA InvImpliesDrained == PipelineInv => QueuesDrained
<1> SUFFICES ASSUME PipelineInv, mainpc = "done", NEW b \in Shards
             PROVE  queue[b] = <<>>
  BY DEF QueuesDrained
<1>0. /\ Types /\ Decided /\ FeedPlace /\ Ordered /\ RoutedInOrder
      /\ queue[b] \in Seq(Nat) /\ applied[b] \in Seq(Nat) /\ b \in Threads
  BY ThreadFacts, SMTT(30) DEF PipelineInv, Types, DataTypes
<1>1. CASE startOk
  <2>1. tpc[b] = "exited"
    BY <1>0, <1>1, SMTT(30) DEF Ordered, Decided, Waiting, BeforeLatch
  <2>2. Len(applied[b]) >= Len(applied[b]) + Len(queue[b])
    BY <1>0, <1>1, <2>1, Zenon DEF Ordered, Pushed
  <2>3. QED
    BY <1>0, <2>2, AllApplied, Zenon
<1>2. CASE ~startOk
  <2>1. parsed = <<>>
    BY <1>0, <1>2 DEF Decided
  <2>2. cursor = 1
    BY <1>0, <2>1 DEF FeedPlace, Types, DataTypes
  <2>3. Elements(applied[b] \o queue[b]) = {}
    <3>1. \A e \in 1..(cursor - 1) : FALSE
      BY <2>2
    <3>2. QED
      BY <1>0, <3>1, Zenon DEF RoutedInOrder
  <2>4. QED
    BY <1>0, <2>3, NothingSent, Zenon
<1>3. QED
  BY <1>1, <1>2

-----------------------------------------------------------------------------
(* The theorems. *)

LEMMA PipelineInvariant == Spec => []PipelineInv
<1>1. Init => PipelineInv
  BY TypesInit, LatchInit, DecidedInit, FeedPlaceInit, OrderedInit, RoutedInit
     DEF PipelineInv
<1>2. PipelineInv /\ [Next]_vars => PipelineInv'
  BY ControlTypesStep, DataTypesStep, LatchStep, DecidedStep, FeedPlaceStep,
     OrderedStep, RoutedStep DEF PipelineInv, Types
<1>3. QED
  BY <1>1, <1>2, PTL DEF Spec

(* Types, and the latches of the StartGate: neither is ever counted below  *)
(* zero, which std::latch leaves undefined, whatever fails during start.   *)
THEOREM LatchesStayInRange == Spec => []TypeOK
<1>1. PipelineInv => TypeOK
  <2> SUFFICES ASSUME PipelineInv PROVE TypeOK
    OBVIOUS
  <2>1. ready \in 0..(NShards + 1)
    <3>1. Cardinality(Waiting) <= NShards + 1
      BY ThreadFacts, FS_Subset DEF Waiting
    <3>2. QED
      BY <3>1, WaitingFacts, ShardsAssumption
         DEF PipelineInv, LatchCounts
  <2>2. go \in 0..1
    BY DEF PipelineInv, Decided
  <2>3. failed \in 0..(NShards + 1)
    BY WaitingFacts, ShardsAssumption
       DEF PipelineInv, Types, ControlTypes, LatchCounts
  <2>4. cursor \in 1..(Len(parsed) + 1)
    BY DEF PipelineInv, Types, DataTypes, FeedPlace
  <2>5. QED
    BY <2>1, <2>2, <2>3, <2>4, SMTT(30) DEF PipelineInv, Types, ControlTypes,
       DataTypes,
       TypeOK, BeforeStop, BeforeLatch
<1>2. QED
  BY <1>1, PipelineInvariant, PTL

(* VenueFeed::on_event loses, repeats and reorders nothing that a builder  *)
(* is to apply, and gives an event up only after a signal.                 *)
THEOREM RoutingIsExact == Spec => []RoutedInOrder
<1>1. PipelineInv => RoutedInOrder
  BY DEF PipelineInv
<1>2. QED
  BY <1>1, PipelineInvariant, PTL

(* stop_and_wait() returns with every queue empty. *)
THEOREM ShutdownDrains == Spec => []QueuesDrained
  BY InvImpliesDrained, PipelineInvariant, PTL

(* A start that fails never reads the source. *)
THEOREM FailedStartNeverReads == Spec => []FailedStartIsIdle
<1>1. PipelineInv => FailedStartIsIdle
  BY DEF PipelineInv, Decided, FailedStartIsIdle
<1>2. QED
  BY <1>1, PipelineInvariant, PTL

=============================================================================
