------------------------------- MODULE PmuGroup -------------------------------
(***************************************************************************)
(* profiling::PMUGroup: a span reads the group's counters at its start and *)
(* at its end and records the differences.  In mode MMAP each counter is   *)
(* read from user space under the sequence lock of its page, a load at a   *)
(* time, while the kernel may move a counter or take the whole group off   *)
(* the hardware between any two loads.  The kernel runs on the reader's    *)
(* own CPU, so that what it does is one step.                              *)
(***************************************************************************)
EXTENDS Integers

CONSTANTS N,             (* counters of the group, 0 .. N-1                 *)
          Width,         (* pmc_width: bits of a hardware counter           *)
          Left,          (* the kernel starts a counter at -Left            *)
          MaxTicks,      (* bound: units of time that pass                  *)
          MaxUpdates     (* bound: times the kernel rewrites the pages      *)

ASSUME PmuAssumption ==
  /\ N \in Nat \ {0} /\ Width \in Nat \ {0}
  /\ Left \in 1..2^(Width - 1)

Counters == 0..(N - 1)

VARIABLES mode,       (* PMUMode: "READ" or "MMAP"                          *)
          kernel,     (* the clock, the clock of the group, and whether it  *)
                      (* is on the hardware                                 *)
          raw,        (* the hardware counters                              *)
          page,       (* perf_event_mmap_page of each counter               *)
          happened,   (* every event there was, counted or not              *)
          span,       (* the Span: its place, its readings, what happened   *)
                      (* when each of them began and ended                  *)
          load        (* the locals of read_rdpmc                           *)

pmuVars == <<mode, kernel, raw, page, happened, span, load>>

NoEvents == [c \in Counters |-> 0]
NoReading == [counts |-> NoEvents, lost |-> 0, counting |-> TRUE]
NoLoad == [at |-> "none", i |-> 0, seq |-> 0, lost |-> 0, idx |-> 0, count |-> 0]

(* int64_t arithmetic on a counter of Width bits: pmc <<= shift,           *)
(* pmc >>= shift.                                                          *)
SignExtended(pmc) == IF pmc >= 2^(Width - 1) THEN pmc - 2^Width ELSE pmc

PmuInit ==
  /\ mode \in {"READ", "MMAP"}
  /\ kernel = [enabled |-> 0, running |-> 0, on |-> TRUE, updates |-> 0]
  /\ raw = [c \in Counters |-> 2^Width - Left]
  /\ page = [c \in Counters |-> [lock |-> 0, enabled |-> 0, running |-> 0,
                                 index |-> 1, offset |-> Left]]
  /\ happened = NoEvents
  /\ span = [at |-> "idle", start |-> NoReading, end |-> NoReading,
             startFrom |-> NoEvents, startTo |-> NoEvents,
             endFrom |-> NoEvents, endTo |-> NoEvents]
  /\ load = NoLoad

-----------------------------------------------------------------------------
(* The kernel and the hardware.  Time passes with an event of each kind in *)
(* S; an overflowing counter raises an interrupt before it gets far.       *)
PmuTick(S) ==
  /\ kernel.enabled < MaxTicks
  /\ kernel.on => \A c \in S : SignExtended(raw[c]) < 2^(Width - 1) - 1
  /\ kernel' = [kernel EXCEPT !.enabled = @ + 1,
                              !.running = @ + (IF kernel.on THEN 1 ELSE 0)]
  /\ raw' = IF kernel.on
            THEN [c \in Counters |->
                    IF c \in S THEN (raw[c] + 1) % 2^Width ELSE raw[c]]
            ELSE raw
  /\ happened' = [c \in Counters |->
                    happened[c] + (IF c \in S THEN 1 ELSE 0)]
  /\ UNCHANGED <<mode, page, span, load>>

(* What counter c has counted while it was on the hardware.                *)
Counted(c) ==
  page[c].offset + (IF page[c].index = 0 THEN 0 ELSE SignExtended(raw[c]))

(* The kernel rewrites the pages: of one counter, restarted by its         *)
(* interrupt, or of all when the group leaves the hardware or returns to   *)
(* it, perhaps to other counters.                                          *)
PmuUpdate(cs, on) ==
  /\ kernel.updates < MaxUpdates
  /\ on = kernel.on => on /\ \E c \in Counters : cs = {c}
  /\ on # kernel.on => cs = Counters
  /\ kernel' = [kernel EXCEPT !.on = on, !.updates = @ + 1]
  /\ page' = [c \in Counters |->
                IF c \notin cs THEN page[c]
                ELSE [lock |-> page[c].lock + 2,
                      enabled |-> kernel.enabled, running |-> kernel.running,
                      index |-> IF on THEN 1 ELSE 0,
                      offset |-> Counted(c) + (IF on THEN Left ELSE 0)]]
  /\ raw' = [c \in Counters |->
               IF c \in cs THEN IF on THEN 2^Width - Left ELSE 0 ELSE raw[c]]
  /\ UNCHANGED <<mode, happened, span, load>>

-----------------------------------------------------------------------------
(* read(): read_syscall, or read_rdpmc from its first counter on.          *)
ReadBegins == load' = [NoLoad EXCEPT !.at = IF mode = "READ" THEN "syscall" ELSE "seq"]

(* Span(group): the reading of its start begins; ~Span(): that of its end. *)
SpanBegins ==
  /\ span.at = "idle"
  /\ span' = [span EXCEPT !.at = "start", !.startFrom = happened]
  /\ ReadBegins
  /\ UNCHANGED <<mode, kernel, raw, page, happened>>

SpanEnds ==
  /\ span.at = "open"
  /\ span' = [span EXCEPT !.at = "end", !.endFrom = happened]
  /\ ReadBegins
  /\ UNCHANGED <<mode, kernel, raw, page, happened>>

(* record(start, end): the differences, or ++dropped_.                     *)
Recorded(start, end) ==
  start.counting /\ end.counting /\ start.lost = end.lost

(* A reading is complete: the span is open, or it is recorded and over.    *)
ReadEnds(reading) ==
  /\ load' = NoLoad
  /\ span' = IF span.at = "start"
             THEN [span EXCEPT !.at = "open", !.start = reading,
                               !.startTo = happened]
             ELSE [span EXCEPT !.at = IF Recorded(span.start, reading)
                                      THEN "recorded" ELSE "dropped",
                               !.end = reading, !.endTo = happened]

(* read(fds_[0]): one snapshot, or too few bytes.                          *)
ReadSyscall ==
  /\ load.at = "syscall"
  /\ \E full \in BOOLEAN :
       ReadEnds([counts |-> [c \in Counters |-> IF full THEN Counted(c) ELSE 0],
                 lost |-> IF full THEN kernel.enabled - kernel.running ELSE 0,
                 counting |-> full])
  /\ UNCHANGED <<mode, kernel, raw, page, happened>>

-----------------------------------------------------------------------------
(* read_rdpmc, a load at a time.  C++ leaves the order of the two loads of *)
(* the times open; here time_enabled comes first.                          *)
Loads(at, next, locals) ==
  /\ load.at = at
  /\ load' = [locals EXCEPT !.at = next]
  /\ UNCHANGED <<mode, kernel, raw, page, happened, span>>

LoadSeq == Loads("seq", "enabled", [load EXCEPT !.seq = page[load.i].lock])

LoadEnabled ==
  Loads("enabled", "running", [load EXCEPT !.lost = page[load.i].enabled])

LoadRunning ==
  Loads("running", "index", [load EXCEPT !.lost = @ - page[load.i].running])

LoadIndex == Loads("index", "offset", [load EXCEPT !.idx = page[load.i].index])

LoadOffset ==
  Loads("offset", IF load.idx # 0 THEN "pmc" ELSE "check",
        [load EXCEPT !.count = page[load.i].offset])

(* _rdpmc: a counter that is no longer this group's may hold anything.     *)
LoadPmc ==
  \E pmc \in IF page[load.i].lock = load.seq THEN {raw[load.i]}
             ELSE 0..(2^Width - 1) :
    Loads("pmc", "check", [load EXCEPT !.count = @ + SignExtended(pmc)])

(* The counter's share of the reading; the first one's lost time stands    *)
(* for the group.                                                          *)
Partial ==
  IF span.at = "start" THEN span.start ELSE span.end

WithCounter(reading) ==
  [counts |-> [reading.counts EXCEPT ![load.i] = load.count],
   lost |-> IF load.i = 0 THEN load.lost ELSE reading.lost,
   counting |-> reading.counting /\ load.idx # 0]

(* Mutant of Torn: the lock is not looked at again.                        *)
Torn_Never == FALSE

(* The condition of the loop: the page was rewritten during the loads.     *)
Torn == page[load.i].lock # load.seq

LoadAgain ==
  /\ load.at = "check" /\ Torn
  /\ load' = [NoLoad EXCEPT !.at = "seq", !.i = load.i]
  /\ UNCHANGED <<mode, kernel, raw, page, happened, span>>

LoadedOne ==
  /\ load.at = "check" /\ ~Torn /\ load.i < N - 1
  /\ load' = [NoLoad EXCEPT !.at = "seq", !.i = load.i + 1]
  /\ span' = IF span.at = "start"
             THEN [span EXCEPT !.start = WithCounter(Partial)]
             ELSE [span EXCEPT !.end = WithCounter(Partial)]
  /\ UNCHANGED <<mode, kernel, raw, page, happened>>

LoadedAll ==
  /\ load.at = "check" /\ ~Torn /\ load.i = N - 1
  /\ ReadEnds(WithCounter(Partial))
  /\ UNCHANGED <<mode, kernel, raw, page, happened>>

(* One span is followed to its end.                                        *)
Over == span.at \in {"recorded", "dropped"}

PmuNext ==
  \/ SpanBegins \/ SpanEnds \/ ReadSyscall
  \/ LoadSeq \/ LoadEnabled \/ LoadRunning \/ LoadIndex \/ LoadOffset
  \/ LoadPmc \/ LoadAgain \/ LoadedOne \/ LoadedAll
  \/ \E S \in SUBSET Counters : ~Over /\ PmuTick(S)
  \/ \E cs \in SUBSET Counters, on \in BOOLEAN : ~Over /\ PmuUpdate(cs, on)

-----------------------------------------------------------------------------
(* A span that is recorded rather than dropped missed nothing: for every   *)
(* counter it records at least the events between its two readings, and at *)
(* most those from the beginning of the first to the end of the second,    *)
(* although the group may leave the hardware within a reading, and only    *)
(* the first counter's times are compared.                                 *)
SpansAreExact ==
  span.at = "recorded" =>
    \A c \in Counters :
      LET value == span.end.counts[c] - span.start.counts[c]
      IN  /\ span.endFrom[c] - span.startTo[c] <= value
          /\ value <= span.endTo[c] - span.startFrom[c]
=============================================================================
