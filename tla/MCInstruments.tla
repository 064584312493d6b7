---------------------------- MODULE MCInstruments ----------------------------
(* What the program measures and reports itself with, one per behaviour:   *)
(* the logger, the histogram, the hardware counters.                       *)
(*                                                                         *)
(* There are more threads than log slots, and a ring that two calls fill.  *)
(* Values reach from below EXACT_LIMIT to beyond VALUE_LIMIT, both ends of *)
(* every bucket among them.  Two updates take the group of counters off    *)
(* the hardware and on again, or restart a counter twice.                  *)
EXTENDS Logger, Histogram, PmuGroup

VARIABLE part

MCValues == 0..(2^RangeBits + 2)

(* The state of a part that is not in use. *)
LoggerUnused ==
  /\ tpc = << >> /\ slot = << >> /\ rec = << >> /\ emitted = << >> /\ tsc = 0
  /\ slotsSoFar = 0 /\ published = {} /\ ring = << >> /\ dropped = << >>
  /\ lpc = "off" /\ final = FALSE /\ nSlots = 0 /\ at = 0 /\ popped = 0
  /\ recs = << >> /\ report = << >> /\ seen = << >> /\ stop = FALSE
  /\ out = << >> /\ failed = {} /\ reported = << >> /\ writeError = FALSE

HistoUnused == histo = [i \in 1..2 |-> [total |-> 0]] /\ recorded = << >>

CountersUnused ==
  /\ mode = "READ" /\ kernel = << >> /\ raw = << >> /\ page = << >>
  /\ happened = << >> /\ span = [at |-> "none"] /\ load = << >>

MCInit ==
  \/ part = "logger" /\ Init /\ HistoUnused /\ CountersUnused
  \/ part = "histogram" /\ HistoInit /\ LoggerUnused /\ CountersUnused
  \/ part = "counters" /\ PmuInit /\ LoggerUnused /\ HistoUnused

MCNext ==
  /\ UNCHANGED part
  /\ \/ part = "logger" /\ Next /\ UNCHANGED <<histoVars, pmuVars>>
     \/ part = "histogram" /\ HistoNext /\ UNCHANGED <<vars, pmuVars>>
     \/ part = "counters" /\ PmuNext /\ UNCHANGED <<vars, histoVars>>

MCSpec == MCInit /\ [][MCNext]_<<part, vars, histoVars, pmuVars>>

Symmetry == Permutations(Threads)
=============================================================================
