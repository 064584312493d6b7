------------------------------- MODULE Logger -------------------------------
(***************************************************************************)
(* The asynchronous logger: a thread claims a slot with a ring of its own  *)
(* and stores records in it; the logger thread collects the records of all *)
(* rings, sorts them by time stamp and writes them.  A record that finds   *)
(* its ring full is only counted.  A thread without a ring prints at once. *)
(*                                                                         *)
(* The rings are the bounded FIFOs of BoundedFifo, which SpscQueue         *)
(* implements: until the threads have been joined, a push may be refused   *)
(* and a pop come back empty because of an old copy of an index, and the   *)
(* relaxed loads of slots_so_far and dropped may return old values.        *)
(* A record is a thread, a number and a time stamp.                        *)
(***************************************************************************)
EXTENDS Integers, Sequences, SequencesExt, FiniteSets, TLC

CONSTANTS Threads,
          NSlots,     (* N_SLOTS                                            *)
          RingSize,   (* LOG_RING_SIZE; a ring holds one record less        *)
          NoSlot,     (* log_slot = nullptr                                 *)
          MaxEmits    (* bound: log calls of all threads                    *)

Slots == 0..(NSlots - 1)

VARIABLES tpc, slot,  (* where each thread is, and its log_slot             *)
          rec,        (* the record it is storing                           *)
          emitted,    (* log calls each thread has made                     *)
          tsc         (* the time stamp counter                             *)

VARIABLES slotsSoFar, (* slots_so_far                                       *)
          published,  (* the slots whose ring is stored                     *)
          ring,       (* the records in each ring                           *)
          dropped     (* each slot's dropped                                *)

VARIABLES lpc, final, (* where the logger thread is; it has seen the stop   *)
          nSlots, at, (* the slots it looks at, and the one it is at        *)
          popped,     (* records popped from that slot                      *)
          recs,       (* records collected                                  *)
          report,     (* drops reported in out_buff, by slot                *)
          seen,       (* seen_dropped                                       *)
          stop,       (* the stop token                                     *)
          out,        (* records written, in order                          *)
          failed,     (* records that could not be formatted                *)
          reported,   (* drops written, by slot                             *)
          writeError  (* a write has failed                                 *)

threads == <<tpc, slot, rec, emitted, tsc>>
shared == <<slotsSoFar, published, ring, dropped>>
drain == <<final, nSlots, at, popped, recs, report, seen>>
written == <<out, failed, reported, writeError>>
vars == <<threads, shared, lpc, drain, stop, written>>

Zero == [i \in Slots |-> 0]

Init ==
  /\ tpc = [t \in Threads |-> "new"]
  /\ slot = [t \in Threads |-> NoSlot]
  /\ rec = [t \in Threads |-> <<>>]
  /\ emitted = [t \in Threads |-> 0]
  /\ tsc = 0
  /\ slotsSoFar = 0 /\ published = {}
  /\ ring = [i \in Slots |-> <<>>]
  /\ dropped = Zero
  /\ lpc = "check" /\ final = FALSE
  /\ nSlots = 0 /\ at = 0 /\ popped = 0 /\ recs = <<>>
  /\ report = Zero /\ seen = Zero
  /\ stop = FALSE
  /\ out = <<>> /\ failed = {} /\ reported = Zero /\ writeError = FALSE

-----------------------------------------------------------------------------
(* thread_init() *)
Claim(t) ==
  /\ tpc[t] = "new"
  /\ slotsSoFar' = slotsSoFar + 1
  /\ slot' = [slot EXCEPT ![t] = IF slotsSoFar < NSlots THEN slotsSoFar ELSE NoSlot]
  /\ tpc' = [tpc EXCEPT ![t] = IF slotsSoFar < NSlots THEN "claimed" ELSE "run"]
  /\ UNCHANGED <<rec, emitted, tsc, published, ring, dropped, lpc, drain, stop, written>>

Publish(t) ==
  /\ tpc[t] = "claimed"
  /\ published' = published \cup {slot[t]}
  /\ tpc' = [tpc EXCEPT ![t] = "run"]
  /\ UNCHANGED <<slot, rec, emitted, tsc, slotsSoFar, ring, dropped, lpc, drain, stop, written>>

(* No memory for the ring: the slot stays empty. *)
PublishFails(t) ==
  /\ tpc[t] = "claimed"
  /\ slot' = [slot EXCEPT ![t] = NoSlot]
  /\ tpc' = [tpc EXCEPT ![t] = "run"]
  /\ UNCHANGED <<rec, emitted, tsc, shared, lpc, drain, stop, written>>

-----------------------------------------------------------------------------
(* emit() *)
Call(t) ==
  /\ tpc[t] \in {"new", "run"} /\ SumFunction(emitted) < MaxEmits
  /\ emitted' = [emitted EXCEPT ![t] = @ + 1]

EmitDirect(t) ==
  /\ Call(t) /\ slot[t] = NoSlot
  /\ tsc' = tsc + 1
  /\ out' = Append(out, <<t, emitted'[t], tsc'>>)
  /\ UNCHANGED <<tpc, slot, rec, shared, lpc, drain, stop, failed, reported, writeError>>

(* try_reserve() and the time stamp. *)
Stamp(t) ==
  /\ Call(t) /\ slot[t] # NoSlot
  /\ Len(ring[slot[t]]) < RingSize - 1
  /\ tsc' = tsc + 1
  /\ rec' = [rec EXCEPT ![t] = <<t, emitted'[t], tsc'>>]
  /\ tpc' = [tpc EXCEPT ![t] = "commit"]
  /\ UNCHANGED <<slot, shared, lpc, drain, stop, written>>

Drop(t) ==
  /\ Call(t) /\ slot[t] # NoSlot
  /\ dropped' = [dropped EXCEPT ![slot[t]] = @ + 1]
  /\ UNCHANGED <<tpc, slot, rec, tsc, slotsSoFar, published, ring, lpc, drain, stop, written>>

Commit(t) ==
  /\ tpc[t] = "commit"
  /\ ring' = [ring EXCEPT ![slot[t]] = Append(@, rec[t])]
  /\ rec' = [rec EXCEPT ![t] = <<>>]
  /\ tpc' = [tpc EXCEPT ![t] = "run"]
  /\ UNCHANGED <<slot, emitted, tsc, slotsSoFar, published, dropped, lpc, drain, stop, written>>

(* A thread that could not be pinned ends before thread_init(). *)
Exit(t) ==
  /\ tpc[t] \in {"new", "run"}
  /\ tpc' = [tpc EXCEPT ![t] = "joined"]
  /\ UNCHANGED <<slot, rec, emitted, tsc, shared, lpc, drain, stop, written>>

(* ~jthread() at the end of main(), after the pipeline has been stopped    *)
(* and its threads joined.                                                 *)
RequestStop ==
  /\ ~stop /\ \A t \in Threads : tpc[t] = "joined"
  /\ stop' = TRUE
  /\ UNCHANGED <<threads, shared, lpc, drain, written>>

-----------------------------------------------------------------------------
(* logger_thread() and drain_and_log() *)

(* Mutant of Begin: the thread ends at once when it sees the stop. *)
Begin_NoLast ==
  /\ lpc = "check"
  /\ final' = stop
  /\ nSlots' \in nSlots..(IF slotsSoFar < NSlots THEN slotsSoFar ELSE NSlots)
  /\ at' = 0 /\ popped' = 0 /\ recs' = <<>> /\ report' = Zero
  /\ lpc' = IF stop THEN "done" ELSE "pop"
  /\ UNCHANGED <<threads, shared, seen, stop, written>>

(* Once it sees the stop, it drains a last time. *)
Begin ==
  /\ lpc = "check"
  /\ final' = stop
  /\ LET claimed == IF slotsSoFar < NSlots THEN slotsSoFar ELSE NSlots
     IN  nSlots' \in IF stop THEN {claimed} ELSE nSlots..claimed
  /\ at' = 0 /\ popped' = 0 /\ recs' = <<>> /\ report' = Zero
  /\ lpc' = "pop"
  /\ UNCHANGED <<threads, shared, seen, stop, written>>

(* The slot's ring is not there yet, or not seen yet. *)
SkipSlot ==
  /\ lpc = "pop" /\ at < nSlots /\ popped = 0
  /\ at \notin published \/ ~final
  /\ at' = at + 1
  /\ UNCHANGED <<threads, shared, lpc, final, nSlots, popped, recs, report, seen,
                 stop, written>>

PopRecord ==
  /\ lpc = "pop" /\ at < nSlots /\ at \in published
  /\ popped < RingSize /\ ring[at] # <<>>
  /\ recs' = Append(recs, Head(ring[at]))
  /\ ring' = [ring EXCEPT ![at] = Tail(@)]
  /\ popped' = popped + 1
  /\ UNCHANGED <<threads, slotsSoFar, published, dropped, lpc, final, nSlots, at,
                 report, seen, stop, written>>

PopEnds ==
  /\ lpc = "pop" /\ at < nSlots /\ at \in published
  /\ popped = RingSize \/ ring[at] = <<>> \/ ~final
  /\ lpc' = "drops"
  /\ UNCHANGED <<threads, shared, drain, stop, written>>

ReadDrops ==
  /\ lpc = "drops"
  /\ \E d \in IF final THEN {dropped[at]} ELSE seen[at]..dropped[at] :
       /\ report' = [report EXCEPT ![at] = d - seen[at]]
       /\ seen' = [seen EXCEPT ![at] = d]
  /\ at' = at + 1 /\ popped' = 0
  /\ lpc' = "pop"
  /\ UNCHANGED <<threads, shared, final, nSlots, recs, stop, written>>

(* Mutant of Sorted: the comparison is the wrong way round. *)
Sorted_Descending(s) == SortSeq(s, LAMBDA a, b : a[3] > b[3])

Sorted(s) == SortSeq(s, LAMBDA a, b : a[3] < b[3])

(* Records whose format function throws are counted; an error of write()   *)
(* loses what it has not written, of which the drops are the first lines.  *)
WriteOut ==
  /\ lpc = "pop" /\ at = nSlots
  /\ \E bad \in SUBSET ToSet(recs) :
       LET good == SelectSeq(Sorted(recs), LAMBDA r : r \notin bad)
           drops == [i \in Slots |-> reported[i] + report[i]]
       IN  \/ /\ out' = out \o good
              /\ failed' = failed \cup bad
              /\ reported' = drops
              /\ UNCHANGED writeError
           \/ \E k \in 0..Len(good) :
                /\ recs # <<>> \/ report # Zero
                /\ out' = out \o SubSeq(good, 1, k)
                /\ reported' = IF k = 0 THEN reported ELSE drops
                /\ writeError' = TRUE
                /\ UNCHANGED failed
  /\ recs' = <<>> /\ report' = Zero
  /\ lpc' = IF final THEN "done" ELSE "check"
  /\ UNCHANGED <<threads, shared, final, nSlots, at, popped, seen, stop>>

Next ==
  \/ \E t \in Threads :
       \/ Claim(t) \/ Publish(t) \/ PublishFails(t)
       \/ EmitDirect(t) \/ Stamp(t) \/ Drop(t) \/ Commit(t)
       \/ Exit(t)
  \/ RequestStop
  \/ Begin \/ SkipSlot \/ PopRecord \/ PopEnds \/ ReadDrops \/ WriteOut

Spec == Init /\ [][Next]_vars

-----------------------------------------------------------------------------
Of(t, S) == {r \in S : r[1] = t}

(* When the logger thread has ended, every log call is accounted for: its  *)
(* record was written, reported as failed to format, or is one of the      *)
(* dropped records reported for its slot (unless writing itself failed).   *)
Accounted ==
  lpc = "done" /\ ~writeError =>
    \A t \in Threads :
      Cardinality(Of(t, ToSet(out))) + Cardinality(Of(t, failed))
        + (IF slot[t] = NoSlot THEN 0 ELSE reported[slot[t]]) = emitted[t]

(* The records of one thread are written once and in the order of its log  *)
(* calls, although those of different threads may be out of order: a       *)
(* record stamped early can be committed after a drain has passed its ring.*)
ThreadOrder ==
  \A j \in DOMAIN out : \A i \in 1..(j - 1) :
    out[i][1] = out[j][1] => out[i][2] < out[j][2]

=============================================================================
