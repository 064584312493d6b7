------------------------- MODULE LinearProbingTable -------------------------
(***************************************************************************)
(* LinearProbingTable: open addressing with linear probing in a            *)
(* power-of-two number of slots.  A key's slot comes from the top bits of  *)
(* its hash; the hash is any function of the keys.  Entries are keys: the  *)
(* value of a key moves with it.  Both erase modes are modelled, the       *)
(* backward shift the books use and tombstones.  Slots count from 0.       *)
(***************************************************************************)
EXTENDS Integers, FiniteSets, FiniteSetsExt

CONSTANTS Keys,
          Capacity,    (* the capacity a table is constructed with          *)
          MaxSlots,    (* bound: slots after all rehashing; also the range  *)
                       (* of the hash                                       *)
          Empty, Deleted

ASSUME TableAssumption ==
  /\ Capacity \in Nat \ {0} /\ MaxSlots \in Nat
  /\ 2 * Capacity <= MaxSlots
  /\ Empty \notin Keys /\ Deleted \notin Keys /\ Empty # Deleted

VARIABLES mode,    (* EraseMode                                             *)
          hash,    (* the hash of each key                                  *)
          slots,   (* data_                                                 *)
          size,    (* size_                                                 *)
          held     (* the keys that should be in the table                  *)

vars == <<mode, hash, slots, size, held>>

NumSlots(tab) == Cardinality(DOMAIN tab)

(* The constructor: capacity << 1 empty slots. *)
NewTable(capacity) == [s \in 0..(2 * capacity - 1) |-> Empty]

(* hash(key) >> shift_ *)
GetPos(tab, k) == (hash[k] * NumSlots(tab)) \div MaxSlots

(* The slot i steps on from the key's own. *)
Probe(tab, k, i) == (GetPos(tab, k) + i) % NumSlots(tab)

Init ==
  /\ mode \in {"BackwardShift", "Tombstone"}
  /\ hash \in [Keys -> 0..(MaxSlots - 1)]
  /\ slots = NewTable(Capacity)
  /\ size = 0
  /\ held = {}

-----------------------------------------------------------------------------
(* How far a search for k goes: to the first slot that is empty or holds   *)
(* k, past tombstones; the number of slots if there is none.               *)
SearchEnd(tab, k) ==
  LET ends == {i \in DOMAIN tab : tab[Probe(tab, k, i)] \in {Empty, k}}
  IN  IF ends = {} THEN NumSlots(tab) ELSE Min(ends)

(* find_key finds k, and where. *)
Found(tab, k) ==
  LET i == SearchEnd(tab, k)
  IN  i < NumSlots(tab) /\ tab[Probe(tab, k, i)] = k

FindKey(tab, k) == Probe(tab, k, SearchEnd(tab, k))

(* The places insert can use: the tombstones on the way and the empty slot *)
(* at the end.                                                             *)
Room(tab, k) ==
  {i \in 0..SearchEnd(tab, k) :
     i < NumSlots(tab) /\ tab[Probe(tab, k, i)] \in {Empty, Deleted}}

CanInsert(tab, k) == ~Found(tab, k) /\ Room(tab, k) # {}

InsertKey(tab, k) == [tab EXCEPT ![Probe(tab, k, Min(Room(tab, k)))] = k]

(* Mutant of Shifts: the distances are compared without wrapping. *)
Shifts_NoWrap(tab, empty, current) ==
  current - GetPos(tab, tab[current]) > empty - GetPos(tab, tab[current])

(* The entry at current may move back to empty: that is no further from    *)
(* its own slot.                                                           *)
Shifts(tab, empty, current) ==
  LET wanted == GetPos(tab, tab[current])
  IN  (current - wanted) % NumSlots(tab) > (empty - wanted) % NumSlots(tab)

(* erase's loop: close the hole at empty, up to the next empty slot. *)
RECURSIVE ShiftBack(_, _, _)
ShiftBack(tab, empty, current) ==
  LET next == (current + 1) % NumSlots(tab)
  IN  CASE tab[current] = Empty -> tab
        [] tab[current] # Empty /\ Shifts(tab, empty, current) ->
             ShiftBack([tab EXCEPT ![empty] = tab[current],
                                   ![current] = Empty], current, next)
        [] OTHER -> ShiftBack(tab, empty, next)

EraseKey(tab, k) ==
  LET pos == FindKey(tab, k)
  IN  IF mode = "Tombstone" THEN [tab EXCEPT ![pos] = Deleted]
      ELSE ShiftBack([tab EXCEPT ![pos] = Empty], pos,
                     (pos + 1) % NumSlots(tab))

(* rehash's loop: insert the entries of tab from slot s on into new. *)
RECURSIVE Reinsert(_, _, _)
Reinsert(tab, new, s) ==
  CASE s \notin DOMAIN tab -> new
    [] s \in DOMAIN tab /\ tab[s] \in {Empty, Deleted} ->
         Reinsert(tab, new, s + 1)
    [] OTHER -> Reinsert(tab, InsertKey(new, tab[s]), s + 1)

-----------------------------------------------------------------------------
(* insert(k) returns true. *)
Insert(k) ==
  /\ CanInsert(slots, k)
  /\ slots' = InsertKey(slots, k)
  /\ size' = size + 1
  /\ held' = held \cup {k}
  /\ UNCHANGED <<mode, hash>>

(* insert(k) returns false: k is there, or the table is full. *)
InsertFails ==
  /\ ~ \A k \in Keys : CanInsert(slots, k)
  /\ UNCHANGED vars

Erase(k) ==
  /\ Found(slots, k)
  /\ slots' = EraseKey(slots, k)
  /\ size' = size - 1
  /\ held' = held \ {k}
  /\ UNCHANGED <<mode, hash>>

(* erase(k) returns false: k is not there. *)
EraseFails ==
  /\ ~ \A k \in Keys : Found(slots, k)
  /\ UNCHANGED vars

(* rehash(new_capacity), as grow() calls it: twice the capacity.  If the   *)
(* new array cannot be allocated nothing changes.                          *)
Rehash ==
  /\ 2 * NumSlots(slots) <= MaxSlots
  /\ slots' = Reinsert(slots, NewTable(NumSlots(slots)), 0)
  /\ UNCHANGED <<mode, hash, size, held>>

Next ==
  \/ \E k \in Keys : Insert(k) \/ Erase(k)
  \/ InsertFails \/ EraseFails
  \/ Rehash

Spec == Init /\ [][Next]_vars

-----------------------------------------------------------------------------
(* find() finds exactly the keys inserted and not erased, whatever was     *)
(* shifted, left as a tombstone or rehashed in between, and size_ counts   *)
(* them.                                                                   *)
TableIsSet ==
  /\ \A k \in Keys : Found(slots, k) <=> k \in held
  /\ size = Cardinality(held)

=============================================================================
