----------------------------- MODULE SwissTable -----------------------------
(***************************************************************************)
(* SwissTable: open addressing with one control byte per slot, searched a  *)
(* group of Width bytes at a time from any position.  The first Width      *)
(* bytes are repeated behind the last, so that a group may run past the    *)
(* end.  A control byte is EMPTY, DELETED or the fingerprint of the key in *)
(* its slot.  Entries are keys: the value of a key moves with it.          *)
(*                                                                         *)
(* The four group types differ in Width and in how they compare; the SWAR  *)
(* match may also report a full lane with another fingerprint, which the   *)
(* comparison of keys that follows rejects as it rejects a collision.      *)
(***************************************************************************)
EXTENDS Integers, FiniteSets, FiniteSetsExt

CONSTANTS SwissKeys,
          HashBits,       (* bits of a hash                                 *)
          FprintBits,     (* bits of a fingerprint: 7                       *)
          Hashes,         (* the hash functions considered                  *)
          Width,          (* G::WIDTH                                       *)
          SwissCapacity,  (* the capacity a table is constructed with       *)
          MaxCapacity,    (* bound: a larger table cannot be allocated      *)
          NoKey           (* what a slot holds before its first key         *)

(* The two control bytes with the top bit set; a fingerprint has it clear. *)
EMPTY == -128
DELETED == -2

(* What the constructor requires; a group of the code is at least 8 wide,  *)
(* so that growth_for() leaves a slot empty.                               *)
ASSUME SwissAssumption ==
  /\ \E n \in 0..HashBits : SwissCapacity = 2^n
  /\ SwissCapacity >= Width /\ SwissCapacity >= 8
  /\ MaxCapacity * 2^FprintBits <= 2^HashBits
  /\ Hashes \subseteq [SwissKeys -> 0..(2^HashBits - 1)]
  /\ NoKey \notin SwissKeys

VARIABLES fn,      (* hash_                                                 *)
          table,   (* ctrl_, data_, size_, capacity_, growth_left_          *)
          members  (* the keys that should be in the table                  *)

swissVars == <<fn, table, members>>

(* hash(): the slot comes from the top bits, the fingerprint from those    *)
(* below them.                                                             *)
H1(t, k) == (fn[k] * t.capacity) \div 2^HashBits
H2(t, k) == ((fn[k] * t.capacity * 2^FprintBits) \div 2^HashBits) % 2^FprintBits

GrowthFor(capacity) == capacity - capacity \div 8

FreshTable(capacity) ==
  [capacity |-> capacity, size |-> 0,
   ctrl |-> [i \in 0..(capacity + Width - 1) |-> EMPTY],
   data |-> [i \in 0..(capacity - 1) |-> NoKey],
   growthLeft |-> GrowthFor(capacity)]

SwissInit ==
  /\ fn \in Hashes
  /\ table = FreshTable(SwissCapacity)
  /\ members = {}

-----------------------------------------------------------------------------
(* Where the n-th group of a search begins: strides grow by Width. *)
GroupAt(t, k, n) == (H1(t, k) + Width * ((n * (n + 1)) \div 2)) % t.capacity

Lanes == 0..(Width - 1)

(* match(), match_empty() and match_empty_or_deleted() of the group at     *)
(* pos: the lanes they report.                                             *)
Match(t, pos, bytes) == {i \in Lanes : t.ctrl[pos + i] \in bytes}

(* The slots find_index compares with k in the n-th group. *)
Hits(t, k, n) ==
  LET pos == GroupAt(t, k, n)
  IN  {s \in {(pos + i) % t.capacity : i \in Match(t, pos, {H2(t, k)})} :
         t.data[s] = k}

(* The groups a search may look at before they repeat. *)
Rounds(t) == 0..(t.capacity \div Width - 1)

(* A search can end at its n-th group: find_index, prepare_insert. *)
FindEnds(t, k, n) ==
  Match(t, GroupAt(t, k, n), {EMPTY}) # {} \/ Hits(t, k, n) # {}
RoomEnds(t, k, n) == Match(t, GroupAt(t, k, n), {EMPTY, DELETED}) # {}

(* It does so at the first such group. *)
FirstFind(t, k) ==
  CHOOSE n \in Rounds(t) :
    FindEnds(t, k, n) /\ \A m \in 0..(n - 1) : ~FindEnds(t, k, m)
FirstRoom(t, k) ==
  CHOOSE n \in Rounds(t) :
    RoomEnds(t, k, n) /\ \A m \in 0..(n - 1) : ~RoomEnds(t, k, m)

(* find_index: the slots found, at most one. *)
FindIndex(t, k) == Hits(t, k, FirstFind(t, k))

PrepareInsert(t, k) ==
  LET pos == GroupAt(t, k, FirstRoom(t, k))
  IN  (pos + Min(Match(t, pos, {EMPTY, DELETED}))) % t.capacity

CopyIndex(t, pos) == IF pos < Width THEN t.capacity + pos ELSE pos

(* A control byte is written twice. *)
SetCtrl(t, pos, b) == [t.ctrl EXCEPT ![pos] = b, ![CopyIndex(t, pos)] = b]

Place(t, k) ==
  LET pos == PrepareInsert(t, k)
  IN  [t EXCEPT !.ctrl = SetCtrl(t, pos, H2(t, k)),
                !.data[pos] = k, !.size = @ + 1,
                !.growthLeft = IF t.ctrl[pos] = EMPTY THEN @ - 1 ELSE @]

(* rehash(): the entries in the order of their slots, into a fresh table.  *)
Rehashed(t, capacity) ==
  LET into[i \in 0..t.capacity] ==
        IF i = 0 THEN FreshTable(capacity)
        ELSE IF t.ctrl[i - 1] \in {EMPTY, DELETED} THEN into[i - 1]
        ELSE Place(into[i - 1], t.data[i - 1])
  IN  into[t.capacity]

(* insert's test for a rehash, and the capacity it asks for. *)
MustRehash(k) ==
  /\ table.growthLeft = 0
  /\ table.ctrl[PrepareInsert(table, k)] = EMPTY

WantedCapacity ==
  IF table.size * 32 <= table.capacity * 25 THEN table.capacity
                                       ELSE 2 * table.capacity

(* Mutant of NeverInFullWindow: an empty byte somewhere on each side is    *)
(* taken to be enough.                                                     *)
NeverInFullWindow_AnyEmpty(t, pos) ==
  LET before == (pos - Width) % t.capacity
  IN  Match(t, pos, {EMPTY}) # {} /\ Match(t, before, {EMPTY}) # {}

(* erase: no group that contains pos has been full since it was filled.    *)
NeverInFullWindow(t, pos) ==
  LET after == Match(t, pos, {EMPTY})
      before == Match(t, (pos - Width) % t.capacity, {EMPTY})
  IN  /\ after # {} /\ before # {}
      /\ Min(after) + (Width - 1 - Max(before)) < Width

(* The entry left behind in the slot is never read, and is dropped here.   *)
Erased(t, pos) ==
  LET never == NeverInFullWindow(t, pos)
  IN  [t EXCEPT !.ctrl = SetCtrl(t, pos, IF never THEN EMPTY ELSE DELETED),
                !.data[pos] = NoKey, !.size = @ - 1,
                !.growthLeft = IF never THEN @ + 1 ELSE @]

-----------------------------------------------------------------------------
SwissInsert(k) ==
  /\ FindIndex(table, k) = {}
  /\ IF MustRehash(k)
       THEN /\ WantedCapacity <= MaxCapacity
            /\ table' = Place(Rehashed(table, WantedCapacity), k)
       ELSE table' = Place(table, k)
  /\ members' = members \cup {k}
  /\ UNCHANGED fn

(* insert() returns false: the key is there, or rehash() fails. *)
SwissInsertFails ==
  /\ ~ \A k \in SwissKeys : FindIndex(table, k) = {} /\ ~MustRehash(k)
  /\ UNCHANGED swissVars

SwissErase(k) ==
  LET found == FindIndex(table, k)
  IN  /\ found # {}
      /\ table' = Erased(table, Min(found))
      /\ members' = members \ {k}
      /\ UNCHANGED fn

(* erase() returns false: the key is not there. *)
SwissEraseFails ==
  /\ ~ \A k \in SwissKeys : FindIndex(table, k) # {}
  /\ UNCHANGED swissVars

SwissNext ==
  \/ \E k \in SwissKeys : SwissInsert(k) \/ SwissErase(k)
  \/ SwissInsertFails \/ SwissEraseFails

SwissSpec == SwissInit /\ [][SwissNext]_swissVars

-----------------------------------------------------------------------------
(* find() ends, and finds exactly the keys inserted and not erased,        *)
(* whatever was emptied, left as a tombstone or rehashed in between;       *)
(* size_ counts them; growth_left_ is the number of inserts into empty     *)
(* slots that keep a slot empty in every table.                            *)
SwissIsSet ==
  /\ \A k \in SwissKeys : /\ \E n \in Rounds(table) : FindEnds(table, k, n)
                          /\ \E n \in Rounds(table) : RoomEnds(table, k, n)
  /\ \A k \in SwissKeys : FindIndex(table, k) # {} <=> k \in members
  /\ table.size = Cardinality(members)
  /\ table.growthLeft + Cardinality({s \in DOMAIN table.data :
       table.ctrl[s] # EMPTY}) = GrowthFor(table.capacity)

=============================================================================
