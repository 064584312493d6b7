--------------------------- MODULE TwoTierLevels ---------------------------
(***************************************************************************)
(* TwoTierLevels<S, K, ColdCap>: the price levels of one side of a book.   *)
(* The K hot slots are unsorted; the cold tier is an array sorted from the *)
(* worst price to the best.  A value of the class is a record              *)
(*   hot            the price and the LevelData of each hot slot           *)
(*   cold           those of the cold levels (prices, levels, size)        *)
(*   best, bestIdx  hot_.best_price and hot_.best_idx                      *)
(* Indices count from 1.                                                   *)
(***************************************************************************)
EXTENDS Integers, Sequences, FiniteSets, SequencesExt

CONSTANTS K, ColdCap,
          PriceMax,     (* UINT32_MAX                                       *)
          Null          (* nullptr                                          *)

ASSUME LevelsAssumption ==
  K \in Nat \ {0} /\ ColdCap \in Nat /\ PriceMax \in Nat \ {0}

Sides == {"BID", "ASK"}

EMPTY(S) == IF S = "BID" THEN 0 ELSE PriceMax
BEST_POSSIBLE(S) == IF S = "BID" THEN PriceMax ELSE 0

Better(S, a, b) == IF S = "BID" THEN a > b ELSE a < b

(* LevelData{}: an empty queue of orders. *)
NoLevelData == [head |-> Null, tail |-> Null, qty |-> 0]

NewLevels(S) ==
  [hot     |-> [i \in 1..K |-> [price |-> EMPTY(S), data |-> NoLevelData]],
   cold    |-> <<>>,
   best    |-> EMPTY(S),
   bestIdx |-> 1]

-----------------------------------------------------------------------------
(* find_idx: the hot slots in order, then lower_bound in the cold tier.    *)
Nowhere == [tier |-> "NONE", idx |-> 0]

LowerBound(S, cold, p) ==
  1 + Cardinality({i \in DOMAIN cold : Better(S, p, cold[i].price)})

FindIdx(S, lv, p) ==
  LET hits == {i \in 1..K : lv.hot[i].price = p}
      j == LowerBound(S, lv.cold, p)
  IN  CASE hits # {} ->
             [tier |-> "HOT", idx |-> Min(hits)]
        [] hits = {} /\ j <= Len(lv.cold) /\ lv.cold[j].price = p ->
             [tier |-> "COLD", idx |-> j]
        [] OTHER -> Nowhere

(* The LevelData that find() points to, and writing through the pointer. *)
DataAt(lv, loc) ==
  IF loc.tier = "HOT" THEN lv.hot[loc.idx].data ELSE lv.cold[loc.idx].data

SetData(lv, loc, d) ==
  IF loc.tier = "HOT" THEN [lv EXCEPT !.hot[loc.idx].data = d]
                      ELSE [lv EXCEPT !.cold[loc.idx].data = d]

-----------------------------------------------------------------------------
(* insert_to_cold, when there is room: upper_bound and shift right. *)
UpperBound(S, cold, p) ==
  1 + Cardinality({i \in DOMAIN cold : ~Better(S, cold[i].price, p)})

(* Mutant of ColdFull: the last cold slot is never used. *)
ColdFull_OffByOne(lv) == Len(lv.cold) + 1 >= ColdCap

ColdFull(lv) == Len(lv.cold) >= ColdCap

InsertToCold(S, lv, p, d) ==
  [lv EXCEPT !.cold =
     InsertAt(@, UpperBound(S, @, p), [price |-> p, data |-> d])]

(* belongs_to_hot: the first of the worst hot slots, and whether p is      *)
(* better than it.                                                         *)
BelongsToHot(S, lv, p) ==
  LET worse == {i \in 1..K : Better(S, BEST_POSSIBLE(S), lv.hot[i].price)}
      Worst(i) == \A j \in worse :
                    \/ Better(S, lv.hot[j].price, lv.hot[i].price)
                    \/ lv.hot[j].price = lv.hot[i].price /\ i <= j
      idx == IF worse = {} THEN 1 ELSE CHOOSE i \in worse : Worst(i)
      worst == IF worse = {} THEN BEST_POSSIBLE(S) ELSE lv.hot[idx].price
  IN  [found |-> Better(S, p, worst), idx |-> idx]

(* Mutant of FillHot: the best price is not updated. *)
FillHot_NoBest(S, lv, i, p) ==
  [lv EXCEPT !.hot[i] = [price |-> p, data |-> NoLevelData]]

(* Put a new level for p in hot slot i. *)
FillHot(S, lv, i, p) ==
  [lv EXCEPT !.hot[i] = [price |-> p, data |-> NoLevelData],
             !.best = IF Better(S, p, lv.best) THEN p ELSE @,
             !.bestIdx = IF Better(S, p, lv.best) THEN i ELSE @]

(* find_or_insert: the levels afterwards and where p is in them; Nowhere   *)
(* stands for nullptr.                                                     *)
FindOrInsert(S, lv, p) ==
  LET at == FindIdx(S, lv, p)
      slot == BelongsToHot(S, lv, p)
      old == lv.hot[slot.idx]
      Evicted == InsertToCold(S, lv, old.price, old.data)
  IN  CASE at # Nowhere ->
             [levels |-> lv, loc |-> at]
        [] at = Nowhere /\ ~slot.found /\ ~ColdFull(lv) ->
             [levels |-> InsertToCold(S, lv, p, NoLevelData),
              loc |-> [tier |-> "COLD", idx |-> UpperBound(S, lv.cold, p)]]
        [] at = Nowhere /\ slot.found /\ old.price = EMPTY(S) ->
             [levels |-> FillHot(S, lv, slot.idx, p),
              loc |-> [tier |-> "HOT", idx |-> slot.idx]]
        [] /\ at = Nowhere /\ slot.found
           /\ old.price # EMPTY(S) /\ ~ColdFull(lv) ->
             [levels |-> FillHot(S, Evicted, slot.idx, p),
              loc |-> [tier |-> "HOT", idx |-> slot.idx]]
        [] OTHER ->
             [levels |-> lv, loc |-> Nowhere]

-----------------------------------------------------------------------------
(* Mutant of Refill: the worst cold level is taken, not the best. *)
Refill_FromWorst(S, lv, i) ==
  IF lv.cold # <<>>
    THEN [lv EXCEPT !.hot[i] = Head(lv.cold), !.cold = Tail(@)]
    ELSE [lv EXCEPT !.hot[i].price = EMPTY(S)]

(* Mutant of Refill: the price moves up and its LevelData does not. *)
Refill_PriceOnly(S, lv, i) ==
  IF lv.cold # <<>>
    THEN [lv EXCEPT !.hot[i].price = Last(lv.cold).price, !.cold = Front(@)]
    ELSE [lv EXCEPT !.hot[i].price = EMPTY(S)]

(* erase: a hot slot is refilled with the best cold level, and the best    *)
(* price is looked up again if it was in the slot.                         *)
Refill(S, lv, i) ==
  IF lv.cold # <<>>
    THEN [lv EXCEPT !.hot[i] = Last(lv.cold), !.cold = Front(@)]
    ELSE [lv EXCEPT !.hot[i].price = EMPTY(S)]

Rescan(S, lv) ==
  LET better == {i \in 1..K : Better(S, lv.hot[i].price, EMPTY(S))}
      Best(i) == \A j \in better :
                   \/ Better(S, lv.hot[i].price, lv.hot[j].price)
                   \/ lv.hot[j].price = lv.hot[i].price /\ i <= j
      idx == IF better = {} THEN 1 ELSE CHOOSE i \in better : Best(i)
  IN  [lv EXCEPT !.best = IF better = {} THEN EMPTY(S) ELSE lv.hot[idx].price,
                 !.bestIdx = idx]

Erase(S, lv, p) ==
  LET at == FindIdx(S, lv, p)
  IN  CASE at.tier = "HOT" /\ at.idx = lv.bestIdx ->
             Rescan(S, Refill(S, lv, at.idx))
        [] at.tier = "HOT" /\ at.idx # lv.bestIdx ->
             Refill(S, lv, at.idx)
        [] at.tier = "COLD" ->
             [lv EXCEPT !.cold = RemoveAt(@, at.idx)]
        [] OTHER -> lv

-----------------------------------------------------------------------------
(* What the levels hold, for the properties. *)

Used(S, lv) == {i \in 1..K : lv.hot[i].price # EMPTY(S)}

LevelPrices(S, lv) ==
  {lv.hot[i].price : i \in Used(S, lv)} \cup
    {lv.cold[i].price : i \in DOMAIN lv.cold}

(* The best of a set of prices, EMPTY if there is none. *)
BestOf(S, prices) ==
  IF prices = {} THEN EMPTY(S)
  ELSE CHOOSE p \in prices : \A q \in prices : p = q \/ Better(S, p, q)

(* The hot tier holds the best levels: a slot is unused only if the cold   *)
(* tier is empty, every hot price is better than every cold one, and the   *)
(* cold tier is sorted.                                                    *)
Tiered(S, lv) ==
  /\ lv.cold # <<>> => Used(S, lv) = 1..K
  /\ \A i \in Used(S, lv), j \in DOMAIN lv.cold :
       Better(S, lv.hot[i].price, lv.cold[j].price)
  /\ \A i, j \in DOMAIN lv.cold :
       i < j => Better(S, lv.cold[j].price, lv.cold[i].price)

=============================================================================
