---------------------------- MODULE PriceLevels ----------------------------
(***************************************************************************)
(* One side's TwoTierLevels on its own: prices come and go in any order.   *)
(* The LevelData of a price is marked with the price (total_qty), and      *)
(* present is the set of prices the side should hold.                      *)
(***************************************************************************)
EXTENDS TwoTierLevels

CONSTANT Prices    (* the prices used, between 0 and PriceMax: EMPTY is not *)
                   (* one of them                                           *)

VARIABLES side, levels, present

vars == <<side, levels, present>>

Marked(p) == [NoLevelData EXCEPT !.qty = p]

Init ==
  /\ side \in Sides
  /\ levels = NewLevels(side)
  /\ present = {}

(* find_or_insert(p) and, as the book does, a write through the pointer. *)
Insert(p) ==
  LET res == FindOrInsert(side, levels, p)
  IN  /\ res.loc # Nowhere
      /\ levels' = SetData(res.levels, res.loc, Marked(p))
      /\ present' = present \cup {p}
      /\ UNCHANGED side

(* find_or_insert(p) returns nullptr. *)
Full(p) ==
  LET res == FindOrInsert(side, levels, p)
  IN  /\ res.loc = Nowhere
      /\ levels' = res.levels
      /\ UNCHANGED <<side, present>>

EraseLevel(p) ==
  /\ levels' = Erase(side, levels, p)
  /\ present' = present \ {p}
  /\ UNCHANGED side

Next == \E p \in Prices : Insert(p) \/ Full(p) \/ EraseLevel(p)

Spec == Init /\ [][Next]_vars

-----------------------------------------------------------------------------
(* find() finds exactly the prices present, each with its own data,        *)
(* whatever moved between the tiers; best_price() is the best of them, and *)
(* best() its level.                                                       *)
LevelsAreMap ==
  /\ \A p \in Prices :
       LET at == FindIdx(side, levels, p)
       IN  IF p \in present
           THEN at # Nowhere /\ DataAt(levels, at) = Marked(p)
           ELSE at = Nowhere
  /\ levels.best = BestOf(side, present)
  /\ present # {} => levels.hot[levels.bestIdx].price = levels.best

(* The hot tier holds the best K levels and the cold tier is sorted.       *)
HotIsBest == Tiered(side, levels)

=============================================================================
