------------------------------ MODULE MCTables ------------------------------
(* The containers under the books, one per behaviour: both hash tables and *)
(* the price levels of a side.                                             *)
(*                                                                         *)
(* LinearProbingTable has every hash function on more keys than a new      *)
(* table holds, as many as fill it when it has doubled.                    *)
(*                                                                         *)
(* SwissTable has those keys and two more classes, with one hash per       *)
(* class: the same for all, groups that overlap across the end of the      *)
(* array, and groups that meet in the middle.                              *)
(*                                                                         *)
(* PriceLevels has more prices than both tiers hold.                       *)
EXTENDS LinearProbingTable, SwissTable, TLC

CONSTANTS ClassB, ClassC,
          K, ColdCap, PriceMax, Null, Prices

ASSUME PricesAssumption == Prices \subseteq 1..(PriceMax - 1)

VARIABLES kind, side, levels, present

Levels == INSTANCE PriceLevels

levelsVars == <<side, levels, present>>

MCSwissKeys == Keys \cup ClassB \cup ClassC

HashedTo(a, b, c) ==
  [k \in MCSwissKeys |->
     IF k \in Keys THEN a ELSE IF k \in ClassB THEN b ELSE c]

MCHashes == {HashedTo(26, 26, 26), HashedTo(27, 26, 2), HashedTo(20, 13, 31)}

KeySymmetry ==
  Permutations(Keys) \cup Permutations(ClassB) \cup Permutations(ClassC)

LinearUnused == mode = "" /\ hash = <<>> /\ slots = <<>> /\ size = 0 /\ held = {}

SwissUnused == fn = <<>> /\ table = <<>> /\ members = {}

LevelsUnused == side = "" /\ levels = <<>> /\ present = {}

MCInit ==
  \/ kind = "linear" /\ Init /\ SwissUnused /\ LevelsUnused
  \/ kind = "swiss" /\ SwissInit /\ LinearUnused /\ LevelsUnused
  \/ kind = "levels" /\ Levels!Init /\ LinearUnused /\ SwissUnused

MCNext ==
  /\ UNCHANGED kind
  /\ \/ kind = "linear" /\ Next /\ UNCHANGED <<swissVars, levelsVars>>
     \/ kind = "swiss" /\ SwissNext /\ UNCHANGED <<vars, levelsVars>>
     \/ kind = "levels" /\ Levels!Next /\ UNCHANGED <<vars, swissVars>>

MCSpec == MCInit /\ [][MCNext]_<<kind, vars, swissVars, levelsVars>>

(* LinearProbingTable answers as the set of the keys inserted and not      *)
(* erased: TableIsSet, where that table is in use.                         *)
LinearTableIsSet == kind = "linear" => TableIsSet

(* SwissTable does, and keeps an empty slot in every search: SwissIsSet,   *)
(* where that table is in use.                                             *)
SwissTableIsSet == kind = "swiss" => SwissIsSet

(* TwoTierLevels answers as the map from the prices present to their data, *)
(* and knows the best of them: PriceLevels!LevelsAreMap, where it is used. *)
LevelsAreMap == kind = "levels" => Levels!LevelsAreMap

(* Its hot tier holds the best levels, whatever was inserted and erased:   *)
(* PriceLevels!HotIsBest, where it is used.                                *)
HotIsBest == kind = "levels" => Levels!HotIsBest

=============================================================================
