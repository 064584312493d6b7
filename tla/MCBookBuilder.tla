--------------------------- MODULE MCBookBuilder ---------------------------
(* BookBuilder with few orders, more prices than levels, and a pool that   *)
(* has to grow.                                                            *)
EXTENDS BookBuilder, TLC

(* Order ids are only compared. *)
OidSymmetry == Permutations(Oids)
=============================================================================
