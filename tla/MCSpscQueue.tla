---------------------------- MODULE MCSpscQueue ----------------------------
(* SpscQueue for TLC.  Every variable is finite: no bound is needed.        *)
EXTENDS SpscQueue



=============================================================================
