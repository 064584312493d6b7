------------------------------ MODULE Transport ------------------------------
(***************************************************************************)
(* What every source promises its caller.  The input is a stream of units, *)
(* numbered from 1: datagrams or bytes.  next() returns a Buffer with the  *)
(* units that follow those already returned, and what a Buffer shows does  *)
(* not change while the caller has it, wherever the caller moves it.       *)
(***************************************************************************)
EXTENDS Naturals

CONSTANTS Handles,   (* where the caller can keep a Buffer                  *)
          Nothing    (* what a handle without a Buffer shows                *)

VARIABLES sent,      (* units that have arrived                             *)
          got,       (* units that next() has returned                      *)
          seen       (* what the Buffer in each handle shows: the first and *)
                     (* the last unit                                       *)

Init ==
  /\ sent = 0
  /\ got = 0
  /\ seen = [h \in Handles |-> Nothing]

Arrive ==
  /\ sent' = sent + 1
  /\ UNCHANGED <<got, seen>>

Deliver(h) ==
  /\ seen[h] = Nothing
  /\ \E last \in (got + 1)..sent :
       /\ got' = last
       /\ seen' = [seen EXCEPT ![h] = <<got + 1, last>>]
  /\ UNCHANGED sent

(* A Buffer is moved to another handle, exchanged with that one's, or      *)
(* destroyed.                                                              *)
Move(g, h) ==
  /\ seen' = [seen EXCEPT ![g] = seen[h], ![h] = seen[g]]
  /\ UNCHANGED <<sent, got>>

Destroy(h) ==
  /\ seen' = [seen EXCEPT ![h] = Nothing]
  /\ UNCHANGED <<sent, got>>

Next ==
  \/ Arrive
  \/ \E h \in Handles : Deliver(h) \/ Destroy(h)
  \/ \E g, h \in Handles : Move(g, h)

Spec == Init /\ [][Next]_<<sent, got, seen>>
=============================================================================
