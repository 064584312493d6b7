---------------------------- MODULE BoundedFifo ----------------------------
(***************************************************************************)
(* What a single-producer single-consumer queue promises its two threads:  *)
(* items leave in the order they entered, each exactly once, never more    *)
(* than Capacity of them are held, and a refused push leaves no trace.     *)
(*                                                                         *)
(* The producer offers an item (in), which is then accepted or refused.    *)
(* The consumer sees the result of its last finished pop (out).  Neither   *)
(* a refusal nor an empty pop says anything about the present: the two     *)
(* threads learn of each other's progress late.                            *)
(***************************************************************************)
EXTENDS Naturals, Sequences

CONSTANTS Values,    (* the items                                          *)
          NoValue,   (* "no item": nothing offered, nothing popped         *)
          Capacity   (* how many items the queue can hold                  *)

VARIABLES in,        (* the item being pushed, or NoValue                  *)
          queue,     (* the items accepted and not yet popped              *)
          out,       (* what the last finished pop returned                *)
          open       (* the queue has not been destroyed                   *)

vars == <<in, queue, out, open>>

Init ==
  /\ in = NoValue
  /\ queue = <<>>
  /\ out = NoValue
  /\ open = TRUE

Offer(v) ==
  /\ open = TRUE
  /\ in = NoValue
  /\ in' = v
  /\ UNCHANGED <<queue, out, open>>

Accept ==
  /\ in # NoValue
  /\ Len(queue) < Capacity
  /\ queue' = Append(queue, in)
  /\ in' = NoValue
  /\ UNCHANGED <<out, open>>

Refuse ==
  /\ in # NoValue
  /\ in' = NoValue
  /\ UNCHANGED <<queue, out, open>>

Take ==
  /\ queue # <<>>
  /\ out' = Head(queue)
  /\ queue' = Tail(queue)
  /\ UNCHANGED <<in, open>>

TakeNothing ==
  /\ open = TRUE
  /\ out' = NoValue
  /\ UNCHANGED <<in, queue, open>>

Destroy ==
  /\ open = TRUE
  /\ in = NoValue
  /\ queue' = <<>>
  /\ open' = FALSE
  /\ UNCHANGED <<in, out>>

Next ==
  \/ \E v \in Values : Offer(v)
  \/ Accept
  \/ Refuse
  \/ Take
  \/ TakeNothing
  \/ Destroy

Spec == Init /\ [][Next]_vars

=============================================================================
