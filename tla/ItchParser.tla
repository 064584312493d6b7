----------------------------- MODULE ItchParser -----------------------------
(***************************************************************************)
(* ITCHParser::parse: what MboEvent an ITCH message becomes.  A message is *)
(* a record with the fields its type carries; timestamps, the match number *)
(* and attribution are left out.  A field a message does not carry keeps   *)
(* the default of MboEvent: side BID, everything else zero.                *)
(***************************************************************************)
EXTENDS Naturals

MboEvent ==
  [etype |-> "ADDED", side |-> "BID", instrument |-> 0,
   oid |-> 0, orig_oid |-> 0, price |-> 0, qty |-> 0]

SideOf(c) == IF c = "B" THEN "BID" ELSE "ASK"

(* Types A and F, E and C differ in fields no event carries. *)
FromAdd(m) ==
  [MboEvent EXCEPT !.etype = "ADDED", !.side = SideOf(m.side),
                   !.instrument = m.stock_locate, !.oid = m.order_ref_num,
                   !.price = m.price, !.qty = m.shares]

FromExecuted(m) ==
  [MboEvent EXCEPT !.etype = "EXECUTED", !.instrument = m.stock_locate,
                   !.oid = m.order_ref_num, !.qty = m.executed_shares]

FromExecutedPrice(m) == [FromExecuted(m) EXCEPT !.price = m.execution_price]

FromCancel(m) ==
  [MboEvent EXCEPT !.etype = "CANCELLED", !.instrument = m.stock_locate,
                   !.oid = m.order_ref_num, !.qty = m.cancelled_shares]

FromDelete(m) ==
  [MboEvent EXCEPT !.etype = "DELETED", !.instrument = m.stock_locate,
                   !.oid = m.order_ref_num]

FromReplace(m) ==
  [MboEvent EXCEPT !.etype = "REPLACED", !.instrument = m.stock_locate,
                   !.oid = m.new_order_ref_num,
                   !.orig_oid = m.orig_order_ref_num,
                   !.price = m.price, !.qty = m.shares]

(* A message of another type produces no event. *)
Carries(m) == m.type \in {"A", "F", "E", "C", "X", "D", "U"}

Parse(m) ==
  CASE m.type \in {"A", "F"} -> FromAdd(m)
    [] m.type = "E" -> FromExecuted(m)
    [] m.type = "C" -> FromExecutedPrice(m)
    [] m.type = "X" -> FromCancel(m)
    [] m.type = "D" -> FromDelete(m)
    [] m.type = "U" -> FromReplace(m)

=============================================================================
