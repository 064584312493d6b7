---------------------------- MODULE BookBuilder ----------------------------
(***************************************************************************)
(* BookBuilder: keeps the books of a shard's instruments from the events   *)
(* of the feed.                                                            *)
(*                                                                         *)
(* Around it: the exchange, whose own book of an instrument is the         *)
(* sequence of its resting orders in order of arrival.  Whatever happens   *)
(* there is published as an ITCH message, parsed and applied; Pipeline     *)
(* shows that events reach their builder in order and once, so a message   *)
(* is applied in the step that publishes it.                               *)
(***************************************************************************)
EXTENDS OrderBook, ItchParser

CONSTANTS Instruments,
          NoBook,       (* an instrument without a book yet                 *)
          Prices,       (* prices orders are sent with                      *)
          MaxShares,    (* bound: shares of an order                        *)
          Replaceable   (* the sides whose orders are replaced              *)

ASSUME MarketAssumption ==
  /\ Prices \subseteq 0..PriceMax
  /\ MaxShares \in Nat
  /\ Replaceable \subseteq Sides

VARIABLES books,     (* instrument_map_                                     *)
          exchange   (* each instrument's orders at the exchange            *)

vars == <<books, exchange>>

Init ==
  /\ books = [i \in Instruments |-> NoBook]
  /\ exchange = [i \in Instruments |-> <<>>]

-----------------------------------------------------------------------------
(* The handlers of the builder, from all books to all books. *)

BookOf(bs, i) == IF bs[i] = NoBook THEN NewBook ELSE bs[i]

(* add_order_handler: get_or_init_book() and add_order(). *)
Added(bs, e) ==
  LET res == AddOrder(BookOf(bs, e.instrument), e.oid, e.qty, e.price, e.side)
  IN  [bs EXCEPT ![e.instrument] = res.book]

(* execute_order_handler, cancel_order_handler *)
Reduced(bs, e) ==
  IF bs[e.instrument] = NoBook THEN bs
  ELSE [bs EXCEPT ![e.instrument] = ExecuteOrder(@, e.oid, e.qty).book]

(* delete_order_handler *)
Deleted(bs, e) ==
  IF bs[e.instrument] = NoBook THEN bs
  ELSE [bs EXCEPT ![e.instrument] = CancelOrder(@, e.oid).book]

(* replace_order_handler: the new order is added in any case. *)
Replaced(bs, e) == Added(Deleted(bs, [e EXCEPT !.oid = e.orig_oid]), e)

ApplyEvent(bs, e) ==
  CASE e.etype = "ADDED" -> Added(bs, e)
    [] e.etype \in {"EXECUTED", "CANCELLED"} -> Reduced(bs, e)
    [] e.etype = "DELETED" -> Deleted(bs, e)
    [] e.etype = "REPLACED" -> Replaced(bs, e)

Handle(m) == books' = IF Carries(m) THEN ApplyEvent(books, Parse(m)) ELSE books

-----------------------------------------------------------------------------
(* The exchange. *)

Live(i) == {exchange[i][k].oid : k \in DOMAIN exchange[i]}

Unused == Oids \ UNION {Live(i) : i \in Instruments}

Resting(oid, side, price, shares) ==
  [oid |-> oid, side |-> side, price |-> price, shares |-> shares]

Without(orders, k) == RemoveAt(orders, k)

(* n shares of an order are gone. *)
Less(orders, k, n) ==
  IF n = orders[k].shares THEN Without(orders, k)
                          ELSE [orders EXCEPT ![k].shares = @ - n]

Letter(side) == IF side = "BID" THEN "B" ELSE "S"

Add(i, oid, side, price, shares, type) ==
  /\ oid \in Unused
  /\ exchange' = [exchange EXCEPT
                    ![i] = Append(@, Resting(oid, side, price, shares))]
  /\ Handle([type |-> type, stock_locate |-> i, order_ref_num |-> oid,
             side |-> Letter(side), price |-> price, shares |-> shares])

Execute(i, k, n, type) ==
  /\ n <= exchange[i][k].shares
  /\ exchange' = [exchange EXCEPT ![i] = Less(@, k, n)]
  /\ Handle([type |-> type, stock_locate |-> i,
             order_ref_num |-> exchange[i][k].oid, executed_shares |-> n,
             execution_price |-> exchange[i][k].price])

Cancel(i, k, n) ==
  /\ n <= exchange[i][k].shares
  /\ exchange' = [exchange EXCEPT ![i] = Less(@, k, n)]
  /\ Handle([type |-> "X", stock_locate |-> i,
             order_ref_num |-> exchange[i][k].oid, cancelled_shares |-> n])

Delete(i, k) ==
  /\ exchange' = [exchange EXCEPT ![i] = Without(@, k)]
  /\ Handle([type |-> "D", stock_locate |-> i,
             order_ref_num |-> exchange[i][k].oid])

(* The new order keeps the side and goes to the back of its level. *)
Replace(i, k, oid, price, shares) ==
  LET old == exchange[i][k]
  IN  /\ old.side \in Replaceable
      /\ oid \in Unused
      /\ exchange' = [exchange EXCEPT ![i] =
                        Append(Without(@, k),
                               Resting(oid, old.side, price, shares))]
      /\ Handle([type |-> "U", stock_locate |-> i,
                 orig_order_ref_num |-> old.oid, new_order_ref_num |-> oid,
                 price |-> price, shares |-> shares])

(* Messages that change no book: an id that is taken, ids that are not     *)
(* known, and a type without an event.                                     *)
Stray(i, m) ==
  /\ m.stock_locate = i
  /\ m.type \in {"A", "F"} => BookOf(books, i).table[m.order_ref_num] # Null
  /\ m.type \in {"E", "C", "X", "D"} => m.order_ref_num \notin Live(i)
  /\ Handle(m)
  /\ UNCHANGED exchange

StrayMessages(i) ==
  {[type |-> "A", stock_locate |-> i, order_ref_num |-> o, side |-> "S",
    price |-> p, shares |-> 1] : o \in Oids, p \in Prices}
  \cup {[type |-> t, stock_locate |-> i, order_ref_num |-> o,
         executed_shares |-> 1, execution_price |-> 1,
         cancelled_shares |-> 1] : o \in Oids, t \in {"E", "X", "D", "S"}}

Next ==
  \E i \in Instruments :
    \/ \E oid \in Oids, side \in Sides, price \in Prices,
          shares \in 1..MaxShares, type \in {"A", "F"} :
         Add(i, oid, side, price, shares, type)
    \/ \E k \in DOMAIN exchange[i] :
         \/ \E n \in 1..MaxShares, type \in {"E", "C"} : Execute(i, k, n, type)
         \/ \E n \in 1..MaxShares : Cancel(i, k, n)
         \/ Delete(i, k)
         \/ \E oid \in Oids, price \in Prices, shares \in 1..MaxShares :
              Replace(i, k, oid, price, shares)
    \/ \E m \in StrayMessages(i) : Stray(i, m)

Spec == Init /\ [][Next]_vars

-----------------------------------------------------------------------------
(* Properties. *)

Book(i) == BookOf(books, i)

(* Orders at the exchange that the builder's book does not have.           *)
Lost(i) == {o \in Live(i) : Book(i).table[o] = Null}

(* The orders the book should have at a price level, oldest first.         *)
Expected(i, S, p) ==
  SelectSeq(exchange[i],
            LAMBDA o : o.side = S /\ o.price = p /\ o.oid \notin Lost(i))

ExpectedPrices(i, S) == {p \in 0..PriceMax : Expected(i, S, p) # <<>>}

SumShares(orders) == FoldLeft(LAMBDA sum, o : sum + o.shares, 0, orders)

(* The object k places on in a level's list, Null beyond its ends.         *)
Obj(i, orders, k) ==
  IF k \in DOMAIN orders THEN Book(i).table[orders[k].oid] ELSE Null

(* The builder's book is the exchange's: at each price of each side the    *)
(* linked list holds the exchange's orders, with their shares, in order of *)
(* arrival and linked both ways, total_qty is the sum of those shares, and *)
(* there is no other level.                                                *)
TimePriority ==
  \A i \in Instruments, S \in Sides, p \in Prices :
    LET orders == Expected(i, S, p)
        lv == Book(i).levels[S]
        at == FindIdx(S, lv, p)
    IN  IF orders = <<>> THEN at = Nowhere
        ELSE /\ at # Nowhere
             /\ DataAt(lv, at).qty = SumShares(orders)
             /\ DataAt(lv, at).head = Obj(i, orders, 1)
             /\ DataAt(lv, at).tail = Obj(i, orders, Len(orders))
             /\ \A k \in DOMAIN orders :
                  Book(i).mem[Obj(i, orders, k)] =
                    [oid |-> orders[k].oid, shares |-> orders[k].shares,
                     price |-> p, side |-> S,
                     next |-> Obj(i, orders, k + 1),
                     prev |-> Obj(i, orders, k - 1)]

(* best_price() of each side is the best price with an order, EMPTY if     *)
(* there is none.                                                          *)
BestPrice ==
  \A i \in Instruments, S \in Sides :
    Book(i).levels[S].best = BestOf(S, ExpectedPrices(i, S))

(* Every Order object is either free, once, or the object of one order:    *)
(* none leaks when an add is refused, none is freed twice or shared.       *)
PoolConserved ==
  \A i \in Instruments :
    LET inUse == {o \in Oids : Book(i).table[o] # Null}
    IN  /\ IsInjective(Book(i).free)
        /\ \A o1, o2 \in inUse :
             Book(i).table[o1] = Book(i).table[o2] => o1 = o2
        /\ {Book(i).table[o] : o \in inUse} =
             (1..Book(i).max) \ ToSet(Book(i).free)

(* An order is lost only when it opens a new level while both tiers of its *)
(* side are full; no other message loses one.  That the orders kept stay   *)
(* as they were is TimePriority.                                           *)
LosesOnlyWhenFull ==
  [][\A i \in Instruments :
       \A o \in Lost(i)' \ Lost(i) :
         LET new == Last(exchange'[i])
             held == LevelPrices(new.side, Book(i)'.levels[new.side])
         IN  /\ o = new.oid /\ o \notin Live(i)
             /\ new.price \notin held
             /\ Cardinality(held) = K + ColdCap]_vars

(* An order rests on the side of the book the exchange has it on.          *)
SidesKept ==
  \A i \in Instruments :
    \A k \in DOMAIN exchange[i] :
      LET o == exchange[i][k]
      IN  o.oid \notin Lost(i) =>
            Book(i).mem[Book(i).table[o.oid]].side = o.side

(* The level of every order in the table is found, as the assertion in     *)
(* execute_order() says.                                                   *)
LevelFound ==
  \A i \in Instruments, o \in Oids :
    Book(i).table[o] # Null => FindLevel(Book(i), Book(i).table[o]) # Nowhere

=============================================================================
