----------------------------- MODULE OrderBook -----------------------------
(***************************************************************************)
(* OrderBook<K, ColdCap>: the orders of one instrument in three linked     *)
(* structures: the table from order ids to orders, the doubly linked list  *)
(* of orders at each price level, and the pool the Order objects come      *)
(* from.  A value of the class is a record                                 *)
(*   levels   bids_ and asks_                                              *)
(*   table    orders_: the object of each order id, or Null                *)
(*   mem      the contents of the Order objects; a free one holds NoOrder, *)
(*            so that reading it through an old pointer is an error        *)
(*   free     orders_op_: the stack of free objects                        *)
(*   max      max_orders_                                                  *)
(* An operation is an operator from a book and its arguments to the book   *)
(* afterwards and the result.  assert() is compiled out, as in the default *)
(* Release build.                                                          *)
(***************************************************************************)
EXTENDS TwoTierLevels

CONSTANTS Oids,        (* order ids                                         *)
          MAX_ORDERS,  (* objects a new book has                            *)
          MaxObjects,  (* bound: objects a book ever has                    *)
          NoOrder      (* the contents of a free object                     *)

ASSUME PoolAssumption ==
  /\ MAX_ORDERS \in Nat \ {0}
  /\ MaxObjects \in Nat /\ MAX_ORDERS <= MaxObjects
  /\ Cardinality(Oids) <= MaxObjects

Objects == 1..MaxObjects

(* The pool hands out low indices first. *)
NewBook ==
  [levels |-> [S \in Sides |-> NewLevels(S)],
   table  |-> [o \in Oids |-> Null],
   mem    |-> [x \in Objects |-> NoOrder],
   free   |-> [i \in 1..MAX_ORDERS |-> MAX_ORDERS + 1 - i],
   max    |-> MAX_ORDERS]

(* grow(), called with no object free: as many new objects as there are.   *)
(* If memory runs out the process terminates.                              *)
Grow(book) ==
  [book EXCEPT !.free = [i \in 1..book.max |-> book.max + i],
               !.max = 2 * @]

(* orders_op_.get(), growing the pool first if it is empty. *)
WithFree(book) == IF book.free = <<>> THEN Grow(book) ELSE book

(* Mutant of Restore: the object is not put back. *)
Restore_Leaks(book, x) == [book EXCEPT !.mem[x] = NoOrder]

(* orders_op_.restore(x) *)
Restore(book, x) ==
  [book EXCEPT !.free = Append(@, x), !.mem[x] = NoOrder]

-----------------------------------------------------------------------------
(* add_to_price_queue(x), loc being what find_or_insert_level returned. *)
Enqueue(book, x, loc) ==
  LET order == book.mem[x]
      lv == book.levels[order.side]
      level == DataAt(lv, loc)
      linked == IF level.head = Null THEN book.mem
                ELSE [book.mem EXCEPT ![level.tail].next = x,
                                      ![x].prev = level.tail]
      after == [head |-> IF level.head = Null THEN x ELSE level.head,
                tail |-> x,
                qty  |-> level.qty + order.shares]
  IN  [book EXCEPT !.mem = linked,
                   !.levels[order.side] = SetData(lv, loc, after)]

(* Mutant of Dequeue: removing the last order leaves the level's tail. *)
Dequeue_NoTail(book, x, loc) ==
  LET order == book.mem[x]
      lv == book.levels[order.side]
      level == DataAt(lv, loc)
      after == [head |-> IF order.prev = Null THEN order.next ELSE level.head,
                tail |-> level.tail,
                qty  |-> level.qty - order.shares]
      Unlinked(y) ==
        CASE y = order.prev -> [book.mem[y] EXCEPT !.next = order.next]
          [] y = order.next -> [book.mem[y] EXCEPT !.prev = order.prev]
          [] OTHER -> book.mem[y]
      kept == SetData(lv, loc, after)
  IN  [book EXCEPT !.mem = [y \in Objects |-> Unlinked(y)],
                   !.levels[order.side] =
                      IF after.head = Null
                        THEN Erase(order.side, kept, order.price)
                        ELSE kept]

(* remove_from_price_queue(x), loc being what find_level returned. *)
Dequeue(book, x, loc) ==
  LET order == book.mem[x]
      lv == book.levels[order.side]
      level == DataAt(lv, loc)
      after == [head |-> IF order.prev = Null THEN order.next ELSE level.head,
                tail |-> IF order.next = Null THEN order.prev ELSE level.tail,
                qty  |-> level.qty - order.shares]
      Unlinked(y) ==
        CASE y = order.prev -> [book.mem[y] EXCEPT !.next = order.next]
          [] y = order.next -> [book.mem[y] EXCEPT !.prev = order.prev]
          [] OTHER -> book.mem[y]
      kept == SetData(lv, loc, after)
  IN  [book EXCEPT !.mem = [y \in Objects |-> Unlinked(y)],
                   !.levels[order.side] =
                      IF after.head = Null
                        THEN Erase(order.side, kept, order.price)
                        ELSE kept]

-----------------------------------------------------------------------------
AddOrder(book, oid, shares, price, side) ==
  LET b1 == WithFree(book)
      x == Last(b1.free)
      order == [oid |-> oid, shares |-> shares, price |-> price,
                side |-> side, next |-> Null, prev |-> Null]
      found == FindOrInsert(side, b1.levels[side], price)
      b2 == [b1 EXCEPT !.free = Front(@), !.mem[x] = order,
                       !.levels[side] = found.levels]
  IN  CASE book.table[oid] # Null ->
             [book |-> book, result |-> "DuplicateOrderId"]
        [] book.table[oid] = Null /\ found.loc = Nowhere ->
             [book |-> Restore(b2, x), result |-> "LevelsFull"]
        [] OTHER ->
             [book |-> [Enqueue(b2, x, found.loc) EXCEPT !.table[oid] = x],
              result |-> "ok"]

FindLevel(book, x) ==
  FindIdx(book.mem[x].side, book.levels[book.mem[x].side], book.mem[x].price)

CancelOrder(book, oid) ==
  LET x == book.table[oid]
  IN  IF x = Null \/ FindLevel(book, x) = Nowhere
      THEN [book |-> book, result |-> FALSE]
      ELSE [book |-> Restore([Dequeue(book, x, FindLevel(book, x))
                                EXCEPT !.table[oid] = Null], x),
            result |-> TRUE]

(* execute_order, and reduce_order, which calls it. *)
ExecuteOrder(book, oid, n) ==
  LET x == book.table[oid]
      S == book.mem[x].side
      loc == FindLevel(book, x)
      level == DataAt(book.levels[S], loc)
  IN  CASE x = Null -> [book |-> book, result |-> FALSE]
        [] x # Null /\ n >= book.mem[x].shares -> CancelOrder(book, oid)
        [] OTHER ->
             [book |-> [book EXCEPT
                          !.mem[x].shares = @ - n,
                          !.levels[S] = SetData(@, loc,
                                          [level EXCEPT !.qty = @ - n])],
              result |-> TRUE]

=============================================================================
