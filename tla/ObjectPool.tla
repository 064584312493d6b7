----------------------------- MODULE ObjectPool -----------------------------
(* ObjectPool: a stack of free objects, which are numbered from 1.  Low    *)
(* numbers are handed out first.                                           *)
EXTENDS Integers, Sequences

NewPool(n) == [i \in 1..n |-> n + 1 - i]

(* What get() returns, if the pool is not empty, and what it leaves.       *)
Top(pool) == pool[Len(pool)]
Get(pool) == SubSeq(pool, 1, Len(pool) - 1)

Restore(pool, obj) == Append(pool, obj)
=============================================================================
