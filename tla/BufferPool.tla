----------------------------- MODULE BufferPool -----------------------------
(***************************************************************************)
(* bufpool::BufferPool: memory is mapped in chunks, a chunk is cut into    *)
(* runs and a run into blocks of one size class.  A thread allocates from  *)
(* and frees to its own magazine, which exchanges blocks with the shared   *)
(* stack of the class; chunks that have runs left wait on another stack.   *)
(*                                                                         *)
(* The shared stacks are those of AtomicStack, which TreiberStack          *)
(* implements; what a thread does to its magazine, to a chain it has taken *)
(* and to a chunk it has popped is nobody else's business until it pushes  *)
(* them, and goes with the operation before.                               *)
(***************************************************************************)
EXTENDS Integers, Sequences, SequencesExt, FiniteSets, FiniteSetsExt

CONSTANTS Threads, Chunks,
          NClasses,    (* N_CLASSES                                         *)
          NRuns,       (* N_RUNS; run 0 of a chunk holds its description    *)
          RunSize,     (* RUN_SIZE, in blocks of class 0                    *)
          BatchSize,   (* BATCH_SIZE                                        *)
          CacheSize,   (* CACHE_SIZE                                        *)
          Registered,  (* the threads that call thread_init() first         *)
          MaxRuns,     (* bound: runs ever claimed                          *)
          None         (* no block, no chunk, no class                      *)

VARIABLES kind,        (* "unmapped", "runs" or "large", for every chunk    *)
          runClass,    (* run_class, None where the bit in bmap is clear    *)
          chunks,      (* chunks_with_free_runs                             *)
          classes,     (* g_classes                                         *)
          mag,         (* every thread's magazine, the top last             *)
          init,        (* the threads whose magazine is flushed at exit     *)
          filled,      (* history: who has taken blocks from a shared list  *)
          live         (* the blocks in use                                 *)

VARIABLES pc,          (* where each thread is                              *)
          op,          (* "alloc", "reserve" or "free"                      *)
          class,       (* the size class it is at                           *)
          hand,        (* the chunk popped                                  *)
          chain,       (* blocks to be pushed on the class's stack          *)
          blk          (* the block being freed                             *)

memory == <<kind, runClass, chunks>>
locals == <<pc, op, class, hand, chain, blk>>
vars == <<memory, classes, mag, init, filled, live, locals>>

Classes == 0..(NClasses - 1)
Runs == 1..(NRuns - 1)

Init ==
  /\ kind = [c \in Chunks |-> "unmapped"]
  /\ runClass = [c \in Chunks |-> [r \in Runs |-> None]]
  /\ chunks = <<>>
  /\ classes = [k \in Classes |-> <<>>]
  /\ mag = [t \in Threads |-> [k \in Classes |-> <<>>]]
  /\ init = Registered
  /\ filled = {}
  /\ live = {}
  /\ pc = [t \in Threads |-> "idle"]
  /\ op = [t \in Threads |-> None]
  /\ class = [t \in Threads |-> None]
  /\ hand = [t \in Threads |-> None]
  /\ chain = [t \in Threads |-> <<>>]
  /\ blk = [t \in Threads |-> None]

FreeRuns(c) == {r \in Runs : runClass[c][r] = None}

Claimed == SumFunction([c \in Chunks |-> NRuns - 1 - Cardinality(FreeRuns(c))])

(* carve_run_in_blocks(): a class has blocks twice the size of the last. *)
Carve(c, r, k) == [i \in 1..(RunSize \div 2^k) |-> <<c, r, i>>]

(* base_cls_from_ptr() *)
ClassOf(b) == runClass[b[1]][b[2]]

Top(t, k) == mag[t][k][Len(mag[t][k])]

(* Local variables of thread t that has n blocks of s in its magazine and  *)
(* pushes the others back before it goes on.                               *)
Keep(t, s, n) ==
  /\ mag' = [mag EXCEPT ![t][class[t]] = @ \o SubSeq(s, 1, n)]
  /\ chain' = [chain EXCEPT ![t] = SubSeq(s, n + 1, Len(s))]
  /\ filled' = IF n > 0 THEN filled \cup {t} ELSE filled

Room(t) == CacheSize - Len(mag[t][class[t]])

Return(t) ==
  /\ pc' = [pc EXCEPT ![t] = "idle"]
  /\ op' = [op EXCEPT ![t] = None]
  /\ class' = [class EXCEPT ![t] = None]
  /\ blk' = [blk EXCEPT ![t] = None]

-----------------------------------------------------------------------------
(* alloc() and reserve() *)

(* magazine.pop() with a block at hand. *)
AllocHit(t, k) ==
  /\ pc[t] = "idle" /\ mag[t][k] # <<>>
  /\ live' = live \cup {Top(t, k)}
  /\ mag' = [mag EXCEPT ![t][k] = Front(@)]
  /\ UNCHANGED <<memory, classes, init, filled, locals>>

(* An empty magazine registers the thread. *)
AllocMiss(t, k) ==
  /\ pc[t] = "idle" /\ mag[t][k] = <<>>
  /\ init' = init \cup {t}
  /\ pc' = [pc EXCEPT ![t] = "take"]
  /\ op' = [op EXCEPT ![t] = "alloc"]
  /\ class' = [class EXCEPT ![t] = k]
  /\ UNCHANGED <<memory, classes, mag, filled, live, hand, chain, blk>>

(* reserve() registers the thread, whatever it finds. *)
Reserve(t, k) ==
  /\ pc[t] = "idle" /\ Len(mag[t][k]) < CacheSize
  /\ init' = init \cup {t}
  /\ pc' = [pc EXCEPT ![t] = "take"]
  /\ op' = [op EXCEPT ![t] = "reserve"]
  /\ class' = [class EXCEPT ![t] = k]
  /\ UNCHANGED <<memory, classes, mag, filled, live, hand, chain, blk>>

ReserveFull(t, k) ==
  /\ pc[t] = "idle" /\ Len(mag[t][k]) = CacheSize
  /\ init' = init \cup {t}
  /\ UNCHANGED <<memory, classes, mag, filled, live, locals>>

(* Mutant of Take: what does not fit into the magazine is dropped. *)
Take_NoRest(t) ==
  /\ pc[t] = "take"
  /\ LET s == classes[class[t]]
         n == Min({Len(s), Room(t), BatchSize})
     IN  /\ mag' = [mag EXCEPT ![t][class[t]] = @ \o SubSeq(s, 1, n)]
         /\ classes' = [classes EXCEPT ![class[t]] = <<>>]
         /\ pc' = [pc EXCEPT ![t] = IF s = <<>> THEN "refill" ELSE "done"]
  /\ UNCHANGED <<memory, init, filled, live, op, class, hand, chain, blk>>

(* take_batch(), and in reserve() take_all() and refill_from_chain(): the  *)
(* one keeps a batch, the other as much as there is room for.              *)
Take(t) ==
  /\ pc[t] = "take"
  /\ LET s == classes[class[t]]
         fits == Min({Len(s), Room(t)})
         n == IF op[t] = "alloc" THEN Min({fits, BatchSize}) ELSE fits
     IN  /\ Keep(t, s, n)
         /\ pc' = [pc EXCEPT ![t] = CASE s = <<>> -> "refill"
                                      [] n < Len(s) -> "push"
                                      [] OTHER -> "done"]
  /\ classes' = [classes EXCEPT ![class[t]] = <<>>]
  /\ UNCHANGED <<memory, init, live, op, class, hand, blk>>

(* Mutant of ClaimRun: the chunk goes back although its runs are used up. *)
ClaimRun_AlwaysBack(t, c) ==
  LET r == Min(FreeRuns(c))
      s == Carve(c, r, class[t])
      n == Min({Len(s), Room(t)})
  IN  /\ Claimed < MaxRuns
      /\ runClass' = [runClass EXCEPT ![c][r] = class[t]]
      /\ Keep(t, s, n)
      /\ hand' = [hand EXCEPT ![t] = c]
      /\ pc' = [pc EXCEPT ![t] = IF n < Len(s) THEN "push" ELSE "giveBack"]

(* The first free run of c, cut into blocks: as many as fit go into the    *)
(* magazine, and c goes back if it has more runs.                          *)
ClaimRun(t, c) ==
  LET r == Min(FreeRuns(c))
      s == Carve(c, r, class[t])
      n == Min({Len(s), Room(t)})
      more == FreeRuns(c) # {r}
  IN  /\ Claimed < MaxRuns
      /\ runClass' = [runClass EXCEPT ![c][r] = class[t]]
      /\ Keep(t, s, n)
      /\ hand' = [hand EXCEPT ![t] = IF more THEN c ELSE None]
      /\ pc' = [pc EXCEPT ![t] = CASE n < Len(s) -> "push"
                                   [] n = Len(s) /\ more -> "giveBack"
                                   [] OTHER -> "done"]

(* refill() with a chunk from the stack. *)
RefillPop(t) ==
  /\ pc[t] = "refill" /\ chunks # <<>>
  /\ chunks' = Tail(chunks)
  /\ ClaimRun(t, Head(chunks))
  /\ UNCHANGED <<kind, classes, init, live, op, class, blk>>

(* refill() with a new chunk: the stack was empty when it looked. *)
RefillLooks(t) ==
  /\ pc[t] = "refill" /\ chunks = <<>>
  /\ pc' = [pc EXCEPT ![t] = "map"]
  /\ UNCHANGED <<memory, classes, mag, init, filled, live, op, class, hand, chain, blk>>

RefillMap(t, c) ==
  /\ pc[t] = "map" /\ kind[c] = "unmapped"
  /\ kind' = [kind EXCEPT ![c] = "runs"]
  /\ ClaimRun(t, c)
  /\ UNCHANGED <<chunks, classes, init, live, op, class, blk>>

(* mmap or madvise fails: alloc() returns nullptr, reserve() false. *)
MapFails(t) ==
  /\ pc[t] = "map"
  /\ Return(t)
  /\ UNCHANGED <<memory, classes, mag, init, filled, live, hand, chain>>

(* chunks_with_free_runs.push() at the end of refill(). *)
GiveBack(t) ==
  /\ pc[t] = "giveBack"
  /\ chunks' = <<hand[t]>> \o chunks
  /\ hand' = [hand EXCEPT ![t] = None]
  /\ pc' = [pc EXCEPT ![t] = "done"]
  /\ UNCHANGED <<kind, runClass, classes, mag, init, filled, live, op, class, chain, blk>>

(* g_classes[cls].push_chain(), wherever it is called. *)
PushChain(t) ==
  /\ pc[t] = "push"
  /\ classes' = [classes EXCEPT ![class[t]] = chain[t] \o @]
  /\ chain' = [chain EXCEPT ![t] = <<>>]
  /\ pc' = [pc EXCEPT ![t] = IF hand[t] # None THEN "giveBack" ELSE "done"]
  /\ UNCHANGED <<memory, mag, init, filled, live, op, class, hand, blk>>

(* The second magazine.pop() of alloc(). *)
AllocDone(t) ==
  /\ pc[t] = "done" /\ op[t] = "alloc"
  /\ live' = live \cup {Top(t, class[t])}
  /\ mag' = [mag EXCEPT ![t][class[t]] = Front(@)]
  /\ Return(t)
  /\ UNCHANGED <<memory, classes, init, filled, hand, chain>>

(* reserve() goes on until the magazine is full. *)
ReserveLoop(t) ==
  /\ pc[t] = "done" /\ op[t] = "reserve" /\ Room(t) > 0
  /\ pc' = [pc EXCEPT ![t] = "take"]
  /\ UNCHANGED <<memory, classes, mag, init, filled, live, op, class, hand, chain, blk>>

ReserveDone(t) ==
  /\ pc[t] = "done" /\ op[t] = "reserve" /\ Room(t) = 0
  /\ Return(t)
  /\ UNCHANGED <<memory, classes, mag, init, filled, live, hand, chain>>

-----------------------------------------------------------------------------
(* free(), by whichever thread *)

Free(t, b) ==
  /\ pc[t] = "idle" /\ b \in live
  /\ Len(mag[t][ClassOf(b)]) < CacheSize
  /\ mag' = [mag EXCEPT ![t][ClassOf(b)] = Append(@, b)]
  /\ live' = live \ {b}
  /\ UNCHANGED <<memory, classes, init, filled, locals>>

(* donate_batch(): a full magazine gives away its topmost batch. *)
FreeFull(t, b) ==
  /\ pc[t] = "idle" /\ b \in live
  /\ LET k == ClassOf(b)
         m == mag[t][k]
         kept == Len(m) - BatchSize
     IN  /\ Len(m) = CacheSize
         /\ mag' = [mag EXCEPT ![t][k] = SubSeq(m, 1, kept)]
         /\ chain' = [chain EXCEPT ![t] = Reverse(SubSeq(m, kept + 1, Len(m)))]
         /\ class' = [class EXCEPT ![t] = k]
  /\ live' = live \ {b}
  /\ blk' = [blk EXCEPT ![t] = b]
  /\ op' = [op EXCEPT ![t] = "free"]
  /\ pc' = [pc EXCEPT ![t] = "push"]
  /\ UNCHANGED <<memory, classes, init, filled, hand>>

FreeDone(t) ==
  /\ pc[t] = "done" /\ op[t] = "free"
  /\ mag' = [mag EXCEPT ![t][class[t]] = Append(@, blk[t])]
  /\ Return(t)
  /\ UNCHANGED <<memory, classes, init, filled, live, hand, chain>>

-----------------------------------------------------------------------------
(* Allocations above MAX_CLASS_SIZE have a mapping of their own. *)
AllocLarge(t, c) ==
  /\ pc[t] = "idle" /\ kind[c] = "unmapped"
  /\ kind' = [kind EXCEPT ![c] = "large"]
  /\ UNCHANGED <<runClass, chunks, classes, mag, init, filled, live, locals>>

FreeLarge(t, c) ==
  /\ pc[t] = "idle" /\ kind[c] = "large"
  /\ kind' = [kind EXCEPT ![c] = "unmapped"]
  /\ UNCHANGED <<runClass, chunks, classes, mag, init, filled, live, locals>>

(* A thread ends.  pthread calls flush_magazine() only for a thread that   *)
(* has registered.                                                         *)
Exit(t) ==
  /\ pc[t] = "idle"
  /\ \/ /\ t \in init
        /\ pc' = [pc EXCEPT ![t] = "flush"]
        /\ class' = [class EXCEPT ![t] = 0]
     \/ /\ t \notin init
        /\ pc' = [pc EXCEPT ![t] = "exited"]
        /\ UNCHANGED class
  /\ UNCHANGED <<memory, classes, mag, init, filled, live, op, hand, chain, blk>>

(* Mutant of Flush: the loop ends one class early. *)
Flush_LastClass(t) ==
  /\ pc[t] = "flush"
  /\ LET k == class[t]
         more == k + 1 < NClasses - 1
     IN  /\ classes' = [classes EXCEPT ![k] = Reverse(mag[t][k]) \o @]
         /\ mag' = [mag EXCEPT ![t][k] = <<>>]
         /\ class' = [class EXCEPT ![t] = IF more THEN k + 1 ELSE None]
         /\ pc' = [pc EXCEPT ![t] = IF more THEN "flush" ELSE "exited"]
  /\ UNCHANGED <<memory, init, filled, live, op, hand, chain, blk>>

(* donate_all(): one turn of its loop over the classes, the top of the     *)
(* magazine first.                                                         *)
Flush(t) ==
  /\ pc[t] = "flush"
  /\ LET k == class[t]
         more == k + 1 < NClasses
     IN  /\ classes' = [classes EXCEPT ![k] = Reverse(mag[t][k]) \o @]
         /\ mag' = [mag EXCEPT ![t][k] = <<>>]
         /\ class' = [class EXCEPT ![t] = IF more THEN k + 1 ELSE None]
         /\ pc' = [pc EXCEPT ![t] = IF more THEN "flush" ELSE "exited"]
  /\ UNCHANGED <<memory, init, filled, live, op, hand, chain, blk>>

Next ==
  \E t \in Threads :
    \/ \E k \in Classes : AllocHit(t, k) \/ AllocMiss(t, k)
    \/ \E k \in Classes : Reserve(t, k) \/ ReserveFull(t, k)
    \/ Take(t) \/ RefillPop(t) \/ RefillLooks(t) \/ MapFails(t)
    \/ \E c \in Chunks : RefillMap(t, c)
    \/ GiveBack(t) \/ PushChain(t)
    \/ AllocDone(t) \/ ReserveLoop(t) \/ ReserveDone(t)
    \/ \E b \in live : Free(t, b) \/ FreeFull(t, b)
    \/ FreeDone(t)
    \/ \E c \in Chunks : AllocLarge(t, c) \/ FreeLarge(t, c)
    \/ Exit(t) \/ Flush(t)

Spec == Init /\ [][Next]_vars

-----------------------------------------------------------------------------
(* Where blocks can be: in use, being freed, and on these lists. *)
Lists ==
  {<<"stack", k, classes[k]>> : k \in Classes}
    \cup {<<"chain", t, chain[t]>> : t \in Threads}
    \cup UNION {{<<"magazine", <<t, k>>, mag[t][k]>> : k \in Classes} : t \in Threads}

(* The blocks found there, and how many there are with repetitions. *)
Held == live \cup {blk[t] : t \in {u \in Threads : blk[u] # None}}
             \cup UNION {ToSet(l[3]) : l \in Lists}

HeldCount == Cardinality(live) + Cardinality({t \in Threads : blk[t] # None})
               + SumFunction([l \in Lists |-> Len(l[3])])

Blocks ==
  UNION {ToSet(Carve(c, r, runClass[c][r])) :
           <<c, r>> \in {cr \in Chunks \X Runs : runClass[cr[1]][cr[2]] # None}}

(* A block is never handed out twice and never lost: every block of a run  *)
(* that was claimed is at one place, in use or on one list, while threads  *)
(* take, split, donate and flush chains at the same time.  The lists of a  *)
(* class hold blocks of its size only: free() finds the class a block was  *)
(* carved for, as run_class is set before any block of the run is handed   *)
(* out, and for good.                                                      *)
BlocksOnce ==
  /\ Held = Blocks /\ HeldCount = Cardinality(Blocks)
  /\ \A k \in Classes :
       /\ \A b \in ToSet(classes[k]) : ClassOf(b) = k
       /\ \A t \in Threads : \A b \in ToSet(mag[t][k]) : ClassOf(b) = k

(* A chunk that has free runs is on the stack once, or with the one thread *)
(* that is refilling from it, and no other chunk is: runs are neither lost *)
(* nor claimed twice, and claim_run() always finds one (its assertion).    *)
RunsReachable ==
  \A c \in Chunks :
    Cardinality({i \in DOMAIN chunks : chunks[i] = c})
      + Cardinality({t \in Threads : hand[t] = c})
    = IF kind[c] = "runs" /\ FreeRuns(c) # {} THEN 1 ELSE 0

(* A thread that has ended has left no block in its magazine, where no     *)
(* other thread would find it, if it called thread_init() or ever took     *)
(* blocks from a shared list: pop() and reserve() register it before they  *)
(* fill its magazine, whatever else it does in between, and the loop of    *)
(* donate_all() leaves out no class.                                       *)
ExitFlushes ==
  \A t \in Registered \cup filled :
    pc[t] = "exited" => \A k \in Classes : mag[t][k] = <<>>

(* No thread that has ended holds blocks that are on no other list, as     *)
(* tests/test_buffer_pool.cpp has it of every dying thread.                *)
NothingStranded ==
  \A t \in Threads : pc[t] = "exited" => \A k \in Classes : mag[t][k] = <<>>

=============================================================================
