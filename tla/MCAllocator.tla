----------------------------- MODULE MCAllocator -----------------------------
(* The buffer pool, one of whose two threads starts unregistered, or the   *)
(* stacks that it shares between threads: one of them per behaviour.       *)
(* TreiberStack needs no bound beyond TagIsNew.                            *)
EXTENDS BufferPool

CONSTANTS StackThreads, Nodes, Null, Tags

VARIABLES part, use, head, next, own, stackPc, expected, link, stackChain

Stack == INSTANCE TreiberStack
           WITH Threads <- StackThreads, pc <- stackPc, chain <- stackChain

stackVars == <<use, head, next, own, stackPc, expected, link, stackChain>>

AllWithOne ==
  [t \in StackThreads |->
     IF t = CHOOSE u \in StackThreads : TRUE THEN Nodes ELSE {}]

(* Every thread of the pool has ended, or it is at its bound of runs.      *)
PoolRests ==
  /\ part = "pool"
  /\ \/ \A t \in Threads : pc[t] = "exited"
     \/ Claimed = MaxRuns
  /\ UNCHANGED <<part, vars, stackVars>>

MCInit ==
  /\ Init /\ Stack!Init
  /\ part \in {"pool", "stack"}
  /\ part = "pool" => use = "chunks" /\ own = AllWithOne

MCNext ==
  \/ part = "pool" /\ Next /\ UNCHANGED <<part, stackVars>>
  \/ part = "stack" /\ Stack!Next /\ UNCHANGED <<part, vars>>
  \/ PoolRests

MCSpec == MCInit /\ [][MCNext]_<<part, vars, stackVars>>

Symmetry == Permutations(Chunks) \cup Permutations(Nodes)

(* Every operation on a shared stack takes effect in one step, the last    *)
(* compare-exchange of push, push_chain and pop, the exchange of take_all: *)
(* TreiberStack!ImplementsStack, where the stack is what moves.            *)
ImplementsStack ==
  Stack!Atomic!Init /\ [][part = "stack" => Stack!Atomic!Next]_(Stack!Atomic!vars)
=============================================================================
