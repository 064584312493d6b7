------------------------------- MODULE Buffers -------------------------------
(***************************************************************************)
(* What the sources with buffers of their own have in common: the caller   *)
(* keeps Buffers in handles, each of which refers to one piece of memory   *)
(* until it is moved from or destroyed.                                    *)
(***************************************************************************)
EXTENDS Integers, Sequences, FiniteSets

CONSTANTS Handles,   (* the caller's variables of type Buffer               *)
          NoBuffer,  (* what a handle refers to once it is moved from       *)
          MaxSent    (* bound: units that arrive                            *)

ASSUME BuffersAssumption == MaxSent \in Nat /\ NoBuffer \notin Int

VARIABLES hold,      (* the memory each handle refers to                    *)
          content,   (* the units last written to each piece of memory,     *)
                     (* first and last                                      *)
          sent,      (* units that have arrived                             *)
          got        (* units that next() has returned                      *)

bufferVars == <<hold, content, sent, got>>

Held == {hold[h] : h \in Handles} \ {NoBuffer}

(* The caller has room for what next() may return. *)
CanTake(h) == hold[h] = NoBuffer

Hand(h, b) == hold' = [hold EXCEPT ![h] = b]

(* Move construction into a new Buffer, which leaves nothing behind, and   *)
(* move assignment, which swaps.                                           *)
MoveBuffer(g, h) ==
  /\ hold[g] # NoBuffer
  /\ hold' = [hold EXCEPT ![h] = hold[g], ![g] = hold[h]]
  /\ UNCHANGED <<content, sent, got>>

(* Two handles never refer to the same memory. *)
HandlesDiffer ==
  \A g, h \in Handles : hold[g] = hold[h] => g = h \/ hold[g] = NoBuffer

Shown == [h \in Handles |->
            IF hold[h] = NoBuffer THEN NoBuffer ELSE content[hold[h]]]

Promise == INSTANCE Transport WITH Nothing <- NoBuffer, seen <- Shown

(* The caller receives every unit once and in order, and no Buffer is      *)
(* written to while the caller has it: the memory of a Buffer comes back   *)
(* to the kernel only when the Buffer is destroyed.                        *)
ImplementsTransport == Promise!Spec
=============================================================================
