--------------------------- MODULE TcpSourceProofs ---------------------------
(***************************************************************************)
(* TcpSource for every pool, chunk size and set of handles.                *)
(***************************************************************************)
EXTENDS TcpSource, BuffersProofs, SequenceTheorems

Places == {"out", "in", "failing", "closing", "gone"}

TcpTypes ==
  /\ HandlesTyped(Entries)
  /\ content \in [Entries -> Nat \X Nat]
  /\ sent \in Nat /\ got \in Nat /\ arrived \in Nat
  /\ pool \in Seq(Entries) /\ armed \in BOOLEAN
  /\ flight \in Entries \cup {NoBuffer}
  /\ cqe \in [buf : Entries \cup {NoBuffer}, res : TcpResults \cup {"none"}]
  /\ cqe.res = "none" <=> cqe.buf = NoBuffer
  /\ shut \in {"no", "peer", "us"}
  /\ connStatus \in {"WouldBlock", "Eof", "Error"}
  /\ failure \in {"Eof", "Error"}
  /\ reader \in Places /\ sender \in {"out", "sending", "failing"}
  /\ ended \in BOOLEAN

(* Whoever is about to store a terminal status has shut the socket down;   *)
(* a terminal status stays terminal.                                       *)
ShutFirst ==
  /\ IsTerminal(connStatus) => shut = "us"
  /\ reader = "failing" \/ sender = "failing" => shut = "us"
  /\ ended => IsTerminal(connStatus) /\ reader \notin {"in", "failing"}

(* What the receives have taken from the socket is what next() returned    *)
(* and what is waiting in the completion queue.                            *)
InFlightFollows ==
  /\ arrived <= sent
  /\ cqe.res = "bytes" => /\ content[cqe.buf] = <<got + 1, arrived>>
                          /\ got < arrived
  /\ cqe.res # "bytes" => got = arrived

TcpInv == TcpTypes /\ EntriesInOnePlace /\ ArmedMeansInFlight /\ InFlightFollows

-----------------------------------------------------------------------------
(* The pool. *)

Distinct(s) == \A i, j \in 1..Len(s) : s[i] = s[j] => i = j
In(s, b) == \E i \in 1..Len(s) : s[i] = b

LEMMA PoolGet ==
  ASSUME NEW p \in Seq(Entries), p # << >>, Distinct(p)
  PROVE  /\ Top(p) \in Entries /\ Get(p) \in Seq(Entries)
         /\ Distinct(Get(p))
         /\ In(p, Top(p))
         /\ \A b \in Entries : In(Get(p), b) <=> In(p, b) /\ b # Top(p)
<1>1. /\ Len(p) \in Nat \ {0}
      /\ Get(p) \in Seq(Entries) /\ Len(Get(p)) = Len(p) - 1
      /\ \A i \in 1..(Len(p) - 1) : Get(p)[i] = p[i]
  <2>1. Len(p) \in Nat \ {0}
    OBVIOUS
  <2>2. \A i \in 1..(Len(p) - 1) : p[i] \in Entries
    BY <2>1
  <2>3. /\ Get(p) \in Seq(Entries)
        /\ Len(Get(p)) = IF 1 <= Len(p) - 1 THEN Len(p) - 1 - 1 + 1 ELSE 0
        /\ \A i \in 1..(Len(p) - 1 - 1 + 1) : Get(p)[i] = p[1 + i - 1]
    BY <2>1, <2>2, SubSeqProperties DEF Get
  <2>4. Len(Get(p)) = Len(p) - 1
    <3>1. \A n \in Nat \ {0} :
            (IF 1 <= n - 1 THEN n - 1 - 1 + 1 ELSE 0) = n - 1
      OBVIOUS
    <3>2. QED
      BY <2>1, <2>3, <3>1, Zenon
  <2>5. ASSUME NEW i \in 1..(Len(p) - 1) PROVE Get(p)[i] = p[i]
    <3>1. i \in 1..(Len(p) - 1 - 1 + 1) /\ 1 + i - 1 = i
      BY <2>1
    <3>2. QED
      BY <2>3, <3>1
  <2>6. QED
    BY <2>1, <2>3, <2>4, <2>5
<1>2. Top(p) = p[Len(p)] /\ Top(p) \in Entries /\ In(p, Top(p))
  BY <1>1 DEF Top, In
<1>3. Distinct(Get(p))
  BY <1>1 DEF Distinct
<1>4. ASSUME NEW b \in Entries
      PROVE  In(Get(p), b) <=> In(p, b) /\ b # Top(p)
  BY <1>1, <1>2, SMTT(30) DEF Distinct, In
<1>5. QED
  BY <1>1, <1>2, <1>3, <1>4

LEMMA PoolRestore ==
  ASSUME NEW p \in Seq(Entries), Distinct(p), NEW o \in Entries, ~In(p, o)
  PROVE  /\ Restore(p, o) \in Seq(Entries)
         /\ Distinct(Restore(p, o))
         /\ \A b \in Entries : In(Restore(p, o), b) <=> In(p, b) \/ b = o
<1>1. /\ Len(p) \in Nat
      /\ Restore(p, o) \in Seq(Entries) /\ Len(Restore(p, o)) = Len(p) + 1
      /\ \A i \in 1..Len(p) : Restore(p, o)[i] = p[i]
      /\ Restore(p, o)[Len(p) + 1] = o
  BY DEF Restore
<1>2. Distinct(Restore(p, o))
  BY <1>1 DEF Distinct, In
<1>3. ASSUME NEW b \in Entries
      PROVE  In(Restore(p, o), b) <=> In(p, b) \/ b = o
  BY <1>1 DEF In
<1>4. QED
  BY <1>1, <1>2, <1>3

(* A new pool holds every entry once. *)
LEMMA PoolNew ==
  /\ NewPool(PoolSize) \in Seq(Entries) /\ NewPool(PoolSize) # << >>
  /\ Distinct(NewPool(PoolSize))
  /\ \A b \in Entries : In(NewPool(PoolSize), b)
<1>1. /\ NewPool(PoolSize) \in [1..PoolSize -> Entries]
      /\ \A i \in 1..PoolSize : NewPool(PoolSize)[i] = PoolSize + 1 - i
  BY TcpAssumption DEF NewPool, Entries
<1>2. NewPool(PoolSize) \in Seq(Entries) /\ Len(NewPool(PoolSize)) = PoolSize
  BY <1>1, TcpAssumption
<1>3. Distinct(NewPool(PoolSize))
  BY <1>1, <1>2, TcpAssumption DEF Distinct
<1>4. ASSUME NEW b \in Entries PROVE In(NewPool(PoolSize), b)
  <2>1. PoolSize + 1 - b \in 1..PoolSize
    BY TcpAssumption DEF Entries
  <2>2. NewPool(PoolSize)[PoolSize + 1 - b] = b
    BY <1>1, <2>1, TcpAssumption DEF Entries
  <2>3. QED
    BY <1>2, <2>1, <2>2 DEF In
<1>5. QED
  BY <1>2, <1>3, <1>4, TcpAssumption

-----------------------------------------------------------------------------
(* The steps by what they do to the buffers.                               *)

(* Steps that only concern the connection or the input. *)
LEMMA QuietStep ==
  ASSUME TcpInv, UNCHANGED <<hold, content, got, ringVars>>, sent' >= sent,
         sent' \in Nat,
         reader' = "gone" => reader = "gone" \/ flight = NoBuffer
  PROVE  EntriesInOnePlace' /\ ArmedMeansInFlight' /\ InFlightFollows'
<1>1. EntriesInOnePlace'
  BY DEF TcpInv, EntriesInOnePlace, HandlesDiffer, Held, InPool, ringVars
<1>2. ArmedMeansInFlight'
  BY DEF TcpInv, ArmedMeansInFlight, ringVars
<1>3. InFlightFollows'
  BY DEF TcpInv, TcpTypes, InFlightFollows, ringVars
<1>4. QED
  BY <1>1, <1>2, <1>3

(* NoBuffer is no entry, and a completion without a buffer is none.        *)
LEMMA CqeFacts ==
  ASSUME TcpTypes
  PROVE  /\ NoBuffer \notin Entries /\ NoBuffer \notin Held
         /\ cqe = NoCqe <=> cqe.buf = NoBuffer
         /\ cqe = NoCqe <=> cqe.res = "none"
         /\ NoCqe.buf = NoBuffer /\ NoCqe.res = "none"
  BY BuffersAssumption DEF TcpTypes, NoCqe, Held, Entries

(* Where an entry is, with the pool as a set. *)
Placed ==
  /\ Distinct(pool) /\ HandlesDiffer
  /\ \A b \in Entries :
       /\ In(pool, b) => flight # b /\ cqe.buf # b /\ b \notin Held
       /\ flight = b => cqe.buf # b /\ b \notin Held
       /\ cqe.buf = b => b \notin Held
       /\ In(pool, b) \/ flight = b \/ cqe.buf = b \/ b \in Held

LEMMA PlacedIsInOnePlace ==
  (Placed <=> EntriesInOnePlace) /\ (Placed' <=> EntriesInOnePlace')
  BY DEF Placed, EntriesInOnePlace, Distinct, In, InPool

(* rearm_recv_, with no receive in flight: an entry goes from the pool to  *)
(* the kernel, or none moves.  What the call does with the completion      *)
(* before that is put as c, and with the handles as held.                  *)
LEMMA RearmPlaces ==
  ASSUME TcpTypes, Distinct(pool), NEW after, RearmRecv(pool, after),
         flight = NoBuffer
  PROVE  /\ pool' \in Seq(Entries) /\ Distinct(pool')
         /\ flight' \in Entries \cup {NoBuffer}
         /\ armed' = (flight' # NoBuffer)
         /\ \A b \in Entries : /\ In(pool', b) => In(pool, b) /\ flight' # b
                               /\ flight' = b => In(pool, b)
                               /\ In(pool, b) => In(pool', b) \/ flight' = b
<1>0. pool \in Seq(Entries) /\ NoBuffer \notin Entries
  BY CqeFacts DEF TcpTypes
<1>1. CASE pool # << >> /\ flight' = Top(pool) /\ pool' = Get(pool) /\ armed' = TRUE
  BY <1>0, <1>1, PoolGet, Zenon
<1>2. CASE flight' = NoBuffer /\ pool' = pool /\ armed' = FALSE
  BY <1>0, <1>2, Zenon
<1>3. QED
  BY <1>1, <1>2, Zenon DEF RearmRecv

LEMMA TcpTypesInit == TcpInit => TcpTypes
<1> SUFFICES ASSUME TcpInit PROVE TcpTypes
  OBVIOUS
<1>1. NoBuffer \notin Entries
  BY BuffersAssumption DEF Entries
<1>2. /\ NewPool(PoolSize) \in Seq(Entries)
      /\ Top(NewPool(PoolSize)) \in Entries
      /\ Get(NewPool(PoolSize)) \in Seq(Entries)
  BY PoolNew, PoolGet
<1>3. QED
  BY <1>1, <1>2, Zenon DEF TcpInit, TcpTypes, HandlesTyped, NoCqe, Places

LEMMA TcpPlacesInit ==
  TcpInit => EntriesInOnePlace /\ ArmedMeansInFlight /\ InFlightFollows
<1> SUFFICES ASSUME TcpInit
             PROVE  Placed /\ ArmedMeansInFlight /\ InFlightFollows
  BY PlacedIsInOnePlace
<1>1. /\ Held = {} /\ HandlesDiffer
      /\ cqe.buf = NoBuffer /\ cqe.res = "none" /\ cqe = NoCqe
      /\ NoBuffer \notin Entries
  BY BuffersAssumption DEF TcpInit, Held, HandlesDiffer, NoCqe, Entries
<1>2. Placed
  BY <1>1, PoolNew, PoolGet DEF TcpInit, Placed
<1>3. armed <=> flight # NoBuffer
  BY <1>1, PoolNew, PoolGet DEF TcpInit
<1>4. QED
  BY <1>1, <1>2, <1>3 DEF TcpInit, ArmedMeansInFlight, InFlightFollows

-----------------------------------------------------------------------------
(* Types. *)
LEMMA TcpTypesStep ==
  ASSUME TcpInv, TcpNext PROVE TcpTypes'
<1>0. /\ TcpTypes /\ Distinct(pool) /\ NoBuffer \notin Entries
      /\ NoCqe \in [buf : Entries \cup {NoBuffer}, res : TcpResults \cup {"none"}]
      /\ NoCqe.buf = NoBuffer /\ NoCqe.res = "none"
  BY CqeFacts DEF TcpInv, EntriesInOnePlace, Distinct, NoCqe
<1> USE DEF TcpTypes, HandlesTyped, bufferVars, ringVars, connVars, Places
<1>1. CASE TcpArrive \/ TcpClose
  BY <1>0, <1>1, SMTT(30) DEF TcpArrive, TcpClose
<1>2. ASSUME NEW res \in TcpResults, TcpComplete(res) PROVE TcpTypes'
  <2>1. flight \in Entries
    BY <1>0, <1>2 DEF TcpComplete
  <2>2. /\ cqe' \in [buf : Entries \cup {NoBuffer}, res : TcpResults \cup {"none"}]
        /\ cqe'.res = "none" <=> cqe'.buf = NoBuffer
    BY <1>0, <1>2, <2>1 DEF TcpComplete, TcpResults
  <2>3. content' \in [Entries -> Nat \X Nat] /\ arrived' \in Nat
    <3>1. CASE UNCHANGED <<content, arrived>>
      BY <1>0, <3>1
    <3>2. ASSUME NEW last \in (arrived + 1)..sent, arrived' = last,
                 content' = [content EXCEPT ![flight] = <<arrived + 1, last>>]
          PROVE  content' \in [Entries -> Nat \X Nat] /\ arrived' \in Nat
      <4>1. <<arrived + 1, last>> \in Nat \X Nat /\ last \in Nat
        BY <1>0
      <4>2. QED
        BY <1>0, <2>1, <3>2, <4>1
    <3>3. QED
      BY <1>2, <3>1, <3>2 DEF TcpComplete
  <2>4. QED
    BY <1>0, <1>2, <2>2, <2>3 DEF TcpComplete
<1>3. CASE NextTerminal \/ NextBegins \/ NextWouldBlock \/ NextStores
  <2>1. CASE NextTerminal
    BY <1>0, <2>1, SMTT(30) DEF NextTerminal
  <2>2. CASE NextBegins
    BY <1>0, <2>2, SMTT(30) DEF NextBegins
  <2>3. CASE NextWouldBlock
    BY <1>0, <2>3, SMTT(30) DEF NextWouldBlock
  <2>4. CASE NextStores
    BY <1>0, <2>4, SMTT(30) DEF NextStores
  <2>5. QED
    BY <1>3, <2>1, <2>2, <2>3, <2>4
<1>4. CASE NextRearms
  <2>1. flight = NoBuffer
    BY <1>4 DEF NextRearms, TcpInv, ArmedMeansInFlight
  <2>2. /\ pool' \in Seq(Entries) /\ flight' \in Entries \cup {NoBuffer}
        /\ armed' \in BOOLEAN
    BY <1>0, <1>4, <2>1, RearmPlaces, Zenon DEF NextRearms
  <2>3. shut' \in {"no", "peer", "us"} /\ failure' \in {"Eof", "Error"} /\ reader' \in Places
    BY <1>0, <1>4 DEF NextRearms, RearmRecv
  <2>4. ended' \in BOOLEAN
    BY <1>4 DEF NextRearms
  <2>5. QED
    BY <1>0, <1>4, <2>2, <2>3, <2>4 DEF NextRearms
<1>5. ASSUME NEW h \in Handles, NextTakes(h) PROVE TcpTypes'
  <2>1. flight = NoBuffer /\ cqe.buf \in Entries
    BY <1>0, <1>5, CqeFacts DEF NextTakes, TcpInv, ArmedMeansInFlight
  <2>2. /\ pool' \in Seq(Entries) /\ flight' \in Entries \cup {NoBuffer}
        /\ armed' \in BOOLEAN
    BY <1>0, <1>5, <2>1, RearmPlaces, Zenon DEF NextTakes
  <2>3. shut' \in {"no", "peer", "us"} /\ failure' \in {"Eof", "Error"} /\ reader' \in Places
    BY <1>0, <1>5, SMTT(30) DEF NextTakes, RearmRecv
  <2>4. hold' \in [Handles -> Entries \cup {NoBuffer}] /\ got' \in Nat
    BY <1>0, <1>5, <2>1 DEF NextTakes, Hand
  <2>5. QED
    BY <1>0, <1>5, <2>2, <2>3, <2>4, SMTT(30) DEF NextTakes
<1>6. CASE NextRetries \/ NextFails
  <2>1. cqe.buf \in Entries
    BY <1>0, <1>6 DEF NextRetries, NextFails
  <2>2. pool' \in Seq(Entries)
    <3>1. pool \in Seq(Entries) /\ pool' = Append(pool, cqe.buf)
      BY <1>0, <1>6, Zenon DEF NextRetries, NextFails, Restore
    <3>2. QED
      BY <2>1, <3>1
  <2>3. QED
    BY <1>0, <1>6, <2>2, ZenonT(30) DEF NextRetries, NextFails
<1>7. CASE SendBegins \/ SendEnds \/ SendStores \/ CloseBegins \/ CloseEnds
  <2>1. CASE SendBegins
    BY <1>0, <2>1, SMTT(30) DEF SendBegins
  <2>2. CASE SendEnds
    BY <1>0, <2>2, SMTT(30) DEF SendEnds
  <2>3. CASE SendStores
    BY <1>0, <2>3, SMTT(30) DEF SendStores
  <2>4. CASE CloseBegins
    BY <1>0, <2>4, SMTT(30) DEF CloseBegins
  <2>5. CASE CloseEnds
    BY <1>0, <2>5, SMTT(30) DEF CloseEnds
  <2>6. QED
    BY <1>7, <2>1, <2>2, <2>3, <2>4, <2>5
<1>8. ASSUME NEW h \in Handles, TcpDestroy(h) PROVE TcpTypes'
  <2>1. hold[h] \in Entries
    BY <1>0, <1>8 DEF TcpDestroy
  <2>2. pool' \in Seq(Entries) /\ hold' \in [Handles -> Entries \cup {NoBuffer}]
    BY <1>0, <1>8, <2>1 DEF TcpDestroy, Restore, Hand
  <2>3. QED
    BY <1>0, <1>8, <2>2 DEF TcpDestroy
<1>9. ASSUME NEW g \in Handles, NEW h \in Handles, TcpMove(g, h) PROVE TcpTypes'
  <2>1. hold' \in [Handles -> Entries \cup {NoBuffer}]
    BY <1>0, <1>9, SMTT(30) DEF TcpMove, MoveBuffer
  <2>2. UNCHANGED <<content, sent, got, ringVars, connVars>>
    BY <1>9 DEF TcpMove, MoveBuffer
  <2>3. QED
    BY <1>0, <2>1, <2>2
<1>10. QED
  BY <1>1, <1>2, <1>3, <1>4, <1>5, <1>6, <1>7, <1>8, <1>9, SMTT(30)
     DEF TcpNext, TcpPoll

-----------------------------------------------------------------------------
(* Buffers and bytes. *)
LEMMA TcpPlacesStep ==
  ASSUME TcpInv, TcpNext
  PROVE  EntriesInOnePlace' /\ ArmedMeansInFlight' /\ InFlightFollows'
<1>0. /\ TcpTypes /\ TcpTypes' /\ HandlesTyped(Entries)
      /\ Placed /\ Distinct(pool) /\ HandlesDiffer
      /\ ArmedMeansInFlight /\ InFlightFollows
      /\ pool \in Seq(Entries) /\ sent \in Nat /\ got \in Nat /\ arrived \in Nat
  BY TcpTypesStep, PlacedIsInOnePlace, Zenon DEF TcpInv, TcpTypes, Placed
<1>c. /\ NoBuffer \notin Entries /\ NoBuffer \notin Held
      /\ cqe = NoCqe <=> cqe.buf = NoBuffer
      /\ cqe = NoCqe <=> cqe.res = "none"
      /\ NoCqe.buf = NoBuffer /\ NoCqe.res = "none"
  BY <1>0, CqeFacts
<1>d. SUFFICES Placed' /\ ArmedMeansInFlight' /\ InFlightFollows'
  BY PlacedIsInOnePlace
<1>1. CASE \/ TcpArrive \/ TcpClose
           \/ NextTerminal \/ NextBegins \/ NextWouldBlock \/ NextStores
           \/ SendBegins \/ SendEnds \/ SendStores \/ CloseBegins \/ CloseEnds
  <2>1. UNCHANGED <<hold, content, got, ringVars>>
    BY <1>1, SMTT(30) DEF TcpArrive, TcpClose, NextTerminal, NextBegins,
       NextWouldBlock,
       NextStores, SendBegins, SendEnds, SendStores, CloseBegins, CloseEnds,
       bufferVars
  <2>2. sent' \in Nat /\ sent' >= sent
    BY <1>0, <1>1, SMTT(30) DEF TcpArrive, TcpClose, NextTerminal, NextBegins,
       NextWouldBlock, NextStores, SendBegins, SendEnds, SendStores,
       CloseBegins, CloseEnds, bufferVars
  <2>3. reader' = "gone" => reader = "gone" \/ flight = NoBuffer
    BY <1>0, <1>1, SMTT(30) DEF TcpArrive, TcpClose, NextTerminal, NextBegins,
       NextWouldBlock, NextStores, SendBegins, SendEnds, SendStores,
       CloseBegins, CloseEnds, connVars, ArmedMeansInFlight
  <2>4. QED
    BY <2>1, <2>2, <2>3, QuietStep, PlacedIsInOnePlace
<1>2. ASSUME NEW res \in TcpResults, TcpComplete(res)
      PROVE  Placed' /\ ArmedMeansInFlight' /\ InFlightFollows'
  <2>1. /\ flight \in Entries /\ cqe.buf = NoBuffer /\ cqe.res = "none"
        /\ flight' = NoBuffer /\ cqe'.buf = flight /\ cqe'.res = res
        /\ UNCHANGED <<hold, sent, got, pool, armed, reader>>
    BY <1>0, <1>c, <1>2, SMTT(30)
       DEF TcpTypes, TcpComplete, ArmedMeansInFlight, connVars
  <2>2. Placed'
    BY <1>0, <1>c, <2>1, SMTT(30) DEF Placed, HandlesDiffer, Held
  <2>3. ArmedMeansInFlight'
    BY <1>0, <1>c, <2>1 DEF ArmedMeansInFlight, NoCqe
  <2>4. InFlightFollows'
    <3>1. CASE res # "bytes"
      BY <1>0, <1>2, <2>1, <3>1, SMTT(30) DEF TcpComplete, InFlightFollows
    <3>2. CASE res = "bytes"
      <4>1. PICK last \in (arrived + 1)..sent :
              /\ content' = [content EXCEPT ![flight] = <<arrived + 1, last>>]
              /\ arrived' = last
        BY <1>2, <3>2 DEF TcpComplete
      <4>2. content'[flight] = <<arrived + 1, last>>
        BY <1>0, <2>1, <4>1, SMTT(30) DEF TcpTypes
      <4>3. got = arrived
        BY <1>0, <2>1 DEF InFlightFollows
      <4>4. QED
        BY <1>0, <2>1, <3>2, <4>1, <4>2, <4>3, SMTT(30) DEF InFlightFollows
    <3>3. QED
      BY <3>1, <3>2
  <2>5. QED
    BY <2>2, <2>3, <2>4
<1>3. CASE NextRearms
  <2>1. /\ flight = NoBuffer /\ cqe = NoCqe
        /\ UNCHANGED <<hold, content, sent, got, cqe, arrived>>
    BY <1>0, <1>3 DEF NextRearms, ArmedMeansInFlight, bufferVars
  <2>2. /\ Distinct(pool') /\ armed' = (flight' # NoBuffer)
        /\ \A b \in Entries : /\ In(pool', b) => In(pool, b) /\ flight' # b
                              /\ flight' = b => In(pool, b)
                              /\ In(pool, b) => In(pool', b) \/ flight' = b
    BY <1>0, <1>3, <2>1, RearmPlaces DEF NextRearms
  <2>3. Placed'
    BY <1>0, <1>c, <2>1, <2>2, SMTT(30) DEF Placed, HandlesDiffer, Held
  <2>4. ArmedMeansInFlight'
    <3>1. reader' # "gone"
      BY <1>3 DEF NextRearms, RearmRecv
    <3>2. QED
      BY <2>1, <2>2, <3>1, Zenon DEF ArmedMeansInFlight
  <2>5. InFlightFollows'
    BY <1>0, <2>1 DEF InFlightFollows
  <2>6. QED
    BY <2>3, <2>4, <2>5
<1>4. ASSUME NEW h \in Handles, NextTakes(h)
      PROVE  Placed' /\ ArmedMeansInFlight' /\ InFlightFollows'
  <2>1. /\ flight = NoBuffer /\ cqe.buf \in Entries /\ cqe.buf \notin Held
        /\ cqe.res = "bytes" /\ CanTake(h) /\ Hand(h, cqe.buf)
        /\ got' = content[cqe.buf][2]
        /\ cqe' = NoCqe /\ UNCHANGED <<content, sent, arrived>>
    BY <1>0, <1>c, <1>4, SMTT(30) DEF NextTakes, TcpTypes, ArmedMeansInFlight,
       Placed
  <2>2. /\ Distinct(pool') /\ armed' = (flight' # NoBuffer)
        /\ \A b \in Entries : /\ In(pool', b) => In(pool, b) /\ flight' # b
                              /\ flight' = b => In(pool, b)
                              /\ In(pool, b) => In(pool', b) \/ flight' = b
    BY <1>0, <1>4, <2>1, RearmPlaces, SMTT(30) DEF NextTakes
  <2>3. HandlesDiffer' /\ Held' = Held \cup {cqe.buf}
    BY <1>0, <2>1, HandDiffers, SMTT(30)
  <2>4. Placed'
    BY <1>0, <1>c, <2>1, <2>2, <2>3, SMTT(30) DEF Placed
  <2>5. ArmedMeansInFlight'
    <3>1. reader' # "gone"
      BY <1>4, SMTT(30) DEF NextTakes, RearmRecv
    <3>2. QED
      BY <2>1, <2>2, <3>1, Zenon DEF ArmedMeansInFlight
  <2>6. InFlightFollows'
    BY <1>0, <1>c, <2>1, SMTT(30) DEF InFlightFollows
  <2>7. QED
    BY <2>4, <2>5, <2>6
<1>5. CASE NextRetries \/ NextFails
  <2>1. /\ flight = NoBuffer /\ cqe.buf \in Entries /\ cqe.res # "bytes"
        /\ pool' = Restore(pool, cqe.buf) /\ cqe' = NoCqe /\ armed' = FALSE
        /\ UNCHANGED <<hold, content, sent, got, flight, arrived>>
        /\ reader' # "gone"
    BY <1>0, <1>c, <1>5, SMTT(30) DEF NextRetries, NextFails, TcpTypes,
       ArmedMeansInFlight, bufferVars
  <2>2. ~In(pool, cqe.buf)
    BY <1>0, <2>1, SMTT(30) DEF Placed
  <2>3. /\ Distinct(pool')
        /\ \A b \in Entries : In(pool', b) <=> In(pool, b) \/ b = cqe.buf
    BY <1>0, <2>1, <2>2, PoolRestore
  <2>4. Placed'
    BY <1>0, <1>c, <2>1, <2>3, SMTT(30) DEF Placed, HandlesDiffer, Held
  <2>5. ArmedMeansInFlight'
    BY <2>1 DEF ArmedMeansInFlight
  <2>6. InFlightFollows'
    BY <1>0, <1>c, <2>1, SMTT(30) DEF InFlightFollows
  <2>7. QED
    BY <2>4, <2>5, <2>6
<1>6. ASSUME NEW h \in Handles, TcpDestroy(h)
      PROVE  Placed' /\ ArmedMeansInFlight' /\ InFlightFollows'
  <2>1. /\ hold[h] \in Entries /\ hold[h] \in Held
        /\ pool' = Restore(pool, hold[h]) /\ Hand(h, NoBuffer)
        /\ UNCHANGED <<content, sent, got, armed, flight, cqe, arrived, reader>>
    BY <1>0, <1>6 DEF TcpDestroy, HandlesTyped, Held, connVars
  <2>2. ~In(pool, hold[h])
    BY <1>0, <2>1, SMTT(30) DEF Placed
  <2>3. /\ Distinct(pool')
        /\ \A b \in Entries : In(pool', b) <=> In(pool, b) \/ b = hold[h]
    BY <1>0, <2>1, <2>2, PoolRestore
  <2>4. HandlesDiffer' /\ Held' = Held \ {hold[h]}
    BY <1>0, <2>1, DestroyDiffers
  <2>5. Placed'
    BY <1>0, <1>c, <2>1, <2>3, <2>4, SMTT(30) DEF Placed
  <2>6. ArmedMeansInFlight' /\ InFlightFollows'
    BY <1>0, <2>1, SMTT(30) DEF ArmedMeansInFlight, InFlightFollows
  <2>7. QED
    BY <2>5, <2>6
<1>7. ASSUME NEW g \in Handles, NEW h \in Handles, TcpMove(g, h)
      PROVE  Placed' /\ ArmedMeansInFlight' /\ InFlightFollows'
  <2>1. /\ HandlesDiffer' /\ Held' = Held
        /\ UNCHANGED <<content, sent, got, pool, armed, flight, cqe, arrived,
                       reader>>
    <3>1. MoveBuffer(g, h)
      BY <1>7 DEF TcpMove
    <3>2. QED
      BY <1>0, <1>7, <3>1, MoveDiffers, Zenon
         DEF TcpMove, MoveBuffer, ringVars, connVars
  <2>2. Placed'
    BY <1>0, <2>1 DEF Placed
  <2>3. ArmedMeansInFlight' /\ InFlightFollows'
    BY <1>0, <2>1, SMTT(30) DEF ArmedMeansInFlight, InFlightFollows
  <2>4. QED
    BY <2>2, <2>3
<1>8. QED
  BY <1>1, <1>2, <1>3, <1>4, <1>5, <1>6, <1>7 DEF TcpNext, TcpPoll

LEMMA TcpInvariant == TcpSpec => []TcpInv
<1>1. TcpInit => TcpInv
  BY TcpTypesInit, TcpPlacesInit DEF TcpInv
<1>2. TcpInv /\ [TcpNext]_tcpVars => TcpInv'
  <2>1. ASSUME TcpInv, TcpNext PROVE TcpInv'
    BY <2>1, TcpTypesStep, TcpPlacesStep DEF TcpInv
  <2>2. ASSUME TcpInv, UNCHANGED tcpVars PROVE TcpInv'
    BY <2>2, SMTT(30) DEF TcpInv, TcpTypes, HandlesTyped, EntriesInOnePlace,
       HandlesDiffer, Held, InPool, ArmedMeansInFlight, InFlightFollows,
       tcpVars, bufferVars, ringVars, connVars
  <2>3. QED
    BY <2>1, <2>2
<1>3. QED
  BY <1>1, <1>2, PTL DEF TcpSpec

(* No buffer of a TcpSource is lost or in two places, however calls of     *)
(* next(), completions and destructors of Buffers interleave.              *)
THEOREM TcpBuffersInOnePlace == TcpSpec => []EntriesInOnePlace
<1>1. TcpInv => EntriesInOnePlace
  BY DEF TcpInv
<1>2. QED
  BY <1>1, TcpInvariant, PTL

(* recv_armed_ tells the destructor the truth: when ~TcpSource() returns   *)
(* the kernel has no buffer of the pool.                                   *)
THEOREM DestructorLeavesNothing == TcpSpec => []ArmedMeansInFlight
<1>1. TcpInv => ArmedMeansInFlight
  BY DEF TcpInv
<1>2. QED
  BY <1>1, TcpInvariant, PTL

-----------------------------------------------------------------------------
(* The connection. *)
StatusTypes ==
  /\ connStatus \in {"WouldBlock", "Eof", "Error"}
  /\ failure \in {"Eof", "Error"}
  /\ ended \in BOOLEAN

(* "the socket never recovers", with next() and send() failing in any      *)
(* order on two threads.                                                   *)
THEOREM TcpFailureIsFinal == TcpSpec => []FailureIsFinal
<1>1. TcpInit => StatusTypes /\ ShutFirst
  BY Zenon DEF TcpInit, StatusTypes, ShutFirst, IsTerminal
<1>2. StatusTypes /\ ShutFirst /\ [TcpNext]_tcpVars => StatusTypes' /\ ShutFirst'
  <2> SUFFICES ASSUME StatusTypes, ShutFirst, [TcpNext]_tcpVars
               PROVE  StatusTypes' /\ ShutFirst'
    OBVIOUS
  <2> USE DEF StatusTypes, ShutFirst, IsTerminal
  <2>1. CASE UNCHANGED connVars
    BY <2>1 DEF connVars
  <2>2. CASE TcpClose \/ NextTerminal \/ NextBegins \/ NextWouldBlock
    <3>1. CASE NextTerminal
      <4>1. ended' \in BOOLEAN
        BY <3>1 DEF NextTerminal
      <4>2. QED
        BY <3>1, <4>1 DEF NextTerminal
    <3>2. CASE TcpClose
      BY <3>2 DEF TcpClose
    <3>3. CASE NextBegins \/ NextWouldBlock
      BY <3>3 DEF NextBegins, NextWouldBlock
    <3>4. QED
      BY <2>2, <3>1, <3>2, <3>3, SMTT(30)
  <2>3. CASE NextRearms
    <3>1. ended' \in BOOLEAN
      BY <2>3 DEF NextRearms
    <3>2. QED
      BY <2>3, <3>1 DEF NextRearms, RearmRecv
  <2>4. ASSUME NEW h \in Handles, NextTakes(h) PROVE StatusTypes' /\ ShutFirst'
    BY <2>4, SMTT(30) DEF NextTakes, RearmRecv
  <2>5. CASE NextRetries \/ NextFails \/ NextStores
    <3>1. CASE NextRetries \/ NextFails
      BY <3>1 DEF NextRetries, NextFails
    <3>2. CASE NextStores
      <4>1. ended' \in BOOLEAN
        BY <3>2 DEF NextStores
      <4>2. QED
        BY <3>2, <4>1 DEF NextStores
    <3>3. QED
      BY <2>5, <3>1, <3>2
  <2>6. CASE SendBegins \/ SendEnds \/ SendStores
    BY <2>6 DEF SendBegins, SendEnds, SendStores
  <2>7. CASE CloseBegins \/ CloseEnds
    BY <2>7 DEF CloseBegins, CloseEnds
  <2>8. QED
    BY <2>1, <2>2, <2>3, <2>4, <2>5, <2>6, <2>7, SMTT(30) DEF TcpNext, TcpPoll,
       TcpArrive, TcpComplete, TcpDestroy, TcpMove, tcpVars
<1>3. ShutFirst => FailureIsFinal
  BY DEF ShutFirst, FailureIsFinal
<1>4. QED
  BY <1>1, <1>2, <1>3, PTL DEF TcpSpec

-----------------------------------------------------------------------------
(* Every byte that receives took from the socket is returned once and in   *)
(* order, and what a Buffer shows does not change while the caller has it. *)
THEOREM TcpRefinement == TcpSpec => ImplementsTransport
<1>1. TcpInit => Promise!Init
  BY DEF TcpInit, Promise!Init, Shown
<1>2. TcpInv /\ [TcpNext]_tcpVars => [Promise!Next]_<<sent, got, Shown>>
  <2> SUFFICES ASSUME TcpInv, [TcpNext]_tcpVars
               PROVE  Promise!Next \/ UNCHANGED <<sent, got, Shown>>
    OBVIOUS
  <2>0. TcpTypes /\ HandlesTyped(Entries) /\ Placed /\ ArmedMeansInFlight
        /\ InFlightFollows /\ sent \in Nat /\ got \in Nat /\ arrived \in Nat
    BY PlacedIsInOnePlace DEF TcpInv, TcpTypes
  <2>1. CASE UNCHANGED <<sent, got, hold, content>>
    BY <2>1 DEF Shown
  <2>2. CASE TcpArrive
    <3>1. Promise!Arrive
      BY <2>2 DEF TcpArrive, Promise!Arrive, Shown
    <3>2. QED
      BY <3>1 DEF Promise!Next
  <2>3. ASSUME NEW res \in TcpResults, TcpComplete(res)
        PROVE  UNCHANGED <<sent, got, Shown>>
    <3>1. flight \in Entries /\ flight \notin Held
      BY <2>0, <2>3, SMTT(30) DEF TcpComplete, TcpTypes, Placed
    <3>2. CASE UNCHANGED content
      BY <2>3, <3>2, SMTT(30) DEF TcpComplete, Shown
    <3>3. ASSUME NEW v, content' = [content EXCEPT ![flight] = v]
          PROVE  Shown' = Shown
      BY <2>0, <2>3, <3>1, <3>3, WriteShows, Zenon DEF TcpComplete
    <3>4. QED
      BY <2>3, <3>2, <3>3 DEF TcpComplete
  <2>4. ASSUME NEW h \in Handles, NextTakes(h) PROVE Promise!Next
    <3>1. /\ cqe.buf \in Entries /\ cqe.res = "bytes"
          /\ hold[h] = NoBuffer /\ Hand(h, cqe.buf) /\ content' = content
          /\ got' = content[cqe.buf][2] /\ sent' = sent
      <4>1. /\ cqe.res = "bytes" /\ hold[h] = NoBuffer
            /\ Hand(h, cqe.buf) /\ content' = content
            /\ got' = content[cqe.buf][2] /\ sent' = sent
        BY <2>4 DEF NextTakes, CanTake
      <4>2. cqe.buf \in Entries
        BY <2>0, <4>1 DEF TcpTypes
      <4>3. QED
        BY <4>1, <4>2
    <3>2. content[cqe.buf] = <<got + 1, arrived>> /\ arrived \in (got + 1)..sent
      BY <2>0, <3>1, SMTT(30) DEF InFlightFollows
    <3>3. got' = arrived
      BY <3>1, <3>2
    <3>4. Shown' = [Shown EXCEPT ![h] = <<got + 1, arrived>>]
      BY <2>0, <3>1, <3>2, HandShows, SMTT(30)
    <3>5. Shown[h] = NoBuffer
      BY <3>1, SMTT(30) DEF Shown
    <3>6. Promise!Deliver(h)
      BY <3>1, <3>2, <3>3, <3>4, <3>5, Zenon DEF Promise!Deliver
    <3>7. QED
      BY <3>6 DEF Promise!Next
  <2>5. ASSUME NEW h \in Handles, TcpDestroy(h) PROVE Promise!Next
    BY <2>0, <2>5, DestroyShows DEF TcpDestroy
  <2>6. ASSUME NEW g \in Handles, NEW h \in Handles, TcpMove(g, h)
        PROVE  Promise!Next
    BY <2>0, <2>6, MoveShows DEF TcpMove
  <2>7. QED
    BY <2>1, <2>2, <2>3, <2>4, <2>5, <2>6, SMTT(30) DEF TcpNext, TcpPoll,
       TcpClose,
       NextTerminal, NextBegins, NextRearms, NextWouldBlock, NextRetries,
       NextFails, NextStores, SendBegins, SendEnds, SendStores, CloseBegins,
       CloseEnds, tcpVars, bufferVars
<1>3. QED
  BY <1>1, <1>2, TcpInvariant, PTL DEF TcpSpec, ImplementsTransport, Promise!Spec
=============================================================================
