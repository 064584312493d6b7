--------------------------- MODULE MoldFeedProofs ---------------------------
(***************************************************************************)
(* MoldFeed for every length of the session, every size of datagrams,      *)
(* requests and retries, and any number of cut and foreign datagrams.      *)
(***************************************************************************)
EXTENDS MoldFeed, SequenceTheorems, TLAPS

Positive == Nat \ {0}

(* What has been multicast, and what was asked for. *)
Published ==
  /\ nextSeq \in 1..(MaxSeq + 1)
  /\ sent \subseteq Positive \X (1..MaxBatch)
  /\ \A p \in sent : p[1] + p[2] <= nextSeq
  /\ requests \subseteq Positive \X Positive
  /\ \A r \in requests : r[1] + r[2] <= nextSeq

(* The framer, as long as it has not left its session. *)
Stream ==
  /\ session \in Sessions \cup {NoSession}
  /\ delivered \in Seq([session : Sessions, number : Nat])
  /\ expSeq = Len(delivered) + 1
  /\ \A i \in 1..Len(delivered) : delivered[i] = Message(session, i)
  /\ session = NoSession => delivered = <<>>
  /\ session = Home => expSeq <= nextSeq

OneSession ==
  \A i \in 1..Len(delivered) :
    delivered[i] = Message(delivered[1].session, i)

(* What the framer can rely on in a datagram, wherever it comes from. *)
Sound(d) ==
  \/ d.short
  \/ /\ ~d.short
     /\ d.session \in Sessions /\ d.seq \in Positive /\ d.count \in Nat
     /\ d.msgs \in Seq([session : Sessions, number : Nat])
     /\ \A i \in 1..Len(d.msgs) : d.msgs[i] = Message(d.session, d.seq + i - 1)
     /\ d.count # END_OF_SESSION =>
          /\ Len(d.msgs) <= d.count
          /\ d.session = Home => d.seq + d.count <= nextSeq
     /\ d.count = END_OF_SESSION => d.session = Home /\ ended /\ d.msgs = <<>>
     /\ d.session = Home => d.seq <= nextSeq
     /\ d.session # Home => d.seq = 1

(* The datagram that is being retried showed a gap in the session. *)
Retried ==
  /\ ~buf.short /\ Sound(buf)
  /\ buf.session = Home /\ session = Home
  /\ target = buf.seq /\ rounds = 0
  /\ buf.count = END_OF_SESSION => buf.seq = nextSeq

(* The recovery: no request, past or present, reaches beyond the gap.      *)
Recovering ==
  /\ pc \in {"poll", "finished"} => \A r \in requests : r[1] + r[2] <= expSeq
  /\ pc \in {"request", "await", "refeed"} =>
       Retried /\ \A r \in requests : r[1] + r[2] <= target
  /\ pc \in {"request", "await"} =>
       expSeq < target /\ (attempts <= unanswered \/ cutNews)
  /\ pc = "refeed" => target <= expSeq

(* How the feed may have ended. *)
Ending ==
  /\ why # "none" => stopReq /\ pc \in {"poll", "finished"}
  /\ why = "EndOfSession" => ended /\ session = Home /\ expSeq = nextSeq
  /\ why = "RetriesExhausted" => unanswered >= MaxAttempts \/ cutNews
  /\ why # "GapStillOpen"

Types ==
  /\ pc \in {"poll", "request", "await", "refeed", "finished"}
  /\ attempts \in Nat /\ unanswered \in Nat
  /\ cutNews \in BOOLEAN /\ ended \in BOOLEAN /\ stopReq \in BOOLEAN

FeedInv ==
  /\ Types /\ Published /\ Ending
  /\ OneSession
  /\ why # "SessionChanged" => Stream
  /\ why = "none" => Recovering

-----------------------------------------------------------------------------
(* What arrives. *)

LEMMA FunctionIsSequence ==
  ASSUME NEW T, NEW k \in Nat, NEW f \in [1..k -> T]
  PROVE  f \in Seq(T) /\ Len(f) = k
OBVIOUS

(* Every copy of a datagram that was published, whole or cut, is sound. *)
LEMMA CopiesSound ==
  ASSUME Published, NEW seq \in Positive, NEW n \in 1..MaxBatch,
         seq + n <= nextSeq, NEW d \in Copies(seq, n)
  PROVE  /\ Sound(d)
         /\ ~d.short => d.session = Home /\ d.seq = seq /\ d.count = n
                        /\ n # END_OF_SESSION
<1>1. CASE d = ShortDatagram(Home)
  BY <1>1 DEF ShortDatagram, Sound
<1>2. CASE d \in {Datagram(Home, seq, n, k) : k \in 0..n}
  <2>1. PICK k \in 0..n : d = Datagram(Home, seq, n, k)
    BY <1>2
  <2>2. /\ d.short = FALSE /\ d.session = Home /\ d.seq = seq /\ d.count = n
        /\ d.msgs = [i \in 1..k |-> Message(Home, seq + i - 1)]
    BY <2>1 DEF Datagram
  <2>3. /\ \A i \in 1..k : Message(Home, seq + i - 1)
                             \in [session : Sessions, number : Nat]
        /\ k \in Nat
    BY HomeAssumption DEF Message, Positive
  <2>4. /\ d.msgs \in Seq([session : Sessions, number : Nat])
        /\ Len(d.msgs) = k
        /\ \A i \in 1..k : d.msgs[i] = Message(Home, seq + i - 1)
    <3>1. d.msgs \in [1..k -> [session : Sessions, number : Nat]]
      BY <2>2, <2>3
    <3> QED
      BY <2>2, <2>3, <3>1, FunctionIsSequence
  <2>5. n # END_OF_SESSION
    BY BoundsAssumption, EndAssumption
  <2>6. k <= n /\ n \in Nat /\ seq <= nextSeq
    BY BoundsAssumption DEF Published, Positive
  <2>7. ~d.short
    BY <2>2
  <2>8. \A i \in 1..Len(d.msgs) : d.msgs[i] = Message(d.session, d.seq + i - 1)
    BY <2>2, <2>4
  <2>9. Sound(d)
    <3>1. /\ d.session \in Sessions /\ d.seq \in Positive /\ d.count \in Nat
          /\ Len(d.msgs) <= d.count /\ d.seq + d.count <= nextSeq
          /\ d.seq <= nextSeq
      BY <2>2, <2>4, <2>6, HomeAssumption
    <3> QED
      BY <2>2, <2>4, <2>5, <2>7, <2>8, <3>1, Zenon DEF Sound
  <2> QED
    BY <2>2, <2>5, <2>9
<1> QED
  BY <1>1, <1>2 DEF Copies

(* An empty datagram of the session: a heartbeat, or its end. *)
LEMMA EmptySound ==
  ASSUME Published, NEW seq \in Positive, seq <= nextSeq,
         NEW c \in {0, END_OF_SESSION}, c = END_OF_SESSION => ended
  PROVE  LET d == Datagram(Home, seq, c, 0)
         IN  /\ Sound(d)
             /\ d.short = FALSE /\ d.session = Home /\ d.seq = seq
             /\ d.count = c
<1> DEFINE d == Datagram(Home, seq, c, 0)
<1>1. /\ d.short = FALSE /\ d.session = Home /\ d.seq = seq /\ d.count = c
      /\ d.msgs = [i \in 1..0 |-> Message(Home, seq + i - 1)]
  BY DEF Datagram
<1>2. d.msgs = <<>>
  BY <1>1
<1>3. c \in Nat /\ (c # END_OF_SESSION => c = 0)
  BY EndAssumption
<1> HIDE DEF d
<1>4. Len(d.msgs) = 0 /\ d.msgs \in Seq([session : Sessions, number : Nat])
  BY <1>2
<1>5. \A i \in 1..Len(d.msgs) : d.msgs[i] = Message(Home, seq + i - 1)
  BY <1>4
<1>6. c # END_OF_SESSION => seq + c <= nextSeq
  BY <1>3 DEF Published, Positive
<1>7. Sound(d)
  BY <1>1, <1>2, <1>3, <1>4, <1>5, <1>6, HomeAssumption DEF Sound, Positive
<1> QED
  BY <1>1, <1>7 DEF d

LEMMA ForeignSound ==
  ASSUME NEW d \in Foreign
  PROVE  Sound(d) /\ ~d.short /\ d.session # Home /\ d.count = 1
         /\ d.count # END_OF_SESSION
<1>1. PICK s \in Sessions \ {Home} : d = Datagram(s, 1, 1, 1)
  BY DEF Foreign
<1>2. /\ d.short = FALSE /\ d.session = s /\ d.seq = 1 /\ d.count = 1
      /\ d.msgs = [i \in 1..1 |-> Message(s, 1 + i - 1)]
  BY <1>1 DEF Datagram
<1>3. \A i \in 1..1 : Message(s, 1 + i - 1)
                        \in [session : Sessions, number : Nat]
  BY DEF Message
<1>4. /\ d.msgs \in Seq([session : Sessions, number : Nat])
      /\ Len(d.msgs) = 1
      /\ \A i \in 1..1 : d.msgs[i] = Message(s, 1 + i - 1)
  BY <1>2, <1>3
<1>5. 1 # END_OF_SESSION
  BY BoundsAssumption, EndAssumption
<1> QED
  BY <1>2, <1>4, <1>5 DEF Sound, Positive

LEMMA MulticastSound ==
  ASSUME Types, Published, NEW d \in Multicast
  PROVE  /\ Sound(d)
         /\ ~d.short /\ d.count = END_OF_SESSION => d.seq = nextSeq
<1>1. CASE d \in UNION {Copies(p[1], p[2]) : p \in sent}
  <2>1. PICK p \in sent : d \in Copies(p[1], p[2])
    BY <1>1
  <2>2. p[1] \in Positive /\ p[2] \in 1..MaxBatch /\ p[1] + p[2] <= nextSeq
    BY DEF Published
  <2> QED
    BY <2>1, <2>2, CopiesSound
<1>2. CASE d = Datagram(Home, nextSeq, IF ended THEN END_OF_SESSION ELSE 0, 0)
  <2> DEFINE c == IF ended THEN END_OF_SESSION ELSE 0
  <2>1. c \in {0, END_OF_SESSION} /\ (c = END_OF_SESSION => ended)
    BY BoundsAssumption, EndAssumption
  <2>2. nextSeq \in Positive /\ nextSeq <= nextSeq
    BY BoundsAssumption DEF Published, Positive
  <2> HIDE DEF c
  <2>3. /\ Sound(Datagram(Home, nextSeq, c, 0))
        /\ Datagram(Home, nextSeq, c, 0).seq = nextSeq
    BY <2>1, <2>2, EmptySound, Zenon
  <2> QED
    BY <1>2, <2>3 DEF c
<1>3. CASE d \in Foreign
  BY <1>3, ForeignSound
<1>4. \/ d \in UNION {Copies(p[1], p[2]) : p \in sent}
      \/ d = Datagram(Home, nextSeq, IF ended THEN END_OF_SESSION ELSE 0, 0)
      \/ d \in Foreign
  BY SMT DEF Multicast
<1> QED
  BY <1>1, <1>2, <1>3, <1>4, Zenon

(* A reply with messages keeps within the request it answers. *)
LEMMA RepliesSound ==
  ASSUME Types, Published, NEW d \in Replies
  PROVE  /\ Sound(d)
         /\ ~d.short /\ d.count # END_OF_SESSION /\ d.session = Home =>
              \E r \in requests : d.seq + d.count <= r[1] + r[2]
<1>0. /\ \A r \in requests : /\ r[1] \in Positive /\ r[2] \in Positive
                             /\ r[1] + r[2] <= nextSeq /\ r[1] <= nextSeq
      /\ nextSeq \in Nat
  BY BoundsAssumption DEF Published, Positive
<1>1. CASE d \in UNION {RepliesTo(r) : r \in requests}
  <2>1. PICK r \in requests : d \in RepliesTo(r)
    BY <1>1
  <2> DEFINE end == Min(r[1] + r[2], nextSeq)
  <2>2. end \in Nat /\ end <= r[1] + r[2] /\ end <= nextSeq
    BY <1>0 DEF Min, Positive
  <2>3. PICK p \in {q \in (r[1]..end) \X (1..MaxBatch) : q[1] + q[2] <= end} :
          d \in Copies(p[1], p[2])
    BY <2>1 DEF RepliesTo
  <2> HIDE DEF end
  <2>4. p[1] \in r[1]..end /\ p[2] \in 1..MaxBatch /\ p[1] + p[2] <= end
    OBVIOUS
  <2>5. /\ p[1] \in Positive /\ p[2] \in 1..MaxBatch
        /\ p[1] + p[2] <= nextSeq /\ p[1] + p[2] <= r[1] + r[2]
    BY <1>0, <2>2, <2>4, BoundsAssumption DEF Positive
  <2> QED
    BY <2>3, <2>5, CopiesSound
<1>2. CASE d \in {Datagram(Home, r[1], END_OF_SESSION, 0) :
                    r \in {q \in requests : ended}}
  <2>1. PICK r \in {q \in requests : ended} :
          d = Datagram(Home, r[1], END_OF_SESSION, 0)
    BY <1>2
  <2>2. ended /\ r \in requests
    OBVIOUS
  <2> QED
    BY <1>0, <2>1, <2>2, EmptySound, Zenon
<1>3. CASE d \in Foreign
  BY <1>3, ForeignSound
<1>4. \/ d \in UNION {RepliesTo(r) : r \in requests}
      \/ d \in {Datagram(Home, r[1], END_OF_SESSION, 0) :
                  r \in {q \in requests : ended}}
      \/ d \in Foreign
  BY SMT DEF Replies
<1> QED
  BY <1>1, <1>2, <1>3, <1>4, Zenon

-----------------------------------------------------------------------------
(* What feed() does. *)

LEMMA Rest ==
  ASSUME NEW T, NEW s \in Seq(T), NEW m \in Positive
  PROVE  LET f == SubSeq(s, m, Len(s))
         IN  /\ f \in Seq(T)
             /\ Len(f) = IF m <= Len(s) THEN Len(s) - m + 1 ELSE 0
             /\ \A i \in 1..Len(f) : f[i] = s[m + i - 1]
<1> DEFINE f == SubSeq(s, m, Len(s))
<1>0. Len(s) \in Nat
  OBVIOUS
<1>1. CASE m <= Len(s)
  <2>1. m \in 1..Len(s)+1 /\ Len(s) \in m-1 .. Len(s)
    BY <1>0, <1>1 DEF Positive
  <2> QED
    BY <1>0, <1>1, <2>1, SubSeqProperties, SMTT(30)
<1>2. CASE ~(m <= Len(s))
  <2>1. f = <<>>
    BY <1>0, <1>2 DEF Positive
  <2> QED
    BY <1>2, <2>1
<1> QED
  BY <1>1, <1>2

(* The message loop goes on where the delivered messages end. *)
LEMMA DeliversNext ==
  ASSUME Stream, Published, NEW d, Sound(d), NEW res, Delivers(d, res),
         nextSeq' = nextSeq
  PROVE  /\ Stream'
         /\ expSeq' = expSeq \/ expSeq' = d.seq + Len(d.msgs)
         /\ expSeq <= expSeq'
<1> DEFINE T == [session : Sessions, number : Nat]
           m == expSeq - d.seq + 1
           fresh == SubSeq(d.msgs, m, Len(d.msgs))
<1>1. /\ ~d.short /\ d.session \in Sessions /\ d.seq \in Positive
      /\ d.count \in Nat /\ d.msgs \in Seq(T) /\ Len(d.msgs) \in Nat
      /\ d.count # END_OF_SESSION
      /\ \A i \in 1..Len(d.msgs) : d.msgs[i] = Message(d.session, d.seq + i - 1)
      /\ Len(d.msgs) <= d.count
      /\ d.session = Home => d.seq + d.count <= nextSeq
  BY SMTT(30) DEF Sound, Delivers, InSession
<1>2. /\ delivered \in Seq(T) /\ Len(delivered) \in Nat
      /\ expSeq = Len(delivered) + 1 /\ d.seq <= expSeq
      /\ session \in {NoSession, d.session} /\ session' = d.session
  BY DEF Stream, Delivers, InSession
<1>3. m \in Positive /\ m = expSeq - d.seq + 1
  BY <1>1, <1>2 DEF Positive
<1>4. delivered' = delivered \o fresh /\ expSeq' = expSeq + Len(fresh)
  BY DEF Delivers
<1> HIDE DEF m
<1>5. /\ fresh \in Seq(T)
      /\ Len(fresh) = IF m <= Len(d.msgs) THEN Len(d.msgs) - m + 1 ELSE 0
      /\ \A i \in 1..Len(fresh) : fresh[i] = d.msgs[m + i - 1]
  BY <1>1, <1>3, Rest, Zenon
<1> HIDE DEF fresh, T
<1>6. /\ Len(fresh) \in Nat
      /\ \/ Len(fresh) = 0
         \/ Len(fresh) > 0 /\ expSeq + Len(fresh) = d.seq + Len(d.msgs)
  <2> DEFINE n == Len(d.msgs)
             len == Len(fresh)
             q == d.seq
  <2>1. m \in Nat /\ m = expSeq - q + 1 /\ n \in Nat /\ expSeq \in Nat /\ q \in Nat
    BY <1>1, <1>2, <1>3 DEF Positive
  <2>2. len \in Nat /\ len = IF m <= n THEN n - m + 1 ELSE 0
    BY <1>5
  <2> HIDE DEF n, len, q
  <2>3. len \in Nat /\ (len = 0 \/ (len > 0 /\ expSeq + len = q + n))
    BY <2>1, <2>2
  <2> QED
    BY <2>3 DEF n, len, q
<1>7. \A i \in 1..Len(fresh) :
        fresh[i] = Message(d.session, Len(delivered) + i)
  <2> TAKE i \in 1..Len(fresh)
  <2> DEFINE f == Len(fresh)
             l == Len(delivered)
             n == Len(d.msgs)
             q == d.seq
  <2>1. /\ f \in Nat /\ l \in Nat /\ n \in Nat /\ q \in Nat /\ q > 0
        /\ i \in 1..f /\ m \in Nat /\ m > 0
    BY <1>1, <1>2, <1>3, <1>6, SMTT(30) DEF Positive
  <2>2. f = (IF m <= n THEN n - m + 1 ELSE 0) /\ m = (l + 1) - q + 1
    BY <1>2, <1>3, <1>5
  <2> HIDE DEF f, l, n, q
  <2>3. m + i - 1 \in 1..n /\ q + (m + i - 1) - 1 = l + i
    BY <2>1, <2>2
  <2> USE DEF f, l, n, q
  <2> QED
    BY <1>1, <1>5, <2>3, SMTT(30)
<1>8. /\ delivered' \in Seq(T)
      /\ Len(delivered') = Len(delivered) + Len(fresh)
      /\ \A i \in 1..Len(delivered) + Len(fresh) :
           delivered'[i] = IF i <= Len(delivered) THEN delivered[i]
                           ELSE fresh[i - Len(delivered)]
  BY <1>2, <1>4, <1>5, ConcatProperties, SMTT(30)
<1>9. \A i \in 1..Len(delivered) : delivered[i] = Message(d.session, i)
  <2>1. CASE session = d.session
    BY <2>1 DEF Stream
  <2>2. CASE session = NoSession
    <3>1. delivered = <<>>
      BY <2>2 DEF Stream
    <3> QED
      BY <3>1
  <2> QED
    BY <1>2, <2>1, <2>2
<1>10. \A i \in 1..Len(delivered') : delivered'[i] = Message(d.session, i)
  <2> TAKE i \in 1..Len(delivered')
  <2>1. i \in 1..Len(delivered) + Len(fresh)
    BY <1>8
  <2>2. CASE i <= Len(delivered)
    <3>1. i \in 1..Len(delivered)
      BY <1>2, <1>6, <2>1, <2>2
    <3> QED
      BY <1>8, <1>9, <2>1, <2>2, <3>1
  <2>3. CASE ~(i <= Len(delivered))
    <3>1. /\ i - Len(delivered) \in 1..Len(fresh)
          /\ Len(delivered) + (i - Len(delivered)) = i
      BY <1>2, <1>6, <2>1, <2>3
    <3> QED
      BY <1>7, <1>8, <2>1, <2>3, <3>1
  <2> QED
    BY <2>2, <2>3
<1>11. expSeq' = Len(delivered') + 1
  BY <1>2, <1>4, <1>6, <1>8
<1>12. d.session = Home => expSeq' <= nextSeq
  <2>1. nextSeq \in Nat
    BY BoundsAssumption DEF Published
  <2>2. Len(fresh) = 0 /\ session = Home => expSeq' <= nextSeq
    BY <1>2, <1>4 DEF Stream
  <2>3. d.session = Home /\ session = NoSession => expSeq = 1
    BY <1>2 DEF Stream
  <2>4. 1 <= nextSeq
    BY DEF Published
  <2> QED
    BY <1>1, <1>2, <1>4, <1>6, <2>1, <2>2, <2>3, <2>4, SMTT(30) DEF Positive
<1>13. d.session # NoSession
  BY <1>1, SessionsAssumption
<1>14. Stream'
  BY <1>1, <1>2, <1>8, <1>10, <1>11, <1>12, <1>13 DEF Stream, T
<1> QED
  BY <1>2, <1>4, <1>6, <1>14

(* Only a change of session breaks the stream. *)
LEMMA FeedKeepsStream ==
  ASSUME Stream, Published, NEW d, Sound(d), NEW res, Feed(d, res),
         res # "SessionChanged", nextSeq' = nextSeq
  PROVE  Stream' /\ expSeq \in Nat /\ expSeq' \in Nat /\ expSeq <= expSeq'
<1>1. /\ Len(delivered) \in Nat /\ expSeq = Len(delivered) + 1 /\ expSeq \in Nat
      /\ nextSeq \in Nat /\ 1 <= nextSeq
  BY BoundsAssumption DEF Stream, Published
<1>2. CASE HeaderMissing(d, res)
  BY <1>1, <1>2 DEF HeaderMissing, framer, Stream
<1>3. CASE InSession(d) /\ UNCHANGED <<expSeq, delivered>>
  <2>1. d.session \in Sessions /\ d.session # NoSession
        /\ session \in {NoSession, d.session} /\ session' = d.session
    BY <1>3, SessionsAssumption DEF InSession, Sound
  <2>2. \A i \in 1..Len(delivered) : delivered[i] = Message(d.session, i)
    BY <2>1 DEF Stream
  <2>3. d.session = Home => expSeq <= nextSeq
    BY <1>1, <2>1 DEF Stream
  <2> QED
    BY <1>1, <1>3, <2>1, <2>2, <2>3 DEF Stream
<1>4. CASE Delivers(d, res)
  <2>1. Len(delivered') \in Nat /\ expSeq' = Len(delivered') + 1
    BY <1>4, DeliversNext DEF Stream
  <2> QED
    BY <1>1, <1>4, <2>1, DeliversNext
<1> QED
  BY <1>2, <1>3, <1>4
  DEF Feed, OtherSession, SeesGap, SeesEnd, NothingNew

LEMMA StreamIsOneSession ==
  (Stream => OneSession) /\ (Stream' => OneSession')
<1>1. ASSUME NEW D, NEW S, NEW T, D \in Seq(T),
             \A i \in 1..Len(D) : D[i] = [session |-> S, number |-> i]
      PROVE  \A i \in 1..Len(D) :
               D[i] = [session |-> D[1].session, number |-> i]
  <2> TAKE i \in 1..Len(D)
  <2>1. 1 \in 1..Len(D)
    BY <1>1
  <2>2. D[1] = [session |-> S, number |-> 1]
    BY <1>1, <2>1, Zenon
  <2>3. D[1].session = S
    BY <2>2
  <2>4. D[i] = [session |-> S, number |-> i]
    BY <1>1, Zenon
  <2> QED
    BY <2>3, <2>4
<1> QED
  BY <1>1, Zenon DEF Stream, OneSession, Message

(* What each result of feed() tells. *)
LEMMA FeedTells ==
  ASSUME Stream, Published, NEW d, Sound(d), NEW res, Feed(d, res),
         nextSeq' = nextSeq
  PROVE  /\ res = "Gap" =>
              /\ ~d.short /\ d.session = Home /\ session' = Home
              /\ d.seq > expSeq /\ gapEnd' = d.seq
              /\ expSeq' = expSeq
         /\ res = "EndOfSession" =>
              /\ ~d.short /\ d.session = Home /\ session' = Home /\ ended
              /\ d.count = END_OF_SESSION /\ d.seq <= expSeq
              /\ expSeq' = expSeq
         /\ res = "SessionChanged" =>
              /\ ~d.short /\ session \notin {NoSession, d.session}
              /\ delivered' = delivered
         /\ res = "Malformed" =>
              \/ expSeq' = expSeq
              \/ /\ ~d.short /\ d.session = session'
                 /\ d.count # END_OF_SESSION /\ Len(d.msgs) < d.count
                 /\ expSeq' = d.seq + Len(d.msgs)
         /\ session \in Sessions /\ res # "SessionChanged" => session' = session
<1>1. CASE HeaderMissing(d, res)
  BY <1>1 DEF HeaderMissing, framer
<1>2. CASE OtherSession(d, res)
  BY <1>2 DEF OtherSession
<1>3. CASE SeesGap(d, res)
  <2>1. d.seq > expSeq /\ ~d.short
    BY <1>3 DEF SeesGap, InSession
  <2>2. expSeq \in Nat /\ expSeq > 0
    BY DEF Stream
  <2>3. d.session = Home
    BY <2>1, <2>2 DEF Sound
  <2> QED
    BY <1>3, <2>3, SessionsAssumption DEF SeesGap, InSession
<1>4. CASE SeesEnd(d, res)
  BY <1>4, SessionsAssumption, SMTT(30) DEF SeesEnd, InSession, Sound
<1>5. CASE NothingNew(d, res)
  BY <1>5, SessionsAssumption DEF NothingNew, InSession
<1>6. CASE Delivers(d, res)
  <2>1. /\ InSession(d) /\ d.count # END_OF_SESSION
        /\ res = IF Len(d.msgs) < d.count THEN "Malformed" ELSE "ok"
    BY <1>6 DEF Delivers
  <2>2. expSeq' = expSeq \/ expSeq' = d.seq + Len(d.msgs)
    BY <1>6, DeliversNext
  <2> QED
    BY <2>1, <2>2, SessionsAssumption DEF InSession
<1> QED
  BY <1>1, <1>2, <1>3, <1>4, <1>5, <1>6, SMTT(30) DEF Feed

-----------------------------------------------------------------------------
(* The steps. *)

LEMMA InitFeed == Init => FeedInv
<1> SUFFICES ASSUME Init PROVE FeedInv
  OBVIOUS
<1>1. delivered = <<>> /\ expSeq = 1 /\ session = NoSession
  BY DEF Init, FramerInit
<1>2. Len(delivered) = 0 /\ delivered \in Seq([session : Sessions, number : Nat])
  BY <1>1
<1>3. Stream
  BY <1>1, <1>2, HomeAssumption, SessionsAssumption DEF Stream
<1>4. Published
  BY BoundsAssumption DEF Init, Published
<1>5. Types /\ Ending /\ Recovering
  BY Zenon DEF Init, Types, Ending, Recovering
<1> QED
  BY <1>3, <1>4, <1>5, StreamIsOneSession DEF FeedInv

(* Before the feed has been stopped for a reason, all of it holds. *)
LEMMA Running ==
  ASSUME FeedInv, ~stopReq \/ pc \in {"request", "await", "refeed"}
  PROVE  why = "none" /\ Stream /\ Recovering /\ Types /\ Published
BY DEF FeedInv, Ending

LEMMA PublishStep ==
  ASSUME FeedInv, NEW n \in 1..MaxBatch, Publish(n)
  PROVE  FeedInv'
<1> USE DEF Publish, framer, recovery, thread
<1>0. n \in Positive /\ nextSeq \in Positive
  BY BoundsAssumption DEF FeedInv, Published, Positive
<1>1. nextSeq' = nextSeq + n /\ nextSeq' \in 1..(MaxSeq + 1) /\ nextSeq < nextSeq'
  BY <1>0, BoundsAssumption DEF Positive
<1>2. Published'
  <2>1. sent' \subseteq Positive \X (1..MaxBatch)
    BY <1>0 DEF FeedInv, Published
  <2>2. \A p \in sent' : p[1] + p[2] <= nextSeq'
    <3> TAKE p \in sent'
    <3>1. CASE p \in sent
      <4>1. p[1] \in Nat /\ p[2] \in Nat /\ p[1] + p[2] <= nextSeq
        BY <3>1, BoundsAssumption DEF FeedInv, Published, Positive
      <4> QED
        BY <1>0, <1>1, <4>1 DEF Positive
    <3>2. CASE p = <<nextSeq, n>>
      BY <1>0, <1>1, <3>2 DEF Positive
    <3> QED
      BY <3>1, <3>2
  <2>3. \A r \in requests : r[1] + r[2] <= nextSeq'
    <3> TAKE r \in requests
    <3>1. r[1] \in Nat /\ r[2] \in Nat /\ r[1] + r[2] <= nextSeq
      BY DEF FeedInv, Published, Positive
    <3> QED
      BY <1>0, <1>1, <3>1 DEF Positive
  <2> QED
    BY <1>1, <2>1, <2>2, <2>3 DEF FeedInv, Published
<1>3. Types' /\ Ending'
  BY DEF FeedInv, Types, Ending
<1>4. OneSession'
  BY DEF FeedInv, OneSession
<1>5. Stream => Stream'
  <2>1. Stream => expSeq \in Nat
    BY DEF Stream
  <2> QED
    BY <1>0, <1>1, <2>1 DEF Stream, Positive
<1>6. ASSUME Retried PROVE Retried'
  <2>1. buf.count # END_OF_SESSION
    BY <1>6, SMTT(30) DEF Retried, Sound
  <2>2. buf.seq \in Nat /\ buf.count \in Nat
    BY <1>6, SMTT(30) DEF Retried, Sound, Positive
  <2>3. buf.seq + buf.count <= nextSeq' /\ buf.seq <= nextSeq'
    BY <1>0, <1>1, <1>6, <2>1, <2>2, SMTT(30) DEF Retried, Sound, Positive
  <2>4. Sound(buf)'
    BY <1>6, <2>1, <2>2, <2>3, SMTT(30) DEF Retried, Sound
  <2> QED
    BY <1>6, <2>1, <2>4 DEF Retried
<1>7. Recovering => Recovering'
  BY <1>6 DEF Recovering
<1> QED
  BY <1>2, <1>3, <1>4, <1>5, <1>7 DEF FeedInv

LEMMA EndSessionStep ==
  ASSUME FeedInv, EndSession
  PROVE  FeedInv'
<1> USE DEF EndSession, framer, recovery, thread
<1>1. Published' /\ Types' /\ Ending'
  BY DEF FeedInv, Published, Types, Ending
<1>2. OneSession' /\ (Stream => Stream')
  BY DEF FeedInv, OneSession, Stream
<1>3. ASSUME Retried PROVE Retried'
  <2>1. Sound(buf)'
    BY <1>3, SMTT(30) DEF Retried, Sound
  <2> QED
    BY <1>3, <2>1 DEF Retried
<1>4. Recovering => Recovering'
  BY <1>3 DEF Recovering
<1> QED
  BY <1>1, <1>2, <1>4 DEF FeedInv

(* The feed stops for an error that says nothing of the stream. *)
LEMMA FailStep ==
  ASSUME FeedInv, NEW e \in {"SourceFailed", "TransportError", "Timeout"},
         ~stopReq \/ pc \in {"request", "await", "refeed"},
         Stop(e), UNCHANGED <<framer, network, recovery>>
  PROVE  FeedInv'
<1> USE DEF Stop, framer, network, recovery
<1>1. Published' /\ Types' /\ Ending'
  BY SMTT(30) DEF FeedInv, Published, Types, Ending
<1>2. Stream'
  BY Running DEF Stream
<1> QED
  BY <1>1, <1>2, StreamIsOneSession DEF FeedInv

LEMMA GiveUpStep ==
  ASSUME FeedInv, GiveUp
  PROVE  FeedInv'
<1> USE DEF GiveUp, Fail, Stop, framer, network, recovery
<1>1. Stream /\ Recovering
  BY Running
<1>2. Published' /\ Types'
  BY SMTT(30) DEF FeedInv, Published, Types
<1>3. unanswered >= MaxAttempts \/ cutNews
  BY <1>1, RecovererAssumption, SMTT(30) DEF Recovering, FeedInv, Types
<1>4. Ending'
  BY <1>3 DEF Ending
<1>5. Stream'
  BY <1>1, SMTT(30) DEF Stream
<1> QED
  BY <1>2, <1>4, <1>5, StreamIsOneSession DEF FeedInv

(* Steps that leave the framer, the network and the reason alone. *)
LEMMA QuietStep ==
  ASSUME FeedInv, Finish \/ NoReply \/ DeadlinePasses \/ MainStops
                  \/ UNCHANGED vars
  PROVE  FeedInv'
<1> USE DEF Finish, NoReply, DeadlinePasses, MainStops,
            framer, network, recovery, thread, vars
<1>1. UNCHANGED <<session, expSeq, delivered, nextSeq, ended, sent, requests,
                  buf, rounds, target, attempts, unanswered, cutNews, why>>
  BY SMTT(30)
<1>2. Published' /\ Types' /\ Ending'
  BY ZenonT(30) DEF FeedInv, Published, Types, Ending
<1>3. OneSession' /\ (Stream => Stream') /\ (Retried => Retried')
  BY <1>1, Zenon DEF FeedInv, OneSession, Stream, Retried, Sound
<1>4. Recovering => Recovering'
  BY <1>3, SMTT(30) DEF Recovering
<1> QED
  BY <1>1, <1>2, <1>3, <1>4, SMTT(30) DEF FeedInv

(* A request asks for a part of the gap, which has been published. *)
LEMMA RequestStep ==
  ASSUME FeedInv, Request
  PROVE  FeedInv'
<1> DEFINE n == Min(target - expSeq, MaxPerRequest)
<1>1. Stream /\ Recovering /\ Types /\ Published /\ why = "none"
  BY Running DEF Request
<1>2. /\ Retried /\ \A r \in requests : r[1] + r[2] <= target
      /\ expSeq < target /\ (attempts <= unanswered \/ cutNews)
  BY <1>1, SMTT(30) DEF Recovering, Request
<1>3. /\ target \in Nat /\ target <= nextSeq /\ nextSeq \in Nat
      /\ expSeq \in Positive
  BY <1>1, <1>2, BoundsAssumption, SMTT(30)
  DEF Retried, Sound, Stream, Published, Positive
<1>4. n \in Positive /\ expSeq + n <= target
  BY <1>2, <1>3, RecovererAssumption DEF Min, Positive
<1>5. /\ requests' = requests \cup {<<expSeq, n>>}
      /\ attempts' = attempts + 1 /\ unanswered' = unanswered + 1
      /\ pc' = "await"
      /\ UNCHANGED <<session, expSeq, delivered, nextSeq, sent, ended, stopReq,
                     why, buf, rounds, target, cutNews>>
  BY SMTT(30) DEF Request, framer
<1> HIDE DEF n
<1>6. \A r \in requests' : r[1] + r[2] <= target
  BY <1>2, <1>4, <1>5
<1>7. \A r \in requests' : r[1] + r[2] <= nextSeq
  <2> TAKE r \in requests'
  <2>1. CASE r \in requests
    BY <1>1, <2>1 DEF Published
  <2>2. CASE r = <<expSeq, n>>
    BY <1>3, <1>4, <2>2 DEF Positive
  <2> QED
    BY <1>5, <2>1, <2>2
<1>8. Published'
  <2>1. requests' \subseteq Positive \X Positive
    BY <1>1, <1>3, <1>4, <1>5 DEF Published
  <2> QED
    BY <1>1, <1>5, <1>7, <2>1, SMTT(30) DEF Published
<1>9. Types' /\ Ending'
  BY <1>1, <1>5 DEF Types, Ending
<1>10. Stream' /\ Retried'
  BY <1>1, <1>2, <1>5, SMTT(30) DEF Stream, Retried, Sound
<1>11. attempts' <= unanswered' \/ cutNews'
  BY <1>1, <1>2, <1>5 DEF Types
<1>12. Recovering'
  BY <1>2, <1>5, <1>6, <1>10, <1>11 DEF Recovering
<1> QED
  BY <1>5, <1>8, <1>9, <1>10, <1>12, StreamIsOneSession DEF FeedInv

(* The end of the session is believed only when nothing is missing. *)
LEMMA EndBelieved ==
  ASSUME Stream, Published, NEW d, Sound(d), Feed(d, "EndOfSession"),
         d.count = END_OF_SESSION /\ ~d.short => d.seq = nextSeq,
         nextSeq' = nextSeq, ended' = ended
  PROVE  ended' /\ session' = Home /\ expSeq' = nextSeq'
<1>1. /\ session' = Home /\ ended /\ d.seq = nextSeq /\ d.seq <= expSeq
      /\ expSeq' = expSeq
  BY FeedTells
<1>2. Stream' /\ expSeq \in Nat
  BY FeedKeepsStream
<1>3. expSeq' <= nextSeq' /\ nextSeq \in Nat
  BY <1>1, <1>2, BoundsAssumption DEF Stream, Published
<1> QED
  BY <1>1, <1>2, <1>3

LEMMA ReceiveStep ==
  ASSUME FeedInv, NEW d \in Multicast, NEW res \in Results, Receive(d, res)
  PROVE  FeedInv'
<1>1. Stream /\ Recovering /\ Types /\ Published /\ why = "none" /\ pc = "poll"
  BY Running DEF Receive
<1>2. /\ Feed(d, res) /\ nextSeq' = nextSeq /\ ended' = ended
      /\ UNCHANGED <<sent, requests>>
  BY DEF Receive
<1>3. Sound(d) /\ (~d.short /\ d.count = END_OF_SESSION => d.seq = nextSeq)
  BY <1>1, MulticastSound
<1>4. Published'
  BY <1>1, <1>2 DEF Published
<1>5. res # "SessionChanged" =>
        Stream' /\ OneSession' /\ expSeq \in Nat /\ expSeq' \in Nat
        /\ expSeq <= expSeq'
  BY <1>1, <1>2, <1>3, FeedKeepsStream, StreamIsOneSession
<1>6. \A r \in requests : r[1] \in Nat /\ r[2] \in Nat /\ r[1] + r[2] <= expSeq
  BY <1>1 DEF Recovering, Published, Positive
<1>7. res # "SessionChanged" =>
        \A r \in requests' : r[1] + r[2] <= expSeq'
  BY <1>2, <1>5, <1>6
<1>8. CASE /\ res \in {"ok", "Malformed"}
           /\ pc' = "poll" /\ UNCHANGED <<recovery, stopReq, why>>
  <2>1. Types' /\ Ending'
    BY <1>1, <1>2, <1>8 DEF Types, Ending, recovery
  <2>2. Recovering'
    BY <1>7, <1>8 DEF Recovering
  <2> QED
    BY <1>4, <1>5, <1>8, <2>1, <2>2 DEF FeedInv
<1>9. CASE res = "Gap" /\ StartRecovery(d, 0)
  <2>1. /\ pc' = "request" /\ buf' = d /\ rounds' = 0 /\ target' = gapEnd'
        /\ attempts' = 0 /\ unanswered' = 0 /\ cutNews' = FALSE
        /\ stopReq' = stopReq /\ why' = why
    BY <1>9 DEF StartRecovery
  <2>2. /\ ~d.short /\ d.session = Home /\ session' = Home
        /\ d.seq > expSeq /\ gapEnd' = d.seq /\ expSeq' = expSeq
    BY <1>1, <1>2, <1>3, <1>9, FeedTells, SMTT(30)
  <2>3. Types' /\ Ending'
    <3>1. cutNews' \in BOOLEAN /\ ended' \in BOOLEAN /\ stopReq' \in BOOLEAN
      BY <1>1, <1>2, <2>1, Zenon DEF Types
    <3> QED
      BY <1>1, <2>1, <3>1 DEF Types, Ending
  <2>4. Sound(d)'
    <3>1. Sound(d) /\ nextSeq' = nextSeq /\ ended' = ended
      BY <1>2, <1>3
    <3> QED
      BY <3>1 DEF Sound
  <2>5. Retried'
    BY <1>2, <1>3, <2>1, <2>2, <2>4, Zenon DEF Retried, Sound
  <2>6. \A r \in requests' : r[1] + r[2] <= target'
    <3>1. requests' = requests /\ target' = d.seq /\ expSeq < d.seq
      BY <1>2, <2>1, <2>2
    <3>2. expSeq \in Nat /\ d.seq \in Nat
      BY <1>3, <1>5, <1>9, <2>2 DEF Sound, Positive
    <3> TAKE r \in requests'
    <3>3. r[1] \in Nat /\ r[2] \in Nat /\ r[1] + r[2] <= expSeq
      BY <1>6, <3>1
    <3> QED
      BY <3>1, <3>2, <3>3
  <2>7. expSeq' < target' /\ attempts' <= unanswered'
    BY <1>3, <1>5, <1>9, <2>1, <2>2, SMTT(30) DEF Sound, Positive
  <2>8. Recovering'
    BY <2>1, <2>5, <2>6, <2>7 DEF Recovering
  <2> QED
    BY <1>1, <1>4, <1>5, <1>9, <2>1, <2>3, <2>8 DEF FeedInv
<1>10. CASE /\ res \in {"SessionChanged", "EndOfSession"}
            /\ Stop(res) /\ UNCHANGED recovery
  <2>1. /\ pc' = "poll" /\ stopReq' = TRUE /\ why' = res
        /\ UNCHANGED <<attempts, unanswered, cutNews>>
    BY <1>10 DEF Stop, recovery
  <2>2. Types'
    BY <1>1, <1>2, <2>1 DEF Types
  <2>3. res = "EndOfSession" => ended' /\ session' = Home /\ expSeq' = nextSeq'
    BY <1>1, <1>2, <1>3, EndBelieved
  <2>4. Ending'
    BY <1>10, <2>1, <2>3, SMTT(30) DEF Ending
  <2>5. OneSession'
    <3>1. res = "SessionChanged" => delivered' = delivered
      BY <1>1, <1>2, <1>3, FeedTells, SMTT(30)
    <3> QED
      BY <1>5, <1>10, <3>1, SMTT(30) DEF FeedInv, OneSession
  <2> QED
    BY <1>4, <1>5, <1>10, <2>1, <2>2, <2>4, <2>5 DEF FeedInv
<1> QED
  BY <1>1, <1>8, <1>9, <1>10 DEF Receive, HandleError, thread

(* A reply that was cut never fills the gap: it would have to hold the     *)
(* last message it was asked for.                                          *)
LEMMA CutReplyLeavesGap ==
  ASSUME Stream, Types, Published, Retried, expSeq < target,
         \A r \in requests : r[1] + r[2] <= target,
         NEW d \in Replies, Feed(d, "Malformed"), nextSeq' = nextSeq
  PROVE  expSeq' < target
<1>1. Sound(d)
  BY RepliesSound
<1>2. CASE expSeq' = expSeq
  BY <1>2
<1>3. CASE /\ ~d.short /\ d.session = session'
           /\ d.count # END_OF_SESSION /\ Len(d.msgs) < d.count
           /\ expSeq' = d.seq + Len(d.msgs)
  <2>1. d.session = Home
    BY <1>1, <1>3, FeedTells, HomeAssumption, SMTT(30) DEF Retried
  <2>2. PICK r \in requests : d.seq + d.count <= r[1] + r[2]
    BY <1>3, <2>1, RepliesSound
  <2>3. r[1] \in Nat /\ r[2] \in Nat /\ target \in Nat
    BY SMTT(30) DEF Published, Positive, Retried, Sound
  <2>4. d.seq \in Nat /\ d.count \in Nat /\ Len(d.msgs) \in Nat
    BY <1>1, <1>3, SMTT(30) DEF Sound, Positive
  <2>5. \A q, c, l, a, b, t \in Nat :
          l < c /\ q + c <= a + b /\ a + b <= t => q + l < t
    OBVIOUS
  <2> QED
    BY <1>3, <2>2, <2>3, <2>4, <2>5, SMTT(30)
<1> QED
  BY <1>1, <1>2, <1>3, FeedTells, SMTT(30)

LEMMA TakeReplyStep ==
  ASSUME FeedInv, NEW d \in Replies, NEW res \in Results, TakeReply(d, res)
  PROVE  FeedInv'
<1>1. Stream /\ Recovering /\ Types /\ Published /\ why = "none" /\ pc = "await"
  BY Running, SMTT(30) DEF TakeReply
<1>2. /\ Feed(d, res) /\ nextSeq' = nextSeq /\ ended' = ended
      /\ UNCHANGED <<sent, requests, buf, rounds, target>>
      /\ unanswered' = IF expSeq' > expSeq THEN 0 ELSE unanswered
      /\ cutNews' = (cutNews \/ (res = "Malformed" /\ expSeq' > expSeq))
  BY SMTT(30) DEF TakeReply
<1>3. /\ Retried /\ \A r \in requests : r[1] + r[2] <= target
      /\ expSeq < target /\ (attempts <= unanswered \/ cutNews)
  BY <1>1 DEF Recovering
<1>4. Sound(d) /\ target \in Nat
  BY <1>1, <1>3, RepliesSound, Zenon DEF Retried, Sound, Positive
<1>5. Published'
  BY <1>1, <1>2, SMTT(30) DEF Published
<1>6. unanswered' \in Nat /\ cutNews' \in BOOLEAN /\ ended' \in BOOLEAN
  BY <1>1, <1>2 DEF Types
<1>7. res # "SessionChanged" =>
        Stream' /\ OneSession' /\ expSeq \in Nat /\ expSeq' \in Nat
        /\ expSeq <= expSeq' /\ session' = session
  BY <1>1, <1>2, <1>3, <1>4, FeedKeepsStream, FeedTells, StreamIsOneSession,
     HomeAssumption, SMTT(30) DEF Retried
<1>8. res # "SessionChanged" => Retried'
  BY <1>2, <1>3, <1>7, Zenon DEF Retried, Sound
<1>9. CASE /\ res \in {"ok", "Gap", "Malformed"}
           /\ pc' \in {"request", "await", "refeed"}
           /\ attempts' \in {0, attempts} /\ UNCHANGED <<stopReq, why>>
           /\ pc' = "refeed" => target <= expSeq'
           /\ pc' # "refeed" =>
                expSeq' < target /\ (attempts' <= unanswered' \/ cutNews')
  <2>1. Types' /\ Ending'
    BY <1>1, <1>6, <1>9, SMTT(30) DEF Types, Ending
  <2>2. Recovering'
    BY <1>2, <1>3, <1>8, <1>9, SMTT(30) DEF Recovering
  <2> QED
    BY <1>1, <1>5, <1>7, <1>9, <2>1, <2>2, SMTT(30) DEF FeedInv
<1>10. CASE res = "ok" /\ ReplyAccepted
  <2>1. /\ attempts' = IF expSeq' < target /\ expSeq' > expSeq THEN 0 ELSE attempts
        /\ pc' \in {"request", "await", "refeed"}
        /\ pc' = "refeed" <=> expSeq' >= target
        /\ UNCHANGED <<stopReq, why>>
    BY <1>10 DEF ReplyAccepted
  <2>2. expSeq' < target => attempts' <= unanswered' \/ cutNews'
    <3>1. cutNews => cutNews'
      BY <1>2, Zenon
    <3> QED
      BY <1>1, <1>2, <1>3, <2>1, <3>1, SMTT(30) DEF Types
  <2> QED
    BY <1>4, <1>7, <1>9, <1>10, <2>1, <2>2, SMTT(30)
<1>11. CASE res = "Gap" /\ pc' = "request" /\ UNCHANGED <<attempts, stopReq, why>>
  <2>1. expSeq' = expSeq
    BY <1>1, <1>2, <1>4, <1>11, FeedTells, SMTT(30)
  <2>2. attempts' <= unanswered' \/ cutNews'
    <3>1. cutNews => cutNews'
      BY <1>2, Zenon
    <3>2. unanswered' = unanswered
      BY <1>2, <1>7, <1>11, <2>1, SMTT(30)
    <3> QED
      BY <1>3, <1>11, <3>1, <3>2
  <2> QED
    BY <1>3, <1>9, <1>11, <2>1, <2>2, SMTT(30)
<1>12. CASE res = "Malformed" /\ UNCHANGED <<attempts, thread>>
  <2>1. expSeq' < target
    BY <1>1, <1>2, <1>3, <1>12, CutReplyLeavesGap, SMTT(30)
  <2>2. attempts' <= unanswered' \/ cutNews'
    <3>1. CASE expSeq' > expSeq
      BY <1>2, <1>12, <3>1, Zenon
    <3>2. CASE ~(expSeq' > expSeq)
      <4>1. (cutNews => cutNews') /\ unanswered' = unanswered
        BY <1>2, <3>2, Zenon
      <4> QED
        BY <1>3, <1>12, <4>1
    <3> QED
      BY <3>1, <3>2
  <2> QED
    BY <1>1, <1>9, <1>12, <2>1, <2>2 DEF thread
<1>13. CASE /\ \/ res = "SessionChanged" /\ Fail("SessionChanged")
               \/ res = "EndOfSession" /\ Fail("SessionEnded")
            /\ UNCHANGED attempts
  <2>1. /\ pc' = "poll" /\ stopReq' = TRUE
        /\ why' = IF res = "SessionChanged" THEN res ELSE "SessionEnded"
    BY <1>13 DEF Fail, Stop
  <2>2. Types' /\ Ending'
    BY <1>1, <1>6, <1>13, <2>1, SMTT(30) DEF Types, Ending
  <2>3. OneSession'
    <3>1. res = "SessionChanged" => delivered' = delivered
      BY <1>1, <1>2, <1>4, FeedTells, SMTT(30)
    <3> QED
      BY <1>7, <3>1 DEF FeedInv, OneSession
  <2> QED
    BY <1>5, <1>7, <2>1, <2>2, <2>3 DEF FeedInv
<1> QED
  BY <1>10, <1>11, <1>12, <1>13, SMTT(30) DEF TakeReply

(* The datagram that showed the gap finds it closed. *)
LEMMA RefeedStep ==
  ASSUME FeedInv, NEW res \in Results, Refeed(res)
  PROVE  FeedInv'
<1>1. Stream /\ Recovering /\ Types /\ Published /\ why = "none" /\ pc = "refeed"
  BY Running DEF Refeed
<1>2. Feed(buf, res) /\ UNCHANGED <<nextSeq, ended, sent, requests>>
  BY DEF Refeed, network
<1>3. /\ Retried /\ \A r \in requests : r[1] + r[2] <= target
      /\ target <= expSeq
  BY <1>1 DEF Recovering
<1>4. Sound(buf) /\ target \in Nat /\ expSeq \in Nat
  <2>1. Sound(buf) /\ ~buf.short /\ target = buf.seq
    BY <1>3 DEF Retried
  <2>2. buf.seq \in Nat
    BY <2>1 DEF Sound, Positive
  <2>3. expSeq \in Nat
    BY <1>1 DEF Stream
  <2> QED
    BY <2>1, <2>2, <2>3
<1>5. res \notin {"Gap", "SessionChanged"}
  <2>1. /\ res = "Gap" => buf.seq > expSeq
        /\ res = "SessionChanged" => session \notin {NoSession, buf.session}
    BY <1>1, <1>2, <1>4, FeedTells, SMTT(30)
  <2> QED
    BY <1>3, <1>4, <2>1, SMTT(30) DEF Retried
<1>6. Stream' /\ OneSession' /\ expSeq' \in Nat /\ expSeq <= expSeq'
  BY <1>1, <1>2, <1>4, <1>5, FeedKeepsStream, StreamIsOneSession
<1>7. \A r \in requests' : r[1] + r[2] <= expSeq'
  <2>1. \A r \in requests : r[1] \in Nat /\ r[2] \in Nat
    BY <1>1 DEF Published, Positive
  <2> QED
    BY <1>2, <1>3, <1>4, <1>6, <2>1
<1>8. Published'
  BY <1>1, <1>2, SMTT(30) DEF Published
<1>9. rounds + 1 # MaxRecoveries
  BY <1>3, RecovererAssumption DEF Retried
<1>10. /\ pc' = "poll" /\ UNCHANGED recovery
       /\ \/ res \in {"ok", "Malformed"} /\ UNCHANGED <<stopReq, why>>
          \/ res = "EndOfSession" /\ stopReq' = TRUE /\ why' = res
  BY <1>5, <1>9, SMTT(30) DEF Refeed, HandleError, Stop
<1>11. Types'
  BY <1>1, <1>2, <1>10, Zenon DEF Types, recovery
<1>12. res = "EndOfSession" => ended' /\ session' = Home /\ expSeq' = nextSeq'
  BY <1>1, <1>2, <1>3, <1>4, EndBelieved, SMTT(30) DEF Retried
<1>13. Ending'
  BY <1>1, <1>10, <1>12 DEF Ending
<1>14. Recovering'
  BY <1>7, <1>10 DEF Recovering
<1> QED
  BY <1>6, <1>8, <1>11, <1>13, <1>14 DEF FeedInv

LEMMA NextFeed == FeedInv /\ [Next]_vars => FeedInv'
<1> SUFFICES ASSUME FeedInv, [Next]_vars PROVE FeedInv'
  OBVIOUS
<1>1. ASSUME NEW d \in Multicast, NEW res \in Results, Receive(d, res)
      PROVE  FeedInv'
  BY <1>1, ReceiveStep
<1>2. CASE SourceFails
  BY <1>2, FailStep DEF SourceFails
<1>3. CASE RequestFails \/ TimeOut \/ ReplyFails
  BY <1>3, FailStep DEF RequestFails, TimeOut, ReplyFails, Fail
<1>4. CASE GiveUp
  BY <1>4, GiveUpStep
<1>5. CASE Request
  BY <1>5, RequestStep
<1>6. ASSUME NEW d \in Replies, NEW res \in Results, TakeReply(d, res)
      PROVE  FeedInv'
  BY <1>6, TakeReplyStep
<1>7. ASSUME NEW res \in Results, Refeed(res)
      PROVE  FeedInv'
  BY <1>7, RefeedStep
<1>8. ASSUME NEW n \in 1..MaxBatch, Publish(n)
      PROVE  FeedInv'
  BY <1>8, PublishStep
<1>9. CASE EndSession
  BY <1>9, EndSessionStep
<1>10. CASE Finish \/ NoReply \/ DeadlinePasses \/ MainStops \/ UNCHANGED vars
  BY <1>10, QuietStep
<1> QED
  BY <1>1, <1>2, <1>3, <1>4, <1>5, <1>6, <1>7, <1>8, <1>9, <1>10, SMTT(30)
  DEF Next, FeedThread, Recover, Exchange

LEMMA FeedInvariant == Spec => []FeedInv
BY InitFeed, NextFeed, PTL DEF Spec

-----------------------------------------------------------------------------
(* MoldUDP64Framer::feed() hands the sink the messages of one session, each *)
(* once and in order, whatever the network loses, repeats, reorders or cuts *)
(* and whatever recover() does in between.                                  *)
THEOREM DeliveredInOrder == Spec => []InOrderOnce
<1>1. FeedInv => InOrderOnce
  BY DEF FeedInv, OneSession, Stream, InOrderOnce
<1> QED
  BY <1>1, FeedInvariant, PTL

(* on_framer_error() stops the feed for end-of-session only when every     *)
(* message published has been delivered.                                   *)
THEOREM NothingMissingAtEnd == Spec => []EndOfSessionComplete
<1>1. FeedInv => EndOfSessionComplete
  <2> SUFFICES ASSUME FeedInv, why = "EndOfSession"
               PROVE  delivered = [i \in 1..(nextSeq - 1) |-> Message(Home, i)]
    BY DEF EndOfSessionComplete
  <2>1. Stream /\ session = Home /\ expSeq = nextSeq
    BY DEF FeedInv, Ending
  <2>2. delivered \in [1..Len(delivered) -> [session : Sessions, number : Nat]]
    BY <2>1, LenProperties, Zenon DEF Stream
  <2>3. Len(delivered) = nextSeq - 1
    BY <2>1 DEF Stream
  <2>4. \A i \in 1..Len(delivered) : delivered[i] = Message(Home, i)
    BY <2>1 DEF Stream
  <2>5. delivered = [i \in 1..Len(delivered) |-> Message(Home, i)]
    BY <2>2, <2>4
  <2> QED
    BY <2>3, <2>5
<1> QED
  BY <1>1, FeedInvariant, PTL

(* A successful recover() has closed the gap: on_framer_error() never      *)
(* needs a second turn, and never reports that the gap is still open.      *)
THEOREM RecoveryCloses == Spec => []RecoveryClosesGap
<1>1. FeedInv => RecoveryClosesGap
  <2> SUFFICES ASSUME FeedInv PROVE RecoveryClosesGap
    OBVIOUS
  <2>1. pc \in {"request", "refeed"} => Recovering
    BY DEF FeedInv, Ending
  <2> QED
    BY <2>1, SMTT(30) DEF FeedInv, Ending, Recovering, Retried,
       RecoveryClosesGap
<1> QED
  BY <1>1, FeedInvariant, PTL

(* recover() never asks the server for a message not yet published, nor    *)
(* for none at all.                                                        *)
THEOREM RequestsInRange == Spec => []RequestsAnswerable
<1>1. FeedInv => RequestsAnswerable
  BY DEF FeedInv, Published, Positive, RequestsAnswerable
<1> QED
  BY <1>1, FeedInvariant, PTL

(* recover() reports RetriesExhausted only after max_attempts_ requests in *)
(* a row without news, unless a reply that was cut brought some.           *)
THEOREM RetriesExhaustedHonest == Spec => []RetriesMeanNoProgress
<1>1. FeedInv => RetriesMeanNoProgress
  BY DEF FeedInv, Ending, RetriesMeanNoProgress
<1> QED
  BY <1>1, FeedInvariant, PTL

=============================================================================
