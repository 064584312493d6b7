------------------------------ MODULE MCSources ------------------------------
(* The sources, one per behaviour: a file of a bounded size, cut in every  *)
(* way and put together again by the framer; AF_XDP; TCP; multicast.  The  *)
(* caller has as many handles as there are buffers and can hold them all.  *)
EXTENDS LengthPrefixFramer, AfXdpSource, TcpSource, McastSource

VARIABLE kind

framerVars == vars
frameVars == <<fill, rx, peeked, batch, asleep>>

(* The state of a source that is not in use. *)
FileUnused ==
  /\ file = << >> /\ taken = 0 /\ reasm = << >> /\ delivered = << >>
  /\ status = "open"

FramesUnused ==
  fill = Frames /\ rx = << >> /\ peeked = 0 /\ batch = 0 /\ asleep = FALSE

RingUnused ==
  /\ pool = NewPool(PoolSize) /\ armed = FALSE /\ flight = NoBuffer
  /\ cqe = NoCqe /\ arrived = 0 /\ shut = "no" /\ connStatus = "WouldBlock"
  /\ reader = "out" /\ failure = "Error" /\ sender = "out" /\ ended = FALSE

BatchUnused ==
  /\ free = NewPool(DgramPool) /\ claimed = << >> /\ lens = << >>
  /\ size = [d \in Dgrams |-> 0] /\ nextMsg = 0

BuffersUnused ==
  /\ hold = [h \in Handles |-> NoBuffer] /\ content = << >>
  /\ sent = 0 /\ got = 0

MCInit ==
  \/ /\ kind = "file" /\ Init
     /\ BuffersUnused /\ FramesUnused /\ RingUnused /\ BatchUnused
  \/ kind = "xdp" /\ XdpInit /\ FileUnused /\ RingUnused /\ BatchUnused
  \/ kind = "tcp" /\ TcpInit /\ FileUnused /\ FramesUnused /\ BatchUnused
  \/ kind = "mcast" /\ McastInit /\ FileUnused /\ FramesUnused /\ RingUnused

MCNext ==
  /\ UNCHANGED kind
  /\ \/ /\ kind = "file" /\ Next
        /\ UNCHANGED <<bufferVars, frameVars, ringVars, connVars, batchVars>>
     \/ /\ kind = "xdp" /\ XdpNext
        /\ UNCHANGED <<framerVars, ringVars, connVars, batchVars>>
     \/ /\ kind = "tcp" /\ TcpNext
        /\ UNCHANGED <<framerVars, frameVars, batchVars>>
     \/ /\ kind = "mcast" /\ McastNext
        /\ UNCHANGED <<framerVars, frameVars, ringVars, connVars>>

(* VenueFeed polls the source in use and destroys the Buffers it gets. *)
XdpFairness ==
  /\ WF_xdpVars(kind = "xdp" /\ XdpPoll)
  /\ WF_xdpVars(kind = "xdp" /\ \E h \in Handles : XdpDestroy(h))

(* Besides, a call of send() ends, and the kernel completes a receive, not *)
(* for ever with EAGAIN when there are bytes.                              *)
TcpFairness ==
  /\ WF_tcpVars(kind = "tcp" /\ TcpPoll)
  /\ WF_tcpVars(kind = "tcp" /\ \E h \in Handles : TcpDestroy(h))
  /\ WF_tcpVars(kind = "tcp" /\ (SendStores \/ CloseEnds))
  /\ WF_tcpVars(kind = "tcp" /\ TcpComplete("end"))
  /\ SF_tcpVars(kind = "tcp" /\ TcpComplete("bytes"))

MCSpec ==
  /\ MCInit
  /\ [][MCNext]_<<kind, framerVars, bufferVars, frameVars, ringVars, connVars,
                  batchVars>>
  /\ XdpFairness /\ TcpFairness

-----------------------------------------------------------------------------
(* No source loses a buffer, has one in two places, or hands out one that  *)
(* the kernel may still write to; the fill ring of AF_XDP takes back every *)
(* frame, and ~TcpSource() leaves no receive behind.                       *)
BuffersInOnePlace ==
  /\ kind = "xdp" => FramesInOnePlace /\ FillHasRoom
  /\ kind = "tcp" => EntriesInOnePlace /\ ArmedMeansInFlight
  /\ kind = "mcast" => DgramsInOnePlace

(* A kernel that found no AF_XDP frame and waits for a wakeup gets it from *)
(* rearm_batch().  Every byte that TCP receives is returned by next(),     *)
(* also if the peer then closes the connection, unless we shut it down.    *)
SourcesDeliver ==
  /\ asleep ~> ~asleep
  /\ \A n \in 1..MaxSent :
       kind = "tcp" /\ sent >= n ~> got >= n \/ shut = "us"
=============================================================================
