----------------------------- MODULE MCMoldFeed -----------------------------
(* MoldFeed for TLC, its bounds being its constants, and, in behaviours of *)
(* its own, the server on the other side.                                  *)
EXTENDS MoldFeed, MoldReplay

VARIABLE side

ReplayUnused ==
  /\ capture = << >> /\ cut = FALSE /\ seqNum = 1 /\ pos = 0 /\ index = << >>
  /\ phase = "send" /\ waiting = << >> /\ asked = 0
  /\ out = << >> /\ answering = <<1, 1>>

MCInit == \/ side = "feed" /\ Init /\ ReplayUnused
          \/ side = "server" /\ Init /\ ReplayInit

MCNext == \/ side = "feed" /\ Next /\ UNCHANGED <<side, replayVars>>
          \/ side = "server" /\ ReplayNext /\ UNCHANGED <<side, vars>>

(* On the server's side the feed thread rests, and Fairness asks nothing.  *)
MCSpec ==
  /\ MCInit
  /\ [][MCNext]_<<side, vars, replayVars>>
  /\ Fairness
=============================================================================
