------------------------- MODULE HubSessionRefinement -------------------------
(***************************************************************************)
(* The session core of the hub implements Rendezvous for its TCP           *)
(* connections.                                                            *)
(***************************************************************************)
EXTENDS HubSession

ClientState ==
  [c \in SSHConn |-> CASE ssh[c] = "none"   -> "absent"
                       [] ssh[c] = "closed" -> "gone"
                       [] OTHER -> IF fwd[c] = "off" THEN "waiting" ELSE "joined"]

\* A tunnel comes for the connection whose session id it carries, if it is a
\* tunnel of the agent that owns the hubPort.
CameFor ==
  [t \in Tunnel |->
    IF xsession[t] \in SSHConn /\ xagent[t] = PortAgent[xsession[t]]
    THEN xsession[t] ELSE None]

JoinedWith ==
  [c \in SSHConn |-> IF ssh[c] = "open" /\ fwd[c] # "off" THEN peer[c] ELSE None]

R == INSTANCE Rendezvous WITH Client <- SSHConn, Partner <- Tunnel,
                              state <- ClientState, cameFor <- CameFor,
                              partner <- JoinedWith

\* A TCP connection is turned away, or waits and is joined at most once, with
\* a tunnel that came for it, and what is closed stays closed, whatever
\* dial-backs, timeouts and crashes interleave (onSSHConn to startForwarding).
ImplementsRendezvous == R!Spec

\* The same with the promise that no connection waits for ever.
ImplementsFairRendezvous == R!FairSpec
=============================================================================
