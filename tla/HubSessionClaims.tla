--------------------------- MODULE HubSessionClaims ---------------------------
(***************************************************************************)
(* What the design documents and the comments say of sessions and the code *)
(* does not do.  Each is refuted by a run; README.md lists the lines.      *)
(***************************************************************************)
EXTENDS HubSession

\* An agent that goes offline costs the connections made to it, not the hub:
\* sendOpen is called on a Control that was cleared since it was checked.
HubSurvives == up

\* An entry whose agent is offline is disconnected: the panic that net/http
\* recovers leaves it open and its session in the map.
EntryOfOfflineAgentEnds ==
  \A t \in Tunnel : hpc[t] = "send" ~> (ws[t] = "closed" \/ fwd[t] # "off")
=============================================================================
