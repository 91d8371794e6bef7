------------------------- MODULE HubSessionInvariant -------------------------
(***************************************************************************)
(* The inductive invariant behind the safety properties of HubSession.     *)
(***************************************************************************)
EXTENDS HubSession

\* A session is filed under its own id, and has a state.
FiledUnderItsID ==
  \A s \in SID : pending[s] # None =>
    SessionOf(pending[s]) = s /\ pstate[pending[s]] # "none"

\* The life of a TCP session, tied to onSSHConn.  Nothing exists before the
\* connection does; the session stays in the map, unbound, until onSSHConn
\* returns; after that its state tells whether it has a tunnel.
SSHStage ==
  \A c \in SSHConn :
    /\ spc[c] = "idle" => /\ ssh[c] = "none" /\ pstate[c] = "none"
                          /\ pending[c] = None /\ ptunnel[c] = None
    /\ spc[c] # "idle" => ssh[c] # "none"
    /\ spc[c] \in {"send", "sent"} => /\ pending[c] = c /\ pstate[c] = "INIT"
                                      /\ ptunnel[c] = None
    /\ spc[c] = "done" /\ pending[c] = c =>
         \/ pstate[c] = "OPEN_SENT" /\ ptunnel[c] = None
         \/ pstate[c] = "BOUND" /\ ptunnel[c] # None
    /\ open[c] # "none" => spc[c] \in {"sent", "done"}
    /\ watch[c] # "off" => spc[c] = "done"

\* An id of a TCP session reaches /tunnel only after its OPEN was sent.
DialledAfterOpen ==
  \A t \in Tunnel : xsession[t] \in SSHConn => spc[xsession[t]] \in {"sent", "done"}

\* Where handleTunnelWS is says whether the request has an id, and whether the
\* websocket has become an entry's; only then do timers run for it.
HandlerStage ==
  \A t \in Tunnel :
    /\ IF hpc[t] = "idle" THEN xsession[t] = None ELSE xsession[t] \in SID
    /\ hpc[t] \in {"idle", "handshake"} => hobj[t] = None /\ readers[t] = 0
    /\ hpc[t] \in {"idle", "handshake", "create"} => pstate[t] = "none"
    /\ hpc[t] \in {"create", "send", "sending", "sent"} => hobj[t] = None
    /\ pstate[t] # "none" => hobj[t] = None
    /\ hpc[t] = "bindSSH" => hobj[t] \in SSHConn
    /\ hpc[t] = "bindEntry" => hobj[t] \in Tunnel /\ pstate[hobj[t]] # "none"
                               /\ xsession[hobj[t]] = xsession[t]
    /\ hpc[t] \in {"send", "sending", "sent"} => pstate[t] # "none"
    /\ open[t] # "none" => pstate[t] # "none"
    /\ watch[t] # "off" \/ wait[t] # "off" \/ fwd[t] # "off" => pstate[t] # "none"

\* A websocket that is taken for an entry's although its id is that of a TCP
\* session came after that session had left the map.
EntryAfterSSH ==
  \A t \in Tunnel :
    xsession[t] \in SSHConn /\ (hpc[t] = "create" \/ pstate[t] # "none") =>
      spc[xsession[t]] = "done" /\ pending[xsession[t]] # xsession[t]

\* A tunnel is bound to one session, the one its handler found.
BoundByHandler ==
  \A o \in Obj : ptunnel[o] # None =>
    LET t == ptunnel[o]
    IN  /\ hpc[t] \in {"match", "done"} /\ hobj[t] = o
        /\ xsession[t] = SessionOf(o) /\ pstate[o] # "none"

\* A handler that compares agents has bound its tunnel and not started to copy.
MatchAfterBind ==
  \A t \in Tunnel : hpc[t] = "match" =>
    /\ hobj[t] # None
    /\ hobj[t] \in SSHConn => ptunnel[hobj[t]] = t /\ fwd[hobj[t]] = "off"

\* Copy goroutines use the tunnel that was bound; a TCP session has been
\* compared with it.
ForwardsBound ==
  \A o \in Obj : fwd[o] # "off" =>
    /\ peer[o] \in Tunnel
    /\ xsession[peer[o]] = SessionOf(o)
    /\ o \in SSHConn => /\ peer[o] = ptunnel[o] /\ hpc[peer[o]] = "done"
                        /\ xagent[peer[o]] = PortAgent[o]

\* Who reads what: nobody but the copy goroutines of a TCP session reads its
\* connection and the tunnels that were dialled for it.
ReadersCounted ==
  /\ \A c \in SSHConn : readers[c] = IF fwd[c] = "off" THEN 0 ELSE 1
  /\ \A t \in Tunnel : hobj[t] \in SSHConn =>
       readers[t] = IF fwd[hobj[t]] # "off" /\ peer[hobj[t]] = t THEN 1 ELSE 0

\* The inductive invariant: each conjunct is preserved with the help of others.
IInv ==
  /\ TypeOK
  /\ FiledUnderItsID
  /\ SSHStage
  /\ DialledAfterOpen
  /\ HandlerStage
  /\ EntryAfterSSH
  /\ BoundByHandler
  /\ MatchAfterBind
  /\ ForwardsBound
  /\ ReadersCounted
  /\ ClosedWhenForgotten

\* When agents only answer the OPENs they get, a tunnel with the id of a TCP
\* session is one of the agent that owns the hubPort.
AnswersMatch ==
  ~Unsolicited => \A t \in Tunnel :
    xsession[t] \in SSHConn => xagent[t] = PortAgent[xsession[t]]

\* What AlwaysOwned rests on, on top of IInv.
OwnedInv == AnswersMatch /\ AlwaysOwned
=============================================================================
