------------------------------ MODULE HubSession ------------------------------
(***************************************************************************)
(* The session core of the hub (pkg/hub/hub.go, tunnel_ws.go, session.go). *)
(*                                                                         *)
(* A TCP connection on a hubPort, or a /tunnel websocket of an entry,      *)
(* becomes a pending session; the hub sends OPEN on the control connection *)
(* of the agent, the agent dials /tunnel back, and the two connections are *)
(* joined by copy goroutines.  Every goroutine of the hub is a program     *)
(* counter here, and a step is what it does between two points where       *)
(* another goroutine can run: one critical section of h.mu, or one send.   *)
(*                                                                         *)
(* A session object (PendingSession) is named by the connection that      *)
(* created it, so that two objects filed in turn under one session id stay *)
(* apart.  The uuid of an SSH connection is the connection itself.         *)
(***************************************************************************)
EXTENDS Naturals

CONSTANTS
  SSHConn,       \* TCP connections that reach a hubPort
  EntrySession,  \* uuids that entries draw, one for each tunnel they open
  Tunnel,        \* websockets that reach /tunnel, from agents and entries
  Agent,         \* agents in the mapping
  PortAgent,     \* the agent whose hubPort an SSH connection arrived on
  None,          \* the nil of Go
  Unsolicited    \* may /tunnel see dial-backs that no OPEN asked for?

SID == SSHConn \cup EntrySession
Obj == SSHConn \cup Tunnel

ASSUME PortAgentType == PortAgent \in [SSHConn -> Agent]
ASSUME NamesApart == /\ SSHConn \cap Tunnel = {}
                     /\ SSHConn \cap EntrySession = {}
                     /\ None \notin SSHConn \cup EntrySession \cup Tunnel \cup Agent
ASSUME UnsolicitedType == Unsolicited \in BOOLEAN

VARIABLES
  pending,   \* h.pending: the object filed under a session id
  pstate,    \* PendingSession.State of an object, "none" before it exists
  ptunnel,   \* PendingSession.Tunnel
  control,   \* is AgentState.Control set?
  open,      \* the OPEN message of an object: unsent, on its way, answered
  ssh,       \* the hub's end of a TCP connection
  spc,       \* where onSSHConn is
  ws,        \* the hub's end of a /tunnel websocket
  xagent,    \* X-Agent of a /tunnel request
  xsession,  \* actualSessionID of a /tunnel request
  hpc,       \* where handleTunnelWS is
  hobj,      \* its local variable p
  watch,     \* watchPendingTimeout of an object
  wait,      \* waitForAgentAndForward of an entry websocket
  fwd,       \* the copy goroutines started for an object
  peer,      \* the tunnel they copy from and to
  readers,   \* how many pairs of copy goroutines read a connection
  up         \* FALSE once a panic outside net/http has ended the process

mapVars     == <<pending, pstate, ptunnel>>
agentVars   == <<control, open>>
sshVars     == <<ssh, spc>>
requestVars == <<xagent, xsession>>
handlerVars == <<hpc, hobj>>
timerVars   == <<watch, wait>>
pipeVars    == <<fwd, peer, readers>>

vars == <<mapVars, agentVars, sshVars, ws, requestVars, handlerVars,
          timerVars, pipeVars, up>>

\* What an object carries in SessionID, AgentName and, when it is an entry's,
\* in EntryWS: the websocket that names it.
SessionOf(o) == IF o \in SSHConn THEN o ELSE xsession[o]
AgentOf(o)   == IF o \in SSHConn THEN PortAgent[o] ELSE xagent[o]
IsEntry(o)   == o \in Tunnel

Init ==
  /\ pending = [s \in SID |-> None]
  /\ pstate = [o \in Obj |-> "none"]
  /\ ptunnel = [o \in Obj |-> None]
  /\ control = [a \in Agent |-> FALSE]
  /\ open = [o \in Obj |-> "none"]
  /\ ssh = [c \in SSHConn |-> "none"]
  /\ spc = [c \in SSHConn |-> "idle"]
  /\ ws = [t \in Tunnel |-> "none"]
  /\ xagent = [t \in Tunnel |-> None]
  /\ xsession = [t \in Tunnel |-> None]
  /\ hpc = [t \in Tunnel |-> "idle"]
  /\ hobj = [t \in Tunnel |-> None]
  /\ watch = [o \in Obj |-> "off"]
  /\ wait = [t \in Tunnel |-> "off"]
  /\ fwd = [o \in Obj |-> "off"]
  /\ peer = [o \in Obj |-> None]
  /\ readers = [o \in Obj |-> 0]
  /\ up = TRUE

-----------------------------------------------------------------------------
(* Shared pieces of the handlers. *)

WithWSClosed(T)  == [t \in Tunnel |-> IF t \in T THEN "closed" ELSE ws[t]]
WithSSHClosed(C) == [c \in SSHConn |-> IF c \in C THEN "closed" ELSE ssh[c]]
OneMoreReader(S) == [o \in Obj |-> IF o \in S THEN readers[o] + 1 ELSE readers[o]]

\* Fault: the map is left without the key, and the state is not set.
CleanupPendingKey(s, st, T, C) ==
  /\ pending' = [x \in SID \ {s} |-> pending[x]]
  /\ ssh' = WithSSHClosed(C)
  /\ ws' = WithWSClosed(T)
  /\ UNCHANGED <<pstate, ptunnel>>

\* Fault: the tunnel stays open.
CleanupPendingSSHOnly(s, st, T, C) ==
  LET gone == {pending[s]} \ {None}
  IN  /\ pending' = [pending EXCEPT ![s] = None]
      /\ pstate' = [o \in Obj |-> IF o \in gone THEN st ELSE pstate[o]]
      /\ ssh' = WithSSHClosed(C \cup gone)
      /\ ws' = WithWSClosed(T)
      /\ UNCHANGED ptunnel

\* cleanupPending(s, st): whatever is filed under s, if anything, gets the
\* state, loses its TCP connection and its tunnel, and leaves the map.  It is
\* looked up by id: it need not be the object the caller had in mind.  T and C
\* are sockets the caller closes beside it.
CleanupPending(s, st, T, C) ==
  LET gone == {pending[s]} \ {None}
  IN  /\ pending' = [pending EXCEPT ![s] = None]
      /\ pstate' = [o \in Obj |-> IF o \in gone THEN st ELSE pstate[o]]
      /\ ssh' = WithSSHClosed(C \cup gone)
      /\ ws' = WithWSClosed(T \cup {ptunnel[o] : o \in gone})
      /\ UNCHANGED ptunnel

\* A nil dereference in a goroutine that net/http does not guard.  The kernel
\* closes every socket.
Crash ==
  /\ up' = FALSE
  /\ ssh' = WithSSHClosed({c \in SSHConn : ssh[c] = "open"})
  /\ ws' = WithWSClosed({t \in Tunnel : ws[t] = "open"})
  /\ UNCHANGED <<mapVars, agentVars, spc, requestVars, handlerVars,
                 timerVars, pipeVars>>

-----------------------------------------------------------------------------
(* Control connections: what sessions see of handleAgentWS. *)

AgentConnect(a) ==
  /\ ~control[a]
  /\ control' = [control EXCEPT ![a] = TRUE]
  /\ UNCHANGED <<mapVars, open, sshVars, ws, requestVars, handlerVars,
                 timerVars, pipeVars, up>>

AgentGone(a) ==
  /\ control[a]
  /\ control' = [control EXCEPT ![a] = FALSE]
  /\ UNCHANGED <<mapVars, open, sshVars, ws, requestVars, handlerVars,
                 timerVars, pipeVars, up>>

-----------------------------------------------------------------------------
(* onSSHConn. *)

\* The agent is offline: the connection is closed at once.
RejectSSH(c) ==
  /\ spc[c] = "idle"
  /\ ~control[PortAgent[c]]
  /\ ssh' = [ssh EXCEPT ![c] = "closed"]
  /\ spc' = [spc EXCEPT ![c] = "done"]
  /\ UNCHANGED <<mapVars, agentVars, ws, requestVars, handlerVars,
                 timerVars, pipeVars, up>>

\* Control was set when it was looked at: a session is filed under a new uuid.
AcceptSSH(c) ==
  /\ spc[c] = "idle"
  /\ control[PortAgent[c]]
  /\ ssh' = [ssh EXCEPT ![c] = "open"]
  /\ spc' = [spc EXCEPT ![c] = "send"]
  /\ pending' = [pending EXCEPT ![c] = c]
  /\ pstate' = [pstate EXCEPT ![c] = "INIT"]
  /\ UNCHANGED <<ptunnel, agentVars, ws, requestVars, handlerVars,
                 timerVars, pipeVars, up>>

\* Control is read again, without the lock.  If it was cleared in between it
\* is nil; if it was read before that, the send fails or is the last one.
SendOpenNil(c) ==
  /\ spc[c] = "send"
  /\ ~control[PortAgent[c]]
  /\ Crash

\* The write may return an error after the message has left.
SendOpenFails(c) ==
  /\ spc[c] \in {"send", "sent"}
  /\ CleanupPending(c, "CLOSED", {}, {})
  /\ spc' = [spc EXCEPT ![c] = "done"]
  /\ UNCHANGED <<agentVars, requestVars, handlerVars, timerVars, pipeVars, up>>

SendOpen(c) ==
  /\ spc[c] = "send"
  /\ open' = [open EXCEPT ![c] = "sent"]
  /\ spc' = [spc EXCEPT ![c] = "sent"]
  /\ UNCHANGED <<mapVars, control, ssh, ws, requestVars, handlerVars,
                 timerVars, pipeVars, up>>

\* The state follows the message: the agent may have answered by now.
MarkOpenSent(c) ==
  /\ spc[c] = "sent"
  /\ pstate' = [pstate EXCEPT ![c] = "OPEN_SENT"]
  /\ watch' = [watch EXCEPT ![c] = "armed"]
  /\ spc' = [spc EXCEPT ![c] = "done"]
  /\ UNCHANGED <<pending, ptunnel, agentVars, ssh, ws, requestVars,
                 handlerVars, wait, pipeVars, up>>

-----------------------------------------------------------------------------
(* Requests to /tunnel that pass the header checks. *)

Dial(t, s, a) ==
  /\ hpc[t] = "idle"
  /\ xsession' = [xsession EXCEPT ![t] = s]
  /\ xagent' = [xagent EXCEPT ![t] = a]
  /\ ws' = [ws EXCEPT ![t] = "open"]
  /\ hpc' = [hpc EXCEPT ![t] = "handshake"]
  /\ UNCHANGED <<mapVars, control, sshVars, hobj, timerVars, pipeVars, up>>

\* The agent answers the OPEN of object o, whenever the message reaches it.
DialBack(t, o) ==
  /\ open[o] = "sent"
  /\ Dial(t, SessionOf(o), AgentOf(o))
  /\ open' = [open EXCEPT ![o] = "answered"]

\* An entry opens a tunnel to an agent of its choice under a uuid of its own.
EntryDial(t, e, a) ==
  /\ \A u \in Tunnel : xsession[u] # e
  /\ Dial(t, e, a)
  /\ UNCHANGED open

\* A second dial-back, or one of another agent, for an id that left the hub.
UnsolicitedDial(t, s, a) ==
  /\ Unsolicited
  /\ \E o \in Obj : open[o] # "none" /\ SessionOf(o) = s
  /\ Dial(t, s, a)
  /\ UNCHANGED open

-----------------------------------------------------------------------------
(* handleTunnelWS once the websocket is accepted. *)

HandlerGoesTo(t, pc) == hpc' = [hpc EXCEPT ![t] = pc]

\* The first message is missing, not binary, of a wrong size, or not the
\* handshake of X-Session.
BadHandshake(t) ==
  /\ hpc[t] = "handshake"
  /\ ws' = WithWSClosed({t})
  /\ HandlerGoesTo(t, "done")
  /\ UNCHANGED <<mapVars, agentVars, sshVars, requestVars, hobj,
                 timerVars, pipeVars, up>>

\* The read-locked lookup that tells dial-backs from entries.
Lookup(t) ==
  /\ hpc[t] = "handshake"
  /\ LET p == pending[xsession[t]]
     IN  /\ HandlerGoesTo(t, CASE p = None  -> "create"
                               [] IsEntry(p) -> "bindEntry"
                               [] OTHER      -> "bindSSH")
         /\ hobj' = [hobj EXCEPT ![t] = p]
  /\ UNCHANGED <<mapVars, agentVars, sshVars, ws, requestVars,
                 timerVars, pipeVars, up>>

\* Fault: the tunnel of a bound session is replaced.
BindAgain(p) == p # None /\ pstate[p] \in {"OPEN_SENT", "BOUND"}

\* Fault: the state is not looked at.
BindUnsent(p) == p # None /\ ptunnel[p] = None

\* bindTunnel looks the id up again; it takes the first tunnel of a session
\* whose OPEN is marked as sent.
CanBind(p) == p # None /\ pstate[p] = "OPEN_SENT" /\ ptunnel[p] = None

BindSSH(t) ==
  /\ hpc[t] = "bindSSH"
  /\ LET p == pending[xsession[t]]
     IN  /\ CanBind(p)
         /\ ptunnel' = [ptunnel EXCEPT ![p] = t]
         /\ pstate' = [pstate EXCEPT ![p] = "BOUND"]
         /\ hobj' = [hobj EXCEPT ![t] = p]
  /\ HandlerGoesTo(t, "match")
  /\ UNCHANGED <<pending, agentVars, sshVars, ws, requestVars,
                 timerVars, pipeVars, up>>

BindSSHFails(t) ==
  /\ hpc[t] = "bindSSH"
  /\ ~CanBind(pending[xsession[t]])
  /\ ws' = WithWSClosed({t})
  /\ HandlerGoesTo(t, "done")
  /\ UNCHANGED <<mapVars, agentVars, sshVars, requestVars, hobj,
                 timerVars, pipeVars, up>>

\* Fault: the agent is not compared.
AnyAgent(t) == TRUE

\* The agent is compared after the bind, which stays.
SameAgent(t) == AgentOf(hobj[t]) = xagent[t]

Mismatch(t) ==
  /\ hpc[t] = "match"
  /\ ~SameAgent(t)
  /\ ws' = WithWSClosed({t})
  /\ HandlerGoesTo(t, "done")
  /\ UNCHANGED <<mapVars, agentVars, sshVars, requestVars, hobj,
                 timerVars, pipeVars, up>>

\* startForwarding.
StartForwarding(t) ==
  /\ hpc[t] = "match"
  /\ SameAgent(t)
  /\ LET p == hobj[t]
     IN  /\ ~IsEntry(p)
         /\ fwd' = [fwd EXCEPT ![p] = "on"]
         /\ peer' = [peer EXCEPT ![p] = ptunnel[p]]
         /\ readers' = OneMoreReader({p, ptunnel[p]})
  /\ HandlerGoesTo(t, "done")
  /\ UNCHANGED <<mapVars, agentVars, sshVars, ws, requestVars, hobj,
                 timerVars, up>>

\* bindTunnel found the object of an entry: SSHConn is nil in the copy
\* goroutines.
StartForwardingNil(t) ==
  /\ hpc[t] = "match"
  /\ SameAgent(t)
  /\ IsEntry(hobj[t])
  /\ Crash

\* An agent answers an entry: the object found by Lookup is bound as it is.
BindEntry(t) ==
  /\ hpc[t] = "bindEntry"
  /\ ptunnel' = [ptunnel EXCEPT ![hobj[t]] = t]
  /\ pstate' = [pstate EXCEPT ![hobj[t]] = "BOUND"]
  /\ HandlerGoesTo(t, "done")
  /\ UNCHANGED <<pending, agentVars, sshVars, ws, requestVars, hobj,
                 timerVars, pipeVars, up>>

\* No session had the id: the websocket is an entry's.
CreateEntry(t) ==
  /\ hpc[t] = "create"
  /\ pending' = [pending EXCEPT ![xsession[t]] = t]
  /\ pstate' = [pstate EXCEPT ![t] = "INIT"]
  /\ HandlerGoesTo(t, "send")
  /\ UNCHANGED <<ptunnel, agentVars, sshVars, ws, requestVars, hobj,
                 timerVars, pipeVars, up>>

\* Control is nil: net/http recovers the panic of the handler and, the
\* connection being hijacked, leaves everything as it is.
SendEntryOpenNil(t) ==
  /\ hpc[t] = "send"
  /\ ~control[xagent[t]]
  /\ HandlerGoesTo(t, "panicked")
  /\ UNCHANGED <<mapVars, agentVars, sshVars, ws, requestVars, hobj,
                 timerVars, pipeVars, up>>

\* Control is set; it may be cleared while the handler sends.
ReadControl(t) ==
  /\ hpc[t] = "send"
  /\ control[xagent[t]]
  /\ HandlerGoesTo(t, "sending")
  /\ UNCHANGED <<mapVars, agentVars, sshVars, ws, requestVars, hobj,
                 timerVars, pipeVars, up>>

SendEntryOpenFails(t) ==
  /\ hpc[t] \in {"sending", "sent"}
  /\ CleanupPending(xsession[t], "CLOSED", {t}, {})
  /\ HandlerGoesTo(t, "done")
  /\ UNCHANGED <<agentVars, spc, requestVars, hobj, timerVars, pipeVars, up>>

SendEntryOpen(t) ==
  /\ hpc[t] = "sending"
  /\ open' = [open EXCEPT ![t] = "sent"]
  /\ HandlerGoesTo(t, "sent")
  /\ UNCHANGED <<mapVars, control, sshVars, ws, requestVars, hobj,
                 timerVars, pipeVars, up>>

\* The state is stored whatever it has become since the message left.
MarkEntryOpenSent(t) ==
  /\ hpc[t] = "sent"
  /\ pstate' = [pstate EXCEPT ![t] = "OPEN_SENT"]
  /\ wait' = [wait EXCEPT ![t] = "waiting"]
  /\ watch' = [watch EXCEPT ![t] = "armed"]
  /\ HandlerGoesTo(t, "done")
  /\ UNCHANGED <<pending, ptunnel, agentVars, sshVars, ws, requestVars,
                 hobj, pipeVars, up>>

-----------------------------------------------------------------------------
(* watchPendingTimeout: the state is read outside the lock, and the session *)
(* is cleaned up in a later critical section.                              *)

\* Fault: a session that waits for its agent is left alone.
SettledOnceSent(p) == p = None \/ pstate[p] # "INIT"

\* Nothing to do for the timeout goroutine: gone, bound or closed.
Settled(p) == p = None \/ pstate[p] \in {"BOUND", "CLOSED"}

WatchExpire(o) ==
  /\ watch[o] = "armed"
  /\ watch' = [watch EXCEPT ![o] = IF Settled(pending[SessionOf(o)])
                                    THEN "done" ELSE "fired"]
  /\ UNCHANGED <<mapVars, agentVars, sshVars, ws, requestVars, handlerVars,
                 wait, pipeVars, up>>

WatchCleanup(o) ==
  /\ watch[o] = "fired"
  /\ CleanupPending(SessionOf(o), "TIMEOUT", {}, {})
  /\ watch' = [watch EXCEPT ![o] = "done"]
  /\ UNCHANGED <<agentVars, spc, requestVars, handlerVars, wait, pipeVars, up>>

-----------------------------------------------------------------------------
(* waitForAgentAndForward: a ticker and a timeout. *)

\* Fault: the entry stays connected when its session is gone.
WaitTickLeaves(t) ==
  /\ wait[t] = "waiting"
  /\ pending[xsession[t]] = None
  /\ wait' = [wait EXCEPT ![t] = "done"]
  /\ UNCHANGED <<mapVars, agentVars, sshVars, ws, requestVars, handlerVars,
                 watch, pipeVars, up>>

\* cleanupPending took the session out of the map.
WaitTickGone(t) ==
  /\ wait[t] = "waiting"
  /\ pending[xsession[t]] = None
  /\ ws' = WithWSClosed({t})
  /\ wait' = [wait EXCEPT ![t] = "done"]
  /\ UNCHANGED <<mapVars, agentVars, sshVars, requestVars, handlerVars,
                 watch, pipeVars, up>>

\* startWebSocketForwarding, with the tunnel of whatever the id now names.
WaitTickBound(t) ==
  /\ wait[t] = "waiting"
  /\ LET p == pending[xsession[t]]
     IN  /\ p # None
         /\ pstate[p] = "BOUND"
         /\ ptunnel[p] # None
         /\ peer' = [peer EXCEPT ![t] = ptunnel[p]]
         /\ readers' = OneMoreReader({t, ptunnel[p]})
  /\ fwd' = [fwd EXCEPT ![t] = "on"]
  /\ wait' = [wait EXCEPT ![t] = "done"]
  /\ UNCHANGED <<mapVars, agentVars, sshVars, ws, requestVars, handlerVars,
                 watch, up>>

WaitTimeout(t) ==
  /\ wait[t] = "waiting"
  /\ ws' = WithWSClosed({t})
  /\ wait' = [wait EXCEPT ![t] = "expired"]
  /\ UNCHANGED <<mapVars, agentVars, sshVars, requestVars, handlerVars,
                 watch, pipeVars, up>>

WaitCleanup(t) ==
  /\ wait[t] = "expired"
  /\ CleanupPending(xsession[t], "TIMEOUT", {}, {})
  /\ wait' = [wait EXCEPT ![t] = "done"]
  /\ UNCHANGED <<agentVars, spc, requestVars, handlerVars, watch, pipeVars, up>>

-----------------------------------------------------------------------------
(* The copy goroutines: the first one to return runs the cleanup.          *)

\* startForwarding closes both ends one after the other, and then cleans the
\* session up.
PipeEnd(c) ==
  /\ fwd[c] = "on"
  /\ ssh' = WithSSHClosed({c})
  /\ fwd' = [fwd EXCEPT ![c] = "half"]
  /\ UNCHANGED <<mapVars, agentVars, spc, ws, requestVars, handlerVars,
                 timerVars, peer, readers, up>>

PipeCloseTunnel(c) ==
  /\ fwd[c] = "half"
  /\ ws' = WithWSClosed({peer[c]})
  /\ fwd' = [fwd EXCEPT ![c] = "closing"]
  /\ UNCHANGED <<mapVars, agentVars, sshVars, requestVars, handlerVars,
                 timerVars, peer, readers, up>>

\* Fault: the session stays in the map.
PipeLeaves(c) ==
  /\ fwd[c] = "closing"
  /\ fwd' = [fwd EXCEPT ![c] = "done"]
  /\ UNCHANGED <<mapVars, agentVars, sshVars, ws, requestVars, handlerVars,
                 timerVars, peer, readers, up>>

PipeCleanup(c) ==
  /\ fwd[c] = "closing"
  /\ CleanupPending(c, "CLOSED", {}, {})
  /\ fwd' = [fwd EXCEPT ![c] = "done"]
  /\ UNCHANGED <<agentVars, spc, requestVars, handlerVars, timerVars,
                 peer, readers, up>>

\* startWebSocketForwarding closes both ends and leaves the session where it is.
EntryPipeEnd(t) ==
  /\ fwd[t] = "on"
  /\ ws' = WithWSClosed({t})
  /\ fwd' = [fwd EXCEPT ![t] = "half"]
  /\ UNCHANGED <<mapVars, agentVars, sshVars, requestVars, handlerVars,
                 timerVars, peer, readers, up>>

EntryPipeCloseTunnel(t) ==
  /\ fwd[t] = "half"
  /\ ws' = WithWSClosed({peer[t]})
  /\ fwd' = [fwd EXCEPT ![t] = "done"]
  /\ UNCHANGED <<mapVars, agentVars, sshVars, requestVars, handlerVars,
                 timerVars, peer, readers, up>>

-----------------------------------------------------------------------------
SSHStep(c) == SendOpenNil(c) \/ SendOpenFails(c) \/ SendOpen(c) \/ MarkOpenSent(c)

HandlerStep(t) ==
  \/ BindSSH(t) \/ BindSSHFails(t)
  \/ Mismatch(t) \/ StartForwarding(t) \/ StartForwardingNil(t)
  \/ BindEntry(t)
  \/ CreateEntry(t)
  \/ SendEntryOpenNil(t) \/ ReadControl(t)
  \/ SendEntryOpenFails(t) \/ SendEntryOpen(t)
  \/ MarkEntryOpenSent(t)

WatchStep(o) == WatchExpire(o) \/ WatchCleanup(o)

WaitStep(t) == WaitTickGone(t) \/ WaitTickBound(t) \/ WaitTimeout(t) \/ WaitCleanup(t)

\* What the environment of the hub does: agents, SSH clients, requests, the
\* ends of connections.
Environment ==
  \/ \E a \in Agent : AgentConnect(a) \/ AgentGone(a)
  \/ \E c \in SSHConn : RejectSSH(c) \/ AcceptSSH(c) \/ PipeEnd(c)
  \/ \E t \in Tunnel : \/ \E o \in Obj : DialBack(t, o)
                       \/ \E e \in EntrySession, a \in Agent : EntryDial(t, e, a)
                       \/ \E s \in SID, a \in Agent : UnsolicitedDial(t, s, a)
                       \/ BadHandshake(t) \/ Lookup(t) \/ EntryPipeEnd(t)

\* What its goroutines do on their own.
Hub ==
  \/ \E c \in SSHConn : SSHStep(c) \/ PipeCloseTunnel(c) \/ PipeCleanup(c)
  \/ \E t \in Tunnel : HandlerStep(t) \/ WaitStep(t) \/ EntryPipeCloseTunnel(t)
  \/ \E o \in Obj : WatchStep(o)

Next == up /\ (Environment \/ Hub)

Spec == Init /\ [][Next]_vars

\* Goroutines that are not blocked on a peer go on: sends have a deadline of
\* 5s and timers fire.  Nothing is promised of peers: handshakes and dial-backs
\* may never come, agents may stay away.  Nor of the copy goroutines: one that
\* writes to a peer that does not read is not woken by the end of the other side.
Fairness ==
  /\ \A c \in SSHConn : WF_vars(up /\ SSHStep(c))
  /\ \A t \in Tunnel : WF_vars(up /\ HandlerStep(t)) /\ WF_vars(up /\ WaitStep(t))
  /\ \A o \in Obj : WF_vars(up /\ WatchStep(o))

FairSpec == Spec /\ Fairness

-----------------------------------------------------------------------------
(* Properties. *)

PendingState == {"INIT", "OPEN_SENT", "BOUND", "TIMEOUT", "CLOSED"}
HandlerPC == {"idle", "handshake", "bindSSH", "match", "bindEntry", "create",
              "send", "sending", "sent", "done", "panicked"}

\* The values every variable ranges over.
TypeOK ==
  /\ pending \in [SID -> Obj \cup {None}]
  /\ pstate \in [Obj -> PendingState \cup {"none"}]
  /\ ptunnel \in [Obj -> Tunnel \cup {None}]
  /\ control \in [Agent -> BOOLEAN]
  /\ open \in [Obj -> {"none", "sent", "answered"}]
  /\ ssh \in [SSHConn -> {"none", "open", "closed"}]
  /\ spc \in [SSHConn -> {"idle", "send", "sent", "done"}]
  /\ ws \in [Tunnel -> {"none", "open", "closed"}]
  /\ xagent \in [Tunnel -> Agent \cup {None}]
  /\ xsession \in [Tunnel -> SID \cup {None}]
  /\ hpc \in [Tunnel -> HandlerPC]
  /\ hobj \in [Tunnel -> Obj \cup {None}]
  /\ watch \in [Obj -> {"off", "armed", "fired", "done"}]
  /\ wait \in [Tunnel -> {"off", "waiting", "expired", "done"}]
  /\ fwd \in [Obj -> {"off", "on", "half", "closing", "done"}]
  /\ peer \in [Obj -> Tunnel \cup {None}]
  /\ readers \in [Obj -> Nat]
  /\ up \in BOOLEAN

\* Bytes never reach a wrong session: what a connection is joined with is a
\* tunnel that carried its session id and, for a TCP connection, one of the
\* agent that owns the hubPort, however dial-backs, timeouts and reused ids
\* interleave (handleTunnelWS, bindTunnel, waitForAgentAndForward).
RightPartner ==
  \A o \in Obj : fwd[o] # "off" =>
    /\ peer[o] \in Tunnel
    /\ xsession[peer[o]] = SessionOf(o)
    /\ o \in SSHConn => xagent[peer[o]] = PortAgent[o]

\* A forwarded TCP connection and its tunnel are read by one pair of copy
\* goroutines and no more, so that no stream is torn in two (the comment in
\* bindTunnel; startForwarding and startWebSocketForwarding).
OneReader ==
  \A c \in SSHConn : fwd[c] # "off" => readers[c] = 1 /\ readers[peer[c]] = 1

\* A TCP connection whose session left the map has been closed, and so has
\* the tunnel bound to it: no cleanup path and no late bind leaves a client
\* hanging (cleanupPending against bindTunnel and startForwarding).
ClosedWhenForgotten ==
  \A c \in SSHConn :
    spc[c] # "idle" /\ pending[c] # c =>
      /\ ssh[c] = "closed"
      /\ ptunnel[c] # None => ws[ptunnel[c]] = "closed"

\* Somebody is always about to finish with a filed TCP session: onSSHConn, the
\* timeout goroutine, the handler that bound it or its copy goroutines.  Only one
\* that a stray dial-back of another agent was bound to is left to nobody, as the
\* agents are compared after the bind.
AlwaysOwned ==
  up => \A c \in SSHConn : pending[c] = c =>
    \/ pstate[c] = "INIT" /\ spc[c] \in {"send", "sent"}
    \/ pstate[c] = "OPEN_SENT" /\ watch[c] \in {"armed", "fired"}
    \/ /\ pstate[c] = "BOUND"
       /\ \/ fwd[c] \in {"on", "half", "closing"}
          \/ \E t \in Tunnel : hpc[t] = "match" /\ hobj[t] = c
          \/ Unsolicited /\ xagent[ptunnel[c]] # PortAgent[c]

\* A TCP session goes through its states in order, is bound once, and nothing
\* happens to it once it timed out or closed (bindTunnel, cleanupPending).  A
\* bound session may still time out: watchPendingTimeout decides on a state it
\* read before it took the lock.
SSHLifecycle ==
  [][\A c \in SSHConn :
       /\ ptunnel[c] # None => ptunnel'[c] = ptunnel[c]
       /\ pstate'[c] # pstate[c] =>
            <<pstate[c], pstate'[c]>> \in
              {<<"none", "INIT">>, <<"INIT", "OPEN_SENT">>, <<"INIT", "CLOSED">>,
               <<"OPEN_SENT", "BOUND">>, <<"OPEN_SENT", "TIMEOUT">>,
               <<"BOUND", "CLOSED">>, <<"BOUND", "TIMEOUT">>}]_vars

\* An entry that was promised an agent gets one or is closed, even when its
\* session is overwritten or removed meanwhile (waitForAgentAndForward).
EntryResolved ==
  \A t \in Tunnel :
    wait[t] = "waiting" ~> (ws[t] = "closed" \/ fwd[t] # "off")
=============================================================================
