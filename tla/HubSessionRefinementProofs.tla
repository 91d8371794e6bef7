---------------------- MODULE HubSessionRefinementProofs ----------------------
(***************************************************************************)
(* The hub implements Rendezvous for its TCP connections: every step of    *)
(* HubSession is a step of Rendezvous or leaves its variables alone.       *)
(***************************************************************************)
EXTENDS HubSessionProofs, HubSessionRefinement

USE PortAgentType, NamesApart
    DEF SID, Obj, mapVars, agentVars, sshVars, requestVars, handlerVars,
        timerVars, pipeVars

\* What a step of the hub is to an observer of Rendezvous.
AbstractStep == R!Next \/ UNCHANGED R!vars

-----------------------------------------------------------------------------
(* Steps by which no client arrives and none is joined. *)

\* To compare two states of the clients, compare them client by client.
LEMMA ClientStateIsFunction ==
  /\ ClientState = [c \in SSHConn |-> ClientState[c]]
  /\ ClientState' = [c \in SSHConn |-> ClientState'[c]]
BY DEF ClientState

\* A step that only closes TCP connections is one in which clients leave, or
\* one that nobody sees.
LEMMA Closing ==
  ASSUME TypeOK, TypeOK', UNCHANGED requestVars,
         \A c \in SSHConn :
           /\ ssh'[c] = ssh[c] \/ (ssh[c] = "open" /\ ssh'[c] = "closed")
           /\ fwd'[c] = "off" <=> fwd[c] = "off"
           /\ peer'[c] = peer[c]
  PROVE  AbstractStep
<1>. DEFINE C == {c \in SSHConn : ssh'[c] # ssh[c]}
<1>. USE DEF TypeOK, ClientState, CameFor, JoinedWith
<1>1. ClientState' = [c \in SSHConn |-> IF c \in C THEN "gone" ELSE ClientState[c]]
  OBVIOUS
<1>2. JoinedWith' = [c \in SSHConn |-> IF c \in C THEN None ELSE JoinedWith[c]]
  OBVIOUS
<1>3. CameFor' = CameFor
  OBVIOUS
<1>4. \A c \in C : ClientState[c] \in {"waiting", "joined"}
  OBVIOUS
<1>5. CASE C = {}
  <2>1. ClientState' = ClientState /\ JoinedWith' = JoinedWith
    BY <1>1, <1>2, <1>5
  <2>. QED BY <1>3, <2>1 DEF AbstractStep, R!vars
<1>6. CASE C # {}
  <2>1. PICK c \in SSHConn : c \in C
    BY <1>6
  <2>2. PICK D \in SUBSET SSHConn : D = C
    OBVIOUS
  <2>3. c \in D /\ R!Leave(D)
    BY <1>1, <1>2, <1>3, <1>4, <2>1, <2>2 DEF R!Leave
  <2>4. R!Resolve(c)
    BY <2>3, Zenon DEF R!Resolve
  <2>. QED BY <2>1, <2>4 DEF AbstractStep, R!Next
<1>. QED BY <1>5, <1>6

\* A session that is cleaned up belonged to a TCP connection that had arrived.
LEMMA CleanupCloses ==
  ASSUME IInv, NEW s \in SID, NEW st, NEW T, CleanupPending(s, st, T, {}),
         NEW c \in SSHConn
  PROVE  ssh'[c] = ssh[c] \/ (ssh[c] = "open" /\ ssh'[c] = "closed")
BY DEF IInv, TypeOK, FiledUnderItsID, SSHStage, CleanupPending, WithSSHClosed,
       SessionOf

\* A crash lets every client go.
LEMMA CrashCloses ==
  ASSUME IInv, Crash
  PROVE  AbstractStep
<1>1. TypeOK'
  BY CrashInductive DEF IInv
<1>2. \A c \in SSHConn : ssh'[c] = ssh[c] \/ (ssh[c] = "open" /\ ssh'[c] = "closed")
  BY DEF Crash, WithSSHClosed, IInv, TypeOK
<1>. QED BY <1>1, <1>2, Closing DEF Crash, IInv

-----------------------------------------------------------------------------
(* Steps of one component each. *)

\* onSSHConn: a client arrives or is turned away; failing to send lets it go.
LEMMA RefineSSH ==
  ASSUME IInv, IInv', NEW c \in SSHConn,
         RejectSSH(c) \/ AcceptSSH(c) \/ SSHStep(c)
  PROVE  AbstractStep
<1>. USE DEF IInv
<1>1. CASE RejectSSH(c)
  <2>. USE DEF RejectSSH, TypeOK, SSHStage
  <2>1. ClientState[c] = "absent" /\ ClientState' = [ClientState EXCEPT ![c] = "gone"]
    <3>1. ClientState[c] = "absent" /\ ClientState'[c] = "gone"
      BY <1>1 DEF ClientState
    <3>2. \A k \in SSHConn \ {c} : ClientState'[k] = ClientState[k]
      BY <1>1 DEF ClientState
    <3>. QED BY <3>1, <3>2, ClientStateIsFunction
  <2>2. JoinedWith' = JoinedWith
    BY <1>1 DEF JoinedWith
  <2>3. CameFor' = CameFor
    BY <1>1 DEF CameFor
  <2>. QED BY <2>1, <2>2, <2>3 DEF AbstractStep, R!Next, R!TurnAway
<1>2. CASE AcceptSSH(c)
  <2>1. fwd[c] = "off"
    BY <1>2 DEF AcceptSSH, TypeOK, SSHStage, ForwardsBound
  <2>. USE DEF AcceptSSH, TypeOK, SSHStage
  <2>2. ClientState[c] = "absent" /\ ClientState' = [ClientState EXCEPT ![c] = "waiting"]
    <3>1. ClientState[c] = "absent" /\ ClientState'[c] = "waiting"
      BY <1>2, <2>1 DEF ClientState
    <3>2. \A k \in SSHConn \ {c} : ClientState'[k] = ClientState[k]
      BY <1>2, <2>1 DEF ClientState
    <3>. QED BY <3>1, <3>2, ClientStateIsFunction
  <2>3. JoinedWith' = JoinedWith
    BY <1>2, <2>1 DEF JoinedWith
  <2>4. CameFor' = CameFor
    BY <1>2 DEF CameFor
  <2>. QED BY <2>2, <2>3, <2>4 DEF AbstractStep, R!Next, R!Arrive
<1>3. CASE SendOpenNil(c)
  BY <1>3, CrashCloses DEF SendOpenNil
<1>4. CASE SendOpenFails(c)
  BY <1>4, Closing, CleanupCloses DEF SendOpenFails
<1>5. CASE SendOpen(c) \/ MarkOpenSent(c)
  BY <1>5, Closing DEF SendOpen, MarkOpenSent
<1>. QED BY <1>1, <1>2, <1>3, <1>4, <1>5 DEF SSHStep

\* A tunnel comes for the client whose id it carries, or for nobody.
LEMMA RefineDial ==
  ASSUME IInv, NEW t \in Tunnel, NEW s \in SID, NEW a, Dial(t, s, a)
  PROVE  AbstractStep
<1>. USE DEF IInv, TypeOK, Dial, ClientState, CameFor, JoinedWith
<1>1. ClientState' = ClientState /\ JoinedWith' = JoinedWith
  OBVIOUS
<1>2. CameFor[t] = None
  BY DEF HandlerStage
<1>3. CameFor' = [CameFor EXCEPT ![t] = IF s \in SSHConn /\ a = PortAgent[s]
                                        THEN s ELSE None]
  OBVIOUS
<1>4. CASE s \in SSHConn /\ a = PortAgent[s]
  BY <1>1, <1>2, <1>3, <1>4 DEF AbstractStep, R!Next, R!ComeFor
<1>5. CASE ~(s \in SSHConn /\ a = PortAgent[s])
  BY <1>1, <1>2, <1>3, <1>5 DEF AbstractStep, R!vars
<1>. QED BY <1>4, <1>5

\* startForwarding joins the client with a tunnel that came for it, unless the
\* client was let go while the handler was on its way.
LEMMA RefineForwarding ==
  ASSUME IInv, NEW t \in Tunnel, StartForwarding(t)
  PROVE  AbstractStep
<1>. DEFINE c == hobj[t]
<1>. USE DEF IInv, TypeOK, StartForwarding
<1>1. c \in SSHConn /\ ptunnel[c] = t /\ fwd[c] = "off"
  BY DEF MatchAfterBind, IsEntry
<1>2. xsession[t] = c /\ xagent[t] = PortAgent[c] /\ ssh[c] # "none"
  BY <1>1 DEF BoundByHandler, SameAgent, AgentOf, SessionOf, SSHStage
<1>3. CameFor[t] = c /\ CameFor' = CameFor
  BY <1>1, <1>2 DEF CameFor
<1>4. fwd' = [fwd EXCEPT ![c] = "on"] /\ peer' = [peer EXCEPT ![c] = t] /\ ssh' = ssh
  BY <1>1
<1>5. CASE ssh[c] = "open"
  <2>1. ClientState[c] = "waiting" /\ ClientState' = [ClientState EXCEPT ![c] = "joined"]
    <3>1. ClientState[c] = "waiting" /\ ClientState'[c] = "joined"
      BY <1>1, <1>4, <1>5 DEF ClientState
    <3>2. \A k \in SSHConn \ {c} : ClientState'[k] = ClientState[k]
      BY <1>1, <1>4, <1>5 DEF ClientState
    <3>. QED BY <3>1, <3>2, ClientStateIsFunction
  <2>2. JoinedWith' = [JoinedWith EXCEPT ![c] = t]
    BY <1>1, <1>4, <1>5 DEF JoinedWith
  <2>3. R!Join(c, t)
    BY <1>3, <2>1, <2>2 DEF R!Join
  <2>4. R!Resolve(c)
    BY <2>3 DEF R!Resolve
  <2>. QED BY <1>1, <2>4 DEF AbstractStep, R!Next
<1>6. CASE ssh[c] = "closed"
  <2>1. ClientState' = ClientState /\ JoinedWith' = JoinedWith
    BY <1>1, <1>4, <1>6 DEF ClientState, JoinedWith
  <2>. QED BY <1>3, <2>1 DEF AbstractStep, R!vars
<1>. QED BY <1>1, <1>2, <1>5, <1>6

\* handleTunnelWS once the websocket is accepted.
LEMMA RefineHandler ==
  ASSUME IInv, IInv', NEW t \in Tunnel,
         BadHandshake(t) \/ Lookup(t) \/ HandlerStep(t)
  PROVE  AbstractStep
<1>. USE DEF IInv
<1>1. CASE StartForwarding(t)
  BY <1>1, RefineForwarding
<1>2. CASE StartForwardingNil(t)
  BY <1>2, CrashCloses DEF StartForwardingNil
<1>3. CASE SendEntryOpenFails(t)
  <2>1. xsession[t] \in SID
    BY <1>3 DEF SendEntryOpenFails, HandlerStage
  <2>. QED BY <1>3, <2>1, Closing, CleanupCloses DEF SendEntryOpenFails
<1>4. CASE \/ BadHandshake(t) \/ Lookup(t) \/ BindSSH(t) \/ BindSSHFails(t)
           \/ Mismatch(t) \/ BindEntry(t) \/ CreateEntry(t) \/ SendEntryOpenNil(t)
           \/ ReadControl(t) \/ SendEntryOpen(t) \/ MarkEntryOpenSent(t)
  BY <1>4, Closing
     DEF BadHandshake, Lookup, BindSSH, BindSSHFails, Mismatch, BindEntry,
         CreateEntry, SendEntryOpenNil, ReadControl, SendEntryOpen,
         MarkEntryOpenSent
<1>. QED BY <1>1, <1>2, <1>3, <1>4 DEF HandlerStep

\* The timers let clients go.
LEMMA RefineTimers ==
  ASSUME IInv, IInv',
         \/ \E t \in Tunnel : WaitStep(t)
         \/ \E o \in Obj : WatchStep(o)
  PROVE  AbstractStep
<1>. USE DEF IInv
<1>1. ASSUME NEW t \in Tunnel, WaitCleanup(t)
      PROVE  AbstractStep
  <2>1. xsession[t] \in SID
    BY <1>1 DEF WaitCleanup, HandlerStage
  <2>. QED BY <1>1, <2>1, Closing, CleanupCloses DEF WaitCleanup
<1>2. ASSUME NEW o \in Obj, WatchCleanup(o)
      PROVE  AbstractStep
  <2>1. SessionOf(o) \in SID
    BY <1>2 DEF WatchCleanup, HandlerStage, SessionOf
  <2>. QED BY <1>2, <2>1, Closing, CleanupCloses DEF WatchCleanup
<1>3. ASSUME NEW t \in Tunnel, WaitTickGone(t) \/ WaitTimeout(t)
      PROVE  AbstractStep
  BY <1>3, Closing DEF WaitTickGone, WaitTimeout
<1>4. ASSUME NEW t \in Tunnel, WaitTickBound(t)
      PROVE  AbstractStep
  <2>1. \A c \in SSHConn : fwd'[c] = fwd[c] /\ peer'[c] = peer[c]
    BY <1>4 DEF WaitTickBound, TypeOK
  <2>. QED BY <1>4, <2>1, Closing DEF WaitTickBound
<1>5. ASSUME NEW o \in Obj, WatchExpire(o)
      PROVE  AbstractStep
  BY <1>5, Closing DEF WatchExpire
<1>. QED BY <1>1, <1>2, <1>3, <1>4, <1>5 DEF WaitStep, WatchStep

\* The end of a copy lets its client go.
LEMMA RefinePipes ==
  ASSUME IInv, IInv',
         \/ \E c \in SSHConn : PipeEnd(c) \/ PipeCloseTunnel(c) \/ PipeCleanup(c)
         \/ \E t \in Tunnel : EntryPipeEnd(t) \/ EntryPipeCloseTunnel(t)
         \/ \E a \in Agent : AgentConnect(a) \/ AgentGone(a)
  PROVE  AbstractStep
<1>. USE DEF IInv
<1>1. ASSUME NEW c \in SSHConn, PipeEnd(c)
      PROVE  AbstractStep
  <2>1. spc[c] # "idle"
    BY <1>1 DEF PipeEnd, SSHStage, ForwardsBound, TypeOK
  <2>2. \A k \in SSHConn :
          /\ ssh'[k] = ssh[k] \/ (ssh[k] = "open" /\ ssh'[k] = "closed")
          /\ fwd'[k] = "off" <=> fwd[k] = "off"
    BY <1>1, <2>1 DEF PipeEnd, TypeOK, SSHStage, WithSSHClosed
  <2>. QED BY <1>1, <2>2, Closing DEF PipeEnd
<1>2. ASSUME NEW c \in SSHConn, PipeCleanup(c)
      PROVE  AbstractStep
  <2>1. \A k \in SSHConn : fwd'[k] = "off" <=> fwd[k] = "off"
    BY <1>2 DEF PipeCleanup, TypeOK
  <2>. QED BY <1>2, <2>1, Closing, CleanupCloses DEF PipeCleanup
<1>3. ASSUME NEW t \in Tunnel, EntryPipeEnd(t) \/ EntryPipeCloseTunnel(t)
      PROVE  AbstractStep
  <2>1. \A c \in SSHConn : fwd'[c] = fwd[c]
    BY <1>3 DEF EntryPipeEnd, EntryPipeCloseTunnel, TypeOK
  <2>. QED BY <1>3, <2>1, Closing DEF EntryPipeEnd, EntryPipeCloseTunnel
<1>4. ASSUME NEW a \in Agent, AgentConnect(a) \/ AgentGone(a)
      PROVE  AbstractStep
  BY <1>4, Closing DEF AgentConnect, AgentGone
<1>5. ASSUME NEW c \in SSHConn, PipeCloseTunnel(c)
      PROVE  AbstractStep
  <2>1. \A k \in SSHConn : fwd'[k] = "off" <=> fwd[k] = "off"
    BY <1>5 DEF PipeCloseTunnel, TypeOK
  <2>. QED BY <1>5, <2>1, Closing DEF PipeCloseTunnel
<1>. QED BY <1>1, <1>2, <1>3, <1>4, <1>5

-----------------------------------------------------------------------------
\* A TCP connection is turned away, or waits and is joined at most once, with
\* a tunnel that came for it, and what is closed stays closed, whatever
\* dial-backs, timeouts and crashes interleave (onSSHConn to startForwarding).
THEOREM RendezvousImplemented == Spec => ImplementsRendezvous
<1>1. Init => R!Init
  BY DEF Init, R!Init, ClientState, CameFor, JoinedWith
<1>2. IInv /\ IInv' /\ [Next]_vars => [R!Next]_R!vars
  <2>. SUFFICES ASSUME IInv, IInv', [Next]_vars
                PROVE  AbstractStep
    BY DEF AbstractStep
  <2>1. ASSUME NEW t \in Tunnel,
               \/ \E o \in Obj : DialBack(t, o)
               \/ \E e \in EntrySession, a \in Agent : EntryDial(t, e, a)
               \/ \E s \in SID, a \in Agent : UnsolicitedDial(t, s, a)
        PROVE  AbstractStep
    <3>1. ASSUME NEW o \in Obj, DialBack(t, o)
          PROVE  AbstractStep
      <4>1. SessionOf(o) \in SID
        BY <3>1 DEF DialBack, SessionOf, IInv, HandlerStage
      <4>. QED BY <3>1, <4>1, RefineDial DEF DialBack
    <3>. QED BY <2>1, <3>1, RefineDial DEF EntryDial, UnsolicitedDial
  <2>2. CASE Environment
    BY <2>1, <2>2, RefineSSH, RefineHandler, RefinePipes DEF Environment
  <2>3. CASE Hub
    BY <2>3, RefineSSH, RefineHandler, RefineTimers, RefinePipes DEF Hub
  <2>4. CASE UNCHANGED vars
    BY <2>4, Closing DEF vars, IInv
  <2>. QED BY <2>2, <2>3, <2>4 DEF Next
<1>. QED BY <1>1, <1>2, Invariance, PTL DEF Spec, ImplementsRendezvous, R!Spec
=============================================================================
