------------------------- MODULE HubSessionStepProofs -------------------------
(***************************************************************************)
(* What the steps of HubSession may do, from its inductive invariant: TCP  *)
(* sessions keep to their life cycle, and no TCP session is left without   *)
(* an owner.                                                               *)
(***************************************************************************)
EXTENDS HubSessionProofs

USE PortAgentType, NamesApart
    DEF SID, Obj, mapVars, agentVars, sshVars, requestVars, handlerVars,
        timerVars, pipeVars

-----------------------------------------------------------------------------
(* The life cycle of a TCP session. *)

\* What one step may do to the session of c.
Lifecycle(c) ==
  /\ ptunnel[c] # None => ptunnel'[c] = ptunnel[c]
  /\ pstate'[c] # pstate[c] =>
       <<pstate[c], pstate'[c]>> \in
         {<<"none", "INIT">>, <<"INIT", "OPEN_SENT">>, <<"INIT", "CLOSED">>,
          <<"OPEN_SENT", "BOUND">>, <<"OPEN_SENT", "TIMEOUT">>,
          <<"BOUND", "CLOSED">>, <<"BOUND", "TIMEOUT">>}

\* Most steps do not touch a state or a tunnel at all.
LEMMA LifecycleUntouched ==
  ASSUME NEW k \in SSHConn, UNCHANGED <<pstate, ptunnel>>
  PROVE  Lifecycle(k)
BY DEF Lifecycle

\* onSSHConn: the session is opened, marked or given up in this order.
LEMMA LifecycleSSH ==
  ASSUME IInv, NEW k \in SSHConn, NEW c \in SSHConn,
         AcceptSSH(c) \/ SSHStep(c)
  PROVE  Lifecycle(k)
<1>. USE DEF IInv, TypeOK, SSHStage, Lifecycle
<1>1. CASE AcceptSSH(c)
  BY <1>1 DEF AcceptSSH
<1>2. CASE SendOpenFails(c)
  BY <1>2 DEF SendOpenFails, CleanupPending, FiledUnderItsID, SessionOf
<1>3. CASE MarkOpenSent(c)
  BY <1>3 DEF MarkOpenSent
<1>4. CASE SendOpen(c) \/ SendOpenNil(c)
  BY <1>4, LifecycleUntouched DEF SendOpen, SendOpenNil, Crash
<1>. QED BY <1>1, <1>2, <1>3, <1>4 DEF SSHStep

\* handleTunnelWS: bindTunnel is the only one to bind a TCP session, and an
\* entry that cannot be opened is never filed under the id of a live one.
LEMMA LifecycleHandler ==
  ASSUME IInv, NEW k \in SSHConn, NEW t \in Tunnel, HandlerStep(t)
  PROVE  Lifecycle(k)
<1>. USE DEF IInv, TypeOK, HandlerStage, Lifecycle
<1>1. CASE BindSSH(t)
  BY <1>1 DEF BindSSH, CanBind
<1>2. CASE BindEntry(t)
  BY <1>2 DEF BindEntry
<1>3. CASE CreateEntry(t) \/ MarkEntryOpenSent(t)
  BY <1>3 DEF CreateEntry, MarkEntryOpenSent
<1>4. CASE SendEntryOpenFails(t)
  BY <1>4 DEF SendEntryOpenFails, CleanupPending, FiledUnderItsID, EntryAfterSSH,
              SessionOf
<1>5. CASE \/ BindSSHFails(t) \/ Mismatch(t) \/ StartForwarding(t)
           \/ StartForwardingNil(t) \/ SendEntryOpenNil(t) \/ ReadControl(t)
           \/ SendEntryOpen(t)
  BY <1>5, LifecycleUntouched
     DEF BindSSHFails, Mismatch, StartForwarding, StartForwardingNil,
         SendEntryOpenNil, ReadControl, SendEntryOpen, Crash
<1>. QED BY <1>1, <1>2, <1>3, <1>4, <1>5 DEF HandlerStep

\* The timers and the copy goroutines clean up a live TCP session only if it is
\* their own.
LEMMA LifecycleCleanup ==
  ASSUME IInv, NEW k \in SSHConn,
         \/ \E c \in SSHConn : PipeCloseTunnel(c) \/ PipeCleanup(c)
         \/ \E t \in Tunnel : WaitStep(t) \/ EntryPipeCloseTunnel(t)
         \/ \E o \in Obj : WatchStep(o)
  PROVE  Lifecycle(k)
<1>. USE DEF IInv, TypeOK, Lifecycle
<1>1. ASSUME NEW c \in SSHConn, PipeCleanup(c)
      PROVE  Lifecycle(k)
  BY <1>1 DEF PipeCleanup, CleanupPending, FiledUnderItsID, SessionOf, SSHStage,
              ForwardsBound
<1>2. ASSUME NEW t \in Tunnel, WaitCleanup(t)
      PROVE  Lifecycle(k)
  BY <1>2 DEF WaitCleanup, CleanupPending, FiledUnderItsID, SessionOf,
              HandlerStage, EntryAfterSSH
<1>3. ASSUME NEW o \in Obj, WatchCleanup(o)
      PROVE  Lifecycle(k)
  BY <1>3 DEF WatchCleanup, CleanupPending, FiledUnderItsID, SessionOf, SSHStage,
              HandlerStage, EntryAfterSSH
<1>4. ASSUME NEW t \in Tunnel, WaitTickGone(t) \/ WaitTickBound(t) \/ WaitTimeout(t)
      PROVE  Lifecycle(k)
  BY <1>4, LifecycleUntouched DEF WaitTickGone, WaitTickBound, WaitTimeout
<1>5. ASSUME NEW o \in Obj, WatchExpire(o)
      PROVE  Lifecycle(k)
  BY <1>5, LifecycleUntouched DEF WatchExpire
<1>6. ASSUME \/ \E c \in SSHConn : PipeCloseTunnel(c)
             \/ \E t \in Tunnel : EntryPipeCloseTunnel(t)
      PROVE  Lifecycle(k)
  BY <1>6, LifecycleUntouched DEF PipeCloseTunnel, EntryPipeCloseTunnel
<1>. QED BY <1>1, <1>2, <1>3, <1>4, <1>5, <1>6 DEF WaitStep, WatchStep

\* A TCP session goes through its states in order, is bound once, and nothing
\* happens to it once it timed out or closed (bindTunnel, cleanupPending).
THEOREM LifecycleKept == Spec => SSHLifecycle
<1>1. ASSUME IInv, Next, NEW k \in SSHConn
      PROVE  Lifecycle(k)
  <2>1. CASE Hub
    BY <1>1, <2>1, LifecycleSSH, LifecycleHandler, LifecycleCleanup DEF Hub
  <2>2. CASE Environment
    <3>1. ASSUME NEW c \in SSHConn, RejectSSH(c) \/ AcceptSSH(c) \/ PipeEnd(c)
          PROVE  Lifecycle(k)
      BY <1>1, <3>1, LifecycleSSH, LifecycleUntouched DEF RejectSSH, PipeEnd
    <3>2. ASSUME NEW a \in Agent, AgentConnect(a) \/ AgentGone(a)
          PROVE  Lifecycle(k)
      BY <3>2, LifecycleUntouched DEF AgentConnect, AgentGone
    <3>3. ASSUME NEW t \in Tunnel,
                 \/ \E o \in Obj : DialBack(t, o)
                 \/ \E e \in EntrySession, a \in Agent : EntryDial(t, e, a)
                 \/ \E s \in SID, a \in Agent : UnsolicitedDial(t, s, a)
          PROVE  Lifecycle(k)
      BY <3>3, LifecycleUntouched DEF DialBack, EntryDial, UnsolicitedDial, Dial
    <3>4. ASSUME NEW t \in Tunnel, BadHandshake(t) \/ Lookup(t) \/ EntryPipeEnd(t)
          PROVE  Lifecycle(k)
      BY <3>4, LifecycleUntouched DEF BadHandshake, Lookup, EntryPipeEnd
    <3>. QED BY <2>2, <3>1, <3>2, <3>3, <3>4 DEF Environment
  <2>. QED BY <1>1, <2>1, <2>2 DEF Next
<1>2. IInv /\ [Next]_vars => [\A c \in SSHConn : Lifecycle(c)]_vars
  BY <1>1
<1>3. Spec => [][\A c \in SSHConn : Lifecycle(c)]_vars
  BY <1>2, Invariance, PTL DEF Spec
<1>. QED BY <1>3 DEF SSHLifecycle, Lifecycle

-----------------------------------------------------------------------------
(* No TCP session without an owner. *)

\* onSSHConn and the control connections: what is filed is on its way to the
\* timeout goroutine.
LEMMA OwnedSSH ==
  ASSUME IInv, OwnedInv, NEW c \in SSHConn,
         RejectSSH(c) \/ AcceptSSH(c) \/ SSHStep(c)
  PROVE  OwnedInv'
<1>. USE DEF IInv, TypeOK, OwnedInv, AnswersMatch, AlwaysOwned
<1>1. CASE RejectSSH(c)
  BY <1>1 DEF RejectSSH
<1>2. CASE AcceptSSH(c)
  BY <1>2 DEF AcceptSSH
<1>3. CASE SendOpenNil(c)
  BY <1>3 DEF SendOpenNil, Crash
<1>4. CASE SendOpenFails(c)
  BY <1>4 DEF SendOpenFails, CleanupPending, FiledUnderItsID, SessionOf
<1>5. CASE SendOpen(c)
  BY <1>5 DEF SendOpen
<1>6. CASE MarkOpenSent(c)
  BY <1>6 DEF MarkOpenSent
<1>. QED BY <1>1, <1>2, <1>3, <1>4, <1>5, <1>6 DEF SSHStep

\* A tunnel dialled on an OPEN carries the agent the OPEN was sent to, and a
\* tunnel that is bound is not dialled again.
LEMMA OwnedDial ==
  ASSUME IInv, OwnedInv, NEW t \in Tunnel,
         \/ \E o \in Obj : DialBack(t, o)
         \/ \E e \in EntrySession, a \in Agent : EntryDial(t, e, a)
         \/ \E s \in SID, a \in Agent : UnsolicitedDial(t, s, a)
  PROVE  OwnedInv'
<1>. USE DEF IInv, TypeOK, OwnedInv, AnswersMatch, AlwaysOwned, Dial, BoundByHandler
<1>1. ASSUME NEW o \in Obj, DialBack(t, o)
      PROVE  OwnedInv'
  BY <1>1 DEF DialBack, SessionOf, AgentOf
<1>2. ASSUME NEW e \in EntrySession, NEW a \in Agent, EntryDial(t, e, a)
      PROVE  OwnedInv'
  BY <1>2 DEF EntryDial
<1>3. ASSUME NEW s \in SID, NEW a \in Agent, UnsolicitedDial(t, s, a)
      PROVE  OwnedInv'
  BY <1>3 DEF UnsolicitedDial
<1>. QED BY <1>1, <1>2, <1>3

\* handleTunnelWS: a handler that binds a TCP session goes on to forward it, if
\* the agents match.
LEMMA OwnedHandler ==
  ASSUME IInv, OwnedInv, NEW t \in Tunnel,
         BadHandshake(t) \/ Lookup(t) \/ HandlerStep(t)
  PROVE  OwnedInv'
<1>. USE DEF IInv, TypeOK, OwnedInv, AnswersMatch, AlwaysOwned, HandlerGoesTo
<1>1. CASE BadHandshake(t) \/ Lookup(t)
  BY <1>1 DEF BadHandshake, Lookup, IsEntry
<1>2. CASE BindSSH(t)
  BY <1>2 DEF BindSSH, CanBind, FiledUnderItsID, SessionOf
<1>3. CASE BindSSHFails(t)
  BY <1>3 DEF BindSSHFails
<1>4. CASE Mismatch(t)
  BY <1>4 DEF Mismatch, SameAgent, AgentOf, SessionOf, MatchAfterBind, BoundByHandler
<1>5. CASE StartForwarding(t)
  <2>1. hobj[t] \in SSHConn
    BY <1>5 DEF StartForwarding, IsEntry, MatchAfterBind
  <2>2. fwd' = [fwd EXCEPT ![hobj[t]] = "on"] /\ hpc' = [hpc EXCEPT ![t] = "done"]
    BY <1>5 DEF StartForwarding
  <2>3. UNCHANGED <<pending, pstate, ptunnel, spc, watch, hobj, xsession, xagent, up>>
    BY <1>5 DEF StartForwarding
  <2>4. AnswersMatch'
    BY <2>3
  <2>5. ASSUME up, NEW c \in SSHConn, pending[c] = c
        PROVE  \/ pstate[c] = "INIT" /\ spc[c] \in {"send", "sent"}
               \/ pstate[c] = "OPEN_SENT" /\ watch[c] \in {"armed", "fired"}
               \/ /\ pstate[c] = "BOUND"
                  /\ \/ fwd'[c] \in {"on", "half", "closing"}
                     \/ \E u \in Tunnel : hpc'[u] = "match" /\ hobj[u] = c
                     \/ Unsolicited /\ xagent[ptunnel[c]] # PortAgent[c]
    <3>1. CASE hobj[t] = c
      <4>1. fwd'[c] = "on"
        BY <2>2, <3>1
      <4>2. \/ pstate[c] = "INIT" /\ spc[c] \in {"send", "sent"}
            \/ pstate[c] = "OPEN_SENT" /\ watch[c] \in {"armed", "fired"}
            \/ pstate[c] = "BOUND"
        BY <2>5
      <4>. QED BY <4>1, <4>2
    <3>2. CASE hobj[t] # c
      <4>1. fwd'[c] = fwd[c]
        BY <2>1, <2>2, <3>2
      <4>2. \A u \in Tunnel : hpc[u] = "match" /\ hobj[u] = c => hpc'[u] = "match"
        BY <2>2, <3>2
      <4>. QED BY <2>5, <4>1, <4>2
    <3>. QED BY <3>1, <3>2
  <2>. QED BY <2>3, <2>4, <2>5
<1>6. CASE StartForwardingNil(t)
  BY <1>6 DEF StartForwardingNil, Crash
<1>7. CASE BindEntry(t)
  BY <1>7 DEF BindEntry, HandlerStage
<1>8. CASE CreateEntry(t) \/ MarkEntryOpenSent(t)
  BY <1>8 DEF CreateEntry, MarkEntryOpenSent
<1>9. CASE SendEntryOpenFails(t)
  BY <1>9 DEF SendEntryOpenFails, CleanupPending, FiledUnderItsID, SessionOf,
              HandlerStage
<1>10. CASE SendEntryOpenNil(t) \/ ReadControl(t) \/ SendEntryOpen(t)
  BY <1>10 DEF SendEntryOpenNil, ReadControl, SendEntryOpen
<1>. QED BY <1>1, <1>2, <1>3, <1>4, <1>5, <1>6, <1>7, <1>8, <1>9, <1>10 DEF HandlerStep

\* The timers: the timeout goroutine does not give up a session that waits.
LEMMA OwnedTimers ==
  ASSUME IInv, OwnedInv,
         \/ \E t \in Tunnel : WaitStep(t)
         \/ \E o \in Obj : WatchStep(o)
  PROVE  OwnedInv'
<1>. USE DEF IInv, TypeOK, OwnedInv, AnswersMatch, AlwaysOwned
<1>1. ASSUME NEW t \in Tunnel, WaitTickGone(t) \/ WaitTickBound(t) \/ WaitTimeout(t)
      PROVE  OwnedInv'
  BY <1>1 DEF WaitTickGone, WaitTickBound, WaitTimeout
<1>2. ASSUME NEW t \in Tunnel, WaitCleanup(t)
      PROVE  OwnedInv'
  BY <1>2 DEF WaitCleanup, CleanupPending, FiledUnderItsID, SessionOf, HandlerStage
<1>3. ASSUME NEW o \in Obj, WatchExpire(o)
      PROVE  OwnedInv'
  BY <1>3 DEF WatchExpire, Settled, SessionOf
<1>4. ASSUME NEW o \in Obj, WatchCleanup(o)
      PROVE  OwnedInv'
  BY <1>4 DEF WatchCleanup, CleanupPending, FiledUnderItsID, SessionOf, HandlerStage
<1>. QED BY <1>1, <1>2, <1>3, <1>4 DEF WaitStep, WatchStep

\* The copy goroutines own what they forward until it has left the map.
LEMMA OwnedPipes ==
  ASSUME IInv, OwnedInv,
         \/ \E c \in SSHConn : PipeEnd(c) \/ PipeCloseTunnel(c) \/ PipeCleanup(c)
         \/ \E t \in Tunnel : EntryPipeEnd(t) \/ EntryPipeCloseTunnel(t)
         \/ \E a \in Agent : AgentConnect(a) \/ AgentGone(a)
  PROVE  OwnedInv'
<1>. USE DEF IInv, TypeOK, OwnedInv, AnswersMatch, AlwaysOwned
<1>1. ASSUME NEW c \in SSHConn, PipeEnd(c) \/ PipeCloseTunnel(c)
      PROVE  OwnedInv'
  BY <1>1 DEF PipeEnd, PipeCloseTunnel
<1>2. ASSUME NEW c \in SSHConn, PipeCleanup(c)
      PROVE  OwnedInv'
  BY <1>2 DEF PipeCleanup, CleanupPending, FiledUnderItsID, SessionOf
<1>3. ASSUME NEW t \in Tunnel, EntryPipeEnd(t) \/ EntryPipeCloseTunnel(t)
      PROVE  OwnedInv'
  BY <1>3 DEF EntryPipeEnd, EntryPipeCloseTunnel
<1>4. ASSUME NEW a \in Agent, AgentConnect(a) \/ AgentGone(a)
      PROVE  OwnedInv'
  BY <1>4 DEF AgentConnect, AgentGone
<1>. QED BY <1>1, <1>2, <1>3, <1>4

\* Somebody is always about to finish with a filed TCP session, unless a stray
\* dial-back of another agent was bound to it (onSSHConn, watchPendingTimeout,
\* handleTunnelWS, startForwarding).
THEOREM SessionsOwned == Spec => []AlwaysOwned
<1>1. Init => OwnedInv
  BY DEF Init, OwnedInv, AnswersMatch, AlwaysOwned
<1>2. IInv /\ OwnedInv /\ [Next]_vars => OwnedInv'
  <2>. SUFFICES ASSUME IInv, OwnedInv, [Next]_vars
                PROVE  OwnedInv'
    OBVIOUS
  <2>1. CASE Environment
    BY <2>1, OwnedSSH, OwnedDial, OwnedHandler, OwnedPipes DEF Environment
  <2>2. CASE Hub
    BY <2>2, OwnedSSH, OwnedHandler, OwnedTimers, OwnedPipes DEF Hub
  <2>3. CASE UNCHANGED vars
    BY <2>3 DEF vars, OwnedInv, AnswersMatch, AlwaysOwned
  <2>. QED BY <2>1, <2>2, <2>3 DEF Next
<1>3. OwnedInv => AlwaysOwned
  BY DEF OwnedInv
<1>. QED BY <1>1, <1>2, <1>3, Invariance, PTL DEF Spec
=============================================================================
