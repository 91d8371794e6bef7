--------------------------- MODULE HubSessionProofs ---------------------------
(***************************************************************************)
(* IInv is an inductive invariant of HubSession, for any sets of           *)
(* connections, ids and agents: one lemma for each action, one step for    *)
(* each conjunct the action can disturb.  The safety properties follow.    *)
(***************************************************************************)
EXTENDS HubSessionInvariant, TLAPS

USE PortAgentType, NamesApart
    DEF SID, Obj, mapVars, agentVars, sshVars, requestVars, handlerVars,
        timerVars, pipeVars

\* A control connection comes up (handleAgentWS): no session changes.
LEMMA AgentConnectInductive ==
  ASSUME IInv, NEW a \in Agent, AgentConnect(a)
  PROVE  IInv'
<1>. USE DEF IInv, AgentConnect
<1>1. TypeOK'
  BY DEF TypeOK
<1>2. FiledUnderItsID' /\ SSHStage' /\ DialledAfterOpen' /\ HandlerStage' /\
      EntryAfterSSH' /\ BoundByHandler' /\ MatchAfterBind' /\ ForwardsBound'
      /\ ReadersCounted' /\ ClosedWhenForgotten'
  BY DEF FiledUnderItsID, SSHStage, DialledAfterOpen, HandlerStage,
         EntryAfterSSH, BoundByHandler, MatchAfterBind, ForwardsBound,
         ReadersCounted, ClosedWhenForgotten, SessionOf
<1>. QED BY <1>1, <1>2

\* A control connection is lost (handleAgentWS): no session changes.
LEMMA AgentGoneInductive ==
  ASSUME IInv, NEW a \in Agent, AgentGone(a)
  PROVE  IInv'
<1>. USE DEF IInv, AgentGone
<1>1. TypeOK'
  BY DEF TypeOK
<1>2. FiledUnderItsID' /\ SSHStage' /\ DialledAfterOpen' /\ HandlerStage' /\
      EntryAfterSSH' /\ BoundByHandler' /\ MatchAfterBind' /\ ForwardsBound'
      /\ ReadersCounted' /\ ClosedWhenForgotten'
  BY DEF FiledUnderItsID, SSHStage, DialledAfterOpen, HandlerStage,
         EntryAfterSSH, BoundByHandler, MatchAfterBind, ForwardsBound,
         ReadersCounted, ClosedWhenForgotten, SessionOf
<1>. QED BY <1>1, <1>2

\* onSSHConn closes the connection of an offline agent.
LEMMA RejectSSHInductive ==
  ASSUME IInv, NEW c \in SSHConn, RejectSSH(c)
  PROVE  IInv'
<1>. USE DEF IInv, RejectSSH
<1>1. TypeOK'
  BY DEF TypeOK
<1>2. SSHStage'
  BY DEF SSHStage, TypeOK
<1>3. DialledAfterOpen'
  BY DEF DialledAfterOpen
<1>4. EntryAfterSSH'
  BY DEF EntryAfterSSH
<1>5. ClosedWhenForgotten'
  BY DEF ClosedWhenForgotten, TypeOK, SSHStage
<1>6. FiledUnderItsID' /\ HandlerStage' /\ BoundByHandler' /\ MatchAfterBind'
      /\ ForwardsBound' /\ ReadersCounted'
  BY DEF FiledUnderItsID, HandlerStage, BoundByHandler, MatchAfterBind,
         ForwardsBound, ReadersCounted, SessionOf
<1>. QED BY <1>1, <1>2, <1>3, <1>4, <1>5, <1>6

\* onSSHConn files a session under a new id.
LEMMA AcceptSSHInductive ==
  ASSUME IInv, NEW c \in SSHConn, AcceptSSH(c)
  PROVE  IInv'
<1>. USE DEF IInv, AcceptSSH
<1>1. TypeOK'
  BY DEF TypeOK, PendingState
<1>2. FiledUnderItsID'
  BY DEF FiledUnderItsID, TypeOK, SessionOf
<1>3. SSHStage'
  BY DEF SSHStage, TypeOK
<1>4. DialledAfterOpen'
  BY DEF DialledAfterOpen
<1>5. HandlerStage'
  BY DEF HandlerStage
<1>6. EntryAfterSSH'
  BY DEF EntryAfterSSH
<1>7. BoundByHandler'
  BY DEF BoundByHandler, SessionOf
<1>8. ClosedWhenForgotten'
  BY DEF ClosedWhenForgotten, TypeOK
<1>9. MatchAfterBind' /\ ForwardsBound' /\ ReadersCounted'
  BY DEF MatchAfterBind, ForwardsBound, ReadersCounted, SessionOf
<1>. QED BY <1>1, <1>2, <1>3, <1>4, <1>5, <1>6, <1>7, <1>8, <1>9

\* onSSHConn cleans up a session whose OPEN could not be sent.
LEMMA SendOpenFailsInductive ==
  ASSUME IInv, NEW c \in SSHConn, SendOpenFails(c)
  PROVE  IInv'
<1>. USE DEF IInv, SendOpenFails
<1>1. TypeOK'
  BY DEF TypeOK, CleanupPending, WithSSHClosed, WithWSClosed, PendingState
<1>2. FiledUnderItsID'
  BY DEF FiledUnderItsID, TypeOK, SessionOf, CleanupPending
<1>3. SSHStage'
  BY DEF SSHStage, TypeOK, CleanupPending, WithSSHClosed
<1>4. DialledAfterOpen'
  BY DEF DialledAfterOpen
<1>5. HandlerStage'
  BY DEF HandlerStage, SSHStage, CleanupPending
<1>6. EntryAfterSSH'
  BY DEF EntryAfterSSH, SSHStage, CleanupPending
<1>7. BoundByHandler'
  BY DEF BoundByHandler, SessionOf, CleanupPending
<1>8. ClosedWhenForgotten'
  BY DEF ClosedWhenForgotten, TypeOK, CleanupPending, WithSSHClosed,
         WithWSClosed
<1>9. MatchAfterBind' /\ ForwardsBound' /\ ReadersCounted'
  BY DEF MatchAfterBind, ForwardsBound, ReadersCounted, SessionOf,
         CleanupPending
<1>. QED BY <1>1, <1>2, <1>3, <1>4, <1>5, <1>6, <1>7, <1>8, <1>9

\* onSSHConn sends OPEN.
LEMMA SendOpenInductive ==
  ASSUME IInv, NEW c \in SSHConn, SendOpen(c)
  PROVE  IInv'
<1>. USE DEF IInv, SendOpen
<1>1. TypeOK'
  BY DEF TypeOK
<1>2. SSHStage'
  BY DEF SSHStage, TypeOK
<1>3. DialledAfterOpen'
  BY DEF DialledAfterOpen
<1>4. HandlerStage'
  BY DEF HandlerStage
<1>5. EntryAfterSSH'
  BY DEF EntryAfterSSH
<1>6. ClosedWhenForgotten'
  BY DEF ClosedWhenForgotten
<1>7. FiledUnderItsID' /\ BoundByHandler' /\ MatchAfterBind' /\ ForwardsBound'
      /\ ReadersCounted'
  BY DEF FiledUnderItsID, BoundByHandler, MatchAfterBind, ForwardsBound,
         ReadersCounted, SessionOf
<1>. QED BY <1>1, <1>2, <1>3, <1>4, <1>5, <1>6, <1>7

\* onSSHConn stores OPEN_SENT: the session is still unbound, bindTunnel having
\* refused whatever came before.
LEMMA MarkOpenSentInductive ==
  ASSUME IInv, NEW c \in SSHConn, MarkOpenSent(c)
  PROVE  IInv'
<1>. USE DEF IInv, MarkOpenSent
<1>1. TypeOK'
  BY DEF TypeOK, PendingState
<1>2. FiledUnderItsID'
  BY DEF FiledUnderItsID, SessionOf
<1>3. SSHStage'
  BY DEF SSHStage, TypeOK
<1>4. DialledAfterOpen'
  BY DEF DialledAfterOpen
<1>5. HandlerStage'
  BY DEF HandlerStage
<1>6. EntryAfterSSH'
  BY DEF EntryAfterSSH
<1>7. BoundByHandler'
  BY DEF BoundByHandler, SessionOf
<1>8. ClosedWhenForgotten'
  BY DEF ClosedWhenForgotten
<1>9. MatchAfterBind' /\ ForwardsBound' /\ ReadersCounted'
  BY DEF MatchAfterBind, ForwardsBound, ReadersCounted, SessionOf
<1>. QED BY <1>1, <1>2, <1>3, <1>4, <1>5, <1>6, <1>7, <1>8, <1>9

\* A copy of startForwarding returns and the TCP connection is closed.
LEMMA PipeEndInductive ==
  ASSUME IInv, NEW c \in SSHConn, PipeEnd(c)
  PROVE  IInv'
<1>. USE DEF IInv, PipeEnd
<1>1. TypeOK'
  BY DEF TypeOK, WithSSHClosed
<1>2. SSHStage'
  BY DEF SSHStage, ForwardsBound, WithSSHClosed
<1>3. HandlerStage'
  BY DEF HandlerStage
<1>4. MatchAfterBind'
  BY DEF MatchAfterBind
<1>5. ForwardsBound'
  BY DEF ForwardsBound, SessionOf
<1>6. ReadersCounted'
  BY DEF ReadersCounted
<1>7. ClosedWhenForgotten'
  BY DEF ClosedWhenForgotten, TypeOK, WithSSHClosed, WithWSClosed
<1>8. FiledUnderItsID' /\ DialledAfterOpen' /\ EntryAfterSSH' /\
      BoundByHandler'
  BY DEF FiledUnderItsID, DialledAfterOpen, EntryAfterSSH, BoundByHandler,
         SessionOf
<1>. QED BY <1>1, <1>2, <1>3, <1>4, <1>5, <1>6, <1>7, <1>8

\* Then the tunnel is.
LEMMA PipeCloseTunnelInductive ==
  ASSUME IInv, NEW c \in SSHConn, PipeCloseTunnel(c)
  PROVE  IInv'
<1>. USE DEF IInv, PipeCloseTunnel
<1>1. TypeOK'
  BY DEF TypeOK, WithWSClosed
<1>2. SSHStage'
  BY DEF SSHStage, ForwardsBound
<1>3. HandlerStage'
  BY DEF HandlerStage
<1>4. MatchAfterBind'
  BY DEF MatchAfterBind
<1>5. ForwardsBound'
  BY DEF ForwardsBound, SessionOf
<1>6. ReadersCounted'
  BY DEF ReadersCounted
<1>7. ClosedWhenForgotten'
  BY DEF ClosedWhenForgotten, TypeOK, WithSSHClosed, WithWSClosed
<1>8. FiledUnderItsID' /\ DialledAfterOpen' /\ EntryAfterSSH' /\
      BoundByHandler'
  BY DEF FiledUnderItsID, DialledAfterOpen, EntryAfterSSH, BoundByHandler,
         SessionOf
<1>. QED BY <1>1, <1>2, <1>3, <1>4, <1>5, <1>6, <1>7, <1>8

\* startForwarding cleans the session up after the ends are closed.
LEMMA PipeCleanupInductive ==
  ASSUME IInv, NEW c \in SSHConn, PipeCleanup(c)
  PROVE  IInv'
<1>. USE DEF IInv, PipeCleanup
<1>1. TypeOK'
  BY DEF TypeOK, CleanupPending, WithSSHClosed, WithWSClosed, PendingState
<1>2. FiledUnderItsID'
  BY DEF FiledUnderItsID, TypeOK, SessionOf, CleanupPending
<1>3. SSHStage'
  BY DEF SSHStage, TypeOK, FiledUnderItsID, ForwardsBound, CleanupPending,
         WithSSHClosed
<1>4. HandlerStage'
  BY DEF HandlerStage, FiledUnderItsID, CleanupPending
<1>5. EntryAfterSSH'
  BY DEF EntryAfterSSH, FiledUnderItsID, CleanupPending
<1>6. BoundByHandler'
  BY DEF BoundByHandler, SessionOf, CleanupPending
<1>7. MatchAfterBind'
  BY DEF MatchAfterBind, CleanupPending
<1>8. ForwardsBound'
  BY DEF ForwardsBound, SessionOf, CleanupPending
<1>9. ReadersCounted'
  BY DEF ReadersCounted
<1>10. ClosedWhenForgotten'
  BY DEF ClosedWhenForgotten, TypeOK, CleanupPending, WithSSHClosed,
         WithWSClosed
<1>11. DialledAfterOpen'
  BY DEF DialledAfterOpen
<1>. QED BY <1>1, <1>2, <1>3, <1>4, <1>5, <1>6, <1>7, <1>8, <1>9, <1>10, <1>11

\* handleTunnelWS closes a websocket without a handshake.
LEMMA BadHandshakeInductive ==
  ASSUME IInv, NEW t \in Tunnel, BadHandshake(t)
  PROVE  IInv'
<1>. USE DEF IInv, BadHandshake
<1>1. TypeOK'
  BY DEF TypeOK, WithWSClosed, HandlerGoesTo, HandlerPC
<1>2. HandlerStage'
  BY DEF HandlerStage, HandlerGoesTo
<1>3. EntryAfterSSH'
  BY DEF EntryAfterSSH, HandlerGoesTo
<1>4. BoundByHandler'
  BY DEF BoundByHandler, SessionOf, HandlerGoesTo
<1>5. MatchAfterBind'
  BY DEF MatchAfterBind, HandlerGoesTo
<1>6. ForwardsBound'
  BY DEF ForwardsBound, SessionOf, HandlerGoesTo
<1>7. ClosedWhenForgotten'
  BY DEF ClosedWhenForgotten, TypeOK, WithWSClosed
<1>8. FiledUnderItsID' /\ SSHStage' /\ DialledAfterOpen' /\ ReadersCounted'
  BY DEF FiledUnderItsID, SSHStage, DialledAfterOpen, ReadersCounted,
         SessionOf
<1>. QED BY <1>1, <1>2, <1>3, <1>4, <1>5, <1>6, <1>7, <1>8

\* handleTunnelWS tells dial-backs from entries: a websocket becomes an
\* entry's under a TCP session's id only when that session is gone.
LEMMA LookupInductive ==
  ASSUME IInv, NEW t \in Tunnel, Lookup(t)
  PROVE  IInv'
<1>. USE DEF IInv, Lookup
<1>1. TypeOK'
  BY DEF TypeOK, HandlerStage, HandlerGoesTo, HandlerPC
<1>2. HandlerStage'
  BY DEF HandlerStage, TypeOK, FiledUnderItsID, SessionOf, IsEntry,
         HandlerGoesTo
<1>3. EntryAfterSSH'
  BY DEF EntryAfterSSH, SSHStage, DialledAfterOpen, HandlerGoesTo
<1>4. BoundByHandler'
  BY DEF BoundByHandler, SessionOf, HandlerGoesTo
<1>5. MatchAfterBind'
  BY DEF MatchAfterBind, HandlerGoesTo
<1>6. ForwardsBound'
  BY DEF ForwardsBound, SessionOf, HandlerGoesTo
<1>7. ReadersCounted'
  BY DEF ReadersCounted, HandlerStage, ForwardsBound
<1>8. FiledUnderItsID' /\ SSHStage' /\ DialledAfterOpen' /\
      ClosedWhenForgotten'
  BY DEF FiledUnderItsID, SSHStage, DialledAfterOpen, ClosedWhenForgotten,
         SessionOf
<1>. QED BY <1>1, <1>2, <1>3, <1>4, <1>5, <1>6, <1>7, <1>8

\* bindTunnel binds the session the handler has found, or one that took its id
\* since.
LEMMA BindSSHInductive ==
  ASSUME IInv, NEW t \in Tunnel, BindSSH(t)
  PROVE  IInv'
<1>. USE DEF IInv, BindSSH
<1>1. TypeOK'
  BY DEF TypeOK, HandlerStage, HandlerGoesTo, CanBind, PendingState, HandlerPC
<1>2. FiledUnderItsID'
  BY DEF FiledUnderItsID, SessionOf
<1>3. SSHStage'
  BY DEF SSHStage, TypeOK, CanBind
<1>4. HandlerStage'
  BY DEF HandlerStage, TypeOK, HandlerGoesTo, CanBind
<1>5. EntryAfterSSH'
  BY DEF EntryAfterSSH, HandlerGoesTo, CanBind
<1>6. BoundByHandler'
  BY DEF BoundByHandler, TypeOK, FiledUnderItsID, HandlerStage, SessionOf,
         HandlerGoesTo
<1>7. MatchAfterBind'
  BY DEF MatchAfterBind, TypeOK, ForwardsBound, HandlerGoesTo, CanBind
<1>8. ForwardsBound'
  BY DEF ForwardsBound, SessionOf, HandlerGoesTo, CanBind
<1>9. ReadersCounted'
  BY DEF ReadersCounted, HandlerStage, ForwardsBound
<1>10. ClosedWhenForgotten'
  BY DEF ClosedWhenForgotten, TypeOK, FiledUnderItsID, HandlerStage,
         SessionOf, CanBind
<1>11. DialledAfterOpen'
  BY DEF DialledAfterOpen
<1>. QED BY <1>1, <1>2, <1>3, <1>4, <1>5, <1>6, <1>7, <1>8, <1>9, <1>10, <1>11

\* bindTunnel refuses and the websocket is closed.
LEMMA BindSSHFailsInductive ==
  ASSUME IInv, NEW t \in Tunnel, BindSSHFails(t)
  PROVE  IInv'
<1>. USE DEF IInv, BindSSHFails
<1>1. TypeOK'
  BY DEF TypeOK, WithWSClosed, HandlerGoesTo, HandlerPC
<1>2. HandlerStage'
  BY DEF HandlerStage, HandlerGoesTo
<1>3. EntryAfterSSH'
  BY DEF EntryAfterSSH, HandlerGoesTo
<1>4. BoundByHandler'
  BY DEF BoundByHandler, SessionOf, HandlerGoesTo
<1>5. MatchAfterBind'
  BY DEF MatchAfterBind, HandlerGoesTo
<1>6. ForwardsBound'
  BY DEF ForwardsBound, SessionOf, HandlerGoesTo
<1>7. ClosedWhenForgotten'
  BY DEF ClosedWhenForgotten, TypeOK, WithWSClosed
<1>8. FiledUnderItsID' /\ SSHStage' /\ DialledAfterOpen' /\ ReadersCounted'
  BY DEF FiledUnderItsID, SSHStage, DialledAfterOpen, ReadersCounted,
         SessionOf
<1>. QED BY <1>1, <1>2, <1>3, <1>4, <1>5, <1>6, <1>7, <1>8

\* handleTunnelWS closes the tunnel of a wrong agent after the bind.
LEMMA MismatchInductive ==
  ASSUME IInv, NEW t \in Tunnel, Mismatch(t)
  PROVE  IInv'
<1>. USE DEF IInv, Mismatch
<1>1. TypeOK'
  BY DEF TypeOK, WithWSClosed, HandlerGoesTo, HandlerPC
<1>2. HandlerStage'
  BY DEF HandlerStage, HandlerGoesTo
<1>3. EntryAfterSSH'
  BY DEF EntryAfterSSH, HandlerGoesTo
<1>4. BoundByHandler'
  BY DEF BoundByHandler, SessionOf, HandlerGoesTo
<1>5. MatchAfterBind'
  BY DEF MatchAfterBind, HandlerGoesTo
<1>6. ForwardsBound'
  BY DEF ForwardsBound, SessionOf, HandlerGoesTo
<1>7. ClosedWhenForgotten'
  BY DEF ClosedWhenForgotten, TypeOK, WithWSClosed
<1>8. FiledUnderItsID' /\ SSHStage' /\ DialledAfterOpen' /\ ReadersCounted'
  BY DEF FiledUnderItsID, SSHStage, DialledAfterOpen, ReadersCounted,
         SessionOf
<1>. QED BY <1>1, <1>2, <1>3, <1>4, <1>5, <1>6, <1>7, <1>8

\* startForwarding: the tunnel is the bound one, and nothing else reads it.
LEMMA StartForwardingInductive ==
  ASSUME IInv, NEW t \in Tunnel, StartForwarding(t)
  PROVE  IInv'
<1>. USE DEF IInv, StartForwarding
<1>1. TypeOK'
  BY DEF TypeOK, MatchAfterBind, HandlerGoesTo, OneMoreReader, HandlerPC
<1>2. HandlerStage'
  BY DEF HandlerStage, TypeOK, MatchAfterBind, IsEntry, HandlerGoesTo,
         OneMoreReader
<1>3. EntryAfterSSH'
  BY DEF EntryAfterSSH, HandlerGoesTo
<1>4. BoundByHandler'
  BY DEF BoundByHandler, SessionOf, HandlerGoesTo
<1>5. MatchAfterBind'
  BY DEF MatchAfterBind, TypeOK, HandlerGoesTo
<1>6. ForwardsBound'
  BY DEF ForwardsBound, TypeOK, BoundByHandler, MatchAfterBind, SessionOf,
         AgentOf, IsEntry, HandlerGoesTo, SameAgent
<1>7. ReadersCounted'
  BY DEF ReadersCounted, TypeOK, MatchAfterBind, IsEntry, OneMoreReader
<1>8. FiledUnderItsID' /\ SSHStage' /\ DialledAfterOpen' /\
      ClosedWhenForgotten'
  BY DEF FiledUnderItsID, SSHStage, DialledAfterOpen, ClosedWhenForgotten,
         SessionOf
<1>. QED BY <1>1, <1>2, <1>3, <1>4, <1>5, <1>6, <1>7, <1>8

\* handleTunnelWS binds an entry's object, which is never that of a TCP
\* session.
LEMMA BindEntryInductive ==
  ASSUME IInv, NEW t \in Tunnel, BindEntry(t)
  PROVE  IInv'
<1>. USE DEF IInv, BindEntry
<1>1. TypeOK'
  BY DEF TypeOK, HandlerStage, HandlerGoesTo, PendingState, HandlerPC
<1>2. FiledUnderItsID'
  BY DEF FiledUnderItsID, SessionOf
<1>3. SSHStage'
  BY DEF SSHStage, HandlerStage
<1>4. HandlerStage'
  BY DEF HandlerStage, HandlerGoesTo
<1>5. EntryAfterSSH'
  BY DEF EntryAfterSSH, HandlerStage, HandlerGoesTo
<1>6. BoundByHandler'
  BY DEF BoundByHandler, TypeOK, HandlerStage, SessionOf, HandlerGoesTo
<1>7. MatchAfterBind'
  BY DEF MatchAfterBind, HandlerStage, HandlerGoesTo
<1>8. ForwardsBound'
  BY DEF ForwardsBound, HandlerStage, SessionOf, HandlerGoesTo
<1>9. ClosedWhenForgotten'
  BY DEF ClosedWhenForgotten, HandlerStage
<1>10. DialledAfterOpen' /\ ReadersCounted'
  BY DEF DialledAfterOpen, ReadersCounted
<1>. QED BY <1>1, <1>2, <1>3, <1>4, <1>5, <1>6, <1>7, <1>8, <1>9, <1>10

\* handleTunnelWS files an entry's session; a TCP session cannot be in its
\* place.
LEMMA CreateEntryInductive ==
  ASSUME IInv, NEW t \in Tunnel, CreateEntry(t)
  PROVE  IInv'
<1>. USE DEF IInv, CreateEntry
<1>1. TypeOK'
  BY DEF TypeOK, HandlerStage, HandlerGoesTo, PendingState, HandlerPC
<1>2. FiledUnderItsID'
  BY DEF FiledUnderItsID, TypeOK, SessionOf
<1>3. SSHStage'
  BY DEF SSHStage, EntryAfterSSH
<1>4. HandlerStage'
  BY DEF HandlerStage, TypeOK, HandlerGoesTo
<1>5. EntryAfterSSH'
  BY DEF EntryAfterSSH, HandlerGoesTo
<1>6. BoundByHandler'
  BY DEF BoundByHandler, SessionOf, HandlerGoesTo
<1>7. MatchAfterBind'
  BY DEF MatchAfterBind, HandlerGoesTo
<1>8. ForwardsBound'
  BY DEF ForwardsBound, SessionOf, HandlerGoesTo
<1>9. ClosedWhenForgotten'
  BY DEF ClosedWhenForgotten, EntryAfterSSH
<1>10. DialledAfterOpen' /\ ReadersCounted'
  BY DEF DialledAfterOpen, ReadersCounted
<1>. QED BY <1>1, <1>2, <1>3, <1>4, <1>5, <1>6, <1>7, <1>8, <1>9, <1>10

\* handleTunnelWS panics for an entry of an offline agent.
LEMMA SendEntryOpenNilInductive ==
  ASSUME IInv, NEW t \in Tunnel, SendEntryOpenNil(t)
  PROVE  IInv'
<1>. USE DEF IInv, SendEntryOpenNil
<1>1. TypeOK'
  BY DEF TypeOK, HandlerGoesTo, HandlerPC
<1>2. HandlerStage'
  BY DEF HandlerStage, HandlerGoesTo
<1>3. EntryAfterSSH'
  BY DEF EntryAfterSSH, HandlerGoesTo
<1>4. BoundByHandler'
  BY DEF BoundByHandler, SessionOf, HandlerGoesTo
<1>5. MatchAfterBind'
  BY DEF MatchAfterBind, HandlerGoesTo
<1>6. ForwardsBound'
  BY DEF ForwardsBound, SessionOf, HandlerGoesTo
<1>7. FiledUnderItsID' /\ SSHStage' /\ DialledAfterOpen' /\ ReadersCounted' /\
      ClosedWhenForgotten'
  BY DEF FiledUnderItsID, SSHStage, DialledAfterOpen, ReadersCounted,
         ClosedWhenForgotten, SessionOf
<1>. QED BY <1>1, <1>2, <1>3, <1>4, <1>5, <1>6, <1>7

\* handleTunnelWS finds the control connection of the agent of an entry.
LEMMA ReadControlInductive ==
  ASSUME IInv, NEW t \in Tunnel, ReadControl(t)
  PROVE  IInv'
<1>. USE DEF IInv, ReadControl
<1>1. TypeOK'
  BY DEF TypeOK, HandlerGoesTo, HandlerPC
<1>2. HandlerStage'
  BY DEF HandlerStage, HandlerGoesTo
<1>3. EntryAfterSSH'
  BY DEF EntryAfterSSH, HandlerGoesTo
<1>4. BoundByHandler'
  BY DEF BoundByHandler, SessionOf, HandlerGoesTo
<1>5. MatchAfterBind'
  BY DEF MatchAfterBind, HandlerGoesTo
<1>6. ForwardsBound'
  BY DEF ForwardsBound, SessionOf, HandlerGoesTo
<1>7. FiledUnderItsID' /\ SSHStage' /\ DialledAfterOpen' /\ ReadersCounted' /\
      ClosedWhenForgotten'
  BY DEF FiledUnderItsID, SSHStage, DialledAfterOpen, ReadersCounted,
         ClosedWhenForgotten, SessionOf
<1>. QED BY <1>1, <1>2, <1>3, <1>4, <1>5, <1>6, <1>7

\* handleTunnelWS cleans up an entry whose OPEN could not be sent; the id is
\* never that of a live TCP session.
LEMMA SendEntryOpenFailsInductive ==
  ASSUME IInv, NEW t \in Tunnel, SendEntryOpenFails(t)
  PROVE  IInv'
<1>. USE DEF IInv, SendEntryOpenFails
<1>1. TypeOK'
  BY DEF TypeOK, HandlerStage, CleanupPending, WithSSHClosed, WithWSClosed,
         HandlerGoesTo, PendingState, HandlerPC
<1>2. FiledUnderItsID'
  BY DEF FiledUnderItsID, TypeOK, SessionOf, CleanupPending
<1>3. SSHStage'
  BY DEF SSHStage, FiledUnderItsID, HandlerStage, EntryAfterSSH,
         CleanupPending, WithSSHClosed
<1>4. HandlerStage'
  BY DEF HandlerStage, FiledUnderItsID, CleanupPending, HandlerGoesTo
<1>5. EntryAfterSSH'
  BY DEF EntryAfterSSH, FiledUnderItsID, HandlerStage, CleanupPending,
         HandlerGoesTo
<1>6. BoundByHandler'
  BY DEF BoundByHandler, SessionOf, CleanupPending, HandlerGoesTo
<1>7. MatchAfterBind'
  BY DEF MatchAfterBind, CleanupPending, HandlerGoesTo
<1>8. ForwardsBound'
  BY DEF ForwardsBound, SessionOf, CleanupPending, HandlerGoesTo
<1>9. ClosedWhenForgotten'
  BY DEF ClosedWhenForgotten, TypeOK, CleanupPending, WithSSHClosed,
         WithWSClosed
<1>10. DialledAfterOpen' /\ ReadersCounted'
  BY DEF DialledAfterOpen, ReadersCounted
<1>. QED BY <1>1, <1>2, <1>3, <1>4, <1>5, <1>6, <1>7, <1>8, <1>9, <1>10

\* handleTunnelWS sends OPEN for an entry.
LEMMA SendEntryOpenInductive ==
  ASSUME IInv, NEW t \in Tunnel, SendEntryOpen(t)
  PROVE  IInv'
<1>. USE DEF IInv, SendEntryOpen
<1>1. TypeOK'
  BY DEF TypeOK, HandlerGoesTo, HandlerPC
<1>2. SSHStage'
  BY DEF SSHStage
<1>3. HandlerStage'
  BY DEF HandlerStage, HandlerGoesTo
<1>4. EntryAfterSSH'
  BY DEF EntryAfterSSH, HandlerGoesTo
<1>5. BoundByHandler'
  BY DEF BoundByHandler, SessionOf, HandlerGoesTo
<1>6. MatchAfterBind'
  BY DEF MatchAfterBind, HandlerGoesTo
<1>7. ForwardsBound'
  BY DEF ForwardsBound, SessionOf, HandlerGoesTo
<1>8. FiledUnderItsID' /\ DialledAfterOpen' /\ ReadersCounted' /\
      ClosedWhenForgotten'
  BY DEF FiledUnderItsID, DialledAfterOpen, ReadersCounted,
         ClosedWhenForgotten, SessionOf
<1>. QED BY <1>1, <1>2, <1>3, <1>4, <1>5, <1>6, <1>7, <1>8

\* handleTunnelWS stores OPEN_SENT for an entry and starts its timers.
LEMMA MarkEntryOpenSentInductive ==
  ASSUME IInv, NEW t \in Tunnel, MarkEntryOpenSent(t)
  PROVE  IInv'
<1>. USE DEF IInv, MarkEntryOpenSent
<1>1. TypeOK'
  BY DEF TypeOK, HandlerGoesTo, PendingState, HandlerPC
<1>2. FiledUnderItsID'
  BY DEF FiledUnderItsID, SessionOf
<1>3. SSHStage'
  BY DEF SSHStage
<1>4. HandlerStage'
  BY DEF HandlerStage, HandlerGoesTo
<1>5. EntryAfterSSH'
  BY DEF EntryAfterSSH, HandlerStage, HandlerGoesTo
<1>6. BoundByHandler'
  BY DEF BoundByHandler, SessionOf, HandlerGoesTo
<1>7. MatchAfterBind'
  BY DEF MatchAfterBind, HandlerGoesTo
<1>8. ForwardsBound'
  BY DEF ForwardsBound, SessionOf, HandlerGoesTo
<1>9. DialledAfterOpen' /\ ReadersCounted' /\ ClosedWhenForgotten'
  BY DEF DialledAfterOpen, ReadersCounted, ClosedWhenForgotten
<1>. QED BY <1>1, <1>2, <1>3, <1>4, <1>5, <1>6, <1>7, <1>8, <1>9

\* waitForAgentAndForward closes an entry whose session is gone.
LEMMA WaitTickGoneInductive ==
  ASSUME IInv, NEW t \in Tunnel, WaitTickGone(t)
  PROVE  IInv'
<1>. USE DEF IInv, WaitTickGone
<1>1. TypeOK'
  BY DEF TypeOK, WithWSClosed
<1>2. HandlerStage'
  BY DEF HandlerStage
<1>3. ClosedWhenForgotten'
  BY DEF ClosedWhenForgotten, TypeOK, WithWSClosed
<1>4. FiledUnderItsID' /\ SSHStage' /\ DialledAfterOpen' /\ EntryAfterSSH' /\
      BoundByHandler' /\ MatchAfterBind' /\ ForwardsBound' /\ ReadersCounted'
  BY DEF FiledUnderItsID, SSHStage, DialledAfterOpen, EntryAfterSSH,
         BoundByHandler, MatchAfterBind, ForwardsBound, ReadersCounted,
         SessionOf
<1>. QED BY <1>1, <1>2, <1>3, <1>4

\* waitForAgentAndForward joins an entry with a tunnel, never with that of a
\* TCP session.
LEMMA WaitTickBoundInductive ==
  ASSUME IInv, NEW t \in Tunnel, WaitTickBound(t)
  PROVE  IInv'
<1>. USE DEF IInv, WaitTickBound
<1>1. TypeOK'
  BY DEF TypeOK, HandlerStage, OneMoreReader
<1>2. HandlerStage'
  BY DEF HandlerStage, TypeOK, BoundByHandler, OneMoreReader
<1>3. MatchAfterBind'
  BY DEF MatchAfterBind
<1>4. ForwardsBound'
  BY DEF ForwardsBound, TypeOK, FiledUnderItsID, HandlerStage, BoundByHandler,
         SessionOf
<1>5. ReadersCounted'
  BY DEF ReadersCounted, TypeOK, FiledUnderItsID, HandlerStage, EntryAfterSSH,
         BoundByHandler, SessionOf, OneMoreReader
<1>6. FiledUnderItsID' /\ SSHStage' /\ DialledAfterOpen' /\ EntryAfterSSH' /\
      BoundByHandler' /\ ClosedWhenForgotten'
  BY DEF FiledUnderItsID, SSHStage, DialledAfterOpen, EntryAfterSSH,
         BoundByHandler, ClosedWhenForgotten, SessionOf
<1>. QED BY <1>1, <1>2, <1>3, <1>4, <1>5, <1>6

\* waitForAgentAndForward times out and closes the entry.
LEMMA WaitTimeoutInductive ==
  ASSUME IInv, NEW t \in Tunnel, WaitTimeout(t)
  PROVE  IInv'
<1>. USE DEF IInv, WaitTimeout
<1>1. TypeOK'
  BY DEF TypeOK, WithWSClosed
<1>2. HandlerStage'
  BY DEF HandlerStage
<1>3. ClosedWhenForgotten'
  BY DEF ClosedWhenForgotten, TypeOK, WithWSClosed
<1>4. FiledUnderItsID' /\ SSHStage' /\ DialledAfterOpen' /\ EntryAfterSSH' /\
      BoundByHandler' /\ MatchAfterBind' /\ ForwardsBound' /\ ReadersCounted'
  BY DEF FiledUnderItsID, SSHStage, DialledAfterOpen, EntryAfterSSH,
         BoundByHandler, MatchAfterBind, ForwardsBound, ReadersCounted,
         SessionOf
<1>. QED BY <1>1, <1>2, <1>3, <1>4

\* waitForAgentAndForward cleans up under the id, where no live TCP session
\* can be.
LEMMA WaitCleanupInductive ==
  ASSUME IInv, NEW t \in Tunnel, WaitCleanup(t)
  PROVE  IInv'
<1>. USE DEF IInv, WaitCleanup
<1>1. TypeOK'
  BY DEF TypeOK, HandlerStage, CleanupPending, WithSSHClosed, WithWSClosed,
         PendingState
<1>2. FiledUnderItsID'
  BY DEF FiledUnderItsID, TypeOK, SessionOf, CleanupPending
<1>3. SSHStage'
  BY DEF SSHStage, FiledUnderItsID, HandlerStage, EntryAfterSSH,
         CleanupPending, WithSSHClosed
<1>4. HandlerStage'
  BY DEF HandlerStage, FiledUnderItsID, CleanupPending
<1>5. EntryAfterSSH'
  BY DEF EntryAfterSSH, FiledUnderItsID, HandlerStage, CleanupPending
<1>6. BoundByHandler'
  BY DEF BoundByHandler, SessionOf, CleanupPending
<1>7. ClosedWhenForgotten'
  BY DEF ClosedWhenForgotten, TypeOK, CleanupPending, WithSSHClosed,
         WithWSClosed
<1>8. DialledAfterOpen' /\ MatchAfterBind' /\ ForwardsBound' /\
      ReadersCounted'
  BY DEF DialledAfterOpen, MatchAfterBind, ForwardsBound, ReadersCounted,
         SessionOf, CleanupPending
<1>. QED BY <1>1, <1>2, <1>3, <1>4, <1>5, <1>6, <1>7, <1>8

\* A copy of startWebSocketForwarding returns and the entry is closed.
LEMMA EntryPipeEndInductive ==
  ASSUME IInv, NEW t \in Tunnel, EntryPipeEnd(t)
  PROVE  IInv'
<1>. USE DEF IInv, EntryPipeEnd
<1>1. TypeOK'
  BY DEF TypeOK, WithWSClosed
<1>2. HandlerStage'
  BY DEF HandlerStage
<1>3. MatchAfterBind'
  BY DEF MatchAfterBind
<1>4. ForwardsBound'
  BY DEF ForwardsBound, SessionOf
<1>5. ReadersCounted'
  BY DEF ReadersCounted
<1>6. ClosedWhenForgotten'
  BY DEF ClosedWhenForgotten, TypeOK, WithWSClosed
<1>7. FiledUnderItsID' /\ SSHStage' /\ DialledAfterOpen' /\ EntryAfterSSH' /\
      BoundByHandler'
  BY DEF FiledUnderItsID, SSHStage, DialledAfterOpen, EntryAfterSSH,
         BoundByHandler, SessionOf
<1>. QED BY <1>1, <1>2, <1>3, <1>4, <1>5, <1>6, <1>7

\* Then the tunnel is.
LEMMA EntryPipeCloseTunnelInductive ==
  ASSUME IInv, NEW t \in Tunnel, EntryPipeCloseTunnel(t)
  PROVE  IInv'
<1>. USE DEF IInv, EntryPipeCloseTunnel
<1>1. TypeOK'
  BY DEF TypeOK, WithWSClosed
<1>2. HandlerStage'
  BY DEF HandlerStage
<1>3. MatchAfterBind'
  BY DEF MatchAfterBind
<1>4. ForwardsBound'
  BY DEF ForwardsBound, SessionOf
<1>5. ReadersCounted'
  BY DEF ReadersCounted
<1>6. ClosedWhenForgotten'
  BY DEF ClosedWhenForgotten, TypeOK, WithWSClosed
<1>7. FiledUnderItsID' /\ SSHStage' /\ DialledAfterOpen' /\ EntryAfterSSH' /\
      BoundByHandler'
  BY DEF FiledUnderItsID, SSHStage, DialledAfterOpen, EntryAfterSSH,
         BoundByHandler, SessionOf
<1>. QED BY <1>1, <1>2, <1>3, <1>4, <1>5, <1>6, <1>7

\* watchPendingTimeout reads the session.
LEMMA WatchExpireInductive ==
  ASSUME IInv, NEW o \in Obj, WatchExpire(o)
  PROVE  IInv'
<1>. USE DEF IInv, WatchExpire
<1>1. TypeOK'
  BY DEF TypeOK
<1>2. SSHStage'
  BY DEF SSHStage
<1>3. HandlerStage'
  BY DEF HandlerStage
<1>4. FiledUnderItsID' /\ DialledAfterOpen' /\ EntryAfterSSH' /\
      BoundByHandler' /\ MatchAfterBind' /\ ForwardsBound' /\ ReadersCounted'
      /\ ClosedWhenForgotten'
  BY DEF FiledUnderItsID, DialledAfterOpen, EntryAfterSSH, BoundByHandler,
         MatchAfterBind, ForwardsBound, ReadersCounted, ClosedWhenForgotten,
         SessionOf
<1>. QED BY <1>1, <1>2, <1>3, <1>4

\* watchPendingTimeout cleans up under the id: its own session, or an entry's
\* that took the id after it.
LEMMA WatchCleanupInductive ==
  ASSUME IInv, NEW o \in Obj, WatchCleanup(o)
  PROVE  IInv'
<1>. USE DEF IInv, WatchCleanup
<1>1. TypeOK'
  BY DEF TypeOK, HandlerStage, SessionOf, CleanupPending, WithSSHClosed,
         WithWSClosed, PendingState
<1>2. FiledUnderItsID'
  BY DEF FiledUnderItsID, TypeOK, SessionOf, CleanupPending
<1>3. SSHStage'
  BY DEF SSHStage, TypeOK, FiledUnderItsID, HandlerStage, EntryAfterSSH,
         SessionOf, CleanupPending, WithSSHClosed
<1>4. HandlerStage'
  BY DEF HandlerStage, FiledUnderItsID, SessionOf, CleanupPending
<1>5. EntryAfterSSH'
  BY DEF EntryAfterSSH, FiledUnderItsID, HandlerStage, SessionOf,
         CleanupPending
<1>6. BoundByHandler'
  BY DEF BoundByHandler, SessionOf, CleanupPending
<1>7. ClosedWhenForgotten'
  BY DEF ClosedWhenForgotten, TypeOK, CleanupPending, WithSSHClosed,
         WithWSClosed
<1>8. DialledAfterOpen' /\ MatchAfterBind' /\ ForwardsBound' /\
      ReadersCounted'
  BY DEF DialledAfterOpen, MatchAfterBind, ForwardsBound, ReadersCounted,
         SessionOf, CleanupPending
<1>. QED BY <1>1, <1>2, <1>3, <1>4, <1>5, <1>6, <1>7, <1>8

\* A request reaches /tunnel with an id whose OPEN was sent, or an entry's own:
\* what all dials have in common.
LEMMA DialInductive ==
  ASSUME IInv, NEW t \in Tunnel, NEW s \in SID, NEW a \in Agent \cup {None},
         Dial(t, s, a),
         s \in SSHConn => spc[s] \in {"sent", "done"},
         open' \in [Obj -> {"none", "sent", "answered"}],
         \A o \in Obj : open'[o] # "none" => open[o] # "none"
  PROVE  IInv'
<1>. USE DEF IInv, Dial
<1>1. TypeOK'
  BY DEF TypeOK, HandlerPC
<1>2. FiledUnderItsID'
  BY DEF FiledUnderItsID, TypeOK, HandlerStage, SessionOf
<1>3. SSHStage' /\ DialledAfterOpen'
  BY DEF SSHStage, DialledAfterOpen, TypeOK
<1>4. HandlerStage'
  BY DEF HandlerStage, TypeOK
<1>5. EntryAfterSSH'
  BY DEF EntryAfterSSH, HandlerStage, TypeOK
<1>6. BoundByHandler'
  BY DEF BoundByHandler, HandlerStage, TypeOK, SessionOf
<1>7. MatchAfterBind' /\ ReadersCounted'
  BY DEF MatchAfterBind, ReadersCounted, TypeOK
<1>8. ForwardsBound'
  <2>. SUFFICES ASSUME NEW o \in Obj, fwd[o] # "off"
                PROVE  peer[o] # t /\ (o \in Tunnel => o # t)
    BY DEF ForwardsBound, TypeOK, SessionOf
  <2>1. o \in Tunnel => pstate[o] # "none" /\ o # t
    BY DEF HandlerStage, Dial
  <2>2. SessionOf(o) \in SID
    BY <2>1 DEF HandlerStage, SessionOf
  <2>. QED BY <2>1, <2>2 DEF ForwardsBound, HandlerStage, SessionOf
<1>9. ClosedWhenForgotten'
  BY DEF ClosedWhenForgotten, BoundByHandler, TypeOK
<1>. QED BY <1>1, <1>2, <1>3, <1>4, <1>5, <1>6, <1>7, <1>8, <1>9

\* The agent answers an OPEN (handleOpen).
LEMMA DialBackInductive ==
  ASSUME IInv, NEW t \in Tunnel, NEW o \in Obj, DialBack(t, o)
  PROVE  IInv'
<1>1. SessionOf(o) \in SID /\ AgentOf(o) \in Agent \cup {None}
  BY DEF IInv, TypeOK, HandlerStage, DialBack, SessionOf, AgentOf
<1>2. SessionOf(o) \in SSHConn => spc[SessionOf(o)] \in {"sent", "done"}
  BY DEF IInv, SSHStage, DialledAfterOpen, DialBack, SessionOf
<1>3. /\ open' \in [Obj -> {"none", "sent", "answered"}]
      /\ \A p \in Obj : open'[p] # "none" => open[p] # "none"
  BY DEF IInv, TypeOK, DialBack
<1>. QED BY <1>1, <1>2, <1>3, DialInductive DEF DialBack

\* An entry dials with an id of its own (handleConn of pkg/entry).
LEMMA EntryDialInductive ==
  ASSUME IInv, NEW t \in Tunnel, NEW e \in EntrySession, NEW a \in Agent,
         EntryDial(t, e, a)
  PROVE  IInv'
<1>1. open' \in [Obj -> {"none", "sent", "answered"}] /\ open' = open
  BY DEF IInv, TypeOK, EntryDial
<1>. QED BY <1>1, DialInductive DEF EntryDial

\* Somebody dials with an id for which an OPEN was sent.
LEMMA UnsolicitedDialInductive ==
  ASSUME IInv, NEW t \in Tunnel, NEW s \in SID, NEW a \in Agent,
         UnsolicitedDial(t, s, a)
  PROVE  IInv'
<1>1. open' \in [Obj -> {"none", "sent", "answered"}] /\ open' = open
  BY DEF IInv, TypeOK, UnsolicitedDial
<1>2. s \in SSHConn => spc[s] \in {"sent", "done"}
  BY DEF IInv, SSHStage, DialledAfterOpen, UnsolicitedDial, SessionOf
<1>. QED BY <1>1, <1>2, DialInductive DEF UnsolicitedDial

\* A crash of the process closes every socket and touches nothing else.
LEMMA CrashInductive ==
  ASSUME IInv, Crash
  PROVE  IInv'
<1>. USE DEF IInv, Crash, WithSSHClosed, WithWSClosed
<1>1. up' \in BOOLEAN
  BY Zenon
<1>2. TypeOK'
  BY <1>1 DEF TypeOK
<1>3. SSHStage' /\ ClosedWhenForgotten'
  BY DEF TypeOK, SSHStage, ClosedWhenForgotten
<1>4. FiledUnderItsID' /\ DialledAfterOpen' /\ HandlerStage' /\ EntryAfterSSH'
  BY DEF FiledUnderItsID, DialledAfterOpen, HandlerStage, EntryAfterSSH, SessionOf
<1>5. BoundByHandler' /\ MatchAfterBind' /\ ForwardsBound' /\ ReadersCounted'
  BY DEF BoundByHandler, MatchAfterBind, ForwardsBound, ReadersCounted, SessionOf
<1>. QED BY <1>2, <1>3, <1>4, <1>5

-----------------------------------------------------------------------------
\* Before anything arrives the invariant holds.
LEMMA InitInductive == Init => IInv
BY DEF Init, IInv, TypeOK, PendingState, HandlerPC, FiledUnderItsID, SSHStage,
       DialledAfterOpen, HandlerStage, EntryAfterSSH, BoundByHandler,
       MatchAfterBind, ForwardsBound, ReadersCounted, ClosedWhenForgotten

\* Every step of the hub and of its environment keeps the invariant.
LEMMA NextInductive == IInv /\ [Next]_vars => IInv'
<1>. SUFFICES ASSUME IInv, [Next]_vars
              PROVE  IInv'
  OBVIOUS
<1>1. CASE Environment
  BY <1>1, AgentConnectInductive, AgentGoneInductive, RejectSSHInductive,
     AcceptSSHInductive, PipeEndInductive, DialBackInductive,
     EntryDialInductive, UnsolicitedDialInductive, BadHandshakeInductive,
     LookupInductive, EntryPipeEndInductive
     DEF Environment
<1>2. CASE Hub
  <2>1. ASSUME NEW c \in SSHConn, SSHStep(c)
        PROVE  IInv'
    BY <2>1, CrashInductive, SendOpenFailsInductive, SendOpenInductive,
       MarkOpenSentInductive
       DEF SSHStep, SendOpenNil
  <2>2. ASSUME NEW t \in Tunnel, HandlerStep(t)
        PROVE  IInv'
    BY <2>2, CrashInductive, BindSSHInductive, BindSSHFailsInductive,
       MismatchInductive, StartForwardingInductive, BindEntryInductive,
       CreateEntryInductive, SendEntryOpenNilInductive, ReadControlInductive,
       SendEntryOpenFailsInductive, SendEntryOpenInductive,
       MarkEntryOpenSentInductive
       DEF HandlerStep, StartForwardingNil
  <2>3. ASSUME NEW t \in Tunnel, WaitStep(t)
        PROVE  IInv'
    BY <2>3, WaitTickGoneInductive, WaitTickBoundInductive,
       WaitTimeoutInductive, WaitCleanupInductive
       DEF WaitStep
  <2>4. ASSUME NEW o \in Obj, WatchStep(o)
        PROVE  IInv'
    BY <2>4, WatchExpireInductive, WatchCleanupInductive DEF WatchStep
  <2>. QED BY <1>2, <2>1, <2>2, <2>3, <2>4, PipeCleanupInductive,
       PipeCloseTunnelInductive, EntryPipeCloseTunnelInductive DEF Hub
<1>3. CASE UNCHANGED vars
  <2>. USE <1>3 DEF IInv, vars
  <2>1. TypeOK' /\ SSHStage' /\ ClosedWhenForgotten' /\ ReadersCounted'
    BY DEF TypeOK, SSHStage, ClosedWhenForgotten, ReadersCounted
  <2>2. FiledUnderItsID' /\ DialledAfterOpen' /\ HandlerStage' /\ EntryAfterSSH'
    BY DEF FiledUnderItsID, DialledAfterOpen, HandlerStage, EntryAfterSSH, SessionOf
  <2>3. BoundByHandler' /\ MatchAfterBind' /\ ForwardsBound'
    BY DEF BoundByHandler, MatchAfterBind, ForwardsBound, SessionOf
  <2>. QED BY <2>1, <2>2, <2>3
<1>. QED BY <1>1, <1>2, <1>3 DEF Next

\* IInv holds in every state the hub reaches.
THEOREM Invariance == Spec => []IInv
<1>1. Init => IInv
  BY InitInductive
<1>2. IInv /\ [Next]_vars => IInv'
  BY NextInductive
<1>. QED BY <1>1, <1>2, PTL DEF Spec

\* Every variable keeps to its range (HubSession).
THEOREM TypeCorrect == Spec => []TypeOK
<1>1. IInv => TypeOK
  BY DEF IInv
<1>. QED BY <1>1, Invariance, PTL

\* What a connection is joined with carried its session id, and for a TCP
\* connection it is a tunnel of the agent that owns the hubPort
\* (handleTunnelWS, startForwarding, waitForAgentAndForward).
THEOREM PartnerIsRight == Spec => []RightPartner
<1>1. IInv => RightPartner
  BY DEF IInv, ForwardsBound, RightPartner
<1>. QED BY <1>1, Invariance, PTL

\* One pair of copy goroutines reads a forwarded TCP connection and its tunnel
\* (bindTunnel, startForwarding).
THEOREM StreamsReadOnce == Spec => []OneReader
<1>1. IInv => OneReader
  <2>. SUFFICES ASSUME IInv, NEW c \in SSHConn, fwd[c] # "off"
                PROVE  readers[c] = 1 /\ readers[peer[c]] = 1
    BY DEF OneReader
  <2>1. peer[c] \in Tunnel /\ ptunnel[c] = peer[c]
    BY DEF IInv, ForwardsBound
  <2>2. hobj[peer[c]] = c
    BY <2>1 DEF IInv, TypeOK, BoundByHandler
  <2>. QED BY <2>1, <2>2 DEF IInv, ReadersCounted
<1>. QED BY <1>1, Invariance, PTL

\* A TCP connection whose session left the map is closed, with its tunnel
\* (cleanupPending).
THEOREM ForgottenIsClosed == Spec => []ClosedWhenForgotten
<1>1. IInv => ClosedWhenForgotten
  BY DEF IInv
<1>. QED BY <1>1, Invariance, PTL
=============================================================================
