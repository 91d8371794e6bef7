----------------------------- MODULE AgentProofs -----------------------------
(***************************************************************************)
(* What AgentRuntime claims of its connections, for any number of OPEN     *)
(* messages and any number of retries; and that it answers an OPEN as      *)
(* Rendezvous asks.                                                        *)
(***************************************************************************)
EXTENDS AgentRefinement, TLAPS

USE MaxRetriesType DEF linkVars, jobVars, Held, Direction

-----------------------------------------------------------------------------
(* AgentInv is inductive.  A step is that of Start or that of one goroutine. *)

LEMMA InitEstablishes == Init => AgentInv
BY DEF Init, AgentInv, TypeOK, LinkStage, JobStage

\* Start and the control connection.
LEMMA MainPreserves ==
  ASSUME AgentInv, Dialling \/ LinkBreaks \/ ControlLost
  PROVE  AgentInv'
<1>. USE DEF AgentInv, TypeOK, LinkStage, JobStage
<1>1. CASE Connect
  BY <1>1 DEF Connect
<1>2. CASE ConnectFails
  BY <1>2 DEF ConnectFails
<1>3. CASE BackoffOver
  BY <1>3 DEF BackoffOver
<1>4. CASE GiveUp
  <2>1. TypeOK'
    BY <1>4 DEF GiveUp
  <2>2. LinkStage'
    BY <1>4 DEF GiveUp
  <2>3. \A m \in Open :
          IF job[m] = "none"
          THEN /\ job'[m] = "none" /\ ws'[m] = "none" /\ local'[m] = "none"
               /\ once'[m] = "unused"
               /\ \A d \in Direction : copy'[m][d] = "off"
          ELSE /\ job'[m] = "returned" /\ once'[m] # "half"
               /\ ws'[m] \in {"none", "closed"} /\ local'[m] \in {"none", "closed"}
               /\ \A d \in Direction : copy'[m][d] \in {"off", "done"}
    BY <1>4 DEF GiveUp
  <2>4. JobStage'
    BY <1>4, <2>3 DEF GiveUp
  <2>. QED BY <2>1, <2>2, <2>4
<1>5. CASE LinkBreaks
  BY <1>5 DEF LinkBreaks
<1>6. CASE ControlLost
  BY <1>6 DEF ControlLost
<1>. QED BY <1>1, <1>2, <1>3, <1>4, <1>5, <1>6 DEF Dialling

\* A message, and the goroutine until it copies.
LEMMA OpeningPreserves ==
  ASSUME AgentInv, NEW m \in Open, HubSends(m) \/ Receive(m) \/ Opening(m)
  PROVE  AgentInv'
<1>. USE DEF AgentInv, TypeOK, LinkStage, JobStage, JobGoesTo
<1>1. CASE HubSends(m)
  BY <1>1 DEF HubSends
<1>2. CASE Receive(m)
  BY <1>2 DEF Receive
<1>3. CASE DialTunnel(m)
  BY <1>3 DEF DialTunnel
<1>4. CASE DialTunnelFails(m)
  BY <1>4 DEF DialTunnelFails
<1>5. CASE SendHandshake(m)
  BY <1>5 DEF SendHandshake
<1>6. CASE HandshakeFails(m)
  BY <1>6 DEF HandshakeFails
<1>7. CASE DialLocal(m)
  BY <1>7 DEF DialLocal
<1>8. CASE DialLocalFails(m)
  BY <1>8 DEF DialLocalFails
<1>. QED BY <1>1, <1>2, <1>3, <1>4, <1>5, <1>6, <1>7, <1>8 DEF Opening

\* The peers, and the cleanup.
LEMMA ClosingPreserves ==
  ASSUME AgentInv, NEW m \in Open, TunnelBreaks(m) \/ LocalBreaks(m) \/ Closing(m)
  PROVE  AgentInv'
<1>. USE DEF AgentInv, TypeOK, LinkStage, JobStage
<1>1. CASE TunnelBreaks(m)
  BY <1>1 DEF TunnelBreaks
<1>2. CASE LocalBreaks(m)
  BY <1>2 DEF LocalBreaks
<1>3. CASE CloseTunnel(m)
  BY <1>3 DEF CloseTunnel
<1>4. CASE CloseLocal(m)
  BY <1>4 DEF CloseLocal
<1>. QED BY <1>1, <1>2, <1>3, <1>4 DEF Closing

\* The copies.
LEMMA CopyPreserves ==
  ASSUME AgentInv, NEW m \in Open, NEW d \in Direction,
         CopyReads(m, d) \/ CopyWrites(m, d) \/ CopyEnds(m, d) \/ CopyReturns(m, d)
  PROVE  AgentInv'
<1>. USE DEF AgentInv, TypeOK, LinkStage, JobStage, CopyGoesTo
<1>1. CASE CopyReads(m, d)
  BY <1>1 DEF CopyReads
<1>2. CASE CopyWrites(m, d)
  BY <1>2 DEF CopyWrites
<1>3. CASE CopyEnds(m, d)
  BY <1>3 DEF CopyEnds
<1>4. CASE CopyReturns(m, d)
  BY <1>4 DEF CopyReturns
<1>. QED BY <1>1, <1>2, <1>3, <1>4

\* The state of every variable at each place of Start and of handleOpen, in
\* every execution.
THEOREM AgentInvariance == Spec => []AgentInv
<1>1. AgentInv /\ [Next]_vars => AgentInv'
  <2>. SUFFICES ASSUME AgentInv, [Next]_vars
                PROVE  AgentInv'
    OBVIOUS
  <2>1. CASE Next
    BY <2>1, MainPreserves, OpeningPreserves, ClosingPreserves, CopyPreserves
       DEF Next
  <2>2. CASE UNCHANGED vars
    BY <2>2 DEF vars, AgentInv, TypeOK, LinkStage, JobStage
  <2>. QED BY <2>1, <2>2
<1>. QED BY <1>1, InitEstablishes, PTL DEF Spec

\* Every variable keeps to its range, the count of attempts to the number the
\* configuration allows (Start, handleOpen).
THEOREM TypeCorrect == Spec => []TypeOK
<1>1. AgentInv => TypeOK
  BY DEF AgentInv
<1>. QED BY <1>1, AgentInvariance, PTL

\* handleOpen returns with neither connection held, by whichever of its exits.
THEOREM ReturnsEmptyHanded == Spec => []NothingLeaks
<1>1. AgentInv => NothingLeaks
  BY DEF AgentInv, JobStage, NothingLeaks
<1>. QED BY <1>1, AgentInvariance, PTL

\* A connection to sshd outlives its tunnel only inside the cleanup.
THEOREM LoginsHaveTunnels == Spec => []LoginHasTunnel
<1>1. AgentInv => LoginHasTunnel
  <2>. SUFFICES ASSUME AgentInv, NEW m \in Open, local[m] \in Held, once[m] # "half"
                PROVE  ws[m] \in Held
    BY DEF LoginHasTunnel
  <2>1. job[m] = "copy"
    BY DEF AgentInv, TypeOK, JobStage
  <2>. QED BY <2>1 DEF AgentInv, TypeOK, JobStage
<1>. QED BY <1>1, AgentInvariance, PTL

-----------------------------------------------------------------------------
(* Rendezvous. *)

\* What a step of the agent is to an observer of Rendezvous.
AbstractStep == R!Next \/ UNCHANGED R!vars

\* To compare two states of the messages, compare them message by message.
LEMMA MessageStateIsFunction ==
  /\ MessageState = [m \in Open |-> MessageState[m]]
  /\ MessageState' = [m \in Open |-> MessageState'[m]]
BY DEF MessageState

\* A step in which messages end, or one that nobody sees.
LEMMA Leaving ==
  ASSUME StartedFor' = StartedFor,
         \A m \in Open :
           \/ MessageState'[m] = MessageState[m]
           \/ MessageState[m] \in {"waiting", "joined"} /\ MessageState'[m] = "gone"
  PROVE  AbstractStep
<1>. DEFINE C == {m \in Open : MessageState'[m] # MessageState[m]}
<1>1. MessageState' = [m \in Open |-> IF m \in C THEN "gone" ELSE MessageState[m]]
  <2>1. \A m \in Open : MessageState'[m] = IF m \in C THEN "gone" ELSE MessageState[m]
    OBVIOUS
  <2>. QED BY <2>1, MessageStateIsFunction
<1>2. ServedBy' = [m \in Open |-> IF m \in C THEN None ELSE ServedBy[m]]
  BY DEF ServedBy
<1>3. CASE C = {}
  <2>1. MessageState' = MessageState
    BY <1>1, <1>3 DEF MessageState
  <2>. QED BY <2>1 DEF AbstractStep, R!vars, ServedBy
<1>4. CASE C # {}
  <2>1. PICK m \in Open : m \in C
    BY <1>4
  <2>2. PICK D \in SUBSET Open : D = C
    OBVIOUS
  <2>3. m \in D /\ R!Leave(D)
    BY <1>1, <1>2, <2>1, <2>2 DEF R!Leave
  <2>4. R!Resolve(m)
    BY <2>3, Zenon DEF R!Resolve
  <2>. QED BY <2>1, <2>4 DEF AbstractStep, R!Next
<1>. QED BY <1>3, <1>4

\* The hub sends an OPEN: a client arrives.
LEMMA SendingArrives ==
  ASSUME AgentInv, NEW m \in Open, HubSends(m)
  PROVE  AbstractStep
<1>. USE DEF AgentInv, TypeOK, HubSends
<1>1. MessageState[m] = "absent" /\ MessageState' = [MessageState EXCEPT ![m] = "waiting"]
  BY DEF MessageState
<1>2. StartedFor' = StartedFor
  BY DEF StartedFor
<1>3. ServedBy' = ServedBy
  BY <1>1 DEF ServedBy, MessageState
<1>. QED BY <1>1, <1>2, <1>3 DEF AbstractStep, R!Next, R!Arrive

\* A goroutine starts for it: a partner comes.
LEMMA ReceivingComes ==
  ASSUME AgentInv, NEW m \in Open, Receive(m)
  PROVE  AbstractStep
<1>. USE NoneApart DEF AgentInv, TypeOK, Receive
<1>1. MessageState' = MessageState
  BY DEF MessageState
<1>2. StartedFor[m] = None /\ StartedFor' = [StartedFor EXCEPT ![m] = m]
  BY DEF StartedFor
<1>3. ServedBy' = ServedBy
  BY <1>1 DEF ServedBy
<1>. QED BY <1>1, <1>2, <1>3 DEF AbstractStep, R!Next, R!ComeFor

\* sshd answers: the two are joined.
LEMMA DiallingJoins ==
  ASSUME AgentInv, NEW m \in Open, DialLocal(m)
  PROVE  AbstractStep
<1>1. mail[m] = "taken" /\ job[m] = "dialLocal" /\ once[m] = "unused"
  BY DEF AgentInv, JobStage, DialLocal
<1>2. /\ mail' = mail /\ once' = once
      /\ \A k \in Open : job'[k] = IF k = m THEN "copy" ELSE job[k]
  BY DEF AgentInv, TypeOK, DialLocal, JobGoesTo
<1>3. MessageState[m] = "waiting" /\ MessageState'[m] = "joined"
  BY <1>1, <1>2 DEF MessageState
<1>4. \A k \in Open \ {m} : MessageState'[k] = MessageState[k]
  BY <1>2 DEF MessageState
<1>5. MessageState' = [MessageState EXCEPT ![m] = "joined"]
  BY <1>3, <1>4, MessageStateIsFunction
<1>6. StartedFor[m] = m /\ StartedFor' = StartedFor
  BY <1>1, <1>2 DEF StartedFor
<1>7. ServedBy' = [ServedBy EXCEPT ![m] = m]
  BY <1>3, <1>4 DEF ServedBy
<1>8. R!Join(m, m)
  BY <1>3, <1>5, <1>6, <1>7 DEF R!Join
<1>. QED BY <1>8 DEF AbstractStep, R!Next, R!Resolve

\* Start takes no message and joins none.
LEMMA RefineMain ==
  ASSUME AgentInv, Dialling \/ LinkBreaks \/ ControlLost
  PROVE  AbstractStep
<1>. USE DEF AgentInv, TypeOK, LinkStage, JobStage, MessageState, StartedFor
<1>1. CASE Connect \/ ConnectFails \/ BackoffOver \/ LinkBreaks
  BY <1>1, Leaving DEF Connect, ConnectFails, BackoffOver, LinkBreaks
<1>2. CASE GiveUp
  BY <1>2, Leaving DEF GiveUp
<1>3. CASE ControlLost
  BY <1>3, Leaving DEF ControlLost
<1>. QED BY <1>1, <1>2, <1>3 DEF Dialling

\* A goroutine on its way, and one that copies.
LEMMA RefineJob ==
  ASSUME AgentInv, NEW m \in Open,
         \/ Opening(m) /\ ~DialLocal(m)
         \/ TunnelBreaks(m) \/ LocalBreaks(m) \/ Closing(m)
  PROVE  AbstractStep
<1>. USE DEF AgentInv, TypeOK, JobStage, MessageState, StartedFor, JobGoesTo
<1>1. CASE DialTunnel(m) \/ SendHandshake(m)
  BY <1>1, Leaving DEF DialTunnel, SendHandshake
<1>2. CASE DialTunnelFails(m) \/ HandshakeFails(m) \/ DialLocalFails(m)
  BY <1>2, Leaving DEF DialTunnelFails, HandshakeFails, DialLocalFails
<1>3. CASE TunnelBreaks(m) \/ LocalBreaks(m)
  BY <1>3, Leaving DEF TunnelBreaks, LocalBreaks
<1>4. CASE Closing(m)
  BY <1>4, Leaving DEF Closing, CloseTunnel, CloseLocal
<1>. QED BY <1>1, <1>2, <1>3, <1>4 DEF Opening

LEMMA RefineCopy ==
  ASSUME AgentInv, NEW m \in Open, NEW d \in Direction,
         CopyReads(m, d) \/ CopyWrites(m, d) \/ CopyEnds(m, d) \/ CopyReturns(m, d)
  PROVE  AbstractStep
<1>. USE DEF AgentInv, TypeOK, JobStage, MessageState, StartedFor
<1>1. CASE CopyReads(m, d) \/ CopyWrites(m, d) \/ CopyEnds(m, d)
  BY <1>1, Leaving DEF CopyReads, CopyWrites, CopyEnds
<1>2. CASE CopyReturns(m, d)
  BY <1>2, Leaving DEF CopyReturns
<1>. QED BY <1>1, <1>2

\* An OPEN is answered at most once and by its own goroutine, and what is over
\* stays over, whatever becomes of the control connection (readControl to
\* handleOpen).
THEOREM OpensAnswered == Spec => AnswersOpens
<1>1. Init => R!Init
  BY DEF Init, R!Init, MessageState, StartedFor, ServedBy
<1>2. AgentInv /\ [Next]_vars => [R!Next]_R!vars
  <2>. SUFFICES ASSUME AgentInv, [Next]_vars
                PROVE  AbstractStep
    BY DEF AbstractStep
  <2>1. CASE Next
    BY <2>1, RefineMain, SendingArrives, ReceivingComes, DiallingJoins, RefineJob,
       RefineCopy
       DEF Next
  <2>2. CASE UNCHANGED vars
    BY <2>2, Leaving DEF vars, linkVars, jobVars, MessageState, StartedFor
  <2>. QED BY <2>1, <2>2
<1>. QED BY <1>1, <1>2, AgentInvariance, PTL DEF Spec, AnswersOpens, R!Spec
==============================================================================
