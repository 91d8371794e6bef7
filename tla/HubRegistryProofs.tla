-------------------------- MODULE HubRegistryProofs --------------------------
(***************************************************************************)
(* RegistryInv is an inductive invariant of HubRegistry, for any sets of   *)
(* agents, connections and ports: one lemma for each action, one step for  *)
(* each conjunct the action can disturb.  The safety properties follow,    *)
(* and that the registry implements PortDirectory and AgentPresence.       *)
(***************************************************************************)
EXTENDS HubRegistryRefinement, TLAPS

USE PortsAreNumbers, NamesDiffer
    DEF Object, Mapping, memoryVars, fileVars, saveVars

\* The hub starts from a file it accepts: every port has one owner.
LEMMA StartInductive ==
  ASSUME RegistryInv, Start
  PROVE  RegistryInv'
<1>. USE DEF RegistryInv, Start, NoMapping, Mapped, Loadable, Owner
<1>1. TypeOK'
  BY DEF TypeOK
<1>2. HandlerKnowsAgent'
  BY DEF HandlerKnowsAgent, DownIsEmpty
<1>3. StateOwned'
  BY DEF StateOwned
<1>4. StateFresh'
  BY DEF StateFresh, TypeOK, DownIsEmpty
<1>5. PortKnown'
  BY DEF PortKnown, TypeOK
<1>6. Routing'
  BY DEF Routing, TypeOK
<1>7. SnapAgrees'
  BY DEF SnapAgrees, TypeOK, DownIsEmpty
<1>8. FileAgrees' /\ TornIsSilent'
  BY DEF FileAgrees, TornIsSilent, TypeOK
<1>9. ControlIsLive'
  BY DEF ControlIsLive, TypeOK, DownIsEmpty
<1>10. DownIsEmpty'
  BY DEF DownIsEmpty
<1>11. RegistersNew' /\ WalkKeeps' /\ FileKeeps'
  BY DEF RegistersNew, WalkKeeps, FileKeeps, Loaded, TypeOK, DownIsEmpty
<1>. QED BY <1>1, <1>2, <1>3, <1>4, <1>5, <1>6, <1>7, <1>8, <1>9, <1>10, <1>11

\* The file is created in part: no process runs.
LEMMA CreateFileDiesInductive ==
  ASSUME RegistryInv, CreateFileDies
  PROVE  RegistryInv'
<1>. USE DEF RegistryInv, CreateFileDies
<1>1. TypeOK'
  BY DEF TypeOK
<1>2. DownIsEmpty' /\ HandlerKnowsAgent' /\ StateOwned' /\ StateFresh' /\
     PortKnown' /\ Routing' /\ SnapAgrees' /\ FileAgrees' /\ TornIsSilent' /\ ControlIsLive'
  BY DEF DownIsEmpty, HandlerKnowsAgent, StateOwned, StateFresh, PortKnown,
         Routing, SnapAgrees, FileAgrees, TornIsSilent, ControlIsLive
<1>3. RegistersNew' /\ WalkKeeps' /\ FileKeeps'
  BY DEF RegistersNew, WalkKeeps, FileKeeps, Loaded, TypeOK
<1>. QED BY <1>1, <1>2, <1>3

\* The process dies (Crash, RegisterFatal).
LEMMA DieInductive ==
  ASSUME RegistryInv, Die
  PROVE  RegistryInv'
<1>. USE DEF RegistryInv, Die, NoMapping, Mapped
<1>1. TypeOK'
  BY DEF TypeOK, HandlerPlace
<1>2. DownIsEmpty'
  BY DEF DownIsEmpty, TypeOK
<1>3. HandlerKnowsAgent'
  BY DEF HandlerKnowsAgent
<1>4. StateOwned'
  BY DEF StateOwned
<1>5. StateFresh'
  BY DEF StateFresh, TypeOK
<1>6. PortKnown'
  BY DEF PortKnown, TypeOK
<1>7. Routing'
  BY DEF Routing
<1>8. SnapAgrees'
  BY DEF SnapAgrees
<1>9. FileAgrees' /\ TornIsSilent'
  BY DEF FileAgrees, TornIsSilent
<1>10. ControlIsLive'
  BY DEF ControlIsLive, TypeOK
<1>11. RegistersNew' /\ WalkKeeps' /\ FileKeeps'
  BY DEF RegistersNew, WalkKeeps, FileKeeps, Loaded, TypeOK
<1>. QED BY <1>1, <1>2, <1>3, <1>4, <1>5, <1>6, <1>7, <1>8, <1>9, <1>10, <1>11

\* handleAgentWS looks its agent up.
LEMMA CheckInductive ==
  ASSUME RegistryInv, NEW k \in Conn, NEW a \in Agent, Check(k, a)
  PROVE  RegistryInv'
<1>. USE DEF RegistryInv, Check, HandlerGoesTo
<1>1. TypeOK'
  BY DEF TypeOK, HandlerPlace
<1>2. HandlerKnowsAgent'
  BY DEF HandlerKnowsAgent, TypeOK
<1>3. StateOwned'
  BY DEF StateOwned, TypeOK, StateFresh
<1>4. StateFresh'
  BY DEF StateFresh, TypeOK
<1>5. ControlIsLive'
  BY DEF ControlIsLive, TypeOK, StateFresh
<1>6. DownIsEmpty' /\ PortKnown' /\ Routing' /\ SnapAgrees' /\ FileAgrees' /\ TornIsSilent'
  BY DEF DownIsEmpty, PortKnown, Routing, SnapAgrees, FileAgrees, TornIsSilent
<1>7. RegistersNew' /\ WalkKeeps' /\ FileKeeps'
  BY DEF RegistersNew, WalkKeeps, FileKeeps, Loaded, TypeOK
<1>. QED BY <1>1, <1>2, <1>3, <1>4, <1>5, <1>6, <1>7

\* handleAgentWS registers its agent under a free port and listens there.
LEMMA RegisterInductive ==
  ASSUME RegistryInv, NEW k \in Conn, NEW p \in Port, Register(k, p)
  PROVE  RegistryInv'
<1>. USE DEF RegistryInv, Register, EnterAgent, FirstFree, Free, HandlerGoesTo
<1>1. TypeOK'
  BY DEF TypeOK, HandlerPlace, HandlerKnowsAgent
<1>2. DownIsEmpty'
  BY DEF DownIsEmpty
<1>3. HandlerKnowsAgent'
  BY DEF HandlerKnowsAgent, TypeOK
<1>4. StateOwned'
  BY DEF StateOwned, TypeOK, HandlerKnowsAgent
<1>5. StateFresh'
  BY DEF StateFresh, TypeOK
<1>6. PortKnown'
  BY DEF PortKnown, TypeOK, StateFresh
<1>7. Routing'
  BY DEF Routing, TypeOK, StateFresh, PortKnown, HandlerKnowsAgent
<1>8. SnapAgrees'
  BY DEF SnapAgrees, TypeOK, Mapped
<1>9. FileAgrees' /\ TornIsSilent'
  BY DEF FileAgrees, TornIsSilent, TypeOK, Mapped
<1>10. ControlIsLive'
  BY DEF ControlIsLive, TypeOK, StateFresh
<1>11. RegistersNew' /\ WalkKeeps' /\ FileKeeps'
  BY DEF RegistersNew, WalkKeeps, FileKeeps, Loaded, TypeOK, HandlerKnowsAgent, StateFresh
<1>. QED BY <1>1, <1>2, <1>3, <1>4, <1>5, <1>6, <1>7, <1>8, <1>9, <1>10, <1>11

\* The same when listening fails.
LEMMA RegisterDeafInductive ==
  ASSUME RegistryInv, NEW k \in Conn, NEW p \in Port, RegisterDeaf(k, p)
  PROVE  RegistryInv'
<1>. USE DEF RegistryInv, RegisterDeaf, EnterAgent, FirstFree, Free, HandlerGoesTo
<1>1. TypeOK'
  BY DEF TypeOK, HandlerPlace, HandlerKnowsAgent
<1>2. DownIsEmpty'
  BY DEF DownIsEmpty
<1>3. HandlerKnowsAgent'
  BY DEF HandlerKnowsAgent, TypeOK
<1>4. StateOwned'
  BY DEF StateOwned, TypeOK, HandlerKnowsAgent
<1>5. StateFresh'
  BY DEF StateFresh, TypeOK
<1>6. PortKnown'
  BY DEF PortKnown, TypeOK, StateFresh
<1>7. Routing'
  BY DEF Routing, TypeOK, StateFresh, PortKnown, HandlerKnowsAgent
<1>8. SnapAgrees'
  BY DEF SnapAgrees, TypeOK, Mapped
<1>9. FileAgrees' /\ TornIsSilent'
  BY DEF FileAgrees, TornIsSilent, TypeOK, Mapped
<1>10. ControlIsLive'
  BY DEF ControlIsLive, TypeOK, StateFresh
<1>11. RegistersNew' /\ WalkKeeps' /\ FileKeeps'
  BY DEF RegistersNew, WalkKeeps, FileKeeps, Loaded, TypeOK, HandlerKnowsAgent, StateFresh
<1>. QED BY <1>1, <1>2, <1>3, <1>4, <1>5, <1>6, <1>7, <1>8, <1>9, <1>10, <1>11

\* saveMapping begins to walk h.agents.
LEMMA WalkBeginInductive ==
  ASSUME RegistryInv, NEW k \in Conn, WalkBegin(k)
  PROVE  RegistryInv'
<1>. USE DEF RegistryInv, WalkBegin, HandlerGoesTo
<1>1. TypeOK'
  BY DEF TypeOK, HandlerPlace
<1>2. DownIsEmpty'
  BY DEF DownIsEmpty
<1>3. HandlerKnowsAgent'
  BY DEF HandlerKnowsAgent, TypeOK
<1>4. StateFresh'
  BY DEF StateFresh, TypeOK
<1>5. ControlIsLive'
  BY DEF ControlIsLive, TypeOK
<1>6. StateOwned' /\ PortKnown' /\ Routing' /\ SnapAgrees' /\ FileAgrees' /\ TornIsSilent'
  BY DEF StateOwned, PortKnown, Routing, SnapAgrees, FileAgrees, TornIsSilent
<1>7. RegistersNew' /\ WalkKeeps' /\ FileKeeps'
  BY DEF RegistersNew, WalkKeeps, FileKeeps, Loaded, TypeOK
<1>. QED BY <1>1, <1>2, <1>3, <1>4, <1>5, <1>6, <1>7

\* saveMapping comes across an agent.
LEMMA WalkVisitInductive ==
  ASSUME RegistryInv, NEW k \in Conn, NEW a \in Agent, WalkVisit(k, a)
  PROVE  RegistryInv'
<1>. USE DEF RegistryInv, WalkVisit, Current
<1>1. TypeOK'
  BY DEF TypeOK, PortKnown
<1>2. SnapAgrees'
  BY DEF SnapAgrees, TypeOK, Mapped, Routing
<1>3. DownIsEmpty' /\ HandlerKnowsAgent' /\ StateOwned' /\ StateFresh' /\
     PortKnown' /\ Routing' /\ FileAgrees' /\ TornIsSilent' /\ ControlIsLive'
  BY DEF DownIsEmpty, HandlerKnowsAgent, StateOwned, StateFresh, PortKnown,
         Routing, FileAgrees, TornIsSilent, ControlIsLive
<1>4. RegistersNew' /\ WalkKeeps' /\ FileKeeps'
  BY DEF RegistersNew, WalkKeeps, FileKeeps, Loaded, TypeOK, PortKnown
<1>. QED BY <1>1, <1>2, <1>3, <1>4

\* saveMapping has come across every agent that was there.
LEMMA WalkEndInductive ==
  ASSUME RegistryInv, NEW k \in Conn, WalkEnd(k)
  PROVE  RegistryInv'
<1>. USE DEF RegistryInv, WalkEnd, HandlerGoesTo
<1>1. TypeOK'
  BY DEF TypeOK, HandlerPlace
<1>2. DownIsEmpty'
  BY DEF DownIsEmpty
<1>3. HandlerKnowsAgent'
  BY DEF HandlerKnowsAgent, TypeOK
<1>4. StateFresh'
  BY DEF StateFresh, TypeOK
<1>5. ControlIsLive'
  BY DEF ControlIsLive, TypeOK
<1>6. StateOwned' /\ PortKnown' /\ Routing' /\ SnapAgrees' /\ FileAgrees' /\ TornIsSilent'
  BY DEF StateOwned, PortKnown, Routing, SnapAgrees, FileAgrees, TornIsSilent
<1>7. RegistersNew' /\ WalkKeeps' /\ FileKeeps'
  BY DEF RegistersNew, WalkKeeps, FileKeeps, Loaded, TypeOK
<1>. QED BY <1>1, <1>2, <1>3, <1>4, <1>5, <1>6, <1>7

\* The file is truncated.
LEMMA TruncateInductive ==
  ASSUME RegistryInv, NEW k \in Conn, Truncate(k)
  PROVE  RegistryInv'
<1>. USE DEF RegistryInv, Truncate, NoMapping, HandlerGoesTo
<1>1. TypeOK'
  BY DEF TypeOK, HandlerPlace
<1>2. DownIsEmpty'
  BY DEF DownIsEmpty
<1>3. HandlerKnowsAgent'
  BY DEF HandlerKnowsAgent, TypeOK
<1>4. StateFresh'
  BY DEF StateFresh, TypeOK
<1>5. FileAgrees' /\ TornIsSilent'
  BY DEF FileAgrees, TornIsSilent
<1>6. ControlIsLive'
  BY DEF ControlIsLive, TypeOK
<1>7. StateOwned' /\ PortKnown' /\ Routing' /\ SnapAgrees'
  BY DEF StateOwned, PortKnown, Routing, SnapAgrees
<1>8. RegistersNew' /\ WalkKeeps' /\ FileKeeps'
  BY DEF RegistersNew, WalkKeeps, FileKeeps, Loaded, TypeOK
<1>. QED BY <1>1, <1>2, <1>3, <1>4, <1>5, <1>6, <1>7, <1>8

\* The file is not opened.
LEMMA OpenFailsInductive ==
  ASSUME RegistryInv, NEW k \in Conn, OpenFails(k)
  PROVE  RegistryInv'
<1>. USE DEF RegistryInv, OpenFails, NoMapping, HandlerGoesTo
<1>1. TypeOK'
  BY DEF TypeOK, HandlerPlace
<1>2. DownIsEmpty'
  BY DEF DownIsEmpty
<1>3. HandlerKnowsAgent'
  BY DEF HandlerKnowsAgent, TypeOK
<1>4. StateFresh'
  BY DEF StateFresh, TypeOK
<1>5. SnapAgrees'
  BY DEF SnapAgrees, TypeOK, Mapped
<1>6. ControlIsLive'
  BY DEF ControlIsLive, TypeOK
<1>7. StateOwned' /\ PortKnown' /\ Routing' /\ FileAgrees' /\ TornIsSilent'
  BY DEF StateOwned, PortKnown, Routing, FileAgrees, TornIsSilent
<1>8. RegistersNew' /\ WalkKeeps' /\ FileKeeps'
  BY DEF RegistersNew, WalkKeeps, FileKeeps, Loaded, TypeOK
<1>. QED BY <1>1, <1>2, <1>3, <1>4, <1>5, <1>6, <1>7, <1>8

\* A snapshot is written, and may be torn by an older one.
LEMMA WriteInductive ==
  ASSUME RegistryInv, NEW k \in Conn, Write(k)
  PROVE  RegistryInv'
<1>. USE DEF RegistryInv, Write, NoMapping, HandlerGoesTo
<1>1. TypeOK'
  BY DEF TypeOK, HandlerPlace, Mapped
<1>2. DownIsEmpty'
  BY DEF DownIsEmpty
<1>3. HandlerKnowsAgent'
  BY DEF HandlerKnowsAgent, TypeOK
<1>4. StateFresh'
  BY DEF StateFresh, TypeOK
<1>5. SnapAgrees'
  BY DEF SnapAgrees, TypeOK, Mapped
<1>6. FileAgrees' /\ TornIsSilent'
  BY DEF FileAgrees, TornIsSilent, SnapAgrees
<1>7. ControlIsLive'
  BY DEF ControlIsLive, TypeOK
<1>8. StateOwned' /\ PortKnown' /\ Routing'
  BY DEF StateOwned, PortKnown, Routing
<1>9. RegistersNew' /\ WalkKeeps' /\ FileKeeps'
  BY DEF RegistersNew, WalkKeeps, FileKeeps, Loaded, TypeOK
<1>. QED BY <1>1, <1>2, <1>3, <1>4, <1>5, <1>6, <1>7, <1>8, <1>9

\* Writing fails half-way.
LEMMA WriteFailsInductive ==
  ASSUME RegistryInv, NEW k \in Conn, WriteFails(k)
  PROVE  RegistryInv'
<1>. USE DEF RegistryInv, WriteFails, NoMapping, HandlerGoesTo
<1>1. TypeOK'
  BY DEF TypeOK, HandlerPlace, Mapped
<1>2. DownIsEmpty'
  BY DEF DownIsEmpty
<1>3. HandlerKnowsAgent'
  BY DEF HandlerKnowsAgent, TypeOK
<1>4. StateFresh'
  BY DEF StateFresh, TypeOK
<1>5. SnapAgrees'
  BY DEF SnapAgrees, TypeOK, Mapped
<1>6. FileAgrees' /\ TornIsSilent'
  BY DEF FileAgrees, TornIsSilent
<1>7. ControlIsLive'
  BY DEF ControlIsLive, TypeOK
<1>8. StateOwned' /\ PortKnown' /\ Routing'
  BY DEF StateOwned, PortKnown, Routing
<1>9. RegistersNew' /\ WalkKeeps' /\ FileKeeps'
  BY DEF RegistersNew, WalkKeeps, FileKeeps, Loaded, TypeOK
<1>. QED BY <1>1, <1>2, <1>3, <1>4, <1>5, <1>6, <1>7, <1>8, <1>9

\* handleAgentWS makes the websocket the control connection of its agent.
LEMMA AcceptInductive ==
  ASSUME RegistryInv, NEW k \in Conn, Accept(k)
  PROVE  RegistryInv'
<1>. USE DEF RegistryInv, Accept, HandlerGoesTo
<1>1. TypeOK'
  BY DEF TypeOK, HandlerPlace, HandlerKnowsAgent
<1>2. DownIsEmpty'
  BY DEF DownIsEmpty
<1>3. HandlerKnowsAgent'
  BY DEF HandlerKnowsAgent, TypeOK
<1>4. StateFresh'
  BY DEF StateFresh, TypeOK, HandlerKnowsAgent
<1>5. ControlIsLive'
  BY DEF ControlIsLive, TypeOK, HandlerKnowsAgent, StateOwned
<1>6. StateOwned' /\ PortKnown' /\ Routing' /\ SnapAgrees' /\ FileAgrees' /\ TornIsSilent'
  BY DEF StateOwned, PortKnown, Routing, SnapAgrees, FileAgrees, TornIsSilent
<1>7. RegistersNew' /\ WalkKeeps' /\ FileKeeps'
  BY DEF RegistersNew, WalkKeeps, FileKeeps, Loaded, TypeOK
<1>. QED BY <1>1, <1>2, <1>3, <1>4, <1>5, <1>6, <1>7

\* The websocket is not accepted.
LEMMA AcceptFailsInductive ==
  ASSUME RegistryInv, NEW k \in Conn, AcceptFails(k)
  PROVE  RegistryInv'
<1>. USE DEF RegistryInv, AcceptFails, HandlerGoesTo
<1>1. TypeOK'
  BY DEF TypeOK, HandlerPlace
<1>2. DownIsEmpty'
  BY DEF DownIsEmpty
<1>3. HandlerKnowsAgent'
  BY DEF HandlerKnowsAgent, TypeOK
<1>4. StateFresh'
  BY DEF StateFresh, TypeOK
<1>5. ControlIsLive'
  BY DEF ControlIsLive, TypeOK
<1>6. StateOwned' /\ PortKnown' /\ Routing' /\ SnapAgrees' /\ FileAgrees' /\ TornIsSilent'
  BY DEF StateOwned, PortKnown, Routing, SnapAgrees, FileAgrees, TornIsSilent
<1>7. RegistersNew' /\ WalkKeeps' /\ FileKeeps'
  BY DEF RegistersNew, WalkKeeps, FileKeeps, Loaded, TypeOK
<1>. QED BY <1>1, <1>2, <1>3, <1>4, <1>5, <1>6, <1>7

\* The control connection ends.
LEMMA DisconnectInductive ==
  ASSUME RegistryInv, NEW k \in Conn, Disconnect(k)
  PROVE  RegistryInv'
<1>. USE DEF RegistryInv, Disconnect, IsOwn, HandlerGoesTo
<1>1. TypeOK'
  BY DEF TypeOK, HandlerPlace, HandlerKnowsAgent
<1>2. DownIsEmpty'
  BY DEF DownIsEmpty
<1>3. HandlerKnowsAgent'
  BY DEF HandlerKnowsAgent, TypeOK
<1>4. StateFresh'
  BY DEF StateFresh, TypeOK, HandlerKnowsAgent
<1>5. ControlIsLive'
  BY DEF ControlIsLive, TypeOK, HandlerKnowsAgent, StateOwned
<1>6. StateOwned' /\ PortKnown' /\ Routing' /\ SnapAgrees' /\ FileAgrees' /\ TornIsSilent'
  BY DEF StateOwned, PortKnown, Routing, SnapAgrees, FileAgrees, TornIsSilent
<1>7. RegistersNew' /\ WalkKeeps' /\ FileKeeps'
  BY DEF RegistersNew, WalkKeeps, FileKeeps, Loaded, TypeOK
<1>. QED BY <1>1, <1>2, <1>3, <1>4, <1>5, <1>6, <1>7

LEMMA InitInductive == Init => RegistryInv
<1>. USE DEF Init, RegistryInv, NoMapping
<1>1. ASSUME Init PROVE TypeOK
  BY <1>1 DEF TypeOK, HandlerPlace, Mapped
<1>2. ASSUME Init
      PROVE  DownIsEmpty /\ HandlerKnowsAgent /\ StateOwned /\ StateFresh
  BY <1>2 DEF DownIsEmpty, HandlerKnowsAgent, StateOwned, StateFresh
<1>3. ASSUME Init
      PROVE  PortKnown /\ Routing /\ SnapAgrees /\ FileAgrees /\ TornIsSilent /\ ControlIsLive
  BY <1>3 DEF PortKnown, Routing, SnapAgrees, FileAgrees, TornIsSilent, ControlIsLive, Mapped
<1>4. ASSUME Init
      PROVE  RegistersNew /\ WalkKeeps /\ FileKeeps
  BY <1>4 DEF RegistersNew, WalkKeeps, FileKeeps
<1>. QED BY <1>1, <1>2, <1>3, <1>4

LEMMA NextInductive == RegistryInv /\ [Next]_vars => RegistryInv'
<1>. SUFFICES ASSUME RegistryInv, [Next]_vars PROVE RegistryInv'
  OBVIOUS
<1>1. CASE Start \/ CreateFileDies \/ Crash
  BY <1>1, StartInductive, CreateFileDiesInductive, DieInductive DEF Crash
<1>2. ASSUME NEW k \in Conn, Handler(k)
      PROVE  RegistryInv'
  <2>1. CASE \E a \in Agent : Check(k, a) \/ WalkVisit(k, a)
    BY <2>1, CheckInductive, WalkVisitInductive
  <2>2. CASE \E p \in Port : Register(k, p) \/ RegisterDeaf(k, p)
    BY <2>2, RegisterInductive, RegisterDeafInductive
  <2>3. CASE RegisterFatal(k)
    BY <2>3, DieInductive DEF RegisterFatal
  <2>4. CASE WalkBegin(k) \/ WalkEnd(k) \/ Truncate(k) \/ OpenFails(k)
    BY <2>4, WalkBeginInductive, WalkEndInductive, TruncateInductive,
       OpenFailsInductive
  <2>5. CASE Write(k) \/ WriteFails(k)
    BY <2>5, WriteInductive, WriteFailsInductive
  <2>6. CASE Accept(k) \/ AcceptFails(k) \/ Disconnect(k)
    BY <2>6, AcceptInductive, AcceptFailsInductive, DisconnectInductive
  <2>. QED BY <1>2, <2>1, <2>2, <2>3, <2>4, <2>5, <2>6 DEF Handler
<1>3. CASE UNCHANGED vars
  BY <1>3 DEF vars, RegistryInv, TypeOK, DownIsEmpty, HandlerKnowsAgent,
     StateOwned, StateFresh, PortKnown, Routing, SnapAgrees, FileAgrees, TornIsSilent,
     ControlIsLive, RegistersNew, WalkKeeps, FileKeeps, Loaded
<1>. QED BY <1>1, <1>2, <1>3 DEF Next

\* RegistryInv holds in every state the hub reaches.
THEOREM RegistryInvariance == Spec => []RegistryInv
<1>1. Init => RegistryInv
  BY InitInductive
<1>2. RegistryInv /\ [Next]_vars => RegistryInv'
  BY NextInductive
<1>. QED BY <1>1, <1>2, PTL DEF Spec

\* Every variable of the registry keeps to its range (NewHub, handleAgentWS).
THEOREM TypeCorrect == Spec => []TypeOK
<1>1. RegistryInv => TypeOK
  BY DEF RegistryInv
<1>. QED BY <1>1, RegistryInvariance, PTL

\* A hubPort leads to the agent it was given to and to no other, through
\* concurrent registrations and restarts (findAvailablePort, handleAgentWS).
THEOREM RoutingKept == Spec => []Routing
<1>1. RegistryInv => Routing
  BY DEF RegistryInv
<1>. QED BY <1>1, RegistryInvariance, PTL

\* A whole mapping file never contradicts the maps of a running hub, whatever
\* snapshots handlers write over each other (saveMapping).
THEOREM FileNeverContradicts == Spec => []FileAgrees
<1>1. RegistryInv => FileAgrees
  BY DEF RegistryInv
<1>. QED BY <1>1, RegistryInvariance, PTL

\* An agent that is called online has an open control connection of its own
\* (handleAgentWS).
THEOREM OnlineHasControl == Spec => []ControlIsLive
<1>1. RegistryInv => ControlIsLive
  BY DEF RegistryInv
<1>. QED BY <1>1, RegistryInvariance, PTL

\* What one step may do to the control connection of an agent.
Newer(a) ==
  /\ up /\ up' /\ agents[a] # None /\ agents'[a] = agents[a]
  /\ control[agents[a]] # None /\ control'[agents[a]] = None
  => pc'[control[agents[a]]] = "done"

LEMMA NewerStep ==
  ASSUME RegistryInv, [Next]_vars, NEW a \in Agent
  PROVE  Newer(a)
<1>. USE DEF RegistryInv, TypeOK, Newer
<1>1. CASE UNCHANGED control
  BY <1>1
<1>2. ASSUME NEW k \in Conn, Accept(k)
      PROVE  Newer(a)
  BY <1>2 DEF Accept, HandlerKnowsAgent
<1>3. ASSUME NEW k \in Conn, Disconnect(k)
      PROVE  Newer(a)
  BY <1>3 DEF Disconnect, IsOwn, HandlerGoesTo, HandlerKnowsAgent
<1>4. CASE Crash \/ \E k \in Conn : RegisterFatal(k)
  BY <1>4 DEF Crash, RegisterFatal, Die
<1>5. ASSUME Next
      PROVE  \/ UNCHANGED control
             \/ Crash
             \/ \E k \in Conn : RegisterFatal(k) \/ Accept(k) \/ Disconnect(k)
  BY <1>5 DEF Next, Start, CreateFileDies, Handler, Check, Register,
     RegisterDeaf, EnterAgent, WalkBegin, WalkVisit, WalkEnd, Truncate,
     OpenFails, Write, WriteFails, AcceptFails
<1>. QED BY <1>1, <1>2, <1>3, <1>4, <1>5 DEF vars

\* The end of an old control connection does not take its agent offline
\* (handleAgentWS).
THEOREM NewerStays == Spec => NewerSurvives
<1>1. RegistryInv /\ [Next]_vars =>
        [\A a \in Agent : Newer(a)]_vars
  BY NewerStep
<1>2. [\A a \in Agent : Newer(a)]_vars =>
        [\A a \in Agent :
           /\ up /\ up' /\ agents[a] # None /\ agents'[a] = agents[a]
           /\ control[agents[a]] # None /\ control'[agents[a]] = None
           => pc'[control[agents[a]]] = "done"]_vars
  BY DEF Newer
<1>. QED BY <1>1, <1>2, RegistryInvariance, PTL DEF Spec, NewerSurvives

-----------------------------------------------------------------------------
(* The refinement: the hub starts, stops, gives a port away, or does what  *)
(* PortDirectory does not see.                                             *)

DirectoryStep == [D!Next]_D!vars

\* What the loaded maps say is what the file says.
LEMMA StartRefines ==
  ASSUME RegistryInv, Start
  PROVE  DirectoryStep
<1>. USE DEF RegistryInv, TypeOK, Start, NoMapping
<1>1. PortTold = fileMap /\ PortTold' = fileMap
  <2>1. \A a \in Agent : Current'[a] = fileMap[a]
    BY DEF Current
  <2>. QED BY <2>1 DEF PortTold, Current
<1>2. \A p \in Port, a \in Agent : Owner(fileMap, p) = a <=> fileMap[a] = p
  BY DEF Owner, Loadable, Mapped
<1>3. GivenPorts' = GivenPorts
  <2>1. \A g \in Port \X Agent : ports'[g[1]] = g[2] <=> fileMap[g[2]] = g[1]
    BY <1>2
  <2>. QED BY <2>1 DEF GivenPorts
<1>4. ASSUME NEW g \in GivenPorts, NEW h \in GivenPorts, g[1] = h[1]
      PROVE  g = h
  <2>1. /\ g \in Port \X Agent /\ h \in Port \X Agent
        /\ fileMap[g[2]] = g[1] /\ fileMap[h[2]] = h[1]
    BY DEF GivenPorts
  <2>2. g[2] = h[2]
    <3>1. g[2] \in Mapped(fileMap) /\ h[2] \in Mapped(fileMap)
      BY <2>1 DEF Mapped
    <3>. QED BY ONLY <1>4, <2>1, <3>1, Start DEF Start, Loadable
  <2>. QED BY ONLY <1>4, <2>1, <2>2
<1>5. FileLost = FALSE /\ FileLost' = FALSE
  BY DEF FileLost
<1>6. Remembered' = Remembered
  BY DEF Remembered, Loaded, Mapped
<1>. QED BY <1>1, <1>3, <1>4, <1>5, <1>6 DEF DirectoryStep, D!Next, D!Start

\* What a whole file says was so when it was written (FileAgrees) and still is,
\* and it has every agent that was loaded (FileKeeps).
LEMMA DieRefines ==
  ASSUME RegistryInv, up, Die
  PROVE  DirectoryStep
<1>. USE DEF RegistryInv, TypeOK, Die
<1>1. PortTold' = fileMap /\ fileMap \in [Agent -> Port \cup {None}]
  BY DEF PortTold
<1>2. GivenPorts' = D!Gifts(fileMap)
  BY DEF GivenPorts, D!Gifts
<1>3. D!Gifts(fileMap) \subseteq GivenPorts
  <2>1. \A a \in Agent : fileMap[a] # None => ports[fileMap[a]] = a
    BY DEF TornIsSilent, FileAgrees, NoMapping, Mapped
  <2>. QED BY <2>1 DEF D!Gifts, GivenPorts
<1>4. Remembered' = {a \in Agent : fileMap[a] # None}
  BY DEF Remembered, Mapped
<1>5. CASE fileState = "whole"
  <2>1. FileLost = FALSE /\ FileLost' = FALSE
    BY <1>5 DEF FileLost
  <2>2. \A a \in Remembered : PortTold'[a] = PortTold[a]
    BY <1>1, <1>5 DEF Remembered, Loaded, PortTold, Current, FileKeeps
  <2>. QED BY <1>1, <1>2, <1>3, <1>4, <2>1, <2>2 DEF DirectoryStep, D!Next, D!Stop
<1>6. CASE fileState = "torn"
  <2>1. FileLost' /\ fileMap = [a \in Agent |-> None]
    BY <1>6 DEF FileLost, TornIsSilent, NoMapping
  <2>2. GivenPorts' = {} /\ Remembered' = {}
    BY <1>2, <1>4, <2>1 DEF D!Gifts
  <2>. QED BY <1>1, <2>1, <2>2 DEF DirectoryStep, D!Next, D!Lose
<1>. QED BY <1>5, <1>6 DEF FileKeeps

\* The hub fails to create the file: it had none.
LEMMA CreateFileRefines ==
  ASSUME RegistryInv, CreateFileDies
  PROVE  DirectoryStep
<1>. USE DEF RegistryInv, CreateFileDies
<1>1. fileMap = [a \in Agent |-> None]
  BY DEF TornIsSilent, NoMapping
<1>2. GivenPorts' = {} /\ Remembered = {} /\ Remembered' = {}
  BY <1>1 DEF GivenPorts, Remembered, Mapped
<1>3. PortTold' = [a \in Agent |-> None] /\ FileLost'
  BY <1>1 DEF PortTold, FileLost
<1>. QED BY <1>2, <1>3 DEF DirectoryStep, D!Next, D!Lose

\* A port that findAvailablePort finds was given to nobody, and it is found for
\* an agent that was not loaded.
LEMMA EnterRefines ==
  ASSUME RegistryInv, NEW k \in Conn, NEW p \in Port, EnterAgent(k, p)
  PROVE  DirectoryStep
<1>. USE DEF RegistryInv, TypeOK, EnterAgent
<1>. DEFINE a == xagent[k]
<1>1. a \in Agent /\ ports[p] = None
  BY DEF HandlerKnowsAgent, FirstFree, Free
<1>2. \A g \in GivenPorts : g[1] # p
  BY <1>1 DEF GivenPorts
<1>3. GivenPorts' = GivenPorts \cup {<<p, a>>}
  BY <1>1 DEF GivenPorts
<1>4. PortTold' = [PortTold EXCEPT ![a] = p]
  <2>1. \A b \in Agent : Current'[b] = IF b = a THEN p ELSE Current[b]
    BY <1>1 DEF Current, StateFresh
  <2>2. PortTold = Current /\ PortTold' = Current'
    BY DEF PortTold
  <2>3. /\ Current = [b \in Agent |-> Current[b]]
        /\ Current' = [b \in Agent |-> Current'[b]]
    BY DEF Current
  <2>. QED BY ONLY <1>1, <2>1, <2>2, <2>3
<1>5. a \notin Remembered /\ Remembered' = Remembered
  BY <1>1 DEF Remembered, Loaded, RegistersNew
<1>6. FileLost' = FileLost
  BY DEF FileLost
<1>. QED BY <1>1, <1>2, <1>3, <1>4, <1>5, <1>6 DEF DirectoryStep, D!Next, D!Give

\* While the process runs the maps tell, and the file may change.
LEMMA UnseenRefines ==
  ASSUME UNCHANGED <<up, agents, hubPort, ports>>, up \/ UNCHANGED <<fileState, fileMap>>
  PROVE  DirectoryStep
<1>1. GivenPorts' = GivenPorts
  BY DEF GivenPorts
<1>2. PortTold' = PortTold
  BY DEF PortTold, Current
<1>3. FileLost' = FileLost /\ Remembered' = Remembered
  BY DEF FileLost, Remembered, Loaded, Mapped
<1>. QED BY <1>1, <1>2, <1>3 DEF DirectoryStep, D!vars

LEMMA StepRefines ==
  ASSUME RegistryInv, [Next]_vars
  PROVE  DirectoryStep
<1>1. CASE Start
  BY <1>1, StartRefines
<1>2. CASE Crash \/ \E k \in Conn : RegisterFatal(k)
  BY <1>2, DieRefines DEF Crash, RegisterFatal
<1>3. ASSUME NEW k \in Conn, NEW p \in Port, Register(k, p) \/ RegisterDeaf(k, p)
      PROVE  DirectoryStep
  BY <1>3, EnterRefines DEF Register, RegisterDeaf
<1>4. CASE UNCHANGED vars
  BY <1>4, UnseenRefines DEF vars
<1>5. ASSUME NEW k \in Conn,
             \/ \E a \in Agent : Check(k, a) \/ WalkVisit(k, a)
             \/ WalkBegin(k) \/ WalkEnd(k)
             \/ Truncate(k) \/ OpenFails(k) \/ Write(k) \/ WriteFails(k)
             \/ Accept(k) \/ AcceptFails(k) \/ Disconnect(k)
      PROVE  DirectoryStep
  <2>1. up /\ UNCHANGED <<up, agents, hubPort, ports>>
    BY <1>5 DEF Check, WalkVisit, WalkBegin, WalkEnd, Truncate, OpenFails, Write,
       WriteFails, Accept, AcceptFails, Disconnect
  <2>. QED BY <2>1, UnseenRefines
<1>. QED BY <1>1, <1>2, <1>3, <1>4, <1>5, CreateFileRefines DEF Next, Handler

\* In one life of the hub a port is given to one agent only, whatever handlers
\* register at the same time; over crashes in the middle of saves, failed saves
\* and restarts, an agent that was loaded once keeps its port, or the file is
\* torn and no hub starts (handleAgentWS, saveMapping, loadMapping).
THEOREM DirectoryImplemented == Spec => ImplementsPortDirectory
<1>1. Init => D!Init
  BY DEF Init, D!Init, D!Gifts, GivenPorts, PortTold, NoMapping, FileLost, Remembered, Mapped
<1>2. RegistryInv /\ [Next]_vars => [D!Next]_D!vars
  BY StepRefines DEF DirectoryStep
<1>. QED BY <1>1, <1>2, RegistryInvariance, PTL DEF Spec, ImplementsPortDirectory, D!Spec

\* What PortDirectory means for an agent that was loaded, or that a hub which is
\* down will load: no step, a crash or a restart among them, gives it another
\* port or takes its port from it, but for the crash that leaves the file torn
\* (saveMapping, loadMapping).
THEOREM LoadedKeepPorts ==
  Spec => [][\A a \in Remembered : PortTold'[a] = PortTold[a] \/ FileLost']_vars
<1> DEFINE Kept == \A a \in Remembered : PortTold'[a] = PortTold[a] \/ FileLost'
<1>1. ASSUME RegistryInv, [Next]_vars
      PROVE  Kept
  <2>1. DirectoryStep
    BY <1>1, StepRefines
  <2>2. PortTold \in [Agent -> Port \cup {None}]
    <3>1. Current \in [Agent -> Port \cup {None}]
      BY <1>1 DEF RegistryInv, TypeOK, Current
    <3>. QED BY <1>1, <3>1 DEF RegistryInv, TypeOK, PortTold
  <2>3. ASSUME NEW a \in Agent, NEW p \in Port, D!Give(a, p)
        PROVE  Kept
    BY <2>2, <2>3 DEF D!Give
  <2>. QED BY <2>1, <2>3 DEF DirectoryStep, D!Next, D!Start, D!Stop, D!Lose, D!vars
<1>2. RegistryInv /\ [Next]_vars => [Kept]_vars
  BY <1>1
<1>. QED BY <1>2, RegistryInvariance, PTL DEF Spec

-----------------------------------------------------------------------------
(* What the sessions see: AgentPresence. *)

PresenceStep == [E!Next]_(E!vars)

\* The hub starts and dies with nobody online.
LEMMA StartSeen ==
  ASSUME RegistryInv, Start
  PROVE  PresenceStep
<1>1. ~up /\ up' /\ listener' \in [Port -> Agent \cup {None}]
  <2>1. \A p \in Port : Owner(fileMap, p) \in Agent \cup {None}
    BY DEF Owner
  <2>. QED BY <2>1 DEF Start
<1>2. Online = [a \in Agent |-> FALSE] /\ Online' = Online
  BY DEF RegistryInv, DownIsEmpty, Start, Online, NoMapping
<1>. QED BY <1>1, <1>2 DEF PresenceStep, E!Next, E!Start

LEMMA DieSeen ==
  ASSUME up, Die
  PROVE  PresenceStep
<1>1. up' = FALSE /\ listener' = E!Closed
  BY DEF Die, E!Closed
<1>2. Online' = E!Nobody
  BY DEF Die, NoMapping, Online, E!Nobody
<1>. QED BY <1>1, <1>2 DEF PresenceStep, E!Next, E!Stop

\* The state that a registration files has no control connection.
LEMMA RegisterSeen ==
  ASSUME RegistryInv, NEW k \in Conn, NEW p \in Port, Register(k, p) \/ RegisterDeaf(k, p)
  PROVE  PresenceStep
<1> DEFINE a == xagent[k]
<1>1. /\ a \in Agent /\ ports[p] = None /\ listener[p] = None /\ up /\ up' = up
      /\ agents' = [agents EXCEPT ![a] = k] /\ control' = control /\ control[k] = None
  BY DEF Register, RegisterDeaf, EnterAgent, FirstFree, Free, RegistryInv, TypeOK, Routing,
         HandlerKnowsAgent, StateFresh
<1>2. Online' = [Online EXCEPT ![a] = FALSE]
  <2>1. \A b \in Agent : Online'[b] = IF b = a THEN FALSE ELSE Online[b]
    BY <1>1 DEF Online, RegistryInv, TypeOK
  <2>2. Online = [b \in Agent |-> Online[b]] /\ Online' = [b \in Agent |-> Online'[b]]
    BY DEF Online
  <2>. QED BY ONLY <1>1, <2>1, <2>2
<1>3. CASE Register(k, p)
  BY <1>1, <1>2, <1>3 DEF Register, PresenceStep, E!Next, E!Admit
<1>4. CASE RegisterDeaf(k, p)
  <2>1. CASE Online[a]
    BY <1>1, <1>2, <1>4, <2>1 DEF RegisterDeaf, PresenceStep, E!Next, E!Gone
  <2>2. CASE ~Online[a]
    <3>1. Online' = Online
      BY <1>1, <1>2, <2>2 DEF Online
    <3>. QED BY <1>1, <1>4, <3>1 DEF RegisterDeaf, PresenceStep, E!vars
  <2>. QED BY <2>1, <2>2
<1>. QED BY <1>3, <1>4

\* States are not shared, so that a control connection makes one agent come or go.
LEMMA ControlSeen ==
  ASSUME RegistryInv, NEW k \in Conn, Accept(k) \/ Disconnect(k)
  PROVE  PresenceStep
<1> DEFINE a == xagent[k]
           o == agents[a]
<1>1. a \in Agent /\ o \in Object /\ \A b \in Agent : b # a => agents[b] # o
  BY DEF Accept, Disconnect, RegistryInv, TypeOK, HandlerKnowsAgent, StateOwned
<1>2. /\ up /\ UNCHANGED <<up, agents, listener>>
      /\ \E v \in {k, None, control[o]} : control' = [control EXCEPT ![o] = v]
  BY <1>1 DEF Accept, Disconnect, RegistryInv, TypeOK
<1>3. PICK v \in BOOLEAN : Online' = [Online EXCEPT ![a] = v]
  <2>1. \A b \in Agent \ {a} : Online'[b] = Online[b]
    BY <1>1, <1>2 DEF Online, RegistryInv, TypeOK
  <2>2. Online'[a] \in BOOLEAN
    BY <1>1 DEF Online
  <2>3. Online = [b \in Agent |-> Online[b]] /\ Online' = [b \in Agent |-> Online'[b]]
    BY DEF Online
  <2>4. Online' = [Online EXCEPT ![a] = Online'[a]]
    BY ONLY <1>1, <2>1, <2>3
  <2>. QED BY <2>2, <2>4
<1>4. Online[a] \in BOOLEAN /\ Online = [Online EXCEPT ![a] = Online[a]]
  BY <1>1 DEF Online
<1>5. CASE v = Online[a]
  BY <1>2, <1>3, <1>4, <1>5 DEF PresenceStep, E!vars
<1>6. CASE v /\ ~Online[a]
  BY <1>1, <1>2, <1>3, <1>6 DEF PresenceStep, E!Next, E!Connect
<1>7. CASE ~v /\ Online[a]
  BY <1>1, <1>2, <1>3, <1>7 DEF PresenceStep, E!Next, E!Gone
<1>. QED BY <1>3, <1>4, <1>5, <1>6, <1>7

LEMMA StepSeen ==
  ASSUME RegistryInv, [Next]_vars
  PROVE  PresenceStep
<1>1. ASSUME UNCHANGED <<up, agents, control, listener>>
      PROVE  PresenceStep
  BY <1>1 DEF Online, PresenceStep, E!vars
<1>2. CASE Crash \/ \E k \in Conn : RegisterFatal(k)
  BY <1>2, DieSeen DEF Crash, RegisterFatal
<1>3. CASE UNCHANGED vars \/ CreateFileDies
  BY <1>1, <1>3 DEF vars, CreateFileDies
<1>4. ASSUME NEW k \in Conn,
             \/ \E a \in Agent : Check(k, a) \/ WalkVisit(k, a)
             \/ WalkBegin(k) \/ WalkEnd(k)
             \/ Truncate(k) \/ OpenFails(k) \/ Write(k) \/ WriteFails(k)
             \/ AcceptFails(k)
      PROVE  PresenceStep
  <2>1. UNCHANGED <<up, agents, control, listener>>
    BY <1>4 DEF Check, WalkVisit, WalkBegin, WalkEnd, Truncate, OpenFails, Write,
       WriteFails, AcceptFails
  <2>. QED BY <1>1, <2>1
<1>. QED BY <1>2, <1>3, <1>4, StartSeen, RegisterSeen, ControlSeen DEF Next, Handler

\* While the hub runs, a port stays with the agent it is served for, and agents
\* come online and go one at a time (handleAgentWS, servePort): what HubSession
\* takes for granted of its ports and of Control.
THEOREM PresenceImplemented == Spec => ImplementsAgentPresence
<1>1. Init => E!Init
  BY DEF Init, E!Init, E!Closed, E!Nobody, Online, NoMapping
<1>2. RegistryInv /\ [Next]_vars => [E!Next]_(E!vars)
  BY StepSeen DEF PresenceStep
<1>. QED BY <1>1, <1>2, RegistryInvariance, PTL DEF Spec, ImplementsAgentPresence, E!Spec
=============================================================================
