----------------------------- MODULE HubRegistry -----------------------------
(***************************************************************************)
(* The registry of the hub (pkg/hub/hub.go, agent_ws.go, mapping.go): who  *)
(* owns which hubPort, who is online by which control connection, and the  *)
(* mapping file that is to carry the ports over a restart.                 *)
(*                                                                         *)
(* Handlers of /agent run concurrently.  The maps are guarded by h.mu, but *)
(* a handler looks its agent up in one critical section and registers it   *)
(* in another, and saves the mapping in none.  The process may die at any  *)
(* time; only the file outlives it.                                        *)
(*                                                                         *)
(* An AgentState object is named by what created it: the agent, when the   *)
(* mapping was loaded, or the connection whose handler registered it.      *)
(***************************************************************************)
EXTENDS Naturals

CONSTANTS
  Agent,      \* agent names
  Conn,       \* websockets that reach /agent, each used once
  Port,       \* TCP ports that the mapping or findAvailablePort may use
  FirstPort,  \* where findAvailablePort starts, 10000 in the code
  None,       \* the nil of Go, and a key that a map does not have
  Failures    \* may listening and file operations fail?

Object == Agent \cup Conn

ASSUME PortsAreNumbers == Port \subseteq Nat /\ FirstPort \in Nat
ASSUME NamesDiffer == /\ Agent \cap Conn = {}
                      /\ None \notin Agent \cup Conn \cup Port
ASSUME FailuresType == Failures \in BOOLEAN

VARIABLES
  up,        \* does the process run?
  agents,    \* h.agents
  hubPort,   \* AgentState.HubPort
  control,   \* AgentState.Control
  ports,     \* h.ports
  listener,  \* the agent that servePort serves on a port we listen on
  fileState, \* the mapping file is "missing", "torn" or "whole" JSON
  fileMap,   \* what it says when it is whole
  fileSpan,  \* the agents in the longest text written since it was truncated
  pc,        \* where handleAgentWS is
  xagent,    \* X-Agent of the request
  due,       \* the agents that saveMapping has to come across in h.agents
  snap       \* the mapping it collects

memoryVars == <<agents, hubPort, control, ports, listener>>
fileVars   == <<fileState, fileMap, fileSpan>>
saveVars   == <<due, snap>>
vars == <<up, memoryVars, fileVars, pc, xagent, saveVars>>

Mapping == [Agent -> Port \cup {None}]
NoMapping == [a \in Agent |-> None]
Mapped(m) == {a \in Agent : m[a] # None}

\* What h.agents says of the ports.
Current == [a \in Agent |-> IF agents[a] = None THEN None ELSE hubPort[agents[a]]]

\* The file is missing, or an operator or an earlier process has written it.
Init ==
  /\ up = FALSE
  /\ agents = NoMapping
  /\ hubPort = [o \in Object |-> None]
  /\ control = [o \in Object |-> None]
  /\ ports = [p \in Port |-> None]
  /\ listener = [p \in Port |-> None]
  /\ fileState \in {"missing", "whole"}
  /\ fileMap \in (IF fileState = "missing" THEN {NoMapping} ELSE Mapping)
  /\ fileSpan = Mapped(fileMap)
  /\ pc = [k \in Conn |-> "idle"]
  /\ xagent = [k \in Conn |-> None]
  /\ due = [k \in Conn |-> {}]
  /\ snap = [k \in Conn |-> NoMapping]

-----------------------------------------------------------------------------
(* The process starts and dies. *)

\* Fault: a mapping that gives a port to two agents is loaded.
AnyMapping(m) == TRUE

\* loadMapping refuses a mapping that gives a port to two agents.
Loadable(m) == \A a, b \in Mapped(m) : m[a] = m[b] => a = b

Owner(m, p) == IF \E a \in Agent : m[a] = p THEN CHOOSE a \in Agent : m[a] = p
                                            ELSE None

\* NewHub and startPortListeners: a missing file is created, a torn or
\* contradictory one is refused, and so is a port we cannot listen on.
Start ==
  /\ ~up
  /\ fileState # "torn"
  /\ Loadable(fileMap)
  /\ up' = TRUE
  /\ fileState' = "whole"
  /\ agents' = [a \in Agent |-> IF fileMap[a] = None THEN None ELSE a]
  /\ hubPort' = [o \in Object |-> IF o \in Agent THEN fileMap[o] ELSE None]
  /\ ports' = [p \in Port |-> Owner(fileMap, p)]
  /\ listener' = [p \in Port |-> Owner(fileMap, p)]
  /\ UNCHANGED <<control, fileMap, fileSpan, pc, xagent, saveVars>>

\* The process dies, or the write fails, while it creates a missing file.
CreateFileDies ==
  /\ ~up
  /\ fileState = "missing"
  /\ fileState' = "torn"
  /\ UNCHANGED <<up, memoryVars, fileMap, fileSpan, pc, xagent, saveVars>>

Die ==
  /\ up' = FALSE
  /\ agents' = NoMapping
  /\ hubPort' = [o \in Object |-> None]
  /\ control' = [o \in Object |-> None]
  /\ ports' = [p \in Port |-> None]
  /\ listener' = [p \in Port |-> None]
  /\ pc' = [k \in Conn |-> IF pc[k] = "idle" THEN "idle" ELSE "done"]
  /\ due' = [k \in Conn |-> {}]
  /\ snap' = [k \in Conn |-> NoMapping]
  /\ UNCHANGED <<fileVars, xagent>>

\* cmd/hub has no orderly stop: a signal or a panic ends it.
Crash == up /\ Die

-----------------------------------------------------------------------------
(* handleAgentWS up to the control connection. *)

HandlerGoesTo(k, place) == pc' = [pc EXCEPT ![k] = place]

\* The read-locked lookup.
Check(k, a) ==
  /\ up
  /\ pc[k] = "idle"
  /\ xagent' = [xagent EXCEPT ![k] = a]
  /\ HandlerGoesTo(k, IF agents[a] = None THEN "register" ELSE "accept")
  /\ UNCHANGED <<up, memoryVars, fileVars, saveVars>>

\* Fault: a port counts as free when nobody listens on it.
NotListened(p) == p >= FirstPort /\ listener[p] = None

\* Fault: a port counts as free whoever has it.
Anyones(p) == p >= FirstPort

Free(p) == p >= FirstPort /\ ports[p] = None

\* findAvailablePort.
FirstFree(p) == Free(p) /\ \A q \in Port : Free(q) => p <= q

\* The handler enters its agent in the maps, without looking again whether
\* another one has done so since.
EnterAgent(k, p) ==
  /\ up
  /\ pc[k] = "register"
  /\ FirstFree(p)
  /\ agents' = [agents EXCEPT ![xagent[k]] = k]
  /\ hubPort' = [hubPort EXCEPT ![k] = p]
  /\ ports' = [ports EXCEPT ![p] = xagent[k]]
  /\ UNCHANGED <<up, control, fileVars, xagent, saveVars>>

Register(k, p) ==
  /\ EnterAgent(k, p)
  /\ listener' = [listener EXCEPT ![p] = xagent[k]]
  /\ HandlerGoesTo(k, "save")

\* Listening fails: the request is refused, the maps keep the agent.
RegisterDeaf(k, p) ==
  /\ Failures
  /\ EnterAgent(k, p)
  /\ HandlerGoesTo(k, "done")
  /\ UNCHANGED listener

\* The Go runtime may notice that another handler walks h.agents in
\* saveMapping, which it does without the lock, and ends the process.
RegisterFatal(k) ==
  /\ up
  /\ pc[k] = "register"
  /\ \E j \in Conn : pc[j] = "walk"
  /\ Die

-----------------------------------------------------------------------------
(* saveMapping, outside the lock: a walk over h.agents, then os.WriteFile in *)
(* place.                                                                  *)

\* Fault: only agents that are online are saved.
WalkBeginOnline(k) ==
  /\ up
  /\ pc[k] = "save"
  /\ due' = [due EXCEPT ![k] = {a \in Agent : agents[a] # None /\ control[agents[a]] # None}]
  /\ HandlerGoesTo(k, "walk")
  /\ UNCHANGED <<up, memoryVars, fileVars, xagent, snap>>

WalkBegin(k) ==
  /\ up
  /\ pc[k] = "save"
  /\ due' = [due EXCEPT ![k] = {a \in Agent : agents[a] # None}]
  /\ HandlerGoesTo(k, "walk")
  /\ UNCHANGED <<up, memoryVars, fileVars, xagent, snap>>

\* The range loop comes across every agent of the map once, and may or may not
\* come across one that was registered since it began.
WalkVisit(k, a) ==
  /\ up
  /\ pc[k] = "walk"
  /\ agents[a] # None
  /\ snap[k][a] = None
  /\ snap' = [snap EXCEPT ![k][a] = Current[a]]
  /\ due' = [due EXCEPT ![k] = @ \ {a}]
  /\ UNCHANGED <<up, memoryVars, fileVars, pc, xagent>>

WalkEnd(k) ==
  /\ up
  /\ pc[k] = "walk"
  /\ due[k] = {}
  /\ HandlerGoesTo(k, "open")
  /\ UNCHANGED <<up, memoryVars, fileVars, xagent, saveVars>>

\* The file is opened and truncated.
Truncate(k) ==
  /\ up
  /\ pc[k] = "open"
  /\ fileState' = "torn"
  /\ fileMap' = NoMapping
  /\ fileSpan' = {}
  /\ HandlerGoesTo(k, "write")
  /\ UNCHANGED <<up, memoryVars, xagent, saveVars>>

\* A text that names fewer agents is shorter.
Shorter(S, T) == S \subseteq T /\ S # T

\* The text is written from the start of the file.  If another handler has
\* written a longer one since the file was truncated, the end of that one
\* stays and the file is no JSON.  Texts of different agents compare either way.
Write(k) ==
  /\ up
  /\ pc[k] = "write"
  /\ LET span == Mapped(snap[k])
     IN  \/ /\ ~Shorter(span, fileSpan)
            /\ fileState' = "whole"
            /\ fileMap' = snap[k]
            /\ fileSpan' = span
         \/ /\ ~(fileSpan \subseteq span)
            /\ fileState' = "torn"
            /\ fileMap' = NoMapping
            /\ UNCHANGED fileSpan
  /\ snap' = [snap EXCEPT ![k] = NoMapping]
  /\ HandlerGoesTo(k, "accept")
  /\ UNCHANGED <<up, memoryVars, xagent, due>>

\* The request is refused, the maps keep the agent.
OpenFails(k) ==
  /\ up
  /\ Failures
  /\ pc[k] = "open"
  /\ snap' = [snap EXCEPT ![k] = NoMapping]
  /\ HandlerGoesTo(k, "done")
  /\ UNCHANGED <<up, memoryVars, fileVars, xagent, due>>

\* So it is when writing fails, after nothing or a part was written.  The part
\* may be longer than all that was written since the file was truncated.
WriteFails(k) ==
  /\ up
  /\ Failures
  /\ pc[k] = "write"
  /\ \/ UNCHANGED fileVars
     \/ /\ fileState' = "torn"
        /\ fileMap' = NoMapping
        /\ fileSpan' \in {fileSpan} \cup {S \in SUBSET Mapped(snap[k]) : ~Shorter(S, fileSpan)}
  /\ snap' = [snap EXCEPT ![k] = NoMapping]
  /\ HandlerGoesTo(k, "done")
  /\ UNCHANGED <<up, memoryVars, xagent, due>>

-----------------------------------------------------------------------------
(* The control connection. *)

\* The state is looked up by name: it may be one that replaced ours.
Accept(k) ==
  /\ up
  /\ pc[k] = "accept"
  /\ control' = [control EXCEPT ![agents[xagent[k]]] = k]
  /\ HandlerGoesTo(k, "online")
  /\ UNCHANGED <<up, agents, hubPort, ports, listener, fileVars, xagent, saveVars>>

AcceptFails(k) ==
  /\ up
  /\ pc[k] = "accept"
  /\ HandlerGoesTo(k, "done")
  /\ UNCHANGED <<up, memoryVars, fileVars, xagent, saveVars>>

\* Fault: whoever is online is taken off.
AnyControl(k, o) == control[o] # None

\* Fault: nobody is.
NoControl(k, o) == FALSE

IsOwn(k, o) == control[o] = k

\* Fault: the agent is deleted from the map.
DisconnectDeletes(k) ==
  /\ up
  /\ pc[k] = "online"
  /\ agents' = [a \in Agent \ {xagent[k]} |-> agents[a]]
  /\ HandlerGoesTo(k, "done")
  /\ UNCHANGED <<up, hubPort, control, ports, listener, fileVars, xagent, saveVars>>

\* The connection ends, or sends what is not text.
Disconnect(k) ==
  /\ up
  /\ pc[k] = "online"
  /\ LET o == agents[xagent[k]]
     IN  control' = IF IsOwn(k, o) THEN [control EXCEPT ![o] = None] ELSE control
  /\ HandlerGoesTo(k, "done")
  /\ UNCHANGED <<up, agents, hubPort, ports, listener, fileVars, xagent, saveVars>>

-----------------------------------------------------------------------------
Handler(k) ==
  \/ \E a \in Agent : Check(k, a)
  \/ \E p \in Port : Register(k, p) \/ RegisterDeaf(k, p)
  \/ RegisterFatal(k)
  \/ WalkBegin(k) \/ WalkEnd(k) \/ \E a \in Agent : WalkVisit(k, a)
  \/ Truncate(k) \/ OpenFails(k) \/ Write(k) \/ WriteFails(k)
  \/ Accept(k) \/ AcceptFails(k) \/ Disconnect(k)

Next == Start \/ CreateFileDies \/ Crash \/ \E k \in Conn : Handler(k)

Spec == Init /\ [][Next]_vars

-----------------------------------------------------------------------------
(* Properties. *)

HandlerPlace == {"idle", "register", "save", "walk", "open", "write", "accept",
                 "online", "done"}

\* The values every variable ranges over.
TypeOK ==
  /\ up \in BOOLEAN
  /\ agents \in [Agent -> Object \cup {None}]
  /\ hubPort \in [Object -> Port \cup {None}]
  /\ control \in [Object -> Conn \cup {None}]
  /\ ports \in [Port -> Agent \cup {None}]
  /\ listener \in [Port -> Agent \cup {None}]
  /\ fileState \in {"missing", "torn", "whole"}
  /\ fileMap \in Mapping
  /\ fileSpan \subseteq Agent
  /\ pc \in [Conn -> HandlerPlace]
  /\ xagent \in [Conn -> Agent \cup {None}]
  /\ due \in [Conn -> SUBSET Agent]
  /\ snap \in [Conn -> Mapping]

\* Who connects to the hubPort of an agent reaches that agent and no other,
\* and a port is never served for an agent the maps do not give it to, through
\* concurrent registrations, failed listens and restarts (findAvailablePort,
\* handleAgentWS, loadMapping).
Routing ==
  /\ \A a \in Agent : agents[a] # None => ports[hubPort[agents[a]]] = a
  /\ \A p \in Port : listener[p] # None => ports[p] = listener[p]

\* A running hub never has a whole mapping file that contradicts its maps: what
\* the file names is a port that its agent has, so that the next start is not
\* refused for a port given twice, although handlers write snapshots they took
\* at different times.  An agent may be missing (saveMapping, SaveMapping).
FileAgrees ==
  up /\ fileState = "whole" =>
    \A a \in Mapped(fileMap) : ports[fileMap[a]] = a

\* An agent the hub calls online has an open control connection of its own:
\* however reconnects, late disconnects and replaced states interleave, no
\* state keeps the control of a connection that has ended (handleAgentWS).
ControlIsLive ==
  \A a \in Agent :
    agents[a] # None /\ control[agents[a]] # None =>
      LET k == control[agents[a]] IN pc[k] = "online" /\ xagent[k] = a

\* The end of an old control connection does not take an agent offline that
\* has connected again: as long as its state is not replaced, an agent goes
\* offline by the end of the very connection it was online by.
NewerSurvives ==
  [][\A a \in Agent :
       /\ up /\ up' /\ agents[a] # None /\ agents'[a] = agents[a]
       /\ control[agents[a]] # None /\ control'[agents[a]] = None
       => pc'[control[agents[a]]] = "done"]_vars
=============================================================================
