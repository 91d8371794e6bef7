------------------------- MODULE HubRegistryInvariant -------------------------
(***************************************************************************)
(* The inductive invariant behind the safety properties of HubRegistry.    *)
(***************************************************************************)
EXTENDS HubRegistry

\* Nothing is left in memory when the process is down.
DownIsEmpty ==
  ~up => /\ agents = NoMapping
         /\ ports = [p \in Port |-> None]
         /\ listener = [p \in Port |-> None]
         /\ control = [o \in Object |-> None]
         /\ snap = [k \in Conn |-> NoMapping]
         /\ \A k \in Conn : pc[k] \in {"idle", "done"}

\* A handler past its lookup has an agent; past registration, a known one.
HandlerKnowsAgent ==
  \A k \in Conn :
    /\ pc[k] # "idle" => xagent[k] \in Agent
    /\ up /\ pc[k] \in {"save", "walk", "open", "write", "accept", "online"} =>
         agents[xagent[k]] # None

\* States are not shared: each was loaded for its agent or registered by a
\* handler of it.
StateOwned ==
  \A a \in Agent : /\ agents[a] \in Conn => xagent[agents[a]] = a
                   /\ agents[a] \in Agent => agents[a] = a

\* What a handler registers is new.
StateFresh ==
  \A k \in Conn : pc[k] \in {"idle", "register"} =>
    control[k] = None /\ \A a \in Agent : agents[a] # k

\* An agent in the map has a port.
PortKnown == \A a \in Agent : agents[a] # None => hubPort[agents[a]] # None

\* A snapshot under way agrees with the maps: ports are given out once.
SnapAgrees ==
  \A k \in Conn : \A a \in Mapped(snap[k]) : up => ports[snap[k][a]] = a

\* A file that is not whole says nothing.
TornIsSilent == fileState # "whole" => fileMap = NoMapping

\* The agents that this life of the hub found in the file.
Loaded == {a \in Agent : agents[a] \in Agent}

\* None of them is ever registered anew.
RegistersNew ==
  \A k \in Conn : up /\ pc[k] = "register" => xagent[k] \notin Loaded

\* Every walk comes across them, with the ports they were loaded with.
WalkKeeps ==
  \A k \in Conn :
    /\ pc[k] \in {"walk", "open", "write"} =>
         \A a \in Loaded : a \in due[k] \/ snap[k][a] = hubPort[agents[a]]
    /\ pc[k] \in {"open", "write"} => due[k] = {}

\* And so every whole file has them.
FileKeeps ==
  up => /\ fileState # "missing"
        /\ fileState = "whole" => \A a \in Loaded : fileMap[a] = hubPort[agents[a]]

\* The inductive invariant: each conjunct is preserved with the help of others.
RegistryInv ==
  /\ TypeOK
  /\ DownIsEmpty
  /\ HandlerKnowsAgent
  /\ StateOwned
  /\ StateFresh
  /\ PortKnown
  /\ Routing
  /\ SnapAgrees
  /\ FileAgrees
  /\ TornIsSilent
  /\ ControlIsLive
  /\ RegistersNew
  /\ WalkKeeps
  /\ FileKeeps
=============================================================================
