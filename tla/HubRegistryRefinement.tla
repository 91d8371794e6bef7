------------------------ MODULE HubRegistryRefinement ------------------------
(***************************************************************************)
(* The registry of the hub implements PortDirectory: it knows by its maps  *)
(* while the process runs, and by the mapping file while it does not.  To  *)
(* the sessions it is AgentPresence.                                       *)
(***************************************************************************)
EXTENDS HubRegistryInvariant

GivenPorts == {g \in Port \X Agent : IF up THEN ports[g[1]] = g[2]
                                           ELSE fileMap[g[2]] = g[1]}

PortTold == IF up THEN Current ELSE fileMap

\* A torn file is repaired by a hub that runs, and refused by one that starts.
FileLost == ~up /\ fileState = "torn"

Remembered == IF up THEN Loaded ELSE Mapped(fileMap)

D == INSTANCE PortDirectory WITH running <- up, lost <- FileLost, given <- GivenPorts,
                                 portOf <- PortTold, sure <- Remembered

\* In one life of the hub a port is given to one agent only, and an agent that
\* a start has found in the file keeps its port in every life after it, however
\* the saves of newer agents cross each other, fail or are cut off: or else the
\* file is left torn, and no hub starts again.  Only an agent that no restart has
\* seen may lose its port to another one (handleAgentWS, saveMapping, loadMapping).
ImplementsPortDirectory == D!Spec

Online == [a \in Agent |-> agents[a] # None /\ control[agents[a]] # None]

E == INSTANCE AgentPresence WITH running <- up, owner <- listener, online <- Online

\* A session finds its port in the hands of the same agent as long as the hub
\* runs, and agents come online and go one at a time, although handlers replace
\* the states of agents that are connected (handleAgentWS, servePort).
ImplementsAgentPresence == E!Spec
=============================================================================
