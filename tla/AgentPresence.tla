---------------------------- MODULE AgentPresence ----------------------------
(***************************************************************************)
(* What the sessions of the hub may take for granted of its registry: the  *)
(* agent a port is served for is the same as long as the hub runs, and     *)
(* agents come and go one at a time, only while it runs.                   *)
(***************************************************************************)
CONSTANTS Agent, Port, None

VARIABLES
  running,  \* does the hub run?
  owner,    \* the agent a port is served for
  online    \* can an agent be sent an OPEN?

vars == <<running, owner, online>>

Nobody == [a \in Agent |-> FALSE]
Closed == [p \in Port |-> None]

Init ==
  /\ running = FALSE
  /\ owner = Closed
  /\ online = Nobody

Start ==
  /\ ~running
  /\ running' = TRUE
  /\ owner' \in [Port -> Agent \cup {None}]
  /\ UNCHANGED online

\* An agent that is given a port is offline until it is accepted, whatever
\* control connection it has had.
Admit(a, p) ==
  /\ running
  /\ owner[p] = None
  /\ owner' = [owner EXCEPT ![p] = a]
  /\ online' = [online EXCEPT ![a] = FALSE]
  /\ UNCHANGED running

Connect(a) ==
  /\ running
  /\ ~online[a]
  /\ online' = [online EXCEPT ![a] = TRUE]
  /\ UNCHANGED <<running, owner>>

Gone(a) ==
  /\ running
  /\ online[a]
  /\ online' = [online EXCEPT ![a] = FALSE]
  /\ UNCHANGED <<running, owner>>

Stop ==
  /\ running
  /\ running' = FALSE
  /\ owner' = Closed
  /\ online' = Nobody

Next ==
  \/ Start \/ Stop
  \/ \E a \in Agent : Connect(a) \/ Gone(a) \/ \E p \in Port : Admit(a, p)

Spec == Init /\ [][Next]_vars
=============================================================================
