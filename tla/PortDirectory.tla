---------------------------- MODULE PortDirectory ----------------------------
(***************************************************************************)
(* What the hub promises about ports, over all its lives.  While it runs,  *)
(* a port is given to one agent and stays with it.  When it stops it may   *)
(* forget an agent that is new, and its port is then free for another.  An *)
(* agent that was remembered once is sure of its port from then on, unless *)
(* all is lost, and then no port is ever given again.                      *)
(***************************************************************************)
CONSTANTS Agent, Port, None

VARIABLES
  running,  \* does the hub run?
  lost,     \* has it lost what it was to remember?
  given,    \* pairs of a port and the agent it was given to
  portOf,   \* the port an agent is told when it asks
  sure      \* the agents that were remembered when the hub started

vars == <<running, lost, given, portOf, sure>>

Gifts(m) == {g \in Port \X Agent : m[g[2]] = g[1]}

Init == /\ running = FALSE
        /\ lost = FALSE
        /\ portOf \in [Agent -> Port \cup {None}]
        /\ given = Gifts(portOf)
        /\ sure = {a \in Agent : portOf[a] # None}

\* What was remembered holds, if no port is remembered for two agents.
Start == /\ ~running
         /\ ~lost
         /\ \A g, h \in given : g[1] = h[1] => g = h
         /\ running' = TRUE
         /\ UNCHANGED <<lost, given, portOf, sure>>

\* Only an agent that is not sure is given a port, one that nobody was given.
Give(a, p) == /\ running
              /\ a \notin sure
              /\ \A g \in given : g[1] # p
              /\ given' = given \cup {<<p, a>>}
              /\ portOf' = [portOf EXCEPT ![a] = p]
              /\ UNCHANGED <<running, lost, sure>>

\* Who was sure is remembered with that port; others with one they were given,
\* or not at all.  Who is remembered now is sure from now on.
Stop == /\ running
        /\ running' = FALSE
        /\ portOf' \in [Agent -> Port \cup {None}]
        /\ \A a \in sure : portOf'[a] = portOf[a]
        /\ given' = Gifts(portOf')
        /\ given' \subseteq given
        /\ sure' = {a \in Agent : portOf'[a] # None}
        /\ UNCHANGED lost

\* The hub stops and remembers nothing, or it has nothing to remember yet.
Lose == /\ running \/ sure = {}
        /\ running' = FALSE
        /\ lost' = TRUE
        /\ portOf' = [a \in Agent |-> None]
        /\ given' = {}
        /\ sure' = {}

Next == Start \/ Stop \/ Lose \/ \E a \in Agent, p \in Port : Give(a, p)

Spec == Init /\ [][Next]_vars
=============================================================================
