------------------------------ MODULE Rendezvous ------------------------------
(***************************************************************************)
(* What the hub promises to the TCP connections on its hubPorts: a client  *)
(* waits until a partner that came for it is joined with it, or until it   *)
(* is let go; it never waits for ever, and what is over stays over.        *)
(***************************************************************************)
CONSTANTS Client, Partner, None

VARIABLES
  state,    \* "absent", "waiting", "joined" or "gone"
  cameFor,  \* the client a partner came for
  partner   \* the partner a joined client has

vars == <<state, cameFor, partner>>

Init ==
  /\ state = [c \in Client |-> "absent"]
  /\ cameFor = [p \in Partner |-> None]
  /\ partner = [c \in Client |-> None]

Arrive(c) ==
  /\ state[c] = "absent"
  /\ state' = [state EXCEPT ![c] = "waiting"]
  /\ UNCHANGED <<cameFor, partner>>

\* A client that cannot be served is turned away at the door.
TurnAway(c) ==
  /\ state[c] = "absent"
  /\ state' = [state EXCEPT ![c] = "gone"]
  /\ UNCHANGED <<cameFor, partner>>

ComeFor(p, c) ==
  /\ cameFor[p] = None
  /\ cameFor' = [cameFor EXCEPT ![p] = c]
  /\ UNCHANGED <<state, partner>>

Join(c, p) ==
  /\ state[c] = "waiting"
  /\ cameFor[p] = c
  /\ state' = [state EXCEPT ![c] = "joined"]
  /\ partner' = [partner EXCEPT ![c] = p]
  /\ UNCHANGED cameFor

\* Clients leave one at a time, or all at once.
Leave(C) ==
  /\ \A c \in C : state[c] \in {"waiting", "joined"}
  /\ state' = [c \in Client |-> IF c \in C THEN "gone" ELSE state[c]]
  /\ partner' = [c \in Client |-> IF c \in C THEN None ELSE partner[c]]
  /\ UNCHANGED cameFor

Resolve(c) ==
  \/ \E p \in Partner : Join(c, p)
  \/ \E C \in SUBSET Client : c \in C /\ Leave(C)

Next ==
  \/ \E c \in Client : Arrive(c) \/ TurnAway(c) \/ Resolve(c)
  \/ \E p \in Partner, c \in Client : ComeFor(p, c)

Spec == Init /\ [][Next]_vars
FairSpec == Spec /\ \A c \in Client : WF_vars(state[c] = "waiting" /\ Resolve(c))
=============================================================================
