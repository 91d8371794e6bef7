----------------------------- MODULE MCHubSession -----------------------------
(***************************************************************************)
(* Instances of HubSession for TLC.                                        *)
(***************************************************************************)
EXTENDS HubSessionClaims, HubSessionInvariant, HubSessionRefinement, TLC

CONSTANTS c1, c2, e1, e2, a1, a2, t1, t2, t3

\* c1 arrives on the hubPort of a1; a second connection on that of a2, if there
\* is an a2.
Port == [c \in SSHConn |-> IF c = c2 /\ a2 \in Agent THEN a2 ELSE a1]

\* The websockets are interchangeable.
TunnelSymmetry == Permutations(Tunnel)
=============================================================================
