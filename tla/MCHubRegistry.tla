---------------------------- MODULE MCHubRegistry ----------------------------
(***************************************************************************)
(* Instances of HubRegistry for TLC.                                       *)
(***************************************************************************)
EXTENDS HubRegistryClaims, HubRegistryRefinement, TLC

\* Connections are interchangeable, and so are agents.
RegistrySymmetry == Permutations(Conn) \cup Permutations(Agent)
=============================================================================
