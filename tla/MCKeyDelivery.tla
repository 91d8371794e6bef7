---------------------------- MODULE MCKeyDelivery ----------------------------
(***************************************************************************)
(* Instances of KeyDelivery for TLC.                                       *)
(***************************************************************************)
EXTENDS KeyDeliveryRefinement, TLC

\* A file that an operator has made, if there is one.
Files == {<<k, NL>> : k \in Key}

\* The keys are interchangeable too, for every key is in one of the files.
Symmetry == Permutations(Proc) \cup Permutations(Conn) \cup Permutations(Entry)
              \cup Permutations(Key)
=============================================================================
