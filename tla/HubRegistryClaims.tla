-------------------------- MODULE HubRegistryClaims --------------------------
(***************************************************************************)
(* What the documents say of the registry and the code does not do.        *)
(***************************************************************************)
EXTENDS HubRegistry

Saving(k) == pc[k] \in {"save", "walk", "open", "write"}

\* A hubPort is persisted, so that a restart does not change it: when nobody is
\* saving, the file names the port of every agent that is online.  A handler
\* may write a snapshot it took before another one wrote a newer one.
OnlineIsPersisted ==
  up /\ (\A k \in Conn : ~Saving(k)) =>
    \A a \in Agent : agents[a] # None /\ control[agents[a]] # None =>
      fileState = "whole" /\ fileMap[a] = Current[a]
=============================================================================
