------------------------- MODULE KeyDeliveryRefinement -------------------------
(***************************************************************************)
(* The agent processes of a host, their lock and their file implement      *)
(* AuthorizedKeys.                                                         *)
(***************************************************************************)
EXTENDS KeyDelivery

PushedKeys == {keyOf[e] : e \in {f \in Entry : add[f] # NoMail}}
LoginKeys  == {k \in Key : WholeLine(file, k)}

\* The holder of the lock starts until it is past ensureAuthorizedKeysFile, and
\* is misled when it is to create a file that exists.
Phase ==
  IF lock = None THEN "none"
  ELSE CASE pc[lock] \in {"probe", "stat"} -> "starting"
         [] pc[lock] = "create" -> IF made THEN "misled" ELSE "starting"
         [] OTHER -> "ready"

A == INSTANCE AuthorizedKeys WITH Holder <- Proc, holder <- lock, phase <- Phase,
                                  pushed <- PushedKeys, letIn <- LoginKeys

\* Nobody can log in who could not at first and whose key no entry has pushed;
\* the file is changed in the name of the lock only; no key is lost, wherever a
\* process dies, in the middle of a line or between the look and the write, but
\* all of them may be, once, when a process starts and its Stat of the file
\* fails (AcquireInstanceLock, appendAuthorizedKey, ensureAuthorizedKeysFile).
ImplementsAuthorizedKeys == A!Spec
=============================================================================
