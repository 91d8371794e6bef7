---------------------------- MODULE AuthorizedKeys ----------------------------
(***************************************************************************)
(* What the agents of a host promise about who may log in: one process at  *)
(* a time is in charge, and only when it is ready it lets keys in, only    *)
(* those that an entry has pushed.  A key that was let in stays, but for a *)
(* process that is misled while it starts: once in its life, and before it *)
(* lets anybody in, it may then forget them all.                           *)
(***************************************************************************)
CONSTANTS Holder, Key, None

VARIABLES
  holder,  \* the process in charge
  phase,   \* "none", or how far it is
  pushed,  \* keys that were pushed
  letIn    \* keys one can log in with

vars == <<holder, phase, pushed, letIn>>

Init ==
  /\ holder = None
  /\ phase = "none"
  /\ pushed = {}
  /\ letIn \in SUBSET Key

TakeCharge(p) ==
  /\ holder = None
  /\ holder' = p
  /\ phase' \in {"starting", "ready"}
  /\ UNCHANGED <<pushed, letIn>>

GetReady ==
  /\ phase = "starting"
  /\ phase' = "ready"
  /\ UNCHANGED <<holder, pushed, letIn>>

IsMisled ==
  /\ phase = "starting"
  /\ phase' = "misled"
  /\ UNCHANGED <<holder, pushed, letIn>>

StartOver ==
  /\ phase = "misled"
  /\ phase' = "ready"
  /\ letIn' \in {letIn, {}}
  /\ UNCHANGED <<holder, pushed>>

Leave ==
  /\ holder # None
  /\ holder' = None
  /\ phase' = "none"
  /\ UNCHANGED <<pushed, letIn>>

Push(k) ==
  /\ pushed' = pushed \cup {k}
  /\ UNCHANGED <<holder, phase, letIn>>

LetIn(k) ==
  /\ phase = "ready"
  /\ k \in pushed
  /\ letIn' = letIn \cup {k}
  /\ UNCHANGED <<holder, phase, pushed>>

Next ==
  \/ \E p \in Holder : TakeCharge(p)
  \/ GetReady \/ IsMisled \/ StartOver \/ Leave
  \/ \E k \in Key : Push(k) \/ LetIn(k)

Spec == Init /\ [][Next]_vars
=============================================================================
