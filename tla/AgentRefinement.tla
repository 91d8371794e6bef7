--------------------------- MODULE AgentRefinement ---------------------------
(***************************************************************************)
(* The agent keeps the promise of Rendezvous to the OPEN messages of the   *)
(* hub: a client is a message, its partner the goroutine it starts.        *)
(***************************************************************************)
EXTENDS AgentRuntime

CONSTANT None

ASSUME NoneApart == None \notin Open

\* A message waits until both connections are there, and is over as soon as one
\* of them is closed.
MessageState ==
  [m \in Open |->
    CASE mail[m] = "unsent" -> "absent"
      [] mail[m] = "sent"   -> "waiting"
      [] mail[m] = "lost"   -> "gone"
      [] OTHER              ->
           IF job[m] = "copy" /\ once[m] = "unused" THEN "joined"
           ELSE IF job[m] \in {"copy", "returned"} THEN "gone" ELSE "waiting"]

StartedFor == [m \in Open |-> IF mail[m] = "taken" THEN m ELSE None]

ServedBy == [m \in Open |-> IF MessageState[m] = "joined" THEN m ELSE None]

R == INSTANCE Rendezvous WITH Client <- Open, Partner <- Open,
                              state <- MessageState, cameFor <- StartedFor,
                              partner <- ServedBy

\* An OPEN is answered at most once, by the goroutine started for it, and what
\* is over stays over, while control connections come and go.
AnswersOpens == R!Spec

\* The same with the promise that no OPEN is left undecided.
AnswersOpensInTime == R!FairSpec
=============================================================================
