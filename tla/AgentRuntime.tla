---------------------------- MODULE AgentRuntime ----------------------------
(***************************************************************************)
(* The agent (pkg/agent/agent.go): the loop that keeps a control           *)
(* connection to the hub, and a handleOpen goroutine for every OPEN it     *)
(* receives there.  Such a goroutine dials a tunnel to the hub, then the   *)
(* local sshd, and copies between the two until either ends.  It runs on   *)
(* while the control connection is lost and dialled again.                 *)
(*                                                                         *)
(* A connection is "open", "broken" once its peer has ended it and what it *)
(* sent before has been read, and "closed" once the agent has closed its   *)
(* end.                                                                    *)
(***************************************************************************)
EXTENDS Naturals

CONSTANTS
  Open,       \* the OPEN messages the hub sends, each of them once
  MaxRetries  \* AgentReconnectMaxRetries

ASSUME MaxRetriesType == MaxRetries \in Nat \ {0}

VARIABLES
  main,     \* where Start is
  attempt,  \* its local variable
  link,     \* the control connection
  mail,     \* what has become of an OPEN message
  job,      \* where handleOpen is, for an OPEN
  ws,       \* its tunnel
  local,    \* its connection to sshd
  copy,     \* its two copy goroutines
  once      \* how far its closeOnce has come

linkVars == <<main, attempt, link, mail>>
jobVars  == <<job, ws, local, copy, once>>
vars     == <<linkVars, jobVars>>

\* "up" copies from sshd to the hub, "down" from the hub to sshd.
Direction == {"up", "down"}
Source(m, d)      == IF d = "up" THEN local[m] ELSE ws[m]
Destination(m, d) == IF d = "up" THEN ws[m] ELSE local[m]

Held == {"open", "broken"}  \* the agent has not closed its end

Init ==
  /\ main = "connect"
  /\ attempt = 0
  /\ link = "none"
  /\ mail = [m \in Open |-> "unsent"]
  /\ job = [m \in Open |-> "none"]
  /\ ws = [m \in Open |-> "none"]
  /\ local = [m \in Open |-> "none"]
  /\ copy = [m \in Open |-> [d \in Direction |-> "off"]]
  /\ once = [m \in Open |-> "unused"]

-----------------------------------------------------------------------------
(* Start: dial, read, dial again. *)

Connect ==
  /\ main = "connect"
  /\ main' = "read"
  /\ attempt' = 0
  /\ link' = "open"
  /\ UNCHANGED <<mail, jobVars>>

\* Fault: failures are not counted.
ConnectFailsUncounted ==
  /\ main = "connect"
  /\ attempt + 1 < MaxRetries
  /\ main' = "backoff"
  /\ UNCHANGED <<attempt, link, mail, jobVars>>

\* Fault: one failure too many is allowed.
ConnectFailsLate ==
  /\ main = "connect"
  /\ attempt + 1 <= MaxRetries
  /\ attempt' = attempt + 1
  /\ main' = "backoff"
  /\ UNCHANGED <<link, mail, jobVars>>

ConnectFails ==
  /\ main = "connect"
  /\ attempt + 1 < MaxRetries
  /\ attempt' = attempt + 1
  /\ main' = "backoff"
  /\ UNCHANGED <<link, mail, jobVars>>

BackoffOver ==
  /\ main = "backoff"
  /\ main' = "connect"
  /\ UNCHANGED <<attempt, link, mail, jobVars>>

\* The last failure ends the process, whatever is forwarded at the time: the
\* kernel closes its sockets.
GiveUp ==
  /\ main = "connect"
  /\ attempt + 1 >= MaxRetries
  /\ attempt' = attempt + 1
  /\ main' = "exited"
  /\ job' = [m \in Open |-> IF job[m] = "none" THEN "none" ELSE "returned"]
  /\ ws' = [m \in Open |-> IF ws[m] = "none" THEN "none" ELSE "closed"]
  /\ local' = [m \in Open |-> IF local[m] = "none" THEN "none" ELSE "closed"]
  /\ copy' = [m \in Open |-> [d \in Direction |->
                IF copy[m][d] = "off" THEN "off" ELSE "done"]]
  /\ once' = [m \in Open |-> IF once[m] = "unused" THEN "unused" ELSE "used"]
  /\ UNCHANGED <<link, mail>>

LinkBreaks ==
  /\ link = "open"
  /\ link' = "broken"
  /\ UNCHANGED <<main, attempt, mail, jobVars>>

\* readControl returns: the connection has ended, or a frame was not text.
\* What was under way on it is lost, and Start dials again without a pause.
ControlLost ==
  /\ main = "read"
  /\ link' = "none"
  /\ mail' = [m \in Open |-> IF mail[m] = "sent" THEN "lost" ELSE mail[m]]
  /\ main' = "connect"
  /\ UNCHANGED <<attempt, jobVars>>

\* The hub sends OPEN; it may not know yet that the connection is broken.
HubSends(m) ==
  /\ link \in Held
  /\ mail[m] = "unsent"
  /\ mail' = [mail EXCEPT ![m] = "sent"]
  /\ UNCHANGED <<main, attempt, link, jobVars>>

\* readControl starts a goroutine.
Receive(m) ==
  /\ main = "read"
  /\ mail[m] = "sent"
  /\ mail' = [mail EXCEPT ![m] = "taken"]
  /\ job' = [job EXCEPT ![m] = "dialTunnel"]
  /\ UNCHANGED <<main, attempt, link, ws, local, copy, once>>

-----------------------------------------------------------------------------
(* handleOpen up to the copying: one deadline for the tunnel and the        *)
(* handshake, another one for sshd.                                        *)

JobGoesTo(m, place) == job' = [job EXCEPT ![m] = place]

DialTunnel(m) ==
  /\ job[m] = "dialTunnel"
  /\ ws' = [ws EXCEPT ![m] = "open"]
  /\ JobGoesTo(m, "handshake")
  /\ UNCHANGED <<linkVars, local, copy, once>>

DialTunnelFails(m) ==
  /\ job[m] = "dialTunnel"
  /\ JobGoesTo(m, "returned")
  /\ UNCHANGED <<linkVars, ws, local, copy, once>>

SendHandshake(m) ==
  /\ job[m] = "handshake"
  /\ JobGoesTo(m, "dialLocal")
  /\ UNCHANGED <<linkVars, ws, local, copy, once>>

HandshakeFails(m) ==
  /\ job[m] = "handshake"
  /\ ws' = [ws EXCEPT ![m] = "closed"]
  /\ JobGoesTo(m, "returned")
  /\ UNCHANGED <<linkVars, local, copy, once>>

DialLocal(m) ==
  /\ job[m] = "dialLocal"
  /\ local' = [local EXCEPT ![m] = "open"]
  /\ copy' = [copy EXCEPT ![m] = [d \in Direction |-> "read"]]
  /\ JobGoesTo(m, "copy")
  /\ UNCHANGED <<linkVars, ws, once>>

\* Fault: the tunnel is left open.
DialLocalFailsOpen(m) ==
  /\ job[m] = "dialLocal"
  /\ JobGoesTo(m, "returned")
  /\ UNCHANGED <<linkVars, ws, local, copy, once>>

\* Fault: it is tried again for ever.
DialLocalFailsRetry(m) ==
  /\ job[m] = "dialLocal"
  /\ ws' = [ws EXCEPT ![m] = "closed"]
  /\ JobGoesTo(m, "dialTunnel")
  /\ UNCHANGED <<linkVars, local, copy, once>>

DialLocalFails(m) ==
  /\ job[m] = "dialLocal"
  /\ ws' = [ws EXCEPT ![m] = "closed"]
  /\ JobGoesTo(m, "returned")
  /\ UNCHANGED <<linkVars, local, copy, once>>

-----------------------------------------------------------------------------
(* The peers of a goroutine: the hub and sshd. *)

TunnelBreaks(m) ==
  /\ ws[m] = "open"
  /\ ws' = [ws EXCEPT ![m] = "broken"]
  /\ UNCHANGED <<linkVars, job, local, copy, once>>

LocalBreaks(m) ==
  /\ local[m] = "open"
  /\ local' = [local EXCEPT ![m] = "broken"]
  /\ UNCHANGED <<linkVars, job, ws, copy, once>>

-----------------------------------------------------------------------------
(* The two copy goroutines and the cleanup that the first to end runs.     *)

CopyGoesTo(m, d, place) == copy' = [copy EXCEPT ![m][d] = place]

CopyReads(m, d) ==
  /\ copy[m][d] = "read"
  /\ Source(m, d) = "open"
  /\ CopyGoesTo(m, d, "write")
  /\ UNCHANGED <<linkVars, job, ws, local, once>>

\* The peer has taken what was read, or the kernel has.
CopyWrites(m, d) ==
  /\ copy[m][d] = "write"
  /\ Destination(m, d) \in Held
  /\ CopyGoesTo(m, d, "read")
  /\ UNCHANGED <<linkVars, job, ws, local, once>>

\* A copy notices the end of the connection it is at, not of the other one.
CopyEnds(m, d) ==
  /\ \/ copy[m][d] = "read" /\ Source(m, d) \in {"broken", "closed"}
     \/ copy[m][d] = "write" /\ Destination(m, d) \in {"broken", "closed"}
  /\ CopyGoesTo(m, d, "cleanup")
  /\ UNCHANGED <<linkVars, job, ws, local, once>>

\* Fault: only the copy that handleOpen runs itself cleans up.
CloseTunnelDown(m) ==
  /\ copy[m]["down"] = "cleanup"
  /\ once[m] = "unused"
  /\ ws' = [ws EXCEPT ![m] = "closed"]
  /\ once' = [once EXCEPT ![m] = "half"]
  /\ UNCHANGED <<linkVars, job, local, copy>>

\* closeOnce: the tunnel and then the local connection; closing the tunnel may
\* take its closing handshake.
CloseTunnel(m) ==
  /\ \E d \in Direction : copy[m][d] = "cleanup"
  /\ once[m] = "unused"
  /\ ws' = [ws EXCEPT ![m] = "closed"]
  /\ once' = [once EXCEPT ![m] = "half"]
  /\ UNCHANGED <<linkVars, job, local, copy>>

\* Fault: sshd keeps its connection.
CloseLocalNot(m) ==
  /\ once[m] = "half"
  /\ once' = [once EXCEPT ![m] = "used"]
  /\ UNCHANGED <<linkVars, job, ws, local, copy>>

CloseLocal(m) ==
  /\ once[m] = "half"
  /\ local' = [local EXCEPT ![m] = "closed"]
  /\ once' = [once EXCEPT ![m] = "used"]
  /\ UNCHANGED <<linkVars, job, ws, copy>>

\* The other copy waits for the cleanup, then both return; handleOpen returns
\* with the one it runs itself.
CopyReturns(m, d) ==
  /\ copy[m][d] = "cleanup"
  /\ once[m] = "used"
  /\ CopyGoesTo(m, d, "done")
  /\ job' = IF d = "down" THEN [job EXCEPT ![m] = "returned"] ELSE job
  /\ UNCHANGED <<linkVars, ws, local, once>>

-----------------------------------------------------------------------------
Running == main # "exited"

\* What the agent does on its own; dials and the handshake have deadlines.
Dialling == Connect \/ ConnectFails \/ GiveUp \/ BackoffOver
Opening(m) ==
  \/ DialTunnel(m) \/ DialTunnelFails(m)
  \/ SendHandshake(m) \/ HandshakeFails(m)
  \/ DialLocal(m) \/ DialLocalFails(m)
Closing(m) == CloseTunnel(m) \/ CloseLocal(m)

Next ==
  \/ Dialling \/ LinkBreaks \/ ControlLost
  \/ \E m \in Open :
       \/ HubSends(m) \/ Receive(m)
       \/ Opening(m) \/ TunnelBreaks(m) \/ LocalBreaks(m)
       \/ Closing(m)
       \/ \E d \in Direction : \/ CopyReads(m, d) \/ CopyWrites(m, d)
                               \/ CopyEnds(m, d) \/ CopyReturns(m, d)

Spec == Init /\ [][Next]_vars

\* Goroutines go on when they can, and dials end by their deadlines.  Peers
\* owe nothing but to take what is written to them (CopyWrites): a sshd that
\* never reads would hold a copy, and with it the end of its tunnel, for ever.
Fairness ==
  /\ WF_vars(Dialling)
  /\ WF_vars(link = "broken" /\ ControlLost)
  /\ \A m \in Open :
       /\ WF_vars(Receive(m))
       /\ WF_vars(Opening(m))
       /\ WF_vars(Closing(m))
       /\ \A d \in Direction : /\ WF_vars(CopyWrites(m, d))
                               /\ WF_vars(CopyEnds(m, d))
                               /\ WF_vars(CopyReturns(m, d))

FairSpec == Spec /\ Fairness

-----------------------------------------------------------------------------
(* Properties. *)

\* The values every variable ranges over.
TypeOK ==
  /\ main \in {"connect", "backoff", "read", "exited"}
  /\ attempt \in 0 .. MaxRetries
  /\ link \in {"none", "open", "broken"}
  /\ mail \in [Open -> {"unsent", "sent", "taken", "lost"}]
  /\ job \in [Open -> {"none", "dialTunnel", "handshake", "dialLocal", "copy", "returned"}]
  /\ ws \in [Open -> {"none", "open", "broken", "closed"}]
  /\ local \in [Open -> {"none", "open", "broken", "closed"}]
  /\ copy \in [Open -> [Direction -> {"off", "read", "write", "cleanup", "done"}]]
  /\ once \in [Open -> {"unused", "half", "used"}]

\* When handleOpen has returned, by any of its exits or with the process, the
\* agent holds neither its tunnel nor its connection to sshd.
NothingLeaks ==
  \A m \in Open : job[m] = "returned" => ws[m] \notin Held /\ local[m] \notin Held

\* A login at sshd has a tunnel behind it, but for the moment in which the
\* cleanup has closed the one and not yet the other (handleOpen).
LoginHasTunnel ==
  \A m \in Open : local[m] \in Held => ws[m] \in Held \/ once[m] = "half"

\* "Either side ends: close both": whichever end goes, in whatever state the
\* two copies are, both connections are closed in the end (handleOpen).
EndsTogether ==
  \A m \in Open : ws[m] = "broken" \/ local[m] = "broken" ~>
                    ws[m] = "closed" /\ local[m] \in {"none", "closed"}

\* An agent that lost its control connection has another one in the end, or
\* gives up: it is never left running out of reach (Start).
Reconnects == link = "broken" ~> link = "open" \/ main = "exited"

-----------------------------------------------------------------------------
(* The inductive invariant. *)

\* Start reads exactly while there is a control connection, and nothing is
\* under way without one.  The attempts last until the process gives up.
LinkStage ==
  /\ main = "read" <=> link # "none"
  /\ main # "exited" => attempt < MaxRetries
  /\ \A m \in Open : mail[m] = "sent" => main = "read"

\* What handleOpen holds at each place.
JobStage ==
  \A m \in Open :
    /\ mail[m] = "taken" <=> job[m] # "none"
    /\ main = "exited" => job[m] \in {"none", "returned"}
    /\ job[m] \in {"none", "dialTunnel"} => ws[m] = "none"
    /\ job[m] \in {"handshake", "dialLocal"} => ws[m] \in Held
    /\ job[m] \notin {"copy", "returned"} =>
         /\ local[m] = "none" /\ once[m] = "unused"
         /\ \A d \in Direction : copy[m][d] = "off"
    /\ job[m] = "copy" =>
         /\ once[m] = "unused" => ws[m] \in Held /\ local[m] \in Held
         /\ once[m] = "half" => ws[m] = "closed" /\ local[m] \in Held
         /\ once[m] = "used" => ws[m] = "closed" /\ local[m] = "closed"
    /\ job[m] = "returned" =>
         /\ ws[m] \notin Held /\ local[m] \notin Held /\ once[m] # "half"
         /\ \/ once[m] = "used"
            \/ \A d \in Direction : copy[m][d] \in {"off", "done"}

AgentInv == TypeOK /\ LinkStage /\ JobStage
=============================================================================
