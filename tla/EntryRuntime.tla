---------------------------- MODULE EntryRuntime -----------------------------
(***************************************************************************)
(* An entry process (pkg/entry): Start, which picks an agent, pushes its   *)
(* key, makes the host key known and listens; handleConn for every client; *)
(* the test client it starts itself; and the agents the hub lists.  The    *)
(* process may die at any step and is started again.  Another entry of the *)
(* same user may be started on the same port: it writes known_hosts, too,  *)
(* before it finds that it cannot listen.                                  *)
(***************************************************************************)
EXTENDS KeyFile

CONSTANTS
  Agent,      \* names of agents
  Conn,       \* connections of clients at a time
  HostKey,    \* the known_hosts line of the agents' common host key
  InitHosts,  \* what known_hosts may contain at first
  MaxStarts,  \* bound: how often the process, or another on its port, is started
  None

ASSUME NamesApart == None \notin Agent /\ HostKey \notin {NL, Torn}
ASSUME StartsAreNumber == MaxStarts \in Nat
ASSUME InitHostsType ==
  \A f \in InitHosts : /\ f \in Seq({HostKey, NL, Torn})
                       /\ \A i, j \in 1 .. Len(f) - 1 :
                            f[i] = HostKey /\ f[i + 1] = NL /\ f[j] = HostKey /\ f[j + 1] = NL
                            => i = j

VARIABLES
  listed,   \* the agents in the answer of ListAgents
  forgot,   \* whether a restart of the hub has lost one
  name,     \* AgentName of the configuration
  starts,   \* how often the process, or another one on its port, was started
  pc,       \* where Start is
  chosen,   \* the agent it has picked
  hosts,    \* known_hosts
  ensured,  \* whether ensureKnownHost has returned nil
  rival,    \* where another entry on the port is in its own ensureKnownHost
  overlooked, \* whether one of them went on to write a line that was there, because
              \* its read failed, or that the other was about to write
  test,     \* testSSHConnectivity, and the connection it uses
  cpc,      \* where handleConn of a connection is
  to,       \* the agent it has picked, while it runs
  ws,       \* its websocket to the hub
  local,    \* its connection to the client
  up        \* its goroutine that copies from the client to the hub

hubVars   == <<listed, forgot>>
hostVars  == <<hosts, ensured, rival, overlooked>>
startVars == <<starts, pc, chosen, hostVars>>
connVars  == <<cpc, to, ws, local, up>>
vars      == <<hubVars, name, startVars, test, connVars>>

Init ==
  /\ listed \in SUBSET Agent
  /\ forgot = FALSE
  /\ name \in Agent \cup {None}
  /\ starts = 0
  /\ pc = "down"
  /\ chosen = None
  /\ hosts \in InitHosts
  /\ ensured = FALSE
  /\ rival = "off"
  /\ overlooked = FALSE
  /\ test = "none"
  /\ cpc = [c \in Conn |-> "none"]
  /\ to = [c \in Conn |-> None]
  /\ ws = [c \in Conn |-> "none"]
  /\ local = [c \in Conn |-> "none"]
  /\ up = [c \in Conn |-> "none"]

-----------------------------------------------------------------------------
(* The hub. *)

AgentRegisters(a) ==
  /\ a \notin listed
  /\ listed' = listed \cup {a}
  /\ UNCHANGED <<forgot, name, startVars, test, connVars>>

\* It knows the agents that its mapping file has, and the file may have lost some.
HubRestarts ==
  /\ listed' \in SUBSET listed
  /\ forgot' = (forgot \/ listed' # listed)
  /\ ws' = [c \in Conn |-> IF ws[c] = "open" THEN "broken" ELSE ws[c]]
  /\ UNCHANGED <<name, startVars, test, cpc, to, local, up>>

\* Fault: without a name, any agent will do.
PickAny(a) == a \in listed /\ (name # None => a = name)

\* pickAgent: a name must be listed, and without a name just one may be.
Pick(a) == a \in listed /\ IF name = None THEN listed = {a} ELSE a = name

-----------------------------------------------------------------------------
(* Start. *)

StartPicks(a) ==
  /\ pc = "down"
  /\ starts < MaxStarts
  /\ Pick(a)
  /\ starts' = starts + 1
  /\ pc' = "key"
  /\ chosen' = a
  /\ UNCHANGED <<hubVars, name, hostVars, test, connVars>>

\* Without a key the entry neither pushes it nor looks at known_hosts.
ReadKey ==
  /\ pc = "key"
  /\ pc' \in {"push", "listen"}
  /\ UNCHANGED <<hubVars, name, starts, chosen, hostVars, test, connVars>>

\* That the key was not pushed is logged.
PushKey ==
  /\ pc = "push"
  /\ pc' = "look"
  /\ UNCHANGED <<hubVars, name, starts, chosen, hostVars, test, connVars>>

\* Fault: the line is not looked for.
LookNowhere ==
  /\ pc = "look"
  /\ pc' = "append"
  /\ UNCHANGED <<hubVars, name, starts, chosen, hostVars, test, connVars>>

\* ensureKnownHost goes on to write the line when it has not read it: the file has
\* no such line, or the read failed.
GoesOnToAppend(other) ==
  overlooked' = (overlooked \/ other = "append" \/ ContainsLine(hosts, HostKey))

\* ensureKnownHost finds the line, or writes it next, or has no directory for it.
LookForHost ==
  /\ pc = "look"
  /\ \/ /\ ContainsLine(hosts, HostKey)
        /\ pc' = "listen"
        /\ ensured' = TRUE
        /\ UNCHANGED overlooked
     \/ /\ GoesOnToAppend(rival)
        /\ pc' = "append"
        /\ UNCHANGED ensured
     \/ /\ pc' = "listen"
        /\ UNCHANGED <<ensured, overlooked>>
  /\ UNCHANGED <<hubVars, name, starts, chosen, hosts, rival, test, connVars>>

AppendHost ==
  /\ pc = "append"
  /\ hosts' = hosts \o Line(HostKey)
  /\ ensured' = TRUE
  /\ pc' = "listen"
  /\ UNCHANGED <<hubVars, name, starts, chosen, rival, overlooked, test, connVars>>

\* Fault: nobody asks whether the line was written.
AppendHostFailsUnseen ==
  /\ pc = "append"
  /\ \E piece \in PartOfLine(HostKey) : hosts' = hosts \o piece
  /\ ensured' = TRUE
  /\ pc' = "listen"
  /\ UNCHANGED <<hubVars, name, starts, chosen, rival, overlooked, test, connVars>>

AppendHostFails ==
  /\ pc = "append"
  /\ \E piece \in PartOfLine(HostKey) : hosts' = hosts \o piece
  /\ pc' = "listen"
  /\ UNCHANGED <<hubVars, name, starts, chosen, ensured, rival, overlooked, test, connVars>>

\* The other entry has not found the line.
RivalLooks ==
  /\ rival = "off"
  /\ starts < MaxStarts
  /\ starts' = starts + 1
  /\ GoesOnToAppend(pc)
  /\ rival' = "append"
  /\ UNCHANGED <<hubVars, name, pc, chosen, hosts, ensured, test, connVars>>

\* It writes the line, or a part, and ends for want of the port, or was killed.
RivalAppends ==
  /\ rival = "append"
  /\ \E piece \in PartOfLine(HostKey) \cup {Line(HostKey)} : hosts' = hosts \o piece
  /\ rival' = "off"
  /\ UNCHANGED <<hubVars, name, starts, pc, chosen, ensured, overlooked, test, connVars>>

Listen ==
  /\ pc = "listen"
  /\ pc' = "serve"
  /\ test' = "due"
  /\ UNCHANGED <<hubVars, name, starts, chosen, hostVars, connVars>>

\* The process ends with all its connections: Listen or Accept fails, and
\* runEntry panics, or it is killed; a line it was writing may stay a part.
Ends ==
  /\ pc # "down"
  /\ \/ pc = "append" /\ \E piece \in PartOfLine(HostKey) : hosts' = hosts \o piece
     \/ UNCHANGED hosts
  /\ pc' = "down"
  /\ chosen' = None
  /\ ensured' = FALSE
  /\ test' = "none"
  /\ cpc' = [c \in Conn |-> "none"]
  /\ ws' = [c \in Conn |-> "none"]
  /\ local' = [c \in Conn |-> "none"]
  /\ up' = [c \in Conn |-> "none"]
  /\ to' = [c \in Conn |-> None]
  /\ UNCHANGED <<hubVars, name, starts, rival, overlooked>>

-----------------------------------------------------------------------------
(* Clients. *)

\* Fault: the entry listens before it pushes its key.
AcceptsEarly(c) ==
  /\ pc # "down"
  /\ cpc[c] = "none"
  /\ cpc' = [cpc EXCEPT ![c] = "pick"]
  /\ local' = [local EXCEPT ![c] = "open"]
  /\ UNCHANGED <<hubVars, name, startVars, to, ws, up>>

Accepts(c) ==
  /\ pc = "serve"
  /\ cpc[c] \in {"none", "done"}
  /\ up[c] \in {"none", "closed"}
  /\ cpc' = [cpc EXCEPT ![c] = "pick"]
  /\ local' = [local EXCEPT ![c] = "open"]
  /\ ws' = [ws EXCEPT ![c] = "none"]
  /\ up' = [up EXCEPT ![c] = "none"]
  /\ UNCHANGED <<hubVars, name, startVars, to>>

Accept(c) == Accepts(c) /\ test # c /\ UNCHANGED test

\* testSSHConnectivity is a client like any other, but for its patience.
TestDials(c) ==
  /\ test = "due"
  /\ Accepts(c)
  /\ test' = c

ClientLeaves(c) ==
  /\ local[c] = "open"
  /\ test # c
  /\ local' = [local EXCEPT ![c] = "ended"]
  /\ UNCHANGED <<hubVars, name, startVars, test, cpc, to, ws, up>>

\* The test has run its command, or its connection was closed.
TestReturns(c) ==
  /\ test = c
  /\ \/ cpc[c] = "copy" /\ ws[c] = "open"
     \/ local[c] = "closed"
  /\ test' = "done"
  /\ local' = [local EXCEPT ![c] = IF @ = "open" THEN "ended" ELSE @]
  /\ UNCHANGED <<hubVars, name, startVars, cpc, to, ws, up>>

-----------------------------------------------------------------------------
(* handleConn. *)

Reaches(c, from, place) ==
  /\ cpc[c] = from
  /\ cpc' = [cpc EXCEPT ![c] = place]

Keeps == UNCHANGED <<hubVars, name, startVars, test>>

ConnPicks(c, a) ==
  /\ Reaches(c, "pick", "dial")
  /\ Pick(a)
  /\ to' = [to EXCEPT ![c] = a]
  /\ Keeps /\ UNCHANGED <<ws, local, up>>

PickFails(c) ==
  /\ Reaches(c, "pick", "closeLocal")
  /\ Keeps /\ UNCHANGED <<to, ws, local, up>>

\* The hub may take any time to answer.
Dial(c) ==
  /\ Reaches(c, "dial", "hello")
  /\ ws' = [ws EXCEPT ![c] = "open"]
  /\ Keeps /\ UNCHANGED <<to, local, up>>

DialFails(c) ==
  /\ Reaches(c, "dial", "closeLocal")
  /\ Keeps /\ UNCHANGED <<to, ws, local, up>>

\* Both copies begin.
SendHello(c) ==
  /\ Reaches(c, "hello", "copy")
  /\ up' = [up EXCEPT ![c] = "copy"]
  /\ Keeps /\ UNCHANGED <<to, ws, local>>

\* Fault: ws.Close is deferred after the handshake.
HelloFailsOpen(c) ==
  /\ Reaches(c, "hello", "closeLocal")
  /\ Keeps /\ UNCHANGED <<to, ws, local, up>>

HelloFails(c) ==
  /\ Reaches(c, "hello", "closeWs")
  /\ ws[c] # "open"
  /\ Keeps /\ UNCHANGED <<to, ws, local, up>>

TunnelBreaks(c) ==
  /\ ws[c] = "open"
  /\ ws' = [ws EXCEPT ![c] = "broken"]
  /\ Keeps /\ UNCHANGED <<cpc, to, local, up>>

\* The copy from the hub reads a websocket that has gone.
DownEnds(c) ==
  /\ Reaches(c, "copy", "closeWs")
  /\ ws[c] # "open"
  /\ Keeps /\ UNCHANGED <<to, ws, local, up>>

\* Or it has something to write to a client that has.
DownWriteFails(c) ==
  /\ Reaches(c, "copy", "closeWs")
  /\ local[c] = "ended"
  /\ Keeps /\ UNCHANGED <<to, ws, local, up>>

CloseWs(c) ==
  /\ Reaches(c, "closeWs", "closeLocal")
  /\ ws' = [ws EXCEPT ![c] = "closed"]
  /\ Keeps /\ UNCHANGED <<to, local, up>>

CloseLocal(c) ==
  /\ Reaches(c, "closeLocal", "done")
  /\ local' = [local EXCEPT ![c] = "closed"]
  /\ to' = [to EXCEPT ![c] = None]
  /\ Keeps /\ UNCHANGED <<ws, up>>

\* The copy to the hub reads from a client that has gone.
UpEnds(c) ==
  /\ up[c] = "copy"
  /\ local[c] # "open"
  /\ up' = [up EXCEPT ![c] = "ending"]
  /\ Keeps /\ UNCHANGED <<cpc, to, ws, local>>

\* Or it has something to write to a websocket that has.
UpWriteFails(c) ==
  /\ up[c] = "copy"
  /\ ws[c] # "open"
  /\ up' = [up EXCEPT ![c] = "ending"]
  /\ Keeps /\ UNCHANGED <<cpc, to, ws, local>>

\* Fault: the goroutine leaves the websocket open.
UpLeaves(c) ==
  /\ up[c] = "ending"
  /\ up' = [up EXCEPT ![c] = "closed"]
  /\ Keeps /\ UNCHANGED <<cpc, to, ws, local>>

UpCloses(c) ==
  /\ up[c] = "ending"
  /\ up' = [up EXCEPT ![c] = "closed"]
  /\ ws' = [ws EXCEPT ![c] = "closed"]
  /\ Keeps /\ UNCHANGED <<cpc, to, local>>

-----------------------------------------------------------------------------
Start ==
  \/ \E a \in Agent : StartPicks(a)
  \/ ReadKey \/ PushKey \/ LookForHost \/ AppendHost \/ AppendHostFails \/ Listen \/ Ends

HandleConn(c) ==
  \/ Accept(c) \/ \E a \in Agent : ConnPicks(c, a)
  \/ PickFails(c) \/ Dial(c) \/ DialFails(c) \/ SendHello(c) \/ HelloFails(c)
  \/ DownEnds(c) \/ DownWriteFails(c) \/ CloseWs(c) \/ CloseLocal(c)
  \/ UpEnds(c) \/ UpWriteFails(c) \/ UpCloses(c)

Outside(c) == TestDials(c) \/ TestReturns(c) \/ ClientLeaves(c) \/ TunnelBreaks(c)

Next ==
  \/ Start
  \/ \E c \in Conn : HandleConn(c) \/ Outside(c)
  \/ \E a \in Agent : AgentRegisters(a)
  \/ HubRestarts \/ RivalLooks \/ RivalAppends

Spec == Init /\ [][Next]_vars

\* What a copy writes is taken in the end, so that it gets back to its read, and
\* the read returns when its connection has gone; closing does not block.  No
\* dial has to come to an end, and no client to leave.
Fairness ==
  \A c \in Conn : /\ WF_vars(DownEnds(c) \/ CloseWs(c) \/ CloseLocal(c))
                  /\ WF_vars(UpEnds(c) \/ UpCloses(c))

FairSpec == Spec /\ Fairness

-----------------------------------------------------------------------------
(* Properties. *)

\* The values every variable ranges over; clients come only after the key was
\* pushed and the host made known, or both given up (Start).
TypeOK ==
  /\ listed \in SUBSET Agent
  /\ forgot \in BOOLEAN
  /\ name \in Agent \cup {None}
  /\ starts \in 0 .. MaxStarts
  /\ pc \in {"down", "key", "push", "look", "append", "listen", "serve"}
  /\ chosen \in Agent \cup {None}
  /\ hosts \in Seq({HostKey, NL, Torn})
  /\ ensured \in BOOLEAN
  /\ rival \in {"off", "append"}
  /\ overlooked \in BOOLEAN
  /\ test \in {"none", "due", "done"} \cup Conn
  /\ cpc \in [Conn -> {"none", "pick", "dial", "hello", "copy", "closeWs",
                       "closeLocal", "done"}]
  /\ \A c \in Conn : cpc[c] # "none" => pc = "serve"
  /\ to \in [Conn -> Agent \cup {None}]
  /\ ws \in [Conn -> {"none", "open", "broken", "closed"}]
  /\ local \in [Conn -> {"none", "open", "ended", "closed"}]
  /\ up \in [Conn -> {"none", "copy", "ending", "closed"}]

\* Every client is led to the agent that the key was pushed to, although
\* handleConn picks one anew and agents come in the meantime; only a hub that
\* has lost an agent from its mapping may mislead an entry without a name.
SteadyAgent ==
  \A c \in Conn : to[c] # None /\ ~forgot => to[c] = chosen

\* The line is in known_hosts once, whatever earlier starts of the entry have
\* left there and whatever another one writes (ensureKnownHost, "so that it is not
\* written twice"), unless a read of the file failed or both were about to write.
HostOnce ==
  \A i, j \in 1 .. Len(hosts) - 1 :
    hosts[i] = HostKey /\ hosts[i + 1] = NL /\ hosts[j] = HostKey /\ hosts[j + 1] = NL
    => i = j \/ overlooked

\* When ensureKnownHost returns nil, and no line of known_hosts was ever cut off,
\* ssh finds the host key there.
HostFound == ensured /\ Lined(hosts) => WholeLine(hosts, HostKey)

\* A line of known_hosts is left without its end only when ensureKnownHost does
\* not return nil, or by the other entry.
LinesEnded ==
  [][Lined(hosts) => \/ Lined(hosts')
                     \/ pc = "append" /\ ~ensured'
                     \/ rival = "append"]_vars

\* When handleConn has returned, on whichever path, nothing is left open.
NothingLeaks ==
  \A c \in Conn : cpc[c] = "done" => ws[c] \in {"none", "closed"} /\ local[c] = "closed"

\* If either side of a forwarding goes, the other one is closed, and both
\* copies end (the Close calls of handleConn and its goroutine).
EndsTogether ==
  \A c \in Conn : cpc[c] = "copy" /\ (local[c] # "open" \/ ws[c] # "open")
                  ~> cpc[c] \in {"done", "none"} /\ up[c] \in {"closed", "none"}

\* What the comment at ensureKnownHost promises: when it returns nil, ssh finds
\* the host key in known_hosts.
HostKnown == ensured => WholeLine(hosts, HostKey)
=============================================================================
