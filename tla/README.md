# Verification of sshole

sshole makes an SSH server behind NAT reachable.  An *agent* on the host keeps
one control websocket open to a *hub*; an SSH client connects to a TCP port of
the hub (its *hubPort*), or through an *entry* on its own machine; the hub asks
the agent, over the control websocket, to dial back; the two connections are
joined.  This directory holds TLA+ models of that program, the TLC
configurations that check them and theorems about them that TLAPS checks.

Run, in this directory: `tlc -config <run>.cfg <MC module>.tla` for a run of
`PROJECT.json`, `tlapm <module>.tla` for the proofs.

## 1. Inventory

### Hub sessions — `pkg/hub/hub.go`, `tunnel_ws.go`, `session.go`

State: `h.pending` (session id → `PendingSession`), and in each session a
`State`, the `SSHConn` or `EntryWS` that made it and the `Tunnel` bound to it;
the stacks of the goroutines.  Operations: `onSSHConn` (files a session, sends
OPEN, marks it OPEN_SENT, starts a timer), `handleTunnelWS` (checks the
handshake; binds a dial-back to a session, or makes an entry's session),
`bindTunnel`, `startForwarding`, `startWebSocketForwarding`,
`watchPendingTimeout`, `waitForAgentAndForward`, `cleanupPending`.

Hard: up to five goroutines work on one session, and nearly every decision is
taken in one critical section and acted upon in a later one.  OPEN leaves before
the state says so.  Sessions are found by id, and an id may come back.  Panics
end the process in a goroutine of `servePort` but not in an HTTP handler.

Correct when: a connection is joined only with a tunnel of its id and agent; a
stream has one reader; each connection is joined or closed, once; nothing stays
open once its session is forgotten.

### Hub registry — `agent_ws.go`, `hub.go` (65-177, 333-352), `mapping.go`

State: `h.agents`, `h.ports`, `h.listeners`, the `AgentState` objects
(`HubPort`, `Control`), the mapping file.  Operations: `loadMapping`,
`startPortListeners`, `handleAgentWS` (look up, register, listen, save, accept,
read until it ends, clear `Control`), `findAvailablePort`, `saveMapping`.

Hard: lookup and registration are two critical sections, saving is in none; the
file is truncated and rewritten in place by several handlers; an old control
connection ends after a new one has begun; the process may die anywhere.

Correct when: a port leads to the agent it was given to, and after a restart
to the agent that the file has it for; whoever is called online has a live control connection.

### Agent runtime — `pkg/agent/agent.go`, `config.go`

State: the control websocket and the count of failed attempts; in each
`handleOpen` goroutine a tunnel, a connection to sshd, two copies and their
`closeOnce`.  Operations: `Start` (dial, read, dial again or exit),
`readControl` (a goroutine for each OPEN, ADD_KNOWN_HOST in line), `handleOpen`.

Hard: goroutines outlive the control connection they came from; each step of a
dial-back may fail after others have opened something; the copy that ends first
closes both connections under the other, which may be stuck in a read or write.

Correct when: every OPEN that arrives is answered or given up, nothing stays
open after it, a login and its tunnel end together, and an agent that lost its
hub finds it again or exits.

### Agent host services and Hub RPC — `sshd.go`, `known_hosts.go`, `lock*.go`, `rpc.go`

State: `agent.lock`, the port of sshd, `~/.sshole/authorized_keys`, and what is
on its way over a control connection.  Operations: `AcquireInstanceLock`,
`ensureSSHD` with `ensureAuthorizedKeysFile`, `appendAuthorizedKey`,
`AppendKnownHost`, `ListAgents`.

Hard: a key and the login that needs it are two messages; the RPC reads
`Control` twice; the file is looked at in one step and truncated, or appended
to, in another; processes die in the middle of a line, and another one starts
while the last one ends.

Correct when: a key is written before the login it came ahead of, once, and a
line that was whole stays; sshd belongs to the process that holds the lock.

### Entry runtime — `pkg/entry/entry.go`

State: the agent it has picked, `~/.ssh/known_hosts`, and for each client a
websocket, the client's connection and two copies.  Operations: `Start`,
`pickAgent`, `appendKnownHost`, `ensureKnownHost`, `handleConn`,
`testSSHConnectivity`.

Hard: the agent is picked once for the key and again for each client, from a
list that changes; known_hosts outlives the process that was writing to it; two
copies end in either order.

Correct when: every client goes to the agent that has the key; the known_hosts
line is written once, and ssh finds it; both sides of a forwarding end together.

### Tunnel handshake — `pkg/tunnel/handshake.go`

State: none but the first message of a tunnel.  Operations:
`SessionIDTo16Bytes`, `BuildHandshake`, `SendHandshake`, `ReadHandshake`,
`ValidateHandshake`.  Hard: one ID may be written in several ways; data follow
at once.  Correct when: two ends agree exactly if they have the same session,
and no data are taken for a handshake or lost after it.

### The other parts

Hub configuration and HTTP wiring, common types and timeouts, generated RPC
code, build and end-to-end scripts have no state of their own.
`pkg/utils/exec.go` and `ssh.go` are called by nothing in the repository.

Components meet at four places: the websocket `/agent` (OPEN and ADD_KNOWN_HOST
messages, one way), the websocket `/tunnel` (handshake, then bytes), the TCP
ports, and the lock `h.mu` that sessions and registry share.  `AgentState` is
written by the registry and read, mostly outside the lock, by sessions.

## 2. The models and how they follow the code

| module | what it is |
| --- | --- |
| `HubSession` | sessions of the hub: goroutines as program counters |
| `Rendezvous` | what the hub promises a TCP client, without any of the mechanism |
| `HubSessionRefinement` | the refinement mapping from `HubSession` to `Rendezvous` |
| `HubSessionInvariant` | the inductive invariant of the proofs |
| `HubSessionClaims` | what design documents say and the code does not do |
| `HubSessionProofs`, `HubSessionStepProofs`, `HubSessionRefinementProofs` | theorems |
| `HubRegistry` | registry, control connections, mapping file, crash and restart |
| `PortDirectory` | what the hub promises about ports, over all its lives |
| `AgentPresence` | what the sessions of the hub take for granted of its registry |
| `HubRegistryRefinement` | the refinement mappings from `HubRegistry` to both |
| `HubRegistryInvariant`, `HubRegistryClaims`, `HubRegistryProofs` | as for `HubSession` |
| `AgentRuntime` | the agent's control loop and its dial-backs |
| `AgentRefinement` | the refinement mapping from `AgentRuntime` to `Rendezvous` |
| `AgentProofs` | theorems about both |
| `KeyFile` | text files with one key a line, and lines that are cut off |
| `KeyDelivery` | agent processes of a host, their lock, sshd and authorized_keys; the RPC and the logins |
| `AuthorizedKeys` | what the agents of a host promise about who may log in |
| `KeyDeliveryRefinement` | the refinement mapping from `KeyDelivery` to it |
| `EntryRuntime` | an entry process and its clients |
| `Handshake` | the handshake of a tunnel |
| `KeyDeliveryProofs`, `EntryProofs`, `HandshakeProofs` | theorems about them |
| `MCHubSession`, `MCHubRegistry`, `MCKeyDelivery`, `MCEntryRuntime`, `MCHandshake` | instances for TLC |

### HubSession

Every goroutine is a program counter, and a step is what the goroutine does
between two points where another can interfere: a critical section of `h.mu`,
one read without the lock, one send, one close.  `spc` is `onSSHConn`, `hpc` and
`hobj` are `handleTunnelWS` with its local `p`, `watch` is
`watchPendingTimeout`, `wait` is `waitForAgentAndForward`, `fwd` the copy
goroutines.  `pending`, `pstate`, `ptunnel` are the map and the fields of its
objects.  Objects are named by the connection that created them (a TCP
connection or the websocket of an entry), because two objects may be filed under
one id in turn; that a uuid is fresh is why the session id of a TCP connection
is the connection.  `readers` counts the pairs of copy goroutines at a
connection.

* `AcceptSSH`, `SendOpen`, `MarkOpenSent` are the three parts of `onSSHConn`;
  `SendOpenNil` is the nil dereference when `Control` has been cleared since
  the check, `SendOpenFails` the write that returns an error, whether or not
  the message has left by then.
* `Dial` is a request that passed the header checks: `DialBack` by an agent
  that got OPEN, `EntryDial` by an entry, `UnsolicitedDial` anything else with
  an id that has left the hub (a second answer, another agent).  The last is
  possible only when the constant `Unsolicited` is TRUE.
* `Lookup`, then `BindSSH`/`BindSSHFails`, `Mismatch`, `StartForwarding`; or
  `BindEntry`; or `CreateEntry`, `ReadControl`, `SendEntryOpen`,
  `MarkEntryOpenSent`: the three branches of `handleTunnelWS`.
* `WatchExpire` reads the state, `WatchCleanup` acts on it later: two steps
  because the code reads `p.State` without the lock.
* `CleanupPending` is `cleanupPending`, with its lookup by id.
* `PipeEnd`, `PipeCloseTunnel`, `PipeCleanup` and `EntryPipeEnd`,
  `EntryPipeCloseTunnel` are the `sync.Once` cleanups of the two kinds of copy
  goroutines, one call after the other.

Bytes, close codes, logging, HTTP header checks and durations are left out:
timers may fire at any time once they are armed.

### HubRegistry

`agents`, `ports`, `hubPort`, `control` are the maps and the fields of
`AgentState`; objects are named by what made them (the loaded agent, or the
connection whose handler registered it), as registration may replace one.
`listener` is `h.listeners` with the agent its `servePort` serves.  The file is
missing, torn or whole, says `fileMap` when it is whole, and `fileSpan` tells
how long its text is, by the agents named in it: a text that names more is
longer; two that name different agents compare either way.

`Check` and the two `Register` actions are the two critical sections of
`handleAgentWS`.  `WalkBegin`, `WalkVisit`, `WalkEnd` are the range loop of
`saveMapping`, which need not see what is registered during the walk;
`RegisterFatal` is the runtime's fatal error for that race, which it reports
only when it notices.  `Truncate` and `Write` are the two halves of
`os.WriteFile`; an older, shorter text over a longer one leaves no JSON, and a
write that fails may leave a part of a text of any length.
`RegisterDeaf`, `OpenFails`, `WriteFails` are the error paths, possible when
`Failures` is TRUE.  `Crash` ends the process and empties everything but the
file, in which all that was written stays: a machine that stops, with writes
not yet on its disk (`os.WriteFile` does not sync), is not modelled.  `Start`
loads the file, or refuses it.  Names of agents and the JSON text are
abstracted; token checks change no state.

Sessions and registry are separate modules because they share only `Control`,
the listeners and the lock.  `HubSession` has a hubPort's agent as a constant
(`PortAgent`) and `Control` as a flag for each agent, which `AgentConnect` and
`AgentGone` change at any time, one agent at a time.  That this is all a session
can see of the registry is `AgentPresence`: an agent is online if its state has
a control connection, an owner is whom a listener serves, and both change only
as `AgentPresence` allows, for one life of the hub, which is what `HubSession`
models.  One thing it allows is worth knowing: an agent that is connected goes
offline when a second handler registers it anew (`Admit`).

`PortDirectory` is the promise to users, over all lives of the hub.  In one life
a port is given to one agent and stays with it.  An agent that a start has found
in the file (`sure`) has its port in every later life, unless the file is left
missing or torn, which no start gets over.  An agent that no restart has seen yet
has no such promise: a save may fail, or lose it, and once the hub has crashed
its port goes to whoever registers next, though the agent was told it before.
While the process runs, what is given is `h.ports` and what an agent is told is
the `HubPort` of its state; while it does not, both are what the file says.

### AgentRuntime

`main` and `attempt` are `Start` and its local variable, `link` the control
connection, `mail` what became of an OPEN the hub sent.  For an OPEN, `job` is
where its `handleOpen` is, `ws` and `local` are its two connections, `copy` its
two copies (reading, writing, in `cleanup`, done), `once` how far `closeOnce`
has come.  A connection is broken once its peer has ended it and closed once the
agent has.

* `Connect`, `ConnectFails`, `BackoffOver`, `GiveUp`, `ControlLost` are the loop
  of `Start`.  `GiveUp` ends the process (`runAgent` panics) and with it
  everything the process held, whatever is being forwarded.
* `LinkBreaks`, `TunnelBreaks`, `LocalBreaks` are the peers; `HubSends` is
  `sendOpen`, which may still write to a connection that is broken.
* `DialTunnel`, `SendHandshake`, `DialLocal` and their failures are the exits of
  `handleOpen`, in order; the deadlines are what makes them fair.
* `CopyReads`, `CopyWrites`, `CopyEnds` are `ioCopy`: a copy notices the end of
  the connection it is at, not of the other.  `CloseTunnel` and `CloseLocal` are
  the two calls inside `closeOnce.Do`, between which others may run, and
  `CopyReturns` waits for both, as `Do` does.

`appendAuthorizedKey`, which `readControl` calls in line, touches none of this
state and is in `KeyDelivery`.

### KeyDelivery

`pc` is where a process is in `main`, `ensureSSHD`, `Start` and `readControl`;
`lock` is who holds `agent.lock`, `port` who listens on the port of sshd
(`Other` is a program that is no agent), `made` and `file` are authorized_keys.
A control connection has its messages numbered: `sent` counts those written to
it, `handled` those read, and an entry's ADD_KNOWN_HOST and OPEN are known by
connection and number.  `epc` is the entry: it pushes its key, then a client
comes and the hub sends OPEN, over the control connection of that moment.

* `AcquireLock`/`AlreadyRunning`, `Probe`, `Stat`, `Create`, `Listen`,
  `WaitListening`/`WaitFails` are the start; with SkipSSHD a process dials at
  once.  `GiveUp` is the return of `Start`, whose deferred cleanup stops the
  server, and `Release` the deferred release in `main`, which follows it.
* `PushKey` is the first read of `Control` in `AppendKnownHost`;
  `AppendKnownHost` and `AppendKnownHostFails` are the second one and the write.
  A connection that is broken, and not yet noticed to be, loses what is written.
* `Stat` goes on to `Create` whenever `os.Stat` fails, for whatever reason, and
  `Create` empties a file that is there after all.  `WaitFails` stops the server,
  whether it listens by then or not.
* `ReceiveAdd` and `ReceiveOpen` are `readControl`: it reads no further until
  `Look` and `AppendKey` or `AppendKeyFails`, the two halves of
  `appendAuthorizedKey`, are over, and leaves an OPEN to a goroutine, which may
  reach sshd at any later time (`LoginArrives`).  `Look` goes on to append when the
  key is not there and when `os.ReadFile` fails; `misread` has the keys that were
  there all the same.
* `Crash` ends a process anywhere, and leaves a part of the line it was writing.

A key is a value, and `strings.Contains` asks whether it is in the file; that one
key's text may be part of another's is left out, as are edits of the file by its
operator while an agent runs (one that makes the file between `Stat` and `Create`
would lose it).

`AuthorizedKeys` knows who is in charge (the holder of `agent.lock`), which keys
were pushed (those of written ADD_KNOWN_HOST messages) and which one can log in
with (those that are a whole line of the file, which is what sshd reads).  A
holder that is starting may be misled by a `Stat` that fails; it may then lose
all keys, once, before it is ready and lets anybody in.

### EntryRuntime

`listed` is the answer of `ListAgents` and changes under the entry: agents
register, and a restart of the hub breaks all tunnels and may lose an agent from
the mapping (`forgot`).  `pc` and `chosen` are `Start`, `hosts` is known_hosts;
`cpc`, `to`, `ws`, `local` are `handleConn` and its variables, `up` is the
goroutine it starts, `test` is `testSSHConnectivity`, a client like others.

* `StartPicks`, `ReadKey`, `PushKey`, `LookForHost`, `AppendHost`, `Listen` are
  `Start` in its order; that a step failed is logged and `Start` goes on.
* `LookForHost` finds the line; or goes on to append, because the line is not
  there or the read failed; or returns for want of a home or a directory.
* `RivalLooks` and `RivalAppends` are the `ensureKnownHost` of another entry that
  the same user has started on the same port, and that ends when it cannot
  listen.  `overlooked` records that one of the two went on to write a line that
  was there, or that the other was about to write.
* `ConnPicks`, `Dial`, `SendHello` and their failures are `handleConn`; `DownEnds`
  and `UpEnds` are copies that read the end of a connection, `DownWriteFails`
  and `UpWriteFails` copies that could not write; `CloseWs` and `CloseLocal` are
  the deferred calls, and `UpCloses` the call of the goroutine.
* `Ends` is a failure of `Listen` or `Accept`, or a crash, a line of known_hosts
  half written or not.

### Handshake

A session ID is a sequence of characters: hex digits with their values, and
others.  `SessionIDTo16Bytes` strips dashes, decodes, or hashes, as the code
does: `Kept` is what the loop has kept after each character, `Clean` what it ends
with, and the hash is a constant operator.  `Decode`, `BuildHandshake`,
`ValidateHandshake` and `equalBytes` are their namesakes, byte by byte, with the
lengths of the magic and of an ID as parameters.  `wire` is the websocket, and
`SendOther` what other programs may send first.  A read may fail at any time,
with messages still on their way (`ReadFails`).

### Rendezvous

A client arrives, waits, is joined with a partner that came for it, and leaves;
it may be turned away at the door.  With fairness, waiting ends.  The mapping:
a client is an SSH connection, waiting while its connection is open and not
forwarded; a partner came for the client whose session id it carries, if its
agent owns the hubPort.  Closing a connection, by any of the many paths, is
leaving; a crash makes all clients leave at once.

The agent keeps the same promise to the OPEN messages of the hub
(`AgentRefinement`): a client is a message, its partner the goroutine started
for it.  It waits from the send until both connections are there, and leaves
when it is lost, a step fails, a connection is closed or the process exits.

## 3. The runs

Bounds: a run fixes how many connections, ids, tunnels and agents there are;
each is used once, so the state space is finite with no other bound.  The end of
the script is no error (`CHECK_DEADLOCK FALSE`): a hub whose peers have all done
what they will, or that has crashed, stops.

| run | instance | shows |
| --- | --- | --- |
| `HubSession_safety` | 1 TCP connection, 1 entry id, 3 tunnels, 1 agent, stray dial-backs; 711,000 states up to symmetry | `TypeOK`, `OneReader`, `ClosedWhenForgotten`, `SSHLifecycle`, the invariant `IInv`, and `Rendezvous` is implemented |
| `HubSession_agents` | 2 TCP connections of 2 agents, an entry, 2 tunnels, stray dial-backs; 1.9 million states up to symmetry | `RightPartner`: nobody is joined with a tunnel of another session or agent; `AlwaysOwned`: only a tunnel of the wrong agent leaves a session that nobody finishes |
| `HubSession_liveness` | 1 TCP connection, 1 entry, 2 tunnels, solicited dial-backs, fairness; 14,000 states | `AlwaysOwned`, `EntryResolved`, `Rendezvous` with its fairness: no client waits for ever |
| `HubRegistry_safety` | 3 control connections, 2 agents, 5 ports (one below the range of `findAvailablePort`), every initial mapping, failures, crashes; 117,000 states up to symmetry | `TypeOK`, `Routing`, `FileAgrees`, `ControlIsLive`, `NewerSurvives`, `RegistryInv`; `PortDirectory` and `AgentPresence` are implemented |
| `AgentRuntime_all` | 2 OPEN messages, 3 attempts, fairness; 27,194 states | `TypeOK`, `NothingLeaks`, `LoginHasTunnel`, `EndsTogether`, `Reconnects`, and `Rendezvous` is implemented with its fairness |
| `KeyDelivery_all` | 2 agent processes, 2 entries, 2 keys, 2 control connections, a file with one of the keys or without; 2.8 million states up to symmetry | `TypeOK`, `KeyBeforeLogin`, `NoDuplicates`, `ServerOfHolder`, and `AuthorizedKeys` is implemented |
| `EntryRuntime_all` | 2 agents, 3 starts of the entry or of another one on its port, 1 client at a time, known_hosts empty, with the line or with an unfinished one, fairness; 1.2 million states | `TypeOK`, `SteadyAgent`, `HostOnce`, `HostFound`, `NothingLeaks`, `EndsTogether` |
| `Handshake_all` | all pairs of session IDs of 1 to 3 characters (two hex digits make an ID of one byte), 2 messages after the first; 2.3 million states | `TypeOK`, `SameSession`, `OnlyExactHeader`, `PayloadIntact` |
| `Claim_*` | the smallest instance that refutes one statement of the documents or comments | see section 5 |

Why these bounds suffice for what they are asked: the races on a TCP session
are between its own four goroutines and its dial-backs; three tunnels are one
that binds, one that comes while it is bound or forwarded, and one that comes
after the session is gone.  A second TCP connection matters only for mixing
sessions up, and the second run has one, with another agent.  In the registry
two handlers race and a third saves, reconnects or registers the other agent
during the race; three connections also carry one life of the hub over a restart
into the next.  Goroutines of the agent share only the control connection and
the end of the process, so that two of them are enough; 3 is the number of
attempts the program has.  Keys meet in `KeyDelivery` when two entries push the
same one, or two, over two connections of one process or of two; the second
process of the run starts before, while or after the first one ends.  Three
starts of an entry are one that leaves a part of a line, one that appends after
it, and one that reads the result, and any of them may be the other entry on the
port (`MaxStarts`); two agents are the one that was picked and one that comes;
clients share nothing but the
process, and their slot is used again, so that one at a time will do (two make
six million states).  Three characters are the shortest IDs in which a dash may
come before, between and after two digits; `MaxPayload` is 2 so that messages
could change places.  The theorems below hold for every size.

Fairness (`Fairness` in `HubSession`): goroutines that are not blocked on a peer
go on.  A send has a deadline of 5 s (`sendOpen`), so a handler that sends gets
on; timers and tickers fire.  Not fair: the copies of the hub, since one that is
in a write to a peer that does not read is not woken by the end of the other side
(`hub.go:388-420`), so nothing is promised of how a forwarding ends; what
peers do (dialling, answering, closing, sending the handshake), since
`handleTunnelWS` reads the handshake without a deadline, and what a client does
with a joined connection.  The liveness run excludes stray dial-backs because
with them the promise fails (section 5, `tunnel_ws.go:103`).  It has two tunnels
because the behaviour graph of three is too large for a run of minutes.

In `AgentRuntime`, dials and the handshake end by their deadlines, goroutines go
on, and a control connection that has ended is noticed (`ControlLost`; a network
that goes silent without ending it is not, as there is no heartbeat, and
`Reconnects` says nothing of it).  Peers owe one thing: what is written to them
is taken in the end (`CopyWrites`).  An sshd that never reads would hold a copy
in a write, and keep it from noticing that its tunnel is gone.

In `EntryRuntime` peers owe the same: a copy gets through with its writes and
back to its read, which returns when its connection has ended (`DownEnds`,
`UpEnds`).  A client that stays and never reads would hold the copy from the hub
in a write, and its connection open after the tunnel has gone.  Closing does not
block.  Dials, which have no deadline, and the leaving of clients are not fair.

`SameSession` rests on a hash that does not collide (`NoCollision`), with another
hash or with a decoded ID; `MCHandshake` has TLC evaluate that for its own.

## 4. The proofs

| theorem | module |
| --- | --- |
| `Invariance`: `Spec => []IInv` | `HubSessionProofs` |
| `TypeCorrect`, `PartnerIsRight`, `StreamsReadOnce`, `ForgottenIsClosed` | `HubSessionProofs` |
| `LifecycleKept`: `Spec => SSHLifecycle`; `SessionsOwned`: `Spec => []AlwaysOwned`, stray dial-backs or not | `HubSessionStepProofs` |
| `RendezvousImplemented`: `Spec => ImplementsRendezvous` | `HubSessionRefinementProofs` |
| `AgentInvariance`: `Spec => []AgentInv`; `ReturnsEmptyHanded`, `LoginsHaveTunnels`, `OpensAnswered`: `Spec => AnswersOpens` | `AgentProofs` |
| `KeyInvariant`: `Spec => []KeyInv`; `TypeCorrect`, `KeyComesFirst`, `KeyWrittenOnce`, `ServerHoldsLock`, `LinesStay`: `Spec => KeysKept`, `LinesKeepTheirEnds`; `OnlyPushedKeys`: `Spec => ImplementsAuthorizedKeys`, `NobodyElseLogsIn` | `KeyDeliveryProofs` |
| `EntryInvariant`; `TypeCorrect`, `AgentIsSteady`, `HostLineOnce`, `HostIsFound`, `LinesKeepTheirEnds`, `NothingLeft` | `EntryProofs` |
| `OwnHeaderAccepted`, `OnlyOwnHeader`, `SameBytesAccepted`, `SameSessionSameBytes`, `SameBytesSameSession`; `HandshakeInvariant`, `TypeCorrect`, `HeaderIsExact`, `PayloadStays`; `EndsAgree`: `NoCollision` gives `Spec => []SameSession` | `HandshakeProofs` |
| `RegistryInvariance`, `TypeCorrect`, `RoutingKept`, `FileNeverContradicts`, `OnlineHasControl`, `NewerStays`; `LoadedKeepPorts`: an agent that was loaded keeps its port, whatever happens, unless the file is lost; `DirectoryImplemented`: `Spec => ImplementsPortDirectory`; `PresenceImplemented`: `Spec => ImplementsAgentPresence` | `HubRegistryProofs` |

Assumptions: `HubSession` assumes only that every hubPort has an agent
(`PortAgentType`) and that connections, tunnels, entry ids and nil are told
apart (`NamesApart`); `HubRegistry` that ports are numbers and names differ;
`AgentRuntime` that at least one attempt is allowed; `KeyDelivery` and
`EntryRuntime` that names differ and that the files hold no line twice at first;
`Handshake` that a hash has as many bytes as an ID, and that characters are of
one kind.  `SameBytesSameSession` and `EndsAgree` have `NoCollision` for a
hypothesis, which is what a program that hashes trusts in.  Sets may be infinite.

**HubSession.**  `RightPartner` and the others are not inductive.  `IInv` adds
what the program counters mean: a session is filed under its own id; while
`onSSHConn` runs, its session is filed and unbound (`SSHStage`); an id reaches
`/tunnel` only after OPEN (`DialledAfterOpen`); a websocket taken for an entry
although its id is that of a TCP session came after that session was forgotten,
and the id is not filed for it again (`EntryAfterSSH`), which keeps the entry
branch, with its late writes, away from TCP sessions; a tunnel is bound by its
handler and to one object (`BoundByHandler`), so the reader counts are exact
(`ReadersCounted`).  There is one lemma for each action, and one step in it for
each conjunct the action can disturb.  The liveness of `Rendezvous` rests on
`AlwaysOwned`: whatever dials in, a filed session has a goroutine that will finish
it, or was bound to a stray tunnel of the wrong agent.  It is proved in the second
module from `IInv` and `AnswersMatch`, by which solicited answers are of the right
agent.  The
refinement is proved step by step: the one fact it needs beyond `IInv` is that a
closed connection is never again open.

**HubRegistry.**  `RegistryInv` adds: nothing is in memory while the process is
down; states belong to one agent and new ones are fresh (`StateOwned`,
`StateFresh`); and a snapshot under way agrees with the maps (`SnapAgrees`),
since ports are never taken back in one life of the process.  This is why an
old snapshot may lose a port of a new agent but never contradicts the maps.  An
agent that was loaded (`Loaded`) is never registered anew (`RegistersNew`), so no
walk can miss it (`WalkKeeps`), and every whole file has it with the same port
(`FileKeeps`): `LoadedKeepPorts` says so over crashes and starts.  For
`PortDirectory` the interesting steps are the death of the process, where
`FileAgrees`, `FileKeeps` and `TornIsSilent` say that the file remembers only
gifts, and all those of agents that were sure, or nothing; and the start, where
`Loadable` says that no port is remembered twice.  For
`AgentPresence` they are that states are not shared (`StateOwned`), so that a control
connection brings one agent only, and that a new state has none (`StateFresh`).

**AgentRuntime.**  `AgentInv` says what `handleOpen` holds at each place
(`JobStage`) and that the loop reads exactly while it has a control connection
(`LinkStage`); both properties follow from it at once.  For the refinement a
step sends a message, starts a goroutine, reaches sshd, ends messages, or is not
seen; lemma `Leaving` covers the last two kinds for all actions.

**KeyDelivery.**  `KeyInv` adds: a process that is past its lock holds it, so
that at most one is (everything about the file rests on this); messages of a
connection are numbered apart, and an entry's OPEN has a later number than its
ADD_KNOWN_HOST on the same connection; and a push that was handled is in the
file, in a failed write, or in the hands of the one process that reads that
connection, which then takes no OPEN.  `NoDuplicates` holds of the keys that were
never misread, because whoever is about to append has looked and is alone.  That
a `Create` may empty the file does no harm to `KeyBeforeLogin`: who starts holds the
lock and has no connection yet, and what earlier processes had read ended with
them (`Dialled`, `LoginTaken`).  `KeysKept` follows for each action from
two facts: a whole line of a file is one of every file that
extends it, and nobody empties a file but a process in `Create`, which a failed
`Stat` has sent there.  `AuthorizedKeys`
needs the other direction (`LetsIn`): what is appended makes a whole line of the
key it carries or of none, however the file ended, as no piece of a line begins
with the end of one.  `NobodyElseLogsIn` is then a property of `AuthorizedKeys`,
carried over.

**EntryRuntime.**  `SteadyAgent` needs that the name, or the only agent listed,
is still the one chosen as long as the hub has lost none; `HostOnce` that whoever
is about to append, in this entry or in the other, has looked since it started,
or has `overlooked` a line, its own or the other's.
`HostFound` is what remains of the refuted `HostKnown` (section 5): in a file
whose lines have their ends, a text that is found is a line (`LinedIsWhole`), and
`LinesEnded` says who may leave a line without one.

**Handshake.**  Two lemmas take a header apart and put it together; the rest of
the invariant says that the wire is the first message and then the payloads.
`SameSession` compares the loop of `SessionIDTo16Bytes` with a reference
definition: two UUIDs are the same if digits of equal rank are equal, the rank of
a digit being the number of characters up to it that are no dashes.  That the loop keeps exactly these digits, for every
length, is an induction over the prefixes of the ID, done with sets: lemma `UpTo`
takes the least element of a set of counterexamples, from the well-foundedness
of < on the naturals.  Two digits make one byte in one way, so that equal bytes
are equal digits.

**Only model-checked.**  Liveness (`EntryResolved`,
`ImplementsFairRendezvous`, `EndsTogether`, `Reconnects`, `AnswersOpensInTime`): the prover does not handle ENABLED and fairness.
The refutations are counterexamples of TLC.

**Only proved.**  `KeysKept`, `LoadedKeepPorts` and the `LinesEnded` of both files are
theorems and in no run: `AuthorizedKeys` and `PortDirectory` contain the first two,
and the runs look at what the others are for, `KeyBeforeLogin` and `HostFound`.

## 5. Where the code and its documents part

Each of these is a run with a counterexample.

* `HubSurvives` — an agent that goes offline between line 183 and line 204 of
  `hub.go` makes `sendOpen` dereference nil in a goroutine that nothing guards:
  the hub ends.  `docs/design.high-level.md:362-366` gives up the SSH connection.
* `EntryOfOfflineAgentEnds` — the same in `tunnel_ws.go:132` is recovered by
  `net/http`, and leaves the entry open and its session filed without a timer.
* `OnlineIsPersisted` — concurrent registrations leave a mapping file that lacks
  a port or is no JSON, against `docs/design.high-level.md:162` and
  `docs/design.detailed.md:734`.
* `HostKnown` — `ensureKnownHost` (`pkg/entry/entry.go:238-247`) appends after
  a last line that has no end; the two become one line, which ssh does not take
  for the host's, and each later start finds the text and is content, against
  the comment at `entry.go:217`.

Further observations, visible in the models but without a run of their own:

* OPEN leaves before the state is OPEN_SENT (`hub.go:204-211`, against
  `docs/design.detailed.md:289`); a prompt answer is refused and the client waits
  for the timeout.
* `tunnel_ws.go:140` stores OPEN_SENT over the BOUND of an entry whose agent has
  answered already (`docs/design.detailed.md:173`).
* Agents are compared after the bind (`tunnel_ws.go:103`); after a mismatch
  nobody owns the session (`docs/design.high-level.md:362-366`).  This is why the
  liveness run has no stray dial-backs.
* Two first connections of an agent give it two ports (`agent_ws.go:30-41`,
  against `docs/configuration.md:43`).
* A port may pass from one agent to another: its save fails (`agent_ws.go:57`),
  it reconnects and is online, the hub crashes, and after the start the port is
  free.  Only agents that no start has loaded yet are exposed to this
  (`LoadedKeepPorts`).
* A failed read is taken for a file without the text: `appendAuthorizedKey`
  (`known_hosts.go:23`) and `ensureKnownHost` (`entry.go:237-240`, against its
  comment that it avoids writing twice) then append once more.  `NoDuplicates` and
  `HostOnce` except this.
* `ensureAuthorizedKeysFile` takes any error of `os.Stat` for a missing file and
  empties the one that is there (`sshd.go:102`): all keys are lost.
* Two entries started on one port both look before either writes or listens, and
  both may append the line (`entry.go:60-66`).
* `appendAuthorizedKey` glues a key to an unfinished last line as
  `ensureKnownHost` does (`pkg/agent/known_hosts.go:24-33`): the file then
  contains the key, which is all that `KeyBeforeLogin` asks of such a file, but
  no login has it.
* Keys are kept in `~/.sshole/authorized_keys`; `docs/design.detailed.md:92`
  and `404` say `~/.ssh/known_hosts`.
* An entry dials `/tunnel` of the hub (`entry.go:144`), not the hubPort as in
  `docs/design.detailed.md:694-699`.
* A bound session may time out: `watchPendingTimeout` reads the state without
  the lock (`hub.go:239`; `docs/design.detailed.md:173-174` draws TIMEOUT as an
  exit of OPEN_SENT only).  `SSHLifecycle` allows it.
* A late answer to a TCP session that has timed out is taken for an entry, and
  the agent gets a second OPEN (`tunnel_ws.go:112`, against
  `docs/design.detailed.md:325` and `334-336`).
* The entry branch (`tunnel_ws.go:86-94`) binds an object without looking
  whether it is bound, still filed, or of this agent (against
  `docs/design.high-level.md:273`, `docs/design.detailed.md:325-326`).
* The session of an entry is never removed after its forwarding
  (`hub.go:388`, against `docs/design.detailed.md:364-368`).
* A crash, or a failed write, between truncation and write leaves a file that
  the next start refuses (`mapping.go:49`).
* The first retry of the agent waits twice the base back-off
  (`pkg/agent/config.go:45-52`, against `docs/configuration.md:70-74`).

## 6. Plan

1. Done: `HubSession`, `Rendezvous`, their refinement and proofs.
2. Done: `HubRegistry` and its proofs.
3. Done: `AgentRuntime`, its refinement of `Rendezvous` and its proofs.
4. Done: `KeyDelivery`, `EntryRuntime`, `Handshake` and their proofs.
5. `SSHole`: agent, hub and client composed, on the abstract `Rendezvous`.
6. Done: `PortDirectory`, `AgentPresence` and `AuthorizedKeys`, the abstract sides
   on which components meet, and the proofs that they are implemented.
7. Proofs: the composition's safety, and that `SteadyAgent` and
   `KeyBeforeLogin` together let an entry's login in.

Runs stay few: each asks a question of its own.

## 7. Not modelled

A hub or host that loses power, with writes that are not on disk; other programs
that write the mapping file, authorized_keys or known_hosts.  Bytes and framing of forwarded streams (the copy goroutines are modelled by
when they start and end); wording of errors and close codes; logging; header,
token and TLS checks; durations, and with them the back-off; `/healthz` and `/bins/`; flags and environment; generated
RPC code; build and end-to-end scripts; `pkg/utils`, which nothing calls; the SSH
protocol and its server, which are libraries.
