----------------------------- MODULE KeyDelivery -----------------------------
(***************************************************************************)
(* How the public key of an entry gets into the authorized_keys file of an *)
(* agent before the entry's first login does: Start of the entry           *)
(* (pkg/entry), the AppendKnownHost RPC and the OPEN messages of the hub   *)
(* on one control connection, readControl and appendAuthorizedKey of the   *)
(* agent (pkg/agent), and the life of agent processes on one host, with    *)
(* their lock, their sshd and the file.  Processes may die at any step.    *)
(***************************************************************************)
EXTENDS KeyFile

CONSTANTS
  Proc,      \* agent processes started on the host, one after another or not
  Entry,     \* entry processes, which push a key and log in once
  Key,       \* public keys
  Conn,      \* control connections
  InitFile,  \* what authorized_keys may contain at first
  Other,     \* another program that listens on the port of sshd
  None

ASSUME KeysApart == Key \cap {NL, Torn} = {}
ASSUME NobodyElse == Other \notin Proc /\ None \notin Proc \cup Entry \cup Conn \cup {Other}
ASSUME InitFileType ==
  \A f \in InitFile : /\ f \in Seq(Key \cup {NL, Torn})
                      /\ \A i, j \in DOMAIN f : f[i] = f[j] /\ f[i] \in Key => i = j

VARIABLES
  pc,       \* where main, Start and readControl of a process are
  at,       \* the entry whose key a process is handling
  lock,     \* who holds agent.lock
  port,     \* who listens on the port of sshd
  made,     \* whether authorized_keys exists
  file,     \* and what is in it
  failed,   \* keys whose write failed
  misread,  \* keys that were in the file when reading it failed
  link,     \* control connections, as the agent sees them
  dialer,   \* who dialled them
  control,  \* AgentState.Control
  sent,     \* how many messages were written to a connection
  handled,  \* how many of them readControl has taken
  epc,      \* where Start of an entry is
  keyOf,    \* its key
  add,      \* its ADD_KNOWN_HOST message
  open,     \* the OPEN message of its login
  login     \* whether its login is on its way to sshd, or over

hostVars  == <<pc, at, lock, port>>
fileVars  == <<made, file, failed, misread>>
linkVars  == <<link, dialer, control>>
entryVars == <<epc, keyOf, add, open>>
commVars  == <<linkVars, sent, handled, entryVars, login>>
vars      == <<hostVars, fileVars, commVars>>

\* A message is known by its connection and its place on it.
NoMail == [conn |-> None, no |-> 0]
Mail   == [conn : Conn, no : Nat \ {0}] \cup {NoMail}

Running(p) == pc[p] \notin {"off", "dead"}

Init ==
  /\ pc = [p \in Proc |-> "off"]
  /\ at = [p \in Proc |-> None]
  /\ lock = None
  /\ port \in {None, Other}
  /\ made \in BOOLEAN
  /\ file \in IF made THEN InitFile ELSE {<<>>}
  /\ failed = {}
  /\ misread = {}
  /\ link = [c \in Conn |-> "none"]
  /\ dialer = [c \in Conn |-> None]
  /\ control = None
  /\ sent = [c \in Conn |-> 0]
  /\ handled = [c \in Conn |-> 0]
  /\ epc = [e \in Entry |-> "start"]
  /\ keyOf \in [Entry -> Key]
  /\ add = [e \in Entry |-> NoMail]
  /\ open = [e \in Entry |-> NoMail]
  /\ login = [e \in Entry |-> "none"]

-----------------------------------------------------------------------------
(* The start of an agent: AcquireInstanceLock, then ensureSSHD. *)

GoTo(p, place) == pc' = [pc EXCEPT ![p] = place]

\* With SkipSSHD the agent dials at once.
AcquireLock(p) ==
  /\ pc[p] = "off"
  /\ lock = None
  /\ lock' = p
  /\ \/ GoTo(p, "probe")
     \/ GoTo(p, "dial")
  /\ UNCHANGED <<at, port, fileVars, commVars>>

AlreadyRunning(p) ==
  /\ pc[p] = "off"
  /\ lock # None
  /\ GoTo(p, "dead")
  /\ UNCHANGED <<at, lock, port, fileVars, commVars>>

\* isPortListening: whoever listens is taken for an sshd.
Probe(p) ==
  /\ pc[p] = "probe"
  /\ GoTo(p, IF port # None THEN "dial" ELSE "stat")
  /\ UNCHANGED <<at, lock, port, fileVars, commVars>>

\* ensureAuthorizedKeysFile looks first, and takes any failure of Stat for a
\* file that is missing.
Stat(p) ==
  /\ pc[p] = "stat"
  /\ \/ made /\ GoTo(p, "listen")
     \/ GoTo(p, "create")
  /\ UNCHANGED <<at, lock, port, fileVars, commVars>>

\* It writes an empty file after that, whatever is there.
Create(p) ==
  /\ pc[p] = "create"
  /\ \/ made' = TRUE /\ file' = <<>>
     \/ UNCHANGED <<made, file>>    \* the write failed, which is logged
  /\ GoTo(p, "listen")
  /\ UNCHANGED <<at, lock, port, failed, misread, commVars>>

\* The server finds the port free, or it does not start.
Listen(p) ==
  /\ pc[p] = "listen"
  /\ \/ port = None /\ port' = p
     \/ UNCHANGED port
  /\ GoTo(p, "wait")
  /\ UNCHANGED <<at, lock, fileVars, commVars>>

\* Again whoever listens will do.
WaitListening(p) ==
  /\ pc[p] = "wait"
  /\ port # None
  /\ GoTo(p, "dial")
  /\ UNCHANGED <<at, lock, port, fileVars, commVars>>

PortLeftBy(p) == IF port = p THEN None ELSE port

\* The server has failed, or it is stopped, even if it listens by now.
WaitFails(p) ==
  /\ pc[p] = "wait"
  /\ port' = PortLeftBy(p)
  /\ GoTo(p, "stopping")
  /\ UNCHANGED <<at, lock, fileVars, commVars>>

OtherLeavesPort ==
  /\ port = Other
  /\ port' = None
  /\ UNCHANGED <<pc, at, lock, fileVars, commVars>>

-----------------------------------------------------------------------------
(* The control connection of an agent, and how a process ends. *)

\* Start dials and handleAgentWS accepts.
Dial(p, c) ==
  /\ pc[p] = "dial"
  /\ link[c] = "none"
  /\ link' = [link EXCEPT ![c] = "open"]
  /\ dialer' = [dialer EXCEPT ![c] = p]
  /\ control' = c
  /\ GoTo(p, "read")
  /\ UNCHANGED <<at, lock, port, fileVars, sent, handled, entryVars, login>>

LinkBreaks(c) ==
  /\ link[c] = "open"
  /\ link' = [link EXCEPT ![c] = "broken"]
  /\ UNCHANGED <<hostVars, fileVars, dialer, control, sent, handled, entryVars, login>>

\* readControl returns, with messages unread or not.
Lost(p, c) ==
  /\ pc[p] = "read"
  /\ dialer[c] = p
  /\ link[c] = "broken"
  /\ link' = [link EXCEPT ![c] = "left"]
  /\ GoTo(p, "dial")
  /\ UNCHANGED <<at, lock, port, fileVars, dialer, control, sent, handled, entryVars, login>>

\* handleAgentWS notices that its connection has ended.
HubNotices(c) ==
  /\ control = c
  /\ link[c] # "open"
  /\ control' = None
  /\ UNCHANGED <<hostVars, fileVars, link, dialer, sent, handled, entryVars, login>>

\* Fault: the server is stopped after the lock is released, if at all.
GiveUpServing(p) ==
  /\ pc[p] = "dial"
  /\ GoTo(p, "stopping")
  /\ UNCHANGED <<at, lock, port, fileVars, commVars>>

\* Start returns: its deferred cleanup stops the server, and after that main
\* releases the lock.
GiveUp(p) ==
  /\ pc[p] = "dial"
  /\ port' = PortLeftBy(p)
  /\ GoTo(p, "stopping")
  /\ UNCHANGED <<at, lock, fileVars, commVars>>

\* With the process end the goroutines of its OPEN messages.
LoginsLeftBy(p) ==
  [e \in Entry |-> IF login[e] = "coming" /\ dialer[open[e].conn] = p
                   THEN "over" ELSE login[e]]

Release(p) ==
  /\ pc[p] = "stopping"
  /\ lock' = None
  /\ GoTo(p, "dead")
  /\ login' = LoginsLeftBy(p)
  /\ UNCHANGED <<at, port, fileVars, linkVars, sent, handled, entryVars>>

WriteAtEnd(p, piece) ==
  /\ pc[p] = "append"
  /\ made' = TRUE
  /\ file' = file \o piece

\* A process dies with all it holds; a line it was writing may stay a part.
Crash(p) ==
  /\ Running(p)
  /\ \/ pc[p] = "append" /\ \E piece \in PartOfLine(keyOf[at[p]]) : WriteAtEnd(p, piece)
     \/ UNCHANGED <<made, file>>
  /\ lock' = IF lock = p THEN None ELSE lock
  /\ port' = PortLeftBy(p)
  /\ GoTo(p, "dead")
  /\ at' = [at EXCEPT ![p] = None]
  /\ link' = [c \in Conn |-> IF dialer[c] = p THEN "left" ELSE link[c]]
  /\ login' = LoginsLeftBy(p)
  /\ UNCHANGED <<failed, misread, dialer, control, sent, handled, entryVars>>

-----------------------------------------------------------------------------
(* Start of an entry, and what the hub makes of it. *)

Reached(e, place) == epc' = [epc EXCEPT ![e] = place]

\* A connection that is broken takes a message and loses it.
WriteTo(c, mail, e) ==
  IF link[c] = "open"
  THEN /\ sent' = [sent EXCEPT ![c] = @ + 1]
       /\ mail' = [mail EXCEPT ![e] = [conn |-> c, no |-> sent[c] + 1]]
  ELSE UNCHANGED <<sent, mail>>

\* The key is read and AppendKnownHost finds the agent online, or the entry
\* goes on without.
PushKey(e) ==
  /\ epc[e] = "start"
  /\ \/ control # None /\ Reached(e, "write")
     \/ Reached(e, "ready")
  /\ UNCHANGED <<hostVars, fileVars, linkVars, sent, handled, keyOf, add, open, login>>

\* AppendKnownHost reads Control once more to write to it.
AppendKnownHost(e) ==
  /\ epc[e] = "write"
  /\ control # None
  /\ WriteTo(control, add, e)
  /\ Reached(e, "ready")
  /\ UNCHANGED <<hostVars, fileVars, linkVars, handled, keyOf, open, login>>

\* It has become nil, a panic that net/http recovers, or the write fails.
AppendKnownHostFails(e) ==
  /\ epc[e] = "write"
  /\ Reached(e, "ready")
  /\ UNCHANGED <<hostVars, fileVars, linkVars, sent, handled, keyOf, add, open, login>>

\* A client comes to the entry, and the hub sends OPEN for it.
SendOpen(e) ==
  /\ epc[e] = "ready"
  /\ control # None
  /\ WriteTo(control, open, e)
  /\ Reached(e, "done")
  /\ UNCHANGED <<hostVars, fileVars, linkVars, handled, keyOf, add, login>>

-----------------------------------------------------------------------------
(* readControl. *)

TakesNext(p, c, mail) ==
  /\ pc[p] = "read"
  /\ dialer[c] = p
  /\ link[c] \in {"open", "broken"}
  /\ mail = [conn |-> c, no |-> handled[c] + 1]
  /\ handled' = [handled EXCEPT ![c] = @ + 1]

\* ADD_KNOWN_HOST is handled before anything else is read.
ReceiveAdd(p, c, e) ==
  /\ TakesNext(p, c, add[e])
  /\ at' = [at EXCEPT ![p] = e]
  /\ GoTo(p, "look")
  /\ UNCHANGED <<lock, port, fileVars, linkVars, sent, entryVars, login>>

\* Fault: OPEN messages do not wait for their turn.
ReceiveOpenEarly(p, c, e) ==
  /\ pc[p] = "read"
  /\ dialer[c] = p
  /\ open[e].conn = c
  /\ login[e] = "none"
  /\ login' = [login EXCEPT ![e] = "coming"]
  /\ UNCHANGED <<hostVars, fileVars, linkVars, sent, handled, entryVars>>

\* OPEN is left to a goroutine.
ReceiveOpen(p, c, e) ==
  /\ TakesNext(p, c, open[e])
  /\ login' = [login EXCEPT ![e] = "coming"]
  /\ UNCHANGED <<hostVars, fileVars, linkVars, sent, entryVars>>

\* Fault: the failed append ends readControl.
HandledAndLeft(p) ==
  /\ GoTo(p, "dial")
  /\ UNCHANGED at

Handled(p) ==
  /\ at' = [at EXCEPT ![p] = None]
  /\ GoTo(p, "read")

\* Fault: the key is not looked for.
LookNowhere(p) ==
  /\ pc[p] = "look"
  /\ GoTo(p, "append")
  /\ UNCHANGED <<at, lock, port, fileVars, commVars>>

\* appendAuthorizedKey reads the file, and then writes at its end if the key was
\* not seen in it: it is not there, or reading has failed.
Look(p) ==
  /\ pc[p] = "look"
  /\ LET k == keyOf[at[p]]
     IN  \/ Contains(file, k) /\ Handled(p) /\ UNCHANGED misread
        \/ /\ GoTo(p, "append")
           /\ misread' = misread \cup {j \in {k} : Contains(file, j)}
           /\ UNCHANGED at
  /\ UNCHANGED <<lock, port, made, file, failed, commVars>>

\* Fault: the line is written over what is there.
AppendKeyAnew(p) ==
  /\ pc[p] = "append"
  /\ made' = TRUE
  /\ file' = Line(keyOf[at[p]])
  /\ Handled(p)
  /\ UNCHANGED <<lock, port, failed, misread, commVars>>

AppendKey(p) ==
  /\ WriteAtEnd(p, Line(keyOf[at[p]]))
  /\ Handled(p)
  /\ UNCHANGED <<lock, port, failed, misread, commVars>>

\* An error on the way, or of the write itself, is logged, and readControl goes
\* on.
AppendKeyFails(p) ==
  /\ pc[p] \in {"look", "append"}
  /\ \/ \E piece \in PartOfLine(keyOf[at[p]]) : WriteAtEnd(p, piece)
     \/ UNCHANGED <<made, file>>
  /\ failed' = failed \cup {keyOf[at[p]]}
  /\ Handled(p)
  /\ UNCHANGED <<lock, port, misread, commVars>>

\* A goroutine of handleOpen reaches sshd, which reads the file.
LoginArrives(e) ==
  /\ login[e] = "coming"
  /\ port # None
  /\ login' = [login EXCEPT ![e] = "over"]
  /\ UNCHANGED <<hostVars, fileVars, linkVars, sent, handled, entryVars>>

-----------------------------------------------------------------------------
Process(p) ==
  \/ AcquireLock(p) \/ AlreadyRunning(p)
  \/ Probe(p) \/ Stat(p) \/ Create(p) \/ Listen(p) \/ WaitListening(p) \/ WaitFails(p)
  \/ GiveUp(p) \/ Release(p) \/ Crash(p)
  \/ Look(p) \/ AppendKey(p) \/ AppendKeyFails(p)
  \/ \E c \in Conn : \/ Dial(p, c) \/ Lost(p, c)
                     \/ \E e \in Entry : ReceiveAdd(p, c, e) \/ ReceiveOpen(p, c, e)

Next ==
  \/ \E p \in Proc : Process(p)
  \/ \E e \in Entry : \/ PushKey(e) \/ AppendKnownHost(e) \/ AppendKnownHostFails(e)
                      \/ SendOpen(e) \/ LoginArrives(e)
  \/ \E c \in Conn : LinkBreaks(c) \/ HubNotices(c)
  \/ OtherLeavesPort

Spec == Init /\ [][Next]_vars

-----------------------------------------------------------------------------
(* Properties. *)

\* The values every variable ranges over; a process has a key in its hands only
\* while it handles one (readControl).
TypeOK ==
  /\ pc \in [Proc -> {"off", "probe", "stat", "create", "listen", "wait", "dial",
                      "read", "look", "append", "stopping", "dead"}]
  /\ at \in [Proc -> Entry \cup {None}]
  /\ \A p \in Proc : at[p] # None <=> pc[p] \in {"look", "append"}
  /\ lock \in Proc \cup {None}
  /\ port \in Proc \cup {None, Other}
  /\ made \in BOOLEAN
  /\ file \in Seq(Key \cup {NL, Torn})
  /\ failed \in SUBSET Key
  /\ misread \in SUBSET Key
  /\ link \in [Conn -> {"none", "open", "broken", "left"}]
  /\ dialer \in [Conn -> Proc \cup {None}]
  /\ control \in Conn \cup {None}
  /\ sent \in [Conn -> Nat]
  /\ handled \in [Conn -> Nat]
  /\ epc \in [Entry -> {"start", "write", "ready", "done"}]
  /\ keyOf \in [Entry -> Key]
  /\ add \in [Entry -> Mail]
  /\ open \in [Entry -> Mail]
  /\ login \in [Entry -> {"none", "coming", "over"}]

\* A login that is on its way to sshd, over the control connection that carried
\* its key, will find the key in the file, unless it could not be written: the
\* key is handled before the next message is read (readControl), and the process
\* that took the login is past the step that may empty the file.  The key is a
\* line of its own if no line of the file was cut off (appendAuthorizedKey looks
\* for the text of the key, and would not repair such a line).
KeyBeforeLogin ==
  \A e \in Entry :
    login[e] = "coming" /\ add[e] # NoMail /\ add[e].conn = open[e].conn =>
      \/ keyOf[e] \in failed
      \/ /\ Contains(file, keyOf[e])
         /\ Lined(file) => WholeLine(file, keyOf[e])

\* However often it is pushed, by however many entries and to whichever agent
\* process, and wherever a process dies, a key is in the file once, unless the
\* file could not be read when it was there (appendAuthorizedKey).
NoDuplicates ==
  \A i, j \in DOMAIN file : file[i] = file[j] /\ file[i] \in Key \ misread => i = j

\* A key somebody can log in with is lost only with all others, by a process
\* that starts, whose Stat of a file that exists has failed: not by a process
\* that creates the file while another one appends to it, nor by one that dies
\* (ensureAuthorizedKeysFile, appendAuthorizedKey).
KeysKept ==
  [][\A k \in Key : WholeLine(file, k) =>
       \/ WholeLine(file', k)
       \/ file' = <<>> /\ \E p \in Proc : lock = p /\ pc[p] = "create"]_vars

\* A line of the file is left without its end only by a process that dies in the
\* middle of a write or reports it as failed (appendAuthorizedKey).
LinesEnded ==
  [][Lined(file) =>
       \/ Lined(file')
       \/ \E p \in Proc : /\ pc[p] = "append"
                          /\ pc'[p] = "dead" \/ keyOf[at[p]] \in failed']_vars

\* An sshd belongs to the process that holds the lock, so that the next agent
\* does not take one that is about to end for its own (defer in Start, main).
ServerOfHolder == port \in Proc => lock = port
=============================================================================
