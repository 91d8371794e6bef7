-------------------------- MODULE KeyDeliveryProofs --------------------------
(***************************************************************************)
(* KeyDelivery for every number of agent processes, entries, keys and      *)
(* control connections: the inductive invariant, and the theorems.         *)
(***************************************************************************)
EXTENDS KeyDeliveryRefinement, SequenceTheorems, TLAPS

\* Only the holder of the lock runs, and only it serves.
OneAgent ==
  /\ \A p \in Proc : Running(p) => lock = p
  /\ port \in Proc => lock = port
  /\ \A p \in Proc : pc[p] = "stopping" => port # p

\* What a process has seen of the file still holds when it writes.
SeenStillHolds ==
  /\ made \/ file = <<>>
  /\ \A p \in Proc : pc[p] = "append" /\ Contains(file, keyOf[at[p]]) =>
       keyOf[at[p]] \in misread
  /\ NoDuplicates

\* No two messages have the same place, and a key comes before its login.
Numbered ==
  /\ \A c \in Conn : handled[c] <= sent[c]
  /\ \A e \in Entry :
       /\ add[e] # NoMail => add[e].no <= sent[add[e].conn]
       /\ open[e] # NoMail => open[e].no <= sent[open[e].conn]
       /\ epc[e] \in {"start", "write"} => add[e] = NoMail
       /\ epc[e] # "done" => open[e] = NoMail
       /\ add[e] # NoMail /\ add[e].conn = open[e].conn => add[e].no < open[e].no
       /\ \A f \in Entry : add[e] # NoMail =>
            add[e] # open[f] /\ (add[f] = add[e] => f = e)

Done(e) == Contains(file, keyOf[e]) \/ keyOf[e] \in failed

\* A process that handles a key has taken nothing after it.
Handling ==
  \A e \in Entry, p \in Proc : at[p] = e =>
    add[e] # NoMail /\ dialer[add[e].conn] = p /\ handled[add[e].conn] = add[e].no

\* A process that has not begun to dial has no connection, and a connection
\* that nobody dialled has carried nothing.
Dialled ==
  /\ \A p \in Proc : pc[p] \in {"off", "probe", "stat", "create", "listen", "wait"} =>
       \A c \in Conn : dialer[c] # p
  /\ \A c \in Conn : link[c] = "none" => handled[c] = 0

\* The process that dialled the connection runs.
Live(c) == dialer[c] \in Proc /\ Running(dialer[c])

\* As long as the process runs that has taken it, a key is in the file, or it is
\* the last message that was taken, and the process is busy with it.
KeyTaken ==
  \A e \in Entry :
    add[e] # NoMail /\ handled[add[e].conn] >= add[e].no /\ Live(add[e].conn) =>
      Done(e) \/ (handled[add[e].conn] = add[e].no /\ \E p \in Proc : at[p] = e)

\* A login is on its way from a process that runs.
LoginTaken ==
  \A e \in Entry : login[e] = "coming" =>
    open[e] # NoMail /\ open[e].no <= handled[open[e].conn] /\ Live(open[e].conn)

KeyInv ==
  /\ TypeOK /\ OneAgent /\ SeenStillHolds /\ Dialled
  /\ Numbered /\ Handling /\ KeyTaken /\ LoginTaken

USE KeysApart, NobodyElse
    DEF hostVars, fileVars, linkVars, entryVars, commVars

-----------------------------------------------------------------------------
(* What a write at the end of a file keeps. *)

Text == Seq(Key \cup {NL, Torn})

\* A line, or what is left of one, that is written at the end of the file
\* leaves everything before it as it is.
LEMMA WrittenAtEnd ==
  ASSUME NEW f \in Text, NEW piece \in Text
  PROVE  /\ f \o piece \in Text
         /\ \A k \in Key : Contains(f, k) => Contains(f \o piece, k)
         /\ \A k \in Key : WholeLine(f, k) => WholeLine(f \o piece, k)
<1>1. /\ f \o piece \in Text
      /\ Len(f \o piece) = Len(f) + Len(piece)
      /\ \A i \in 1 .. Len(f) : (f \o piece)[i] = f[i]
      /\ Len(f) \in Nat /\ Len(piece) \in Nat
      /\ DOMAIN f = 1 .. Len(f) /\ DOMAIN (f \o piece) = 1 .. Len(f \o piece)
  BY ConcatProperties, LenProperties DEF Text
<1>2. \A k \in Key : Contains(f, k) => Contains(f \o piece, k)
  BY <1>1 DEF Contains
<1>3. ASSUME NEW k \in Key, WholeLine(f, k)
      PROVE  WholeLine(f \o piece, k)
  <2>1. PICK i \in 1 .. Len(f) - 1 :
          f[i] = k /\ f[i + 1] = NL /\ (i = 1 \/ f[i - 1] = NL)
    BY <1>3 DEF WholeLine
  <2>2. i \in 1 .. Len(f \o piece) - 1 /\ i \in 1 .. Len(f) /\ i + 1 \in 1 .. Len(f)
    BY <1>1
  <2>3. i = 1 \/ i - 1 \in 1 .. Len(f)
    BY <1>1
  <2>. QED BY <1>1, <2>1, <2>2, <2>3 DEF WholeLine
<1>. QED BY <1>1, <1>2, <1>3

\* In a file without cut-off lines, a key that is there has a line of its own.
LEMMA LinedIsWhole ==
  ASSUME NEW f \in Text, NEW k \in Key, Lined(f), Contains(f, k)
  PROVE  WholeLine(f, k)
<1>1. k # NL /\ Len(f) \in Nat /\ DOMAIN f = 1 .. Len(f)
  BY LenProperties DEF Text
<1>2. PICK i \in 1 .. Len(f) : f[i] = k
  BY <1>1 DEF Contains
<1>3. i \in 1 .. Len(f) - 1 /\ f[i + 1] = NL
  <2>1. i \in DOMAIN f /\ f[i] # NL
    BY <1>1, <1>2
  <2>2. i < Len(f) /\ f[i + 1] = NL
    BY <2>1 DEF Lined
  <2>. QED BY <1>1, <2>1, <2>2
<1>4. i = 1 \/ f[i - 1] = NL
  <2>1. SUFFICES ASSUME i # 1, f[i - 1] # NL
                 PROVE  FALSE
    OBVIOUS
  <2>2. i - 1 \in DOMAIN f /\ (i - 1) + 1 = i
    BY <1>1, <1>2, <2>1
  <2>3. f[(i - 1) + 1] = NL
    BY <2>1, <2>2 DEF Lined
  <2>. QED BY <1>1, <1>2, <2>2, <2>3
<1>. QED BY <1>2, <1>3, <1>4 DEF WholeLine

\* A whole line leaves no other one cut off.
LEMMA LineAdded ==
  ASSUME NEW f \in Text, NEW k \in Key, Lined(f)
  PROVE  Lined(f \o Line(k))
<1> DEFINE g == f \o <<k, NL>>
<1>1. /\ Len(f) \in Nat /\ DOMAIN f = 1 .. Len(f)
      /\ Len(g) = Len(f) + 2 /\ DOMAIN g = 1 .. Len(f) + 2
      /\ \A i \in 1 .. Len(f) : g[i] = f[i]
      /\ g[Len(f) + 2] = NL
  BY DEF Text
<1>2. ASSUME NEW i \in DOMAIN g, g[i] # NL
      PROVE  i < Len(g) /\ g[i + 1] = NL
  <2>1. CASE i <= Len(f)
    <3>1. i < Len(f) /\ f[i + 1] = NL
      BY <1>1, <1>2, <2>1 DEF Lined
    <3>. QED BY <1>1, <1>2, <3>1
  <2>2. CASE i > Len(f)
    <3>1. i = Len(f) + 1
      BY <1>1, <1>2, <2>2
    <3>. QED BY <1>1, <3>1
  <2>. QED BY <1>1, <2>1, <2>2
<1>. QED BY <1>2 DEF Lined, Line

\* The keys of S are in the text once.
Single(f, S) == \A i, j \in DOMAIN f : f[i] = f[j] /\ f[i] \in S => i = j

\* What is written of a line is text, and has no key but that of the line.
LEMMA Pieces ==
  ASSUME NEW k \in Key, NEW piece \in PartOfLine(k) \cup {Line(k)}
  PROVE  /\ piece \in Text /\ \A S : Single(piece, S)
         /\ \A i \in DOMAIN piece : piece[i] \in Key => piece[i] = k
<1>1. CASE piece = <<>>
  BY <1>1 DEF Text, Single
<1>2. CASE piece = <<Torn>>
  BY <1>2 DEF Text, Single
<1>3. CASE piece = <<k>>
  BY <1>3 DEF Text, Single
<1>4. CASE piece = <<k, NL>>
  BY <1>4 DEF Text, Single
<1>. QED BY <1>1, <1>2, <1>3, <1>4 DEF PartOfLine, Line

\* A key that the file does not contain may be written once.
LEMMA WrittenOnce ==
  ASSUME NEW f \in Text, NEW k \in Key, NEW piece \in PartOfLine(k) \cup {Line(k)},
         NEW S \in SUBSET Key, Single(f, S), k \in S => ~Contains(f, k)
  PROVE  Single(f \o piece, S)
<1>1. piece \in Text /\ Single(piece, S)
      /\ \A i \in DOMAIN piece : piece[i] \in Key => piece[i] = k
  BY Pieces
<1>2. /\ Len(f \o piece) = Len(f) + Len(piece)
      /\ \A i \in 1 .. Len(f) : (f \o piece)[i] = f[i]
      /\ \A i \in 1 .. Len(piece) : (f \o piece)[Len(f) + i] = piece[i]
      /\ Len(f) \in Nat /\ Len(piece) \in Nat
      /\ DOMAIN f = 1 .. Len(f) /\ DOMAIN piece = 1 .. Len(piece)
      /\ DOMAIN (f \o piece) = 1 .. Len(f \o piece)
  BY <1>1, ConcatProperties, LenProperties DEF Text
<1>3. SUFFICES ASSUME NEW i \in DOMAIN (f \o piece), NEW j \in DOMAIN (f \o piece),
                      (f \o piece)[i] = (f \o piece)[j], (f \o piece)[i] \in S
               PROVE  i = j
  BY DEF Single
<1>4. CASE i <= Len(f) /\ j <= Len(f)
  BY <1>2, <1>3, <1>4 DEF Single
<1>5. CASE i > Len(f) /\ j > Len(f)
  <2>1. i - Len(f) \in 1 .. Len(piece) /\ j - Len(f) \in 1 .. Len(piece)
    BY <1>2, <1>5
  <2>2. (f \o piece)[i] = piece[i - Len(f)] /\ (f \o piece)[j] = piece[j - Len(f)]
    BY <1>2, <2>1
  <2>3. i - Len(f) = j - Len(f)
    BY <1>1, <1>2, <1>3, <2>1, <2>2 DEF Single
  <2>. QED BY <1>2, <2>3
<1>6. ASSUME NEW a \in DOMAIN (f \o piece), NEW b \in DOMAIN (f \o piece),
             (f \o piece)[a] = (f \o piece)[b], (f \o piece)[a] \in S,
             a <= Len(f), b > Len(f)
      PROVE  FALSE
  <2>1. a \in 1 .. Len(f) /\ b - Len(f) \in 1 .. Len(piece)
    BY <1>2, <1>6
  <2>2. (f \o piece)[b] = piece[b - Len(f)]
    BY <1>2, <2>1
  <2>3. f[a] = k /\ k \in S
    BY <1>1, <1>2, <1>6, <2>1, <2>2
  <2>. QED BY <1>2, <2>1, <2>3 DEF Contains
<1>. QED BY <1>2, <1>3, <1>4, <1>5, <1>6

-----------------------------------------------------------------------------
(* What KeyInv says of processes and messages. *)

LEMMA Places ==
  /\ NoMail \in Mail
  /\ \A c \in Conn, n \in Nat \ {0} :
       /\ [conn |-> c, no |-> n] \in Mail
       /\ [conn |-> c, no |-> n] # NoMail
  /\ \A m \in Mail : m # NoMail => m.conn \in Conn /\ m.no \in Nat /\ m.no # 0
  /\ \A m, n \in Mail : m.conn = n.conn /\ m.no = n.no => m = n
BY DEF NoMail, Mail

LEMMA HostTypes ==
  ASSUME KeyInv
  PROVE  /\ pc \in [Proc -> {"off", "probe", "stat", "create", "listen", "wait",
                            "dial", "read", "look", "append", "stopping", "dead"}]
         /\ at \in [Proc -> Entry \cup {None}]
         /\ lock \in Proc \cup {None}
         /\ port \in Proc \cup {None, Other}
BY DEF KeyInv, TypeOK

LEMMA WireTypes ==
  ASSUME KeyInv
  PROVE  /\ link \in [Conn -> {"none", "open", "broken", "left"}]
         /\ dialer \in [Conn -> Proc \cup {None}]
         /\ sent \in [Conn -> Nat]
         /\ handled \in [Conn -> Nat]
         /\ keyOf \in [Entry -> Key]
         /\ add \in [Entry -> Mail]
         /\ open \in [Entry -> Mail]
         /\ login \in [Entry -> {"none", "coming", "over"}]
BY DEF KeyInv, TypeOK

LEMMA Alone ==
  ASSUME KeyInv
  PROVE  /\ \A p, q \in Proc : Running(p) /\ Running(q) => p = q
         /\ \A p, q \in Proc : at[p] # None /\ Running(q) => p = q
         /\ \A p \in Proc : at[p] # None <=> pc[p] \in {"look", "append"}
         /\ \A p \in Proc : at[p] # None => at[p] \in Entry
         /\ None \notin Entry
<1>1. \A p, q \in Proc : Running(p) /\ Running(q) => p = q
  BY DEF KeyInv, OneAgent
<1>2. \A p \in Proc : at[p] # None <=> pc[p] \in {"look", "append"}
  BY DEF KeyInv, TypeOK
<1>3. \A p \in Proc : at[p] # None => Running(p)
  BY <1>2 DEF Running
<1>4. \A p \in Proc : at[p] # None => at[p] \in Entry
  BY HostTypes
<1>. QED BY <1>1, <1>2, <1>3, <1>4

LEMMA Numbers ==
  ASSUME KeyInv
  PROVE  /\ \A e \in Entry : add[e] # NoMail =>
              add[e].conn \in Conn /\ add[e].no \in Nat /\ add[e].no # 0
         /\ \A e \in Entry : open[e] # NoMail =>
              open[e].conn \in Conn /\ open[e].no \in Nat /\ open[e].no # 0
         /\ \A c \in Conn : sent[c] \in Nat /\ handled[c] \in Nat
         /\ NoMail.conn \notin Conn
BY Places DEF KeyInv, TypeOK, NoMail

LEMMA EmptyFile ==
  /\ <<>> \in Text /\ \A S : Single(<<>>, S)
  /\ \A k \in Key : ~Contains(<<>>, k) /\ ~WholeLine(<<>>, k)
BY DEF Text, Single, Contains, WholeLine

\* The text that a process writes at the end of the file.
LEMMA Written ==
  ASSUME KeyInv, NEW p \in Proc, pc[p] = "append",
         NEW piece \in PartOfLine(keyOf[at[p]]) \cup {Line(keyOf[at[p]])},
         WriteAtEnd(p, piece), UNCHANGED misread
  PROVE  /\ made' = TRUE
         /\ file' \in Seq(Key \cup {NL, Torn})
         /\ NoDuplicates'
         /\ \A k \in Key : Contains(file, k) => Contains(file', k)
         /\ \A k \in Key : WholeLine(file, k) => WholeLine(file', k)
         /\ piece = Line(keyOf[at[p]]) => Contains(file', keyOf[at[p]])
<1> DEFINE k == keyOf[at[p]]
<1>1. /\ k \in Key /\ file \in Text /\ Single(file, Key \ misread)
      /\ k \in Key \ misread => ~Contains(file, k)
  BY Alone DEF KeyInv, TypeOK, SeenStillHolds, NoDuplicates, Single, Text
<1>2. piece \in Text /\ file' = file \o piece /\ made' = TRUE
  BY <1>1, Pieces DEF WriteAtEnd
<1>3. file' \in Text /\ Single(file', Key \ misread)
  BY <1>1, <1>2, WrittenAtEnd, WrittenOnce
<1>4. /\ \A q \in Key : Contains(file, q) => Contains(file', q)
      /\ \A q \in Key : WholeLine(file, q) => WholeLine(file', q)
  BY <1>1, <1>2, WrittenAtEnd
<1>5. ASSUME piece = Line(k)
      PROVE  Contains(file', k)
  <2>1. file' = file \o <<k, NL>> /\ Len(file) \in Nat
    BY <1>1, <1>2, <1>5 DEF Line, Text
  <2>2. Len(file) + 1 \in DOMAIN file' /\ file'[Len(file) + 1] = k
    BY <1>1, <2>1 DEF Text
  <2>. QED BY <2>2 DEF Contains
<1>. QED BY <1>2, <1>3, <1>4, <1>5 DEF Single, NoDuplicates, Text

\* The file after a process has written to it, or has not.
LEMMA FileKept ==
  ASSUME KeyInv, NEW p \in Proc,
         \/ /\ pc[p] = "append"
            /\ \E piece \in PartOfLine(keyOf[at[p]]) \cup {Line(keyOf[at[p]])} :
                 WriteAtEnd(p, piece)
         \/ UNCHANGED <<made, file>>,
         UNCHANGED misread
  PROVE  /\ made' \in BOOLEAN /\ file' \in Seq(Key \cup {NL, Torn})
         /\ made' \/ file' = <<>>
         /\ pc[p] # "append" => made' = made /\ file' = file
         /\ NoDuplicates'
         /\ \A k \in Key : Contains(file, k) => Contains(file', k)
         /\ \A k \in Key : WholeLine(file, k) => WholeLine(file', k)
<1>1. CASE UNCHANGED <<made, file>>
  BY <1>1 DEF KeyInv, TypeOK, SeenStillHolds, NoDuplicates
<1>2. CASE /\ pc[p] = "append"
           /\ \E piece \in PartOfLine(keyOf[at[p]]) \cup {Line(keyOf[at[p]])} :
                WriteAtEnd(p, piece)
  BY <1>2, Written
<1>. QED BY <1>1, <1>2

\* Who goes from place to place stays alive.
LEMMA Moves ==
  ASSUME KeyInv, NEW p \in Proc, NEW place, pc' = [pc EXCEPT ![p] = place],
         pc[p] # "dead", pc[p] = "off" \/ place \notin {"off", "dead"}, UNCHANGED dialer
  PROVE  \A c \in Conn : Live(c)' <=> Live(c)
BY HostTypes DEF Live, Running, KeyInv, Dialled

-----------------------------------------------------------------------------
(* One lemma for each action. *)

\* A process takes the lock that nobody holds.
LEMMA AcquireLockInductive ==
  ASSUME KeyInv, NEW p \in Proc, AcquireLock(p)
  PROVE  KeyInv'
<1>. TypeOK /\ OneAgent /\ SeenStillHolds /\ Dialled /\ Numbered /\ Handling /\
     KeyTaken /\ LoginTaken
  BY DEF KeyInv
<1>. USE DEF AcquireLock, GoTo
<1>1. TypeOK'
  BY DEF TypeOK
<1>2. OneAgent'
  BY HostTypes DEF OneAgent, Running
<1>3. SeenStillHolds'
  BY HostTypes DEF SeenStillHolds, NoDuplicates
<1>4. Dialled'
  BY HostTypes, WireTypes DEF Dialled
<1>5. KeyTaken' /\ LoginTaken'
  BY Moves, Numbers DEF KeyTaken, LoginTaken, Done
<1>6. Numbered' /\ Handling'
  BY DEF Numbered, Handling
<1>. QED BY <1>1, <1>2, <1>3, <1>4, <1>5, <1>6 DEF KeyInv

\* A process that does not get the lock ends.
LEMMA AlreadyRunningInductive ==
  ASSUME KeyInv, NEW p \in Proc, AlreadyRunning(p)
  PROVE  KeyInv'
<1>. TypeOK /\ OneAgent /\ SeenStillHolds /\ Dialled /\ Numbered /\ Handling /\
     KeyTaken /\ LoginTaken
  BY DEF KeyInv
<1>. USE DEF AlreadyRunning, GoTo
<1>1. TypeOK'
  BY DEF TypeOK
<1>2. OneAgent'
  BY HostTypes DEF OneAgent, Running
<1>3. SeenStillHolds'
  BY HostTypes DEF SeenStillHolds, NoDuplicates
<1>4. Dialled'
  BY HostTypes, WireTypes DEF Dialled
<1>5. KeyTaken' /\ LoginTaken'
  BY Moves, Numbers DEF KeyTaken, LoginTaken, Done
<1>6. Numbered' /\ Handling'
  BY DEF Numbered, Handling
<1>. QED BY <1>1, <1>2, <1>3, <1>4, <1>5, <1>6 DEF KeyInv

\* A process looks for an sshd.
LEMMA ProbeInductive ==
  ASSUME KeyInv, NEW p \in Proc, Probe(p)
  PROVE  KeyInv'
<1>. TypeOK /\ OneAgent /\ SeenStillHolds /\ Dialled /\ Numbered /\ Handling /\
     KeyTaken /\ LoginTaken
  BY DEF KeyInv
<1>. USE DEF Probe, GoTo
<1>1. TypeOK'
  BY DEF TypeOK
<1>2. OneAgent'
  BY HostTypes DEF OneAgent, Running
<1>3. SeenStillHolds'
  BY HostTypes DEF SeenStillHolds, NoDuplicates
<1>4. Dialled'
  BY HostTypes, WireTypes DEF Dialled
<1>5. KeyTaken' /\ LoginTaken'
  BY Moves, Numbers DEF KeyTaken, LoginTaken, Done
<1>6. Numbered' /\ Handling'
  BY DEF Numbered, Handling
<1>. QED BY <1>1, <1>2, <1>3, <1>4, <1>5, <1>6 DEF KeyInv

\* A process looks for the file.
LEMMA StatInductive ==
  ASSUME KeyInv, NEW p \in Proc, Stat(p)
  PROVE  KeyInv'
<1>. TypeOK /\ OneAgent /\ SeenStillHolds /\ Dialled /\ Numbered /\ Handling /\
     KeyTaken /\ LoginTaken
  BY DEF KeyInv
<1>. USE DEF Stat, GoTo
<1>1. TypeOK'
  BY DEF TypeOK
<1>2. OneAgent'
  BY HostTypes DEF OneAgent, Running
<1>3. SeenStillHolds'
  BY HostTypes DEF SeenStillHolds, NoDuplicates
<1>4. Dialled'
  BY HostTypes, WireTypes DEF Dialled
<1>5. KeyTaken' /\ LoginTaken'
  BY Moves, Numbers DEF KeyTaken, LoginTaken, Done
<1>6. Numbered' /\ Handling'
  BY DEF Numbered, Handling
<1>. QED BY <1>1, <1>2, <1>3, <1>4, <1>5, <1>6 DEF KeyInv

\* A process creates the file, which is not there.
LEMMA CreateInductive ==
  ASSUME KeyInv, NEW p \in Proc, Create(p)
  PROVE  KeyInv'
<1>. TypeOK /\ OneAgent /\ SeenStillHolds /\ Dialled /\ Numbered /\ Handling /\
     KeyTaken /\ LoginTaken
  BY DEF KeyInv
<1>. USE DEF Create, GoTo
<1>1. file' \in {file, <<>>} /\ (made' \/ file' = <<>>)
  BY DEF SeenStillHolds
<1>2. TypeOK'
  BY <1>1, EmptyFile DEF TypeOK, Text
<1>3. OneAgent'
  BY HostTypes DEF OneAgent, Running
<1>4. SeenStillHolds'
  <2>1. NoDuplicates'
    BY <1>1, EmptyFile DEF SeenStillHolds, NoDuplicates, Single
  <2>2. \A q \in Proc : pc'[q] # "append"
    BY Alone, HostTypes DEF Running
  <2>. QED BY <1>1, <2>1, <2>2 DEF SeenStillHolds
<1>5. Dialled'
  BY HostTypes, WireTypes DEF Dialled
<1>6. \A c \in Conn : ~Live(c)'
  <2>1. \A c \in Conn : Live(c) => dialer[c] = p
    BY Alone DEF Live, Running
  <2>. QED BY <2>1, Moves DEF Dialled
<1>7. KeyTaken' /\ LoginTaken'
  BY <1>6, Numbers, Moves DEF KeyTaken, LoginTaken
<1>8. Numbered' /\ Handling'
  BY DEF Numbered, Handling
<1>. QED BY <1>2, <1>3, <1>4, <1>5, <1>7, <1>8 DEF KeyInv

\* The server of a process listens.
LEMMA ListenInductive ==
  ASSUME KeyInv, NEW p \in Proc, Listen(p)
  PROVE  KeyInv'
<1>. TypeOK /\ OneAgent /\ SeenStillHolds /\ Dialled /\ Numbered /\ Handling /\
     KeyTaken /\ LoginTaken
  BY DEF KeyInv
<1>. USE DEF Listen, GoTo
<1>1. TypeOK'
  BY DEF TypeOK
<1>2. OneAgent'
  BY HostTypes DEF OneAgent, Running
<1>3. SeenStillHolds'
  BY HostTypes DEF SeenStillHolds, NoDuplicates
<1>4. Dialled'
  BY HostTypes, WireTypes DEF Dialled
<1>5. KeyTaken' /\ LoginTaken'
  BY Moves, Numbers DEF KeyTaken, LoginTaken, Done
<1>6. Numbered' /\ Handling'
  BY DEF Numbered, Handling
<1>. QED BY <1>1, <1>2, <1>3, <1>4, <1>5, <1>6 DEF KeyInv

\* A process finds that somebody listens.
LEMMA WaitListeningInductive ==
  ASSUME KeyInv, NEW p \in Proc, WaitListening(p)
  PROVE  KeyInv'
<1>. TypeOK /\ OneAgent /\ SeenStillHolds /\ Dialled /\ Numbered /\ Handling /\
     KeyTaken /\ LoginTaken
  BY DEF KeyInv
<1>. USE DEF WaitListening, GoTo
<1>1. TypeOK'
  BY DEF TypeOK
<1>2. OneAgent'
  BY HostTypes DEF OneAgent, Running
<1>3. SeenStillHolds'
  BY HostTypes DEF SeenStillHolds, NoDuplicates
<1>4. Dialled'
  BY HostTypes, WireTypes DEF Dialled
<1>5. KeyTaken' /\ LoginTaken'
  BY Moves, Numbers DEF KeyTaken, LoginTaken, Done
<1>6. Numbered' /\ Handling'
  BY DEF Numbered, Handling
<1>. QED BY <1>1, <1>2, <1>3, <1>4, <1>5, <1>6 DEF KeyInv

\* A process finds that nobody listens.
LEMMA WaitFailsInductive ==
  ASSUME KeyInv, NEW p \in Proc, WaitFails(p)
  PROVE  KeyInv'
<1>. TypeOK /\ OneAgent /\ SeenStillHolds /\ Dialled /\ Numbered /\ Handling /\
     KeyTaken /\ LoginTaken
  BY DEF KeyInv
<1>. USE DEF WaitFails, GoTo, PortLeftBy
<1>1. TypeOK'
  BY DEF TypeOK
<1>2. OneAgent'
  BY HostTypes DEF OneAgent, Running
<1>3. SeenStillHolds'
  BY HostTypes DEF SeenStillHolds, NoDuplicates
<1>4. Dialled'
  BY HostTypes, WireTypes DEF Dialled
<1>5. KeyTaken' /\ LoginTaken'
  BY Moves, Numbers DEF KeyTaken, LoginTaken, Done
<1>6. Numbered' /\ Handling'
  BY DEF Numbered, Handling
<1>. QED BY <1>1, <1>2, <1>3, <1>4, <1>5, <1>6 DEF KeyInv

\* Another program ends.
LEMMA OtherLeavesPortInductive ==
  ASSUME KeyInv, OtherLeavesPort
  PROVE  KeyInv'
<1>. TypeOK /\ OneAgent /\ SeenStillHolds /\ Dialled /\ Numbered /\ Handling /\
     KeyTaken /\ LoginTaken
  BY DEF KeyInv
<1>. USE DEF OtherLeavesPort
<1>1. TypeOK'
  BY DEF TypeOK
<1>2. OneAgent'
  BY HostTypes DEF OneAgent, Running
<1>3. SeenStillHolds' /\ Numbered' /\ Handling' /\ KeyTaken' /\ LoginTaken'
  BY DEF SeenStillHolds, Numbered, Handling, KeyTaken, LoginTaken,
         NoDuplicates, Done, Live, Running
<1>4. Dialled'
  BY HostTypes, WireTypes DEF Dialled
<1>. QED BY <1>1, <1>2, <1>3, <1>4 DEF KeyInv

\* A control connection is set up.
LEMMA DialInductive ==
  ASSUME KeyInv, NEW p \in Proc, NEW c \in Conn, Dial(p, c)
  PROVE  KeyInv'
<1>. TypeOK /\ OneAgent /\ SeenStillHolds /\ Dialled /\ Numbered /\ Handling /\
     KeyTaken /\ LoginTaken
  BY DEF KeyInv
<1>. USE DEF Dial, GoTo
<1>1. TypeOK'
  BY DEF TypeOK
<1>2. OneAgent'
  BY HostTypes DEF OneAgent, Running
<1>3. SeenStillHolds'
  BY HostTypes DEF SeenStillHolds, NoDuplicates
<1>4. Handling'
  BY HostTypes, WireTypes, Alone, Numbers DEF Handling, Running
<1>5. KeyTaken' /\ LoginTaken'
  <2>1. \A d \in Conn : Live(d)' <=> IF d = c THEN TRUE ELSE Live(d)
    BY HostTypes, WireTypes DEF Live, Running
  <2>2. handled[c] = 0
    BY DEF Dialled
  <2>. QED BY <2>1, <2>2, WireTypes, Numbers DEF KeyTaken, LoginTaken, Done
<1>6. Numbered'
  BY DEF Numbered
<1>7. Dialled'
  BY HostTypes, WireTypes DEF Dialled
<1>. QED BY <1>1, <1>2, <1>3, <1>4, <1>5, <1>6, <1>7 DEF KeyInv

\* A control connection breaks.
LEMMA LinkBreaksInductive ==
  ASSUME KeyInv, NEW c \in Conn, LinkBreaks(c)
  PROVE  KeyInv'
<1>. TypeOK /\ OneAgent /\ SeenStillHolds /\ Dialled /\ Numbered /\ Handling /\
     KeyTaken /\ LoginTaken
  BY DEF KeyInv
<1>. USE DEF LinkBreaks
<1>1. TypeOK'
  BY DEF TypeOK
<1>2. KeyTaken'
  BY HostTypes, WireTypes, Alone, Numbers DEF KeyTaken, Done, Live, Running
<1>3. OneAgent' /\ SeenStillHolds' /\ Numbered' /\ Handling' /\ LoginTaken'
  BY DEF OneAgent, SeenStillHolds, Numbered, Handling, LoginTaken, Running,
         NoDuplicates, Live
<1>4. Dialled'
  BY HostTypes, WireTypes DEF Dialled
<1>. QED BY <1>1, <1>2, <1>3, <1>4 DEF KeyInv

\* readControl leaves a connection.
LEMMA LostInductive ==
  ASSUME KeyInv, NEW p \in Proc, NEW c \in Conn, Lost(p, c)
  PROVE  KeyInv'
<1>. TypeOK /\ OneAgent /\ SeenStillHolds /\ Dialled /\ Numbered /\ Handling /\
     KeyTaken /\ LoginTaken
  BY DEF KeyInv
<1>. USE DEF Lost, GoTo
<1>1. TypeOK'
  BY DEF TypeOK
<1>2. OneAgent'
  BY HostTypes DEF OneAgent, Running
<1>3. SeenStillHolds'
  BY HostTypes DEF SeenStillHolds, NoDuplicates
<1>4. KeyTaken' /\ LoginTaken'
  BY Moves, Numbers DEF KeyTaken, LoginTaken, Done
<1>5. Numbered' /\ Handling'
  BY DEF Numbered, Handling
<1>6. Dialled'
  BY HostTypes, WireTypes DEF Dialled
<1>. QED BY <1>1, <1>2, <1>3, <1>4, <1>5, <1>6 DEF KeyInv

\* The hub gives a connection up.
LEMMA HubNoticesInductive ==
  ASSUME KeyInv, NEW c \in Conn, HubNotices(c)
  PROVE  KeyInv'
<1>. TypeOK /\ OneAgent /\ SeenStillHolds /\ Dialled /\ Numbered /\ Handling /\
     KeyTaken /\ LoginTaken
  BY DEF KeyInv
<1>. USE DEF HubNotices
<1>1. TypeOK'
  BY DEF TypeOK
<1>2. OneAgent' /\ SeenStillHolds' /\ Numbered' /\ Handling' /\ KeyTaken' /\
      LoginTaken'
  BY DEF OneAgent, SeenStillHolds, Numbered, Handling, KeyTaken, LoginTaken,
         Running, NoDuplicates, Done, Live
<1>3. Dialled'
  BY HostTypes, WireTypes DEF Dialled
<1>. QED BY <1>1, <1>2, <1>3 DEF KeyInv

\* Start of an agent returns.
LEMMA GiveUpInductive ==
  ASSUME KeyInv, NEW p \in Proc, GiveUp(p)
  PROVE  KeyInv'
<1>. TypeOK /\ OneAgent /\ SeenStillHolds /\ Dialled /\ Numbered /\ Handling /\
     KeyTaken /\ LoginTaken
  BY DEF KeyInv
<1>. USE DEF GiveUp, GoTo, PortLeftBy
<1>1. TypeOK'
  BY DEF TypeOK
<1>2. OneAgent'
  BY HostTypes DEF OneAgent, Running
<1>3. SeenStillHolds'
  BY HostTypes DEF SeenStillHolds, NoDuplicates
<1>4. Dialled'
  BY HostTypes, WireTypes DEF Dialled
<1>5. KeyTaken' /\ LoginTaken'
  BY Moves, Numbers DEF KeyTaken, LoginTaken, Done
<1>6. Numbered' /\ Handling'
  BY DEF Numbered, Handling
<1>. QED BY <1>1, <1>2, <1>3, <1>4, <1>5, <1>6 DEF KeyInv

\* A process releases the lock.
LEMMA ReleaseInductive ==
  ASSUME KeyInv, NEW p \in Proc, Release(p)
  PROVE  KeyInv'
<1>. TypeOK /\ OneAgent /\ SeenStillHolds /\ Dialled /\ Numbered /\ Handling /\
     KeyTaken /\ LoginTaken
  BY DEF KeyInv
<1>. USE DEF Release, GoTo, LoginsLeftBy
<1>1. TypeOK'
  BY DEF TypeOK
<1>2. OneAgent'
  BY HostTypes DEF OneAgent, Running
<1>3. SeenStillHolds'
  BY HostTypes DEF SeenStillHolds, NoDuplicates
<1>4. KeyTaken' /\ LoginTaken'
  <2>1. \A c \in Conn : ~Live(c)'
    BY HostTypes, WireTypes, Alone DEF Live, Running
  <2>2. \A e \in Entry : login'[e] # "coming"
    BY HostTypes, WireTypes, Alone, Numbers DEF LoginTaken, Live, Running
  <2>. QED BY <2>1, <2>2, Numbers DEF KeyTaken, LoginTaken
<1>5. Numbered' /\ Handling'
  BY DEF Numbered, Handling
<1>6. Dialled'
  BY HostTypes, WireTypes DEF Dialled
<1>. QED BY <1>1, <1>2, <1>3, <1>4, <1>5, <1>6 DEF KeyInv

\* A process dies, and may leave a part of a line.
LEMMA CrashInductive ==
  ASSUME KeyInv, NEW p \in Proc, Crash(p)
  PROVE  KeyInv'
<1>. TypeOK /\ OneAgent /\ SeenStillHolds /\ Dialled /\ Numbered /\ Handling /\
     KeyTaken /\ LoginTaken
  BY DEF KeyInv
<1>. USE DEF Crash, GoTo, LoginsLeftBy, PortLeftBy
<1>1. /\ made' \in BOOLEAN /\ file' \in Seq(Key \cup {NL, Torn})
      /\ made' \/ file' = <<>>
      /\ pc[p] # "append" => made' = made /\ file' = file
      /\ NoDuplicates'
      /\ \A k \in Key : Contains(file, k) => Contains(file', k)
  BY FileKept
<1>2. TypeOK'
  BY <1>1, HostTypes DEF TypeOK
<1>3. OneAgent'
  BY HostTypes DEF OneAgent, Running
<1>4. SeenStillHolds'
  BY <1>1, Alone, HostTypes DEF SeenStillHolds, NoDuplicates, Running
<1>5. Handling'
  BY HostTypes, WireTypes, Alone, Numbers DEF Handling
<1>6. KeyTaken' /\ LoginTaken'
  <2>1. \A c \in Conn : ~Live(c)'
    BY HostTypes, WireTypes, Alone DEF Live, Running
  <2>2. \A e \in Entry : login'[e] # "coming"
    BY HostTypes, WireTypes, Alone, Numbers DEF LoginTaken, Live, Running
  <2>. QED BY <2>1, <2>2, Numbers DEF KeyTaken, LoginTaken
<1>8. Numbered'
  BY DEF Numbered
<1>9. Dialled'
  BY HostTypes, WireTypes DEF Dialled
<1>. QED BY <1>2, <1>3, <1>4, <1>5, <1>6, <1>8, <1>9 DEF KeyInv

\* An entry asks for its key to be pushed, or does not.
LEMMA PushKeyInductive ==
  ASSUME KeyInv, NEW e \in Entry, PushKey(e)
  PROVE  KeyInv'
<1>. TypeOK /\ OneAgent /\ SeenStillHolds /\ Dialled /\ Numbered /\ Handling /\
     KeyTaken /\ LoginTaken
  BY DEF KeyInv
<1>. USE DEF PushKey, Reached
<1>1. TypeOK'
  BY DEF TypeOK
<1>2. Numbered'
  BY WireTypes, Numbers DEF Numbered, TypeOK
<1>3. OneAgent' /\ SeenStillHolds' /\ Handling' /\ KeyTaken' /\ LoginTaken'
  BY DEF OneAgent, SeenStillHolds, Handling, KeyTaken, LoginTaken, Running,
         NoDuplicates, Done, Live
<1>4. Dialled'
  BY HostTypes, WireTypes DEF Dialled
<1>. QED BY <1>1, <1>2, <1>3, <1>4 DEF KeyInv

\* A key is written to a control connection.
LEMMA AppendKnownHostInductive ==
  ASSUME KeyInv, NEW e \in Entry, AppendKnownHost(e)
  PROVE  KeyInv'
<1>. TypeOK /\ OneAgent /\ SeenStillHolds /\ Dialled /\ Numbered /\ Handling /\
     KeyTaken /\ LoginTaken
  BY DEF KeyInv
<1>. USE DEF AppendKnownHost, Reached, WriteTo
<1>1. /\ control \in Conn /\ sent[control] + 1 \in Nat
      /\ [conn |-> control, no |-> sent[control] + 1] \in Mail \ {NoMail}
      /\ [conn |-> control, no |-> sent[control] + 1].conn = control
      /\ [conn |-> control, no |-> sent[control] + 1].no = sent[control] + 1
  BY WireTypes, Places DEF TypeOK
<1>2. /\ add' \in [Entry -> Mail] /\ sent' \in [Conn -> Nat]
      /\ \A f \in Entry : f # e => add'[f] = add[f]
      /\ \A c \in Conn : sent'[c] >= sent[c]
      /\ \/ add'[e] = add[e]
         \/ /\ add'[e].conn = control /\ add'[e].no = sent[control] + 1
            /\ add'[e] # NoMail /\ sent'[control] = sent[control] + 1
  <2>1. CASE link[control] = "open"
    BY <1>1, <2>1, WireTypes
  <2>2. CASE link[control] # "open"
    BY <1>1, <2>2, WireTypes
  <2>. QED BY <2>1, <2>2
<1>3. TypeOK'
  BY <1>2 DEF TypeOK
<1>4. Numbered'
  <2>1. \A f \in Entry : /\ add[f] # NoMail => add[f].no <= sent[add[f].conn]
                         /\ open[f] # NoMail => open[f].no <= sent[open[f].conn]
    BY DEF Numbered
  <2>2. \A d \in Conn : handled[d] <= sent'[d]
    BY <1>2, Numbers DEF Numbered
  <2>3. ASSUME NEW f \in Entry
        PROVE  /\ add'[f] # NoMail => add'[f].no <= sent'[add'[f].conn]
               /\ open[f] # NoMail => open[f].no <= sent'[open[f].conn]
    <3>1. /\ add[f] # NoMail => /\ add[f].conn \in Conn /\ add[f].no \in Nat
                                /\ add[f].no <= sent[add[f].conn]
          /\ open[f] # NoMail => /\ open[f].conn \in Conn /\ open[f].no \in Nat
                                 /\ open[f].no <= sent[open[f].conn]
          /\ \A d \in Conn : sent[d] \in Nat /\ sent'[d] \in Nat /\ sent[d] <= sent'[d]
      <4>1. add[f] # NoMail => /\ add[f].conn \in Conn /\ add[f].no \in Nat
                               /\ add[f].no <= sent[add[f].conn]
        BY <2>1, Numbers
      <4>2. open[f] # NoMail => /\ open[f].conn \in Conn /\ open[f].no \in Nat
                                /\ open[f].no <= sent[open[f].conn]
        BY <2>1, Numbers
      <4>3. ASSUME NEW d \in Conn
            PROVE  sent[d] \in Nat /\ sent'[d] \in Nat /\ sent[d] <= sent'[d]
        BY <1>2, <4>3, WireTypes
      <4>. QED BY <4>1, <4>2, <4>3
    <3>2. open[f] # NoMail => open[f].no <= sent'[open[f].conn]
      BY <3>1
    <3>3. CASE add'[f] = add[f]
      BY <3>1, <3>2, <3>3
    <3>4. CASE f = e /\ add'[e] # add[e]
      BY <1>1, <1>2, <3>2, <3>4
    <3>. QED BY <1>2, <3>3, <3>4
  <2>4. ASSUME NEW f \in Entry
        PROVE  /\ epc'[f] \in {"start", "write"} => add'[f] = NoMail
               /\ epc'[f] # "done" => open'[f] = NoMail
    BY <1>2 DEF Numbered, TypeOK
  <2>5. ASSUME NEW f \in Entry, add'[f] # NoMail, add'[f].conn = open'[f].conn
        PROVE  add'[f].no < open'[f].no
    BY <1>1, <1>2, <2>1, <2>5, Numbers DEF Numbered
  <2>6. ASSUME NEW f \in Entry, NEW g \in Entry, add'[f] # NoMail
        PROVE  add'[f] # open'[g] /\ (add'[g] = add'[f] => g = f)
    BY <1>1, <1>2, <2>1, <2>6, Numbers DEF Numbered
  <2>. QED BY <2>2, <2>3, <2>4, <2>5, <2>6 DEF Numbered
<1>5. Handling'
  BY HostTypes, WireTypes, Alone, Numbers DEF Handling, Numbered
<1>6. KeyTaken'
  BY <1>1, <1>2, HostTypes, WireTypes, Alone, Numbers DEF KeyTaken, Done,
     Numbered, Live, Running
<1>7. OneAgent' /\ SeenStillHolds' /\ LoginTaken'
  BY DEF OneAgent, SeenStillHolds, LoginTaken, Running, NoDuplicates, Live
<1>8. Dialled'
  BY HostTypes, WireTypes DEF Dialled
<1>. QED BY <1>3, <1>4, <1>5, <1>6, <1>7, <1>8 DEF KeyInv

\* A key is not written.
LEMMA AppendKnownHostFailsInductive ==
  ASSUME KeyInv, NEW e \in Entry, AppendKnownHostFails(e)
  PROVE  KeyInv'
<1>. TypeOK /\ OneAgent /\ SeenStillHolds /\ Dialled /\ Numbered /\ Handling /\
     KeyTaken /\ LoginTaken
  BY DEF KeyInv
<1>. USE DEF AppendKnownHostFails, Reached
<1>1. TypeOK'
  BY DEF TypeOK
<1>2. Numbered'
  BY WireTypes, Numbers DEF Numbered, TypeOK
<1>3. OneAgent' /\ SeenStillHolds' /\ Handling' /\ KeyTaken' /\ LoginTaken'
  BY DEF OneAgent, SeenStillHolds, Handling, KeyTaken, LoginTaken, Running,
         NoDuplicates, Done, Live
<1>4. Dialled'
  BY HostTypes, WireTypes DEF Dialled
<1>. QED BY <1>1, <1>2, <1>3, <1>4 DEF KeyInv

\* The OPEN of a login is written to a control connection.
LEMMA SendOpenInductive ==
  ASSUME KeyInv, NEW e \in Entry, SendOpen(e)
  PROVE  KeyInv'
<1>. TypeOK /\ OneAgent /\ SeenStillHolds /\ Dialled /\ Numbered /\ Handling /\
     KeyTaken /\ LoginTaken
  BY DEF KeyInv
<1>. USE DEF SendOpen, Reached, WriteTo
<1>1. /\ control \in Conn /\ sent[control] + 1 \in Nat
      /\ [conn |-> control, no |-> sent[control] + 1] \in Mail \ {NoMail}
      /\ [conn |-> control, no |-> sent[control] + 1].conn = control
      /\ [conn |-> control, no |-> sent[control] + 1].no = sent[control] + 1
  BY WireTypes, Places DEF TypeOK
<1>2. /\ open' \in [Entry -> Mail] /\ sent' \in [Conn -> Nat]
      /\ \A f \in Entry : f # e => open'[f] = open[f]
      /\ \A c \in Conn : sent'[c] >= sent[c]
      /\ \/ open'[e] = open[e]
         \/ /\ open'[e].conn = control /\ open'[e].no = sent[control] + 1
            /\ open'[e] # NoMail /\ sent'[control] = sent[control] + 1
  <2>1. CASE link[control] = "open"
    BY <1>1, <2>1, WireTypes
  <2>2. CASE link[control] # "open"
    BY <1>1, <2>2, WireTypes
  <2>. QED BY <2>1, <2>2
<1>3. TypeOK'
  BY <1>2 DEF TypeOK
<1>4. Numbered'
  <2>1. \A f \in Entry : /\ add[f] # NoMail => add[f].no <= sent[add[f].conn]
                         /\ open[f] # NoMail => open[f].no <= sent[open[f].conn]
    BY DEF Numbered
  <2>2. \A d \in Conn : handled[d] <= sent'[d]
    BY <1>2, Numbers DEF Numbered
  <2>3. ASSUME NEW f \in Entry
        PROVE  /\ open'[f] # NoMail => open'[f].no <= sent'[open'[f].conn]
               /\ add[f] # NoMail => add[f].no <= sent'[add[f].conn]
    <3>1. /\ add[f] # NoMail => /\ add[f].conn \in Conn /\ add[f].no \in Nat
                                /\ add[f].no <= sent[add[f].conn]
          /\ open[f] # NoMail => /\ open[f].conn \in Conn /\ open[f].no \in Nat
                                 /\ open[f].no <= sent[open[f].conn]
          /\ \A d \in Conn : sent[d] \in Nat /\ sent'[d] \in Nat /\ sent[d] <= sent'[d]
      <4>1. add[f] # NoMail => /\ add[f].conn \in Conn /\ add[f].no \in Nat
                               /\ add[f].no <= sent[add[f].conn]
        BY <2>1, Numbers
      <4>2. open[f] # NoMail => /\ open[f].conn \in Conn /\ open[f].no \in Nat
                                /\ open[f].no <= sent[open[f].conn]
        BY <2>1, Numbers
      <4>3. ASSUME NEW d \in Conn
            PROVE  sent[d] \in Nat /\ sent'[d] \in Nat /\ sent[d] <= sent'[d]
        BY <1>2, <4>3, WireTypes
      <4>. QED BY <4>1, <4>2, <4>3
    <3>2. add[f] # NoMail => add[f].no <= sent'[add[f].conn]
      BY <3>1
    <3>3. CASE open'[f] = open[f]
      BY <3>1, <3>2, <3>3
    <3>4. CASE f = e /\ open'[e] # open[e]
      BY <1>1, <1>2, <3>2, <3>4
    <3>. QED BY <1>2, <3>3, <3>4
  <2>4. ASSUME NEW f \in Entry
        PROVE  /\ epc'[f] \in {"start", "write"} => add'[f] = NoMail
               /\ epc'[f] # "done" => open'[f] = NoMail
    BY <1>2 DEF Numbered, TypeOK
  <2>5. ASSUME NEW f \in Entry, add'[f] # NoMail, add'[f].conn = open'[f].conn
        PROVE  add'[f].no < open'[f].no
    BY <1>1, <1>2, <2>1, <2>5, Numbers DEF Numbered
  <2>6. ASSUME NEW f \in Entry, NEW g \in Entry, add'[f] # NoMail
        PROVE  add'[f] # open'[g] /\ (add'[g] = add'[f] => g = f)
    BY <1>1, <1>2, <2>1, <2>6, Numbers DEF Numbered
  <2>. QED BY <2>2, <2>3, <2>4, <2>5, <2>6 DEF Numbered
<1>5. LoginTaken'
  BY WireTypes, Numbers DEF LoginTaken, Numbered, Live, Running
<1>6. OneAgent' /\ SeenStillHolds' /\ Handling' /\ KeyTaken'
  BY DEF OneAgent, SeenStillHolds, Handling, KeyTaken, Running,
         NoDuplicates, Done, Live
<1>7. Dialled'
  BY HostTypes, WireTypes DEF Dialled
<1>. QED BY <1>3, <1>4, <1>5, <1>6, <1>7 DEF KeyInv

\* A login comes to sshd.
LEMMA LoginArrivesInductive ==
  ASSUME KeyInv, NEW e \in Entry, LoginArrives(e)
  PROVE  KeyInv'
<1>. TypeOK /\ OneAgent /\ SeenStillHolds /\ Dialled /\ Numbered /\ Handling /\
     KeyTaken /\ LoginTaken
  BY DEF KeyInv
<1>. USE DEF LoginArrives
<1>1. TypeOK'
  BY DEF TypeOK
<1>2. LoginTaken'
  BY WireTypes, Numbers DEF LoginTaken, Live, Running
<1>3. OneAgent' /\ SeenStillHolds' /\ Numbered' /\ Handling' /\ KeyTaken'
  BY DEF OneAgent, SeenStillHolds, Numbered, Handling, KeyTaken, Running,
         NoDuplicates, Done, Live
<1>4. Dialled'
  BY HostTypes, WireTypes DEF Dialled
<1>. QED BY <1>1, <1>2, <1>3, <1>4 DEF KeyInv

\* readControl takes a key.
LEMMA ReceiveAddInductive ==
  ASSUME KeyInv, NEW p \in Proc, NEW c \in Conn, NEW e \in Entry,
         ReceiveAdd(p, c, e)
  PROVE  KeyInv'
<1>. TypeOK /\ OneAgent /\ SeenStillHolds /\ Dialled /\ Numbered /\ Handling /\
     KeyTaken /\ LoginTaken
  BY DEF KeyInv
<1>. USE DEF ReceiveAdd, GoTo, TakesNext
<1>1. TypeOK'
  BY DEF TypeOK
<1>2. OneAgent'
  BY HostTypes DEF OneAgent, Running
<1>3. SeenStillHolds'
  BY Alone, HostTypes DEF SeenStillHolds, NoDuplicates
<1>4. Numbered'
  BY WireTypes, Numbers DEF Numbered
<1>5. Handling'
  BY HostTypes, WireTypes, Alone, Numbers DEF Handling, Running
<1>6. KeyTaken'
  <2>1. SUFFICES ASSUME NEW f \in Entry, add[f] # NoMail,
                        handled'[add[f].conn] >= add[f].no, Live(add[f].conn)'
                 PROVE  \/ Done(f)
                        \/ /\ handled'[add[f].conn] = add[f].no
                           /\ \E q \in Proc : at'[q] = f
    BY DEF KeyTaken, Done
  <2>2. /\ add[f].conn \in Conn /\ add[f].no \in Nat /\ handled[c] \in Nat
        /\ handled' = [handled EXCEPT ![c] = @ + 1]
        /\ Live(add[f].conn)
    BY <2>1, Numbers, HostTypes DEF Live, Running
  <2>6. at[p] = None /\ \A q \in Proc : at[q] # f
    BY Alone DEF Running
  <2>3. CASE add[f].conn # c
    BY <2>1, <2>2, <2>6, <2>3, WireTypes DEF KeyTaken
  <2>4. CASE add[f].conn = c /\ add[f].no <= handled[c]
    BY <2>1, <2>2, <2>6, <2>4, WireTypes DEF KeyTaken
  <2>5. CASE add[f].conn = c /\ add[f].no = handled[c] + 1
    <3>1. add[f] = add[e]
      BY <2>5, WireTypes, Places, Numbers
    <3>2. at'[p] = f
      BY <2>1, <3>1, HostTypes DEF Numbered
    <3>. QED BY <2>2, <2>5, <3>2, WireTypes
  <2>. QED BY <2>1, <2>2, <2>3, <2>4, <2>5, WireTypes
<1>7. LoginTaken'
  BY HostTypes, WireTypes, Numbers DEF LoginTaken, Live, Running
<1>8. Dialled'
  BY HostTypes, WireTypes DEF Dialled
<1>. QED BY <1>1, <1>2, <1>3, <1>4, <1>5, <1>6, <1>7, <1>8 DEF KeyInv

\* readControl takes an OPEN.
LEMMA ReceiveOpenInductive ==
  ASSUME KeyInv, NEW p \in Proc, NEW c \in Conn, NEW e \in Entry,
         ReceiveOpen(p, c, e)
  PROVE  KeyInv'
<1>. TypeOK /\ OneAgent /\ SeenStillHolds /\ Dialled /\ Numbered /\ Handling /\
     KeyTaken /\ LoginTaken
  BY DEF KeyInv
<1>. USE DEF ReceiveOpen, TakesNext
<1>1. TypeOK'
  BY DEF TypeOK
<1>2. Numbered'
  BY WireTypes, Numbers DEF Numbered
<1>3. Handling'
  BY HostTypes, WireTypes, Alone, Numbers DEF Handling, Running
<1>4. KeyTaken'
  <2>1. SUFFICES ASSUME NEW f \in Entry, add[f] # NoMail,
                        handled'[add[f].conn] >= add[f].no, Live(add[f].conn)'
                 PROVE  \/ Done(f)
                        \/ /\ handled'[add[f].conn] = add[f].no
                           /\ \E q \in Proc : at'[q] = f
    BY DEF KeyTaken, Done
  <2>2. /\ add[f].conn \in Conn /\ add[f].no \in Nat /\ handled[c] \in Nat
        /\ handled' = [handled EXCEPT ![c] = @ + 1]
        /\ Live(add[f].conn)
    BY <2>1, Numbers DEF Live, Running
  <2>6. at[p] = None /\ \A q \in Proc : at[q] # f
    BY Alone DEF Running
  <2>3. CASE add[f].conn # c
    BY <2>1, <2>2, <2>6, <2>3, WireTypes DEF KeyTaken
  <2>4. CASE add[f].conn = c /\ add[f].no <= handled[c]
    BY <2>1, <2>2, <2>6, <2>4, WireTypes DEF KeyTaken
  <2>5. CASE add[f].conn = c /\ add[f].no = handled[c] + 1
    <3>1. add[f] = open[e]
      BY <2>5, WireTypes, Places, Numbers
    <3>. QED BY <2>1, <3>1 DEF Numbered
  <2>. QED BY <2>1, <2>2, <2>3, <2>4, <2>5, WireTypes
<1>5. LoginTaken'
  BY HostTypes, WireTypes, Numbers DEF LoginTaken, Live, Running
<1>6. OneAgent' /\ SeenStillHolds'
  BY DEF OneAgent, SeenStillHolds, Running, NoDuplicates
<1>7. Dialled'
  BY HostTypes, WireTypes DEF Dialled
<1>. QED BY <1>1, <1>2, <1>3, <1>4, <1>5, <1>6, <1>7 DEF KeyInv

\* A process looks for the key in the file.
LEMMA LookInductive ==
  ASSUME KeyInv, NEW p \in Proc, Look(p)
  PROVE  KeyInv'
<1>. TypeOK /\ OneAgent /\ SeenStillHolds /\ Dialled /\ Numbered /\ Handling /\
     KeyTaken /\ LoginTaken
  BY DEF KeyInv
<1>. USE DEF Look, GoTo, Handled
<1> DEFINE k == keyOf[at[p]]
<1>1. /\ pc[p] = "look" /\ at[p] \in Entry /\ k \in Key
      /\ UNCHANGED <<lock, port, made, file, failed, commVars>>
      /\ misread \subseteq misread' /\ misread' \in SUBSET Key
      /\ \/ pc' = [pc EXCEPT ![p] = "read"] /\ at' = [at EXCEPT ![p] = None]
            /\ Contains(file, k)
         \/ pc' = [pc EXCEPT ![p] = "append"] /\ at' = at
            /\ (Contains(file, k) => k \in misread')
  BY Alone DEF TypeOK
<1>2. TypeOK'
  <2>1. \A q \in Proc : at'[q] # None <=> pc'[q] \in {"look", "append"}
    BY <1>1, HostTypes, Alone
  <2>2. /\ pc' \in [Proc -> {"off", "probe", "stat", "create", "listen", "wait",
                            "dial", "read", "look", "append", "stopping", "dead"}]
        /\ at' \in [Proc -> Entry \cup {None}]
    BY <1>1, HostTypes
  <2>. QED BY <1>1, <2>1, <2>2 DEF TypeOK
<1>3. OneAgent'
  BY <1>1, HostTypes DEF OneAgent, Running
<1>4. SeenStillHolds'
  BY <1>1, Alone, HostTypes DEF SeenStillHolds, NoDuplicates, Running
<1>5. Dialled'
  BY <1>1, HostTypes, WireTypes DEF Dialled
<1>6. Handling'
  BY <1>1, HostTypes, WireTypes, Alone, Numbers DEF Handling
<1>7. \A c \in Conn : Live(c)' <=> Live(c)
  BY <1>1, Moves
<1>8. KeyTaken'
  BY <1>1, <1>7, HostTypes, WireTypes, Alone, Numbers DEF KeyTaken, Done, Running
<1>9. Numbered' /\ LoginTaken'
  BY <1>1, <1>7, Numbers DEF Numbered, LoginTaken
<1>. QED BY <1>2, <1>3, <1>4, <1>5, <1>6, <1>8, <1>9 DEF KeyInv

\* A process appends the line of a key.
LEMMA AppendKeyInductive ==
  ASSUME KeyInv, NEW p \in Proc, AppendKey(p)
  PROVE  KeyInv'
<1>. TypeOK /\ OneAgent /\ SeenStillHolds /\ Dialled /\ Numbered /\ Handling /\
     KeyTaken /\ LoginTaken
  BY DEF KeyInv
<1>. USE DEF AppendKey, GoTo, Handled
<1>1. pc[p] = "append"
  BY DEF WriteAtEnd
<1>2. /\ made' \in BOOLEAN /\ file' \in Seq(Key \cup {NL, Torn})
      /\ made' \/ file' = <<>>
      /\ pc[p] # "append" => made' = made /\ file' = file
      /\ NoDuplicates'
      /\ \A k \in Key : Contains(file, k) => Contains(file', k)
  BY <1>1, FileKept
<1>3. Contains(file', keyOf[at[p]])
  BY <1>1, Written
<1>0. \A q \in Proc : at[q] # None => q = p
  BY <1>1, Alone DEF Running
<1>4. TypeOK'
  BY <1>1, <1>2, HostTypes DEF TypeOK
<1>5. OneAgent'
  BY <1>1, HostTypes DEF OneAgent, Running
<1>6. SeenStillHolds'
  BY <1>1, <1>2, Alone, HostTypes DEF SeenStillHolds, NoDuplicates, Running
<1>7. Handling'
  BY <1>1, HostTypes, WireTypes, Alone, Numbers DEF Handling
<1>8. KeyTaken'
  <2>1. SUFFICES ASSUME NEW f \in Entry, add[f] # NoMail,
                        handled[add[f].conn] >= add[f].no, Live(add[f].conn)
                 PROVE  Contains(file', keyOf[f]) \/ keyOf[f] \in failed
    BY <1>1, Moves, Numbers DEF KeyTaken, Done
  <2>2. CASE Done(f)
    BY <1>2, <2>2, WireTypes DEF Done
  <2>4. ASSUME NEW q \in Proc, at[q] = f
        PROVE  Contains(file', keyOf[f])
    BY <1>0, <1>3, <2>4, Alone
  <2>. QED BY <2>1, <2>2, <2>4 DEF KeyTaken
<1>9. Numbered'
  BY DEF Numbered
<1>11. LoginTaken'
  BY <1>1, Moves, Numbers DEF LoginTaken
<1>10. Dialled'
  BY HostTypes, WireTypes DEF Dialled
<1>. QED BY <1>4, <1>5, <1>6, <1>7, <1>8, <1>9, <1>10, <1>11 DEF KeyInv

\* A process fails to append the line of a key, or a part of it.
LEMMA AppendKeyFailsInductive ==
  ASSUME KeyInv, NEW p \in Proc, AppendKeyFails(p)
  PROVE  KeyInv'
<1>. TypeOK /\ OneAgent /\ SeenStillHolds /\ Dialled /\ Numbered /\ Handling /\
     KeyTaken /\ LoginTaken
  BY DEF KeyInv
<1>. USE DEF AppendKeyFails, GoTo, Handled
<1>1. /\ made' \in BOOLEAN /\ file' \in Seq(Key \cup {NL, Torn})
      /\ made' \/ file' = <<>>
      /\ pc[p] # "append" => made' = made /\ file' = file
      /\ NoDuplicates'
      /\ \A k \in Key : Contains(file, k) => Contains(file', k)
  BY FileKept DEF WriteAtEnd
<1>2. TypeOK'
  BY <1>1, HostTypes DEF TypeOK
<1>3. OneAgent'
  BY HostTypes DEF OneAgent, Running
<1>4. SeenStillHolds'
  BY <1>1, Alone, HostTypes DEF SeenStillHolds, NoDuplicates, Running
<1>5. Handling'
  BY HostTypes, WireTypes, Alone, Numbers DEF Handling
<1>6. KeyTaken' /\ LoginTaken'
  <2>1. \A c \in Conn : Live(c)' <=> Live(c)
    BY Moves
  <2>. QED BY <1>1, <2>1, HostTypes, WireTypes, Alone, Numbers
       DEF KeyTaken, LoginTaken, Done, Running
<1>7. Numbered'
  BY DEF Numbered
<1>8. Dialled'
  BY HostTypes, WireTypes DEF Dialled
<1>. QED BY <1>2, <1>3, <1>4, <1>5, <1>6, <1>7, <1>8 DEF KeyInv

-----------------------------------------------------------------------------
(* The invariant, and what follows from it. *)

LEMMA InitInductive == Init => KeyInv
<1>. SUFFICES ASSUME Init
              PROVE  KeyInv
  OBVIOUS
<1>1. file \in Seq(Key \cup {NL, Torn}) /\ Single(file, Key) /\ (made \/ file = <<>>)
  BY EmptyFile, InitFileType DEF Init, Single, Text
<1>2. TypeOK
  BY <1>1, Places DEF Init, TypeOK
<1>3. OneAgent
  BY DEF Init, OneAgent, Running
<1>4. SeenStillHolds
  BY <1>1 DEF Init, SeenStillHolds, NoDuplicates, Single
<1>5. Dialled /\ Numbered /\ Handling /\ KeyTaken /\ LoginTaken
  BY NobodyElse DEF Init, Dialled, Live, Numbered, Handling, KeyTaken, LoginTaken
<1>. QED BY <1>2, <1>3, <1>4, <1>5 DEF KeyInv

LEMMA NextInductive == KeyInv /\ [Next]_vars => KeyInv'
<1>. SUFFICES ASSUME KeyInv, [Next]_vars
              PROVE  KeyInv'
  OBVIOUS
<1>1. ASSUME NEW p \in Proc, Process(p)
      PROVE  KeyInv'
  BY <1>1, AcquireLockInductive, AlreadyRunningInductive, ProbeInductive,
     StatInductive, CreateInductive, ListenInductive, WaitListeningInductive,
     WaitFailsInductive, GiveUpInductive, ReleaseInductive, CrashInductive,
     LookInductive, AppendKeyInductive, AppendKeyFailsInductive, DialInductive,
     LostInductive, ReceiveAddInductive, ReceiveOpenInductive DEF Process
<1>2. ASSUME NEW e \in Entry,
             \/ PushKey(e) \/ AppendKnownHost(e) \/ AppendKnownHostFails(e)
             \/ SendOpen(e) \/ LoginArrives(e)
      PROVE  KeyInv'
  BY <1>2, PushKeyInductive, AppendKnownHostInductive,
     AppendKnownHostFailsInductive, SendOpenInductive, LoginArrivesInductive
<1>3. ASSUME NEW c \in Conn, LinkBreaks(c) \/ HubNotices(c)
      PROVE  KeyInv'
  BY <1>3, LinkBreaksInductive, HubNoticesInductive
<1>4. ASSUME OtherLeavesPort
      PROVE  KeyInv'
  BY <1>4, OtherLeavesPortInductive
<1>5. CASE UNCHANGED vars
  BY <1>5 DEF vars, KeyInv, TypeOK, OneAgent, Running, SeenStillHolds, NoDuplicates,
              Dialled, Numbered, Handling, KeyTaken, Done, LoginTaken,
              Live
<1>. QED BY <1>1, <1>2, <1>3, <1>4, <1>5 DEF Next

THEOREM KeyInvariant == Spec => []KeyInv
BY InitInductive, NextInductive, PTL DEF Spec

\* Every variable keeps its type, and a process has a key in its hands only
\* while it handles one (readControl).
THEOREM TypeCorrect == Spec => []TypeOK
BY KeyInvariant, PTL DEF KeyInv

\* However many entries push a key, over however many connections, and however
\* many processes die half-way, a key is in the file once, if every failed read
\* of the file was one of a file without it (appendAuthorizedKey).
THEOREM KeyWrittenOnce == Spec => []NoDuplicates
<1>1. KeyInv => NoDuplicates
  BY DEF KeyInv, SeenStillHolds
<1>. QED BY <1>1, KeyInvariant, PTL

\* Whoever serves as an sshd of sshole holds the lock (main, Start).
THEOREM ServerHoldsLock == Spec => []ServerOfHolder
<1>1. KeyInv => ServerOfHolder
  BY DEF KeyInv, OneAgent, ServerOfHolder
<1>. QED BY <1>1, KeyInvariant, PTL

\* A login finds its key in the file if both came over one connection and the
\* key could be written, on a line of its own if none was cut off (readControl,
\* appendAuthorizedKey).
THEOREM KeyComesFirst == Spec => []KeyBeforeLogin
<1>1. KeyInv => KeyBeforeLogin
  <2>. SUFFICES ASSUME KeyInv, NEW e \in Entry, login[e] = "coming",
                       add[e] # NoMail, add[e].conn = open[e].conn
                PROVE  \/ keyOf[e] \in failed
                       \/ /\ Contains(file, keyOf[e])
                          /\ Lined(file) => WholeLine(file, keyOf[e])
    BY DEF KeyBeforeLogin
  <2>1. /\ open[e] # NoMail /\ open[e].no <= handled[open[e].conn]
        /\ add[e].no < open[e].no /\ Live(open[e].conn)
    BY DEF KeyInv, LoginTaken, Numbered
  <2>2. /\ add[e].no \in Nat /\ open[e].no \in Nat
        /\ handled[add[e].conn] \in Nat
    BY <2>1, Numbers
  <2>3. Done(e)
    BY <2>1, <2>2 DEF KeyInv, KeyTaken
  <2>4. file \in Text /\ keyOf[e] \in Key
    BY DEF KeyInv, TypeOK, Text
  <2>. QED BY <2>3, <2>4, LinedIsWhole DEF Done
<1>. QED BY <1>1, KeyInvariant, PTL

\* Only four steps write to the file.
LEMMA FileSteps ==
  ASSUME KeyInv, [Next]_vars
  PROVE  \/ file' = file
         \/ \E p \in Proc : AppendKey(p) \/ AppendKeyFails(p) \/ Crash(p)
         \/ file' = <<>> /\ \E p \in Proc : lock = p /\ pc[p] = "create"
<1>1. ASSUME NEW p \in Proc, Create(p)
      PROVE  file' = file \/ (file' = <<>> /\ lock = p /\ pc[p] = "create")
  BY <1>1 DEF KeyInv, OneAgent, Running, Create
<1>2. ASSUME NEW p \in Proc,
             \/ AcquireLock(p) \/ AlreadyRunning(p) \/ Probe(p) \/ Stat(p)
             \/ Listen(p) \/ WaitListening(p) \/ WaitFails(p)
             \/ GiveUp(p) \/ Release(p) \/ Look(p)
      PROVE  file' = file
  BY <1>2 DEF AcquireLock, AlreadyRunning, Probe, Stat, Listen, WaitListening,
       WaitFails, GiveUp, Release, Look
<1>3. ASSUME NEW p \in Proc, NEW c \in Conn,
             \/ Dial(p, c) \/ Lost(p, c)
             \/ \E e \in Entry : ReceiveAdd(p, c, e) \/ ReceiveOpen(p, c, e)
      PROVE  file' = file
  BY <1>3 DEF Dial, Lost, ReceiveAdd, ReceiveOpen
<1>4. ASSUME NEW e \in Entry,
             \/ PushKey(e) \/ AppendKnownHost(e) \/ AppendKnownHostFails(e)
             \/ SendOpen(e) \/ LoginArrives(e)
      PROVE  file' = file
  BY <1>4 DEF PushKey, AppendKnownHost, AppendKnownHostFails, SendOpen, LoginArrives
<1>5. ASSUME \/ OtherLeavesPort
             \/ \E c \in Conn : LinkBreaks(c) \/ HubNotices(c)
             \/ UNCHANGED vars
      PROVE  file' = file
  BY <1>5 DEF OtherLeavesPort, LinkBreaks, HubNotices, vars
<1>. QED BY <1>1, <1>2, <1>3, <1>4, <1>5 DEF Next, Process

\* No step takes a whole line away from the file, whichever process makes it,
\* and wherever that process dies, but the one that empties the file: the holder
\* of the lock makes it, while it starts (ensureAuthorizedKeysFile,
\* appendAuthorizedKey).
THEOREM LinesStay == Spec => KeysKept
<1>1. KeyInv /\ [Next]_vars =>
        [\A k \in Key : WholeLine(file, k) =>
           \/ WholeLine(file', k)
           \/ file' = <<>> /\ \E p \in Proc : lock = p /\ pc[p] = "create"]_vars
  <2>. SUFFICES ASSUME KeyInv, [Next]_vars,
                       ~(file' = <<>> /\ \E p \in Proc : lock = p /\ pc[p] = "create")
                PROVE  \A k \in Key : WholeLine(file, k) => WholeLine(file', k)
    OBVIOUS
  <2>1. ASSUME NEW p \in Proc, AppendKey(p)
        PROVE  \A k \in Key : WholeLine(file, k) => WholeLine(file', k)
    BY <2>1, Written DEF AppendKey, WriteAtEnd
  <2>2. ASSUME NEW p \in Proc, AppendKeyFails(p) \/ Crash(p)
        PROVE  \A k \in Key : WholeLine(file, k) => WholeLine(file', k)
    BY <2>2, FileKept DEF AppendKeyFails, Crash, WriteAtEnd
  <2>. QED BY <2>1, <2>2, FileSteps
<1>. QED BY <1>1, KeyInvariant, PTL DEF Spec, KeysKept

\* A file whose lines have their ends keeps them so, but for a process that dies
\* in the middle of a write or finds that it failed (appendAuthorizedKey).
THEOREM LinesKeepTheirEnds == Spec => LinesEnded
<1> DEFINE Excused == \E p \in Proc : /\ pc[p] = "append"
                                      /\ pc'[p] = "dead" \/ keyOf[at[p]] \in failed'
<1>1. KeyInv /\ [Next]_vars => [Lined(file) => Lined(file') \/ Excused]_vars
  <2>. SUFFICES ASSUME KeyInv, [Next]_vars, Lined(file), file' # file
                PROVE  Lined(file') \/ Excused
    OBVIOUS
  <2>1. ASSUME NEW p \in Proc, AppendKey(p)
        PROVE  Lined(file')
    <3>1. keyOf[at[p]] \in Key /\ file \in Text
      BY <2>1, Alone DEF AppendKey, WriteAtEnd, KeyInv, TypeOK, Text
    <3>. QED BY <2>1, <3>1, LineAdded DEF AppendKey, WriteAtEnd
  <2>2. ASSUME NEW p \in Proc, AppendKeyFails(p)
        PROVE  Excused
    BY <2>2 DEF AppendKeyFails, WriteAtEnd
  <2>3. ASSUME NEW p \in Proc, Crash(p)
        PROVE  Excused
    BY <2>3, HostTypes DEF Crash, GoTo
  <2>4. file' = <<>> => Lined(file')
    BY DEF Lined
  <2>. QED BY <2>1, <2>2, <2>3, <2>4, FileSteps
<1>. QED BY <1>1, KeyInvariant, PTL DEF Spec, LinesEnded

-----------------------------------------------------------------------------
(* AuthorizedKeys is implemented: one lemma for each kind of step. *)

KeysStep == [A!Next]_(A!vars)

\* A write lets nobody in but with the key of the line, if that is whole.
LEMMA LetsIn ==
  ASSUME NEW f \in Text, NEW k \in Key, NEW piece \in PartOfLine(k) \cup {Line(k)},
         NEW j \in Key, WholeLine(f \o piece, j), ~WholeLine(f, j)
  PROVE  j = k /\ piece = Line(k)
<1> DEFINE g == f \o piece
<1>1. piece \in Text /\ k # NL /\ Torn # NL /\ j # NL
  BY Pieces DEF NL, Torn
<1>2. /\ Len(g) = Len(f) + Len(piece)
      /\ \A i \in 1 .. Len(f) : g[i] = f[i]
      /\ \A i \in 1 .. Len(piece) : g[Len(f) + i] = piece[i]
      /\ Len(f) \in Nat /\ Len(piece) \in Nat
  BY <1>1, ConcatProperties, LenProperties DEF Text
<1>3. PICK i \in 1 .. Len(g) - 1 :
        g[i] = j /\ g[i + 1] = NL /\ (i = 1 \/ g[i - 1] = NL)
  BY DEF WholeLine
<1>4. i + 1 > Len(f)
  <2>1. SUFFICES ASSUME i + 1 <= Len(f)
                 PROVE  WholeLine(f, j)
    BY <1>2, <1>3
  <2>2. i \in 1 .. Len(f) - 1 /\ f[i] = j /\ f[i + 1] = NL
    BY <1>2, <1>3, <2>1
  <2>3. i = 1 \/ f[i - 1] = NL
    BY <1>2, <1>3, <2>1
  <2>. QED BY <2>2, <2>3 DEF WholeLine
<1> DEFINE n == i + 1 - Len(f)
<1>5. n \in 1 .. Len(piece) /\ piece[n] = NL
  <2>1. n \in 1 .. Len(piece) /\ Len(f) + n = i + 1
    BY <1>2, <1>3, <1>4
  <2>. QED BY <1>2, <1>3, <2>1
<1>6. piece = <<k, NL>> /\ n = 2
  <2>1. CASE piece = <<>>
    BY <1>5, <2>1
  <2>2. CASE piece = <<Torn>>
    BY <1>1, <1>5, <2>2
  <2>3. CASE piece = <<k>>
    BY <1>1, <1>5, <2>3
  <2>4. CASE piece = <<k, NL>>
    BY <1>1, <1>5, <2>4
  <2>. QED BY <2>1, <2>2, <2>3, <2>4 DEF PartOfLine, Line
<1>7. g[i] = piece[1]
  <2>1. i = Len(f) + 1 /\ 1 \in 1 .. Len(piece)
    BY <1>2, <1>3, <1>6
  <2>. QED BY <1>2, <2>1
<1>. QED BY <1>3, <1>6, <1>7 DEF Line

\* What a process writes at the end of the file.
LEMMA WriteLetsIn ==
  ASSUME KeyInv, NEW p \in Proc, pc[p] = "append",
         NEW piece \in PartOfLine(keyOf[at[p]]) \cup {Line(keyOf[at[p]])},
         WriteAtEnd(p, piece), UNCHANGED misread
  PROVE  /\ keyOf[at[p]] \in Key
         /\ LoginKeys' \in {LoginKeys, LoginKeys \cup {keyOf[at[p]]}}
         /\ piece # Line(keyOf[at[p]]) => LoginKeys' = LoginKeys
<1> DEFINE k == keyOf[at[p]]
<1>1. k \in Key /\ file \in Text /\ file' = file \o piece
  BY Alone DEF KeyInv, TypeOK, Text, WriteAtEnd
<1>2. LoginKeys \subseteq LoginKeys'
  BY Written DEF LoginKeys
<1>3. \A j \in LoginKeys' : j \in LoginKeys \/ (j = k /\ piece = Line(k))
  BY <1>1, LetsIn DEF LoginKeys
<1>. QED BY <1>1, <1>2, <1>3

\* The phase depends on nothing but the holder of the lock, and on whether the
\* file exists while it is to be created.
LEMMA PhaseKept ==
  ASSUME KeyInv, UNCHANGED lock,
         \/ UNCHANGED <<pc, made>>
         \/ \E p \in Proc : \E place :
              /\ pc' = [pc EXCEPT ![p] = place]
              /\ pc[p] \notin {"probe", "stat", "create"}
              /\ place \notin {"probe", "stat", "create"}
              /\ Running(p) \/ UNCHANGED made
  PROVE  Phase' = Phase
<1>1. CASE UNCHANGED <<pc, made>>
  BY <1>1 DEF Phase
<1>2. ASSUME NEW p \in Proc, NEW place, pc' = [pc EXCEPT ![p] = place],
             pc[p] \notin {"probe", "stat", "create"},
             place \notin {"probe", "stat", "create"},
             Running(p) \/ UNCHANGED made
      PROVE  Phase' = Phase
  <2>1. CASE lock = p
    BY <1>2, <2>1, HostTypes DEF Phase
  <2>2. CASE lock # p
    <3>1. UNCHANGED made /\ (lock # None => pc'[lock] = pc[lock])
      BY <1>2, <2>2, HostTypes DEF KeyInv, OneAgent
    <3>. QED BY <3>1 DEF Phase
  <2>. QED BY <2>1, <2>2
<1>. QED BY <1>1, <1>2

\* Who can log in, and who may, depends on the file and the pushed keys alone.
LEMMA QuietStep ==
  ASSUME UNCHANGED <<lock, file, keyOf, add>>, Phase' = Phase
  PROVE  KeysStep
<1>1. PushedKeys' = PushedKeys /\ LoginKeys' = LoginKeys
  BY DEF PushedKeys, LoginKeys
<1>. QED BY <1>1 DEF KeysStep, A!vars

\* The steps of a start: the last one may empty the file, if Stat has failed.
LEMMA StartSteps ==
  ASSUME KeyInv, NEW p \in Proc, Probe(p) \/ Stat(p) \/ Create(p)
  PROVE  KeysStep
<1>1. /\ lock = p /\ lock' = lock /\ PushedKeys' = PushedKeys
      /\ lock # None
  BY DEF Probe, Stat, Create, KeyInv, OneAgent, Running, PushedKeys
<1>2. CASE Probe(p) \/ Stat(p)
  <2>1. /\ LoginKeys' = LoginKeys /\ pc[p] \in {"probe", "stat"}
        /\ \/ pc'[p] \in {"stat", "create"}
           \/ pc'[p] \in {"dial", "listen"}
    BY <1>1, <1>2, HostTypes DEF Probe, Stat, GoTo, LoginKeys
  <2>2. Phase = "starting" /\ Phase' \in {"starting", "misled", "ready"}
    BY <1>1, <2>1 DEF Phase
  <2>. QED BY <1>1, <2>1, <2>2 DEF KeysStep, A!Next, A!GetReady, A!IsMisled, A!vars
<1>3. CASE Create(p)
  <2>1. Phase = (IF made THEN "misled" ELSE "starting") /\ Phase' = "ready"
    BY <1>1, <1>3, HostTypes DEF Create, GoTo, Phase
  <2>2. CASE made
    <3>1. LoginKeys' \in {LoginKeys, {}}
      BY <1>3, EmptyFile DEF Create, LoginKeys
    <3>. QED BY <1>1, <2>1, <2>2, <3>1 DEF KeysStep, A!Next, A!StartOver
  <2>3. CASE ~made
    <3>1. LoginKeys' = LoginKeys
      BY <1>3, <2>3 DEF Create, LoginKeys, KeyInv, SeenStillHolds
    <3>. QED BY <1>1, <2>1, <2>3, <3>1 DEF KeysStep, A!Next, A!GetReady
  <2>. QED BY <2>2, <2>3
<1>. QED BY <1>2, <1>3

\* Taking the lock, and leaving it, whether the process ends or dies; the part
\* of a line that it leaves lets nobody in.
LEMMA LockSteps ==
  ASSUME KeyInv, NEW p \in Proc, AcquireLock(p) \/ Release(p) \/ Crash(p)
  PROVE  KeysStep
<1>1. PushedKeys' = PushedKeys
  BY DEF AcquireLock, Release, Crash, PushedKeys
<1>2. CASE AcquireLock(p)
  <2>1. LoginKeys' = LoginKeys /\ lock = None /\ lock' = p
    BY <1>2 DEF AcquireLock, LoginKeys
  <2>2. pc'[p] \in {"probe", "dial"} /\ p # None
    BY <1>2, HostTypes DEF AcquireLock, GoTo
  <2>3. Phase' \in {"starting", "ready"}
    BY <2>1, <2>2 DEF Phase
  <2>. QED BY <1>1, <2>1, <2>3 DEF KeysStep, A!Next, A!TakeCharge
<1>3. CASE Release(p)
  <2>1. LoginKeys' = LoginKeys /\ lock = p /\ lock' = None /\ Phase' = "none"
    BY <1>3 DEF Release, LoginKeys, KeyInv, OneAgent, Running, Phase
  <2>. QED BY <1>1, <2>1 DEF KeysStep, A!Next, A!Leave
<1>4. CASE Crash(p)
  <2>1. lock = p /\ lock' = None /\ Phase' = "none"
    BY <1>4 DEF Crash, KeyInv, OneAgent, Phase
  <2>2. LoginKeys' = LoginKeys
    <3>1. CASE UNCHANGED file
      BY <3>1 DEF LoginKeys
    <3>2. ASSUME NEW piece \in PartOfLine(keyOf[at[p]]), pc[p] = "append",
                 WriteAtEnd(p, piece)
          PROVE  LoginKeys' = LoginKeys
      <4>1. piece # Line(keyOf[at[p]])
        BY DEF PartOfLine, Line
      <4>. QED BY <1>4, <3>2, <4>1, WriteLetsIn DEF Crash
    <3>. QED BY <1>4, <3>1, <3>2 DEF Crash
  <2>. QED BY <1>1, <2>1, <2>2 DEF KeysStep, A!Next, A!Leave
<1>. QED BY <1>2, <1>3, <1>4

\* A key is let in by the holder of the lock, who has it from an entry.
LEMMA AppendSteps ==
  ASSUME KeyInv, NEW p \in Proc, AppendKey(p) \/ AppendKeyFails(p)
  PROVE  KeysStep
<1> DEFINE k == keyOf[at[p]]
<1>1. /\ pc[p] \in {"look", "append"} /\ lock = p /\ lock' = lock /\ p # None
      /\ pc' = [pc EXCEPT ![p] = "read"] /\ PushedKeys' = PushedKeys
  BY DEF AppendKey, AppendKeyFails, WriteAtEnd, Handled, GoTo, KeyInv, OneAgent, Running,
         PushedKeys
<1>2. k \in PushedKeys
  BY <1>1, Alone DEF KeyInv, Handling, PushedKeys
<1>3. LoginKeys' \in {LoginKeys, LoginKeys \cup {k}} /\ (LoginKeys' # LoginKeys => k \in Key)
  <2>1. CASE UNCHANGED file
    BY <2>1 DEF LoginKeys
  <2>2. CASE \E piece \in PartOfLine(k) \cup {Line(k)} : WriteAtEnd(p, piece)
    BY <2>2, WriteLetsIn DEF WriteAtEnd, AppendKey, AppendKeyFails
  <2>. QED BY <2>1, <2>2 DEF AppendKey, AppendKeyFails
<1>4. Phase = "ready" /\ Phase' = "ready"
  BY <1>1, HostTypes DEF Phase
<1>5. CASE LoginKeys' = LoginKeys
  BY <1>1, <1>4, <1>5 DEF KeysStep, A!vars
<1>6. CASE LoginKeys' = LoginKeys \cup {k} /\ k \in Key
  BY <1>1, <1>2, <1>4, <1>6 DEF KeysStep, A!Next, A!LetIn
<1>. QED BY <1>3, <1>5, <1>6

\* The hub writes the key of an entry to the agent, or to a dead connection.
LEMMA PushSteps ==
  ASSUME KeyInv, NEW e \in Entry, AppendKnownHost(e)
  PROVE  KeysStep
<1>1. lock' = lock /\ LoginKeys' = LoginKeys /\ keyOf' = keyOf /\ keyOf[e] \in Key
  BY WireTypes DEF AppendKnownHost, LoginKeys
<1>2. Phase' = Phase
  BY PhaseKept DEF AppendKnownHost
<1>3. CASE add' = add
  <2>1. PushedKeys' = PushedKeys
    BY <1>1, <1>3 DEF PushedKeys
  <2>. QED BY <1>1, <1>2, <2>1 DEF KeysStep, A!vars
<1>4. CASE link[control] = "open"
  <2>1. /\ add' = [add EXCEPT ![e] = [conn |-> control, no |-> sent[control] + 1]]
        /\ control \in Conn /\ add \in [Entry -> Mail]
    BY <1>4, WireTypes DEF AppendKnownHost, WriteTo, KeyInv, TypeOK
  <2>2. epc[e] = "write" /\ add[e] = NoMail /\ add'[e] # NoMail
    BY <2>1, WireTypes, Places DEF AppendKnownHost, KeyInv, Numbered
  <2>3. PushedKeys' = PushedKeys \cup {keyOf[e]}
    BY <1>1, <2>1, <2>2 DEF PushedKeys
  <2>. QED BY <1>1, <1>2, <2>3 DEF KeysStep, A!Next, A!Push
<1>. QED BY <1>3, <1>4 DEF AppendKnownHost, WriteTo

LEMMA KeysRefined ==
  ASSUME KeyInv, [Next]_vars
  PROVE  KeysStep
<1>1. ASSUME NEW p \in Proc,
             \/ AlreadyRunning(p) \/ Listen(p) \/ WaitListening(p) \/ WaitFails(p)
             \/ GiveUp(p) \/ Look(p)
             \/ \E c \in Conn : \/ Dial(p, c) \/ Lost(p, c)
                                \/ \E e \in Entry : ReceiveAdd(p, c, e)
      PROVE  KeysStep
  <2>1. UNCHANGED <<lock, file, keyOf, add, made>>
    BY <1>1 DEF AlreadyRunning, Listen, WaitListening, WaitFails, GiveUp, Look, Dial,
         Lost, ReceiveAdd
  <2>2. /\ pc[p] \notin {"probe", "stat", "create"}
        /\ \/ pc' = [pc EXCEPT ![p] = "dead"]
           \/ pc' = [pc EXCEPT ![p] = "wait"]
           \/ pc' = [pc EXCEPT ![p] = "dial"]
           \/ pc' = [pc EXCEPT ![p] = "stopping"]
           \/ pc' = [pc EXCEPT ![p] = "read"]
           \/ pc' = [pc EXCEPT ![p] = "look"]
           \/ pc' = [pc EXCEPT ![p] = "append"]
    BY <1>1 DEF AlreadyRunning, Listen, WaitListening, WaitFails, GiveUp, Look, Dial,
         Lost, ReceiveAdd, TakesNext, Handled, GoTo
  <2>3. \E place : /\ pc' = [pc EXCEPT ![p] = place]
                   /\ place \notin {"probe", "stat", "create"}
    BY <2>2
  <2>. QED BY <2>1, <2>2, <2>3, PhaseKept, QuietStep
<1>2. ASSUME \/ OtherLeavesPort
             \/ \E c \in Conn : LinkBreaks(c) \/ HubNotices(c)
             \/ \E e \in Entry : \/ PushKey(e) \/ AppendKnownHostFails(e)
                                 \/ SendOpen(e) \/ LoginArrives(e)
             \/ \E p \in Proc, c \in Conn, e \in Entry : ReceiveOpen(p, c, e)
             \/ UNCHANGED vars
      PROVE  KeysStep
  <2>1. UNCHANGED <<lock, file, keyOf, add, pc, made>>
    BY <1>2 DEF OtherLeavesPort, LinkBreaks, HubNotices, PushKey, AppendKnownHostFails,
         SendOpen, LoginArrives, ReceiveOpen, vars
  <2>. QED BY <2>1, PhaseKept, QuietStep
<1>3. ASSUME NEW p \in Proc, Process(p)
      PROVE  KeysStep
  BY <1>1, <1>2, <1>3, StartSteps, LockSteps, AppendSteps DEF Process
<1>. QED BY <1>2, <1>3, PushSteps DEF Next

\* Who can log in could do so at first, or an entry pushed the key: the file is
\* changed by the holder of the lock only, with a key it was sent, and keys are
\* lost only all at once, by a holder that starts and whose Stat of the file has
\* failed, before it serves anybody (AcquireInstanceLock, appendAuthorizedKey,
\* ensureAuthorizedKeysFile).
THEOREM OnlyPushedKeys == Spec => ImplementsAuthorizedKeys
<1>1. Init => A!Init
  BY DEF Init, A!Init, PushedKeys, LoginKeys, Phase
<1>2. KeyInv /\ [Next]_vars => [A!Next]_(A!vars)
  BY KeysRefined DEF KeysStep
<1>. QED BY <1>1, <1>2, KeyInvariant, PTL DEF Spec, ImplementsAuthorizedKeys, A!Spec

\* Whoever can log in could do so at first, or an entry pushed the key.
COROLLARY NobodyElseLogsIn ==
  ASSUME NEW First
  PROVE  Spec /\ LoginKeys = First => [](LoginKeys \subseteq First \cup PushedKeys)
<1> DEFINE Known == LoginKeys \subseteq First \cup PushedKeys
<1>1. LoginKeys = First => Known
  OBVIOUS
<1>2. Known /\ [A!Next]_(A!vars) => Known'
  BY DEF A!Next, A!vars, A!TakeCharge, A!GetReady, A!IsMisled,
     A!StartOver, A!Leave, A!Push, A!LetIn
<1>3. Spec => [][A!Next]_(A!vars)
  BY OnlyPushedKeys DEF ImplementsAuthorizedKeys, A!Spec
<1>. HIDE DEF Known
<1>4. Spec /\ LoginKeys = First => []Known
  BY <1>1, <1>2, <1>3, PTL
<1>. QED BY <1>4 DEF Known
=============================================================================
