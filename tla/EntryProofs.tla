----------------------------- MODULE EntryProofs -----------------------------
(***************************************************************************)
(* EntryRuntime for every number of agents, connections and starts: the    *)
(* inductive invariant, and the theorems.                                  *)
(***************************************************************************)
EXTENDS EntryRuntime, SequenceTheorems, TLAPS

\* What has been picked once is what will be picked again.
Steady ==
  /\ chosen = None <=> pc = "down"
  /\ name # None /\ chosen # None => chosen = name
  /\ name = None /\ chosen # None /\ ~forgot => chosen \in listed
  /\ \A c \in Conn : cpc[c] = "none" => to[c] = None
  /\ SteadyAgent

\* The line is appended to a file that does not have it, by one entry at a time,
\* unless something was overlooked; and it is there once ensureKnownHost has
\* returned nil.
LineOnce ==
  /\ pc = "append" => overlooked \/ (~ContainsLine(hosts, HostKey) /\ rival = "off")
  /\ rival = "append" => overlooked \/ ~ContainsLine(hosts, HostKey)
  /\ ensured => pc \in {"listen", "serve"} /\ ContainsLine(hosts, HostKey)
  /\ HostOnce

\* How far a connection is, and what of it is open.
Closing ==
  /\ \A c \in Conn : cpc[c] \in {"none", "pick", "dial"} => ws[c] = "none" /\ up[c] = "none"
  /\ \A c \in Conn : cpc[c] = "closeLocal" => ws[c] \in {"none", "closed"}
  /\ NothingLeaks

EntryInv == TypeOK /\ Steady /\ LineOnce /\ Closing

USE NamesApart, StartsAreNumber DEF hubVars, hostVars, startVars, connVars

-----------------------------------------------------------------------------
(* The file. *)

Text == Seq({HostKey, NL, Torn})
Once(f) ==
  \A i, j \in 1 .. Len(f) - 1 :
    f[i] = HostKey /\ f[i + 1] = NL /\ f[j] = HostKey /\ f[j + 1] = NL => i = j

Writes == PartOfLine(HostKey) \cup {Line(HostKey)}

\* Whatever is written of the line at the end of a file, the file keeps what it
\* has; and one that did not have the line has it once at most.
LEMMA Written ==
  ASSUME NEW f \in Text, NEW piece \in Writes
  PROVE  /\ f \o piece \in Text
         /\ ContainsLine(f, HostKey) => ContainsLine(f \o piece, HostKey)
         /\ ~ContainsLine(f, HostKey) => Once(f \o piece)
<1>1. piece \in Text /\ Len(f) \in Nat /\ Len(piece) \in 0 .. 2
      /\ (Len(piece) > 0 => piece[1] # NL)
  <2>1. CASE piece = <<>>
    BY <2>1, LenProperties DEF Text
  <2>2. CASE piece = <<Torn>>
    BY <2>2, LenProperties DEF Text, Torn, NL
  <2>3. CASE piece = <<HostKey>>
    BY <2>3, LenProperties DEF Text
  <2>4. CASE piece = <<HostKey, NL>>
    BY <2>4, LenProperties DEF Text
  <2>. QED BY <2>1, <2>2, <2>3, <2>4 DEF Writes, PartOfLine, Line
<1>2. /\ f \o piece \in Text
      /\ Len(f \o piece) = Len(f) + Len(piece)
      /\ \A i \in 1 .. Len(f) : (f \o piece)[i] = f[i]
      /\ \A i \in 1 .. Len(piece) : (f \o piece)[Len(f) + i] = piece[i]
  BY <1>1, ConcatProperties DEF Text
<1>3. ASSUME ~ContainsLine(f, HostKey), NEW i \in 1 .. Len(f \o piece) - 1,
             (f \o piece)[i] = HostKey, (f \o piece)[i + 1] = NL
      PROVE  i = Len(f) + 1
  <2>1. CASE i + 1 <= Len(f)
    <3>1. i \in 1 .. Len(f) - 1 /\ i \in 1 .. Len(f) /\ i + 1 \in 1 .. Len(f)
      BY <1>1, <2>1
    <3>. QED BY <1>2, <1>3, <3>1 DEF ContainsLine
  <2>2. CASE i = Len(f)
    <3>1. Len(piece) > 0 /\ 1 \in 1 .. Len(piece) /\ Len(f) + 1 = i + 1
      BY <1>1, <1>2, <2>2
    <3>2. (f \o piece)[i + 1] = piece[1]
      BY <1>2, <3>1
    <3>. QED BY <1>1, <1>3, <3>1, <3>2
  <2>3. CASE i > Len(f)
    BY <1>1, <1>2, <2>3
  <2>. QED BY <1>1, <1>2, <2>1, <2>2, <2>3
<1>4. ~ContainsLine(f, HostKey) => Once(f \o piece)
  BY <1>3 DEF Once
<1>5. ASSUME ContainsLine(f, HostKey)
      PROVE  ContainsLine(f \o piece, HostKey)
  <2>1. PICK i \in 1 .. Len(f) - 1 : f[i] = HostKey /\ f[i + 1] = NL
    BY <1>5 DEF ContainsLine
  <2>2. i \in 1 .. Len(f) /\ i + 1 \in 1 .. Len(f) /\ i \in 1 .. Len(f \o piece) - 1
    BY <1>1, <1>2, <2>1
  <2>. QED BY <1>2, <2>1, <2>2 DEF ContainsLine
<1>. QED BY <1>2, <1>4, <1>5

\* The whole line is there once it was written, and leaves no other line cut off.
LEMMA LineWritten ==
  ASSUME NEW f \in Text
  PROVE  /\ ContainsLine(f \o Line(HostKey), HostKey)
         /\ Lined(f) => Lined(f \o Line(HostKey))
<1> DEFINE g == f \o <<HostKey, NL>>
<1>1. /\ Len(f) \in Nat /\ DOMAIN f = 1 .. Len(f)
      /\ Len(g) = Len(f) + 2 /\ DOMAIN g = 1 .. Len(f) + 2
      /\ \A i \in 1 .. Len(f) : g[i] = f[i]
      /\ g[Len(f) + 1] = HostKey /\ g[Len(f) + 2] = NL
  BY DEF Text
<1>2. ContainsLine(g, HostKey)
  <2>1. /\ Len(f) + 1 \in 1 .. Len(g) - 1
        /\ g[Len(f) + 1] = HostKey /\ g[(Len(f) + 1) + 1] = NL
    BY <1>1
  <2>. QED BY <2>1 DEF ContainsLine
<1>3. ASSUME Lined(f), NEW i \in DOMAIN g, g[i] # NL
      PROVE  i < Len(g) /\ g[i + 1] = NL
  <2>1. CASE i <= Len(f)
    <3>1. i < Len(f) /\ f[i + 1] = NL
      BY <1>1, <1>3, <2>1 DEF Lined
    <3>. QED BY <1>1, <1>3, <3>1
  <2>2. CASE i > Len(f)
    <3>1. i = Len(f) + 1
      BY <1>1, <1>3, <2>2
    <3>. QED BY <1>1, <3>1
  <2>. QED BY <1>1, <2>1, <2>2
<1>. QED BY <1>2, <1>3 DEF Lined, Line

\* In a file without cut-off lines, a line is found where its text is.
LEMMA LinedIsWhole ==
  ASSUME NEW f \in Text, Lined(f), ContainsLine(f, HostKey)
  PROVE  WholeLine(f, HostKey)
<1>1. PICK i \in 1 .. Len(f) - 1 : f[i] = HostKey /\ f[i + 1] = NL
  BY DEF ContainsLine
<1>2. i = 1 \/ f[i - 1] = NL
  <2>1. SUFFICES ASSUME i # 1, f[i - 1] # NL
                 PROVE  FALSE
    OBVIOUS
  <2>2. i - 1 \in DOMAIN f /\ (i - 1) + 1 = i
    BY <1>1, <2>1 DEF Text
  <2>3. f[(i - 1) + 1] = NL
    BY <2>1, <2>2 DEF Lined
  <2>. QED BY <1>1, <2>2, <2>3
<1>. QED BY <1>1, <1>2 DEF WholeLine

\* known_hosts after one of the entries has written to it, or has not.
LEMMA HostsKept ==
  ASSUME EntryInv, UNCHANGED overlooked,
         \/ /\ pc = "append" \/ rival = "append"
            /\ \E piece \in Writes : hosts' = hosts \o piece
         \/ UNCHANGED hosts
  PROVE  /\ hosts' \in Seq({HostKey, NL, Torn}) /\ HostOnce'
         /\ ContainsLine(hosts, HostKey) => ContainsLine(hosts', HostKey)
<1>1. hosts \in Text /\ (overlooked \/ Once(hosts))
  BY DEF EntryInv, TypeOK, LineOnce, HostOnce, Once, Text
<1>2. CASE UNCHANGED hosts
  BY <1>1, <1>2 DEF HostOnce, Once, Text
<1>3. CASE (pc = "append" \/ rival = "append") /\ \E piece \in Writes : hosts' = hosts \o piece
  <2>1. PICK piece \in Writes : hosts' = hosts \o piece
    BY <1>3
  <2>2. overlooked \/ ~ContainsLine(hosts, HostKey)
    BY <1>3 DEF EntryInv, LineOnce
  <2>. QED BY <1>1, <2>1, <2>2, Written DEF HostOnce, Once, Text
<1>. QED BY <1>2, <1>3

-----------------------------------------------------------------------------
(* One lemma for each action. *)

\* The hub lists one more agent.
LEMMA AgentRegistersInductive ==
  ASSUME EntryInv, NEW a \in Agent, AgentRegisters(a)
  PROVE  EntryInv'
<1>. TypeOK /\ Steady /\ LineOnce /\ Closing
  BY DEF EntryInv
<1>. USE DEF AgentRegisters
<1>1. TypeOK'
  BY DEF TypeOK
<1>2. Steady'
  BY DEF Steady, SteadyAgent, TypeOK
<1>3. LineOnce' /\ Closing'
  BY DEF LineOnce, Closing, HostOnce, NothingLeaks
<1>. QED BY <1>1, <1>2, <1>3 DEF EntryInv

\* The hub may lose agents, and loses every tunnel.
LEMMA HubRestartsInductive ==
  ASSUME EntryInv, HubRestarts
  PROVE  EntryInv'
<1>. TypeOK /\ Steady /\ LineOnce /\ Closing
  BY DEF EntryInv
<1>. USE DEF HubRestarts
<1>1. TypeOK'
  BY DEF TypeOK
<1>2. Steady'
  BY DEF Steady, SteadyAgent, TypeOK
<1>3. Closing'
  BY DEF Closing, NothingLeaks, TypeOK
<1>4. LineOnce'
  BY DEF LineOnce, HostOnce
<1>. QED BY <1>1, <1>2, <1>3, <1>4 DEF EntryInv

\* Start picks an agent.
LEMMA StartPicksInductive ==
  ASSUME EntryInv, NEW a \in Agent, StartPicks(a)
  PROVE  EntryInv'
<1>. TypeOK /\ Steady /\ LineOnce /\ Closing
  BY DEF EntryInv
<1>. USE DEF StartPicks, Pick
<1>1. TypeOK'
  BY DEF TypeOK
<1>2. Steady'
  BY DEF Steady, SteadyAgent, TypeOK
<1>3. LineOnce'
  BY DEF LineOnce, HostOnce
<1>4. Closing'
  BY DEF Closing, NothingLeaks
<1>. QED BY <1>1, <1>2, <1>3, <1>4 DEF EntryInv

\* The key is read, or not.
LEMMA ReadKeyInductive ==
  ASSUME EntryInv, ReadKey
  PROVE  EntryInv'
<1>. TypeOK /\ Steady /\ LineOnce /\ Closing
  BY DEF EntryInv
<1>. USE DEF ReadKey
<1>1. TypeOK'
  BY DEF TypeOK
<1>2. Steady'
  BY DEF Steady, SteadyAgent, TypeOK
<1>3. LineOnce'
  BY DEF LineOnce, HostOnce
<1>4. Closing'
  BY DEF Closing, NothingLeaks
<1>. QED BY <1>1, <1>2, <1>3, <1>4 DEF EntryInv

\* The key is pushed, or not.
LEMMA PushKeyInductive ==
  ASSUME EntryInv, PushKey
  PROVE  EntryInv'
<1>. TypeOK /\ Steady /\ LineOnce /\ Closing
  BY DEF EntryInv
<1>. USE DEF PushKey
<1>1. TypeOK'
  BY DEF TypeOK
<1>2. Steady'
  BY DEF Steady, SteadyAgent, TypeOK
<1>3. LineOnce'
  BY DEF LineOnce, HostOnce
<1>4. Closing'
  BY DEF Closing, NothingLeaks
<1>. QED BY <1>1, <1>2, <1>3, <1>4 DEF EntryInv

\* The entry looks for the line of the host.
LEMMA LookForHostInductive ==
  ASSUME EntryInv, LookForHost
  PROVE  EntryInv'
<1>. TypeOK /\ Steady /\ LineOnce /\ Closing
  BY DEF EntryInv
<1>. USE DEF LookForHost, GoesOnToAppend
<1>1. TypeOK'
  BY DEF TypeOK
<1>2. Steady'
  BY DEF Steady, SteadyAgent, TypeOK
<1>3. LineOnce'
  <2>0. hosts' = hosts /\ (overlooked => overlooked')
    BY Zenon DEF TypeOK
  <2>1. HostOnce'
    BY <2>0, Zenon DEF LineOnce, HostOnce
  <2>2. (ensured => pc \in {"listen", "serve"} /\ ContainsLine(hosts, HostKey))'
    BY DEF LineOnce
  <2>3. (pc = "append" => overlooked \/ (~ContainsLine(hosts, HostKey) /\ rival = "off"))'
    BY <2>0 DEF TypeOK
  <2>4. (rival = "append" => overlooked \/ ~ContainsLine(hosts, HostKey))'
    BY <2>0, Zenon DEF LineOnce
  <2>. QED BY <2>1, <2>2, <2>3, <2>4 DEF LineOnce
<1>4. Closing'
  BY DEF Closing, NothingLeaks
<1>. QED BY <1>1, <1>2, <1>3, <1>4 DEF EntryInv

\* The line is appended.
LEMMA AppendHostInductive ==
  ASSUME EntryInv, AppendHost
  PROVE  EntryInv'
<1>. TypeOK /\ Steady /\ LineOnce /\ Closing
  BY DEF EntryInv
<1>. USE DEF AppendHost
<1>1. TypeOK'
  BY HostsKept DEF TypeOK, Writes
<1>2. Steady'
  BY DEF Steady, SteadyAgent, TypeOK
<1>3. LineOnce'
  <2>1. ContainsLine(hosts', HostKey)
    BY LineWritten DEF TypeOK, Text
  <2>. QED BY <2>1, HostsKept DEF LineOnce, HostOnce, Writes
<1>4. Closing'
  BY DEF Closing, NothingLeaks
<1>. QED BY <1>1, <1>2, <1>3, <1>4 DEF EntryInv

\* It is not, or not as a whole.
LEMMA AppendHostFailsInductive ==
  ASSUME EntryInv, AppendHostFails
  PROVE  EntryInv'
<1>. TypeOK /\ Steady /\ LineOnce /\ Closing
  BY DEF EntryInv
<1>. USE DEF AppendHostFails
<1>1. TypeOK'
  BY HostsKept DEF TypeOK, Writes
<1>2. Steady'
  BY DEF Steady, SteadyAgent, TypeOK
<1>3. LineOnce'
  BY HostsKept DEF LineOnce, HostOnce, Writes
<1>4. Closing'
  BY DEF Closing, NothingLeaks
<1>. QED BY <1>1, <1>2, <1>3, <1>4 DEF EntryInv

\* Another entry has not found the line.
LEMMA RivalLooksInductive ==
  ASSUME EntryInv, RivalLooks
  PROVE  EntryInv'
<1>. TypeOK /\ Steady /\ LineOnce /\ Closing
  BY DEF EntryInv
<1>. USE DEF RivalLooks, GoesOnToAppend
<1>1. TypeOK'
  BY DEF TypeOK
<1>2. Steady'
  BY DEF Steady, SteadyAgent, TypeOK
<1>3. LineOnce'
  BY DEF LineOnce, HostOnce, TypeOK
<1>4. Closing'
  BY DEF Closing, NothingLeaks
<1>. QED BY <1>1, <1>2, <1>3, <1>4 DEF EntryInv

\* It writes the line, or a part of it.
LEMMA RivalAppendsInductive ==
  ASSUME EntryInv, RivalAppends
  PROVE  EntryInv'
<1>. TypeOK /\ Steady /\ LineOnce /\ Closing
  BY DEF EntryInv
<1>. USE DEF RivalAppends
<1>0. /\ hosts' \in Seq({HostKey, NL, Torn}) /\ HostOnce'
      /\ ContainsLine(hosts, HostKey) => ContainsLine(hosts', HostKey)
  BY HostsKept DEF Writes
<1>1. TypeOK'
  BY <1>0 DEF TypeOK
<1>2. Steady'
  BY DEF Steady, SteadyAgent, TypeOK
<1>3. LineOnce'
  BY <1>0 DEF LineOnce
<1>4. Closing'
  BY DEF Closing, NothingLeaks
<1>. QED BY <1>1, <1>2, <1>3, <1>4 DEF EntryInv

\* The entry listens.
LEMMA ListenInductive ==
  ASSUME EntryInv, Listen
  PROVE  EntryInv'
<1>. TypeOK /\ Steady /\ LineOnce /\ Closing
  BY DEF EntryInv
<1>. USE DEF Listen
<1>1. TypeOK'
  BY DEF TypeOK
<1>2. Steady'
  BY DEF Steady, SteadyAgent, TypeOK
<1>3. LineOnce'
  BY DEF LineOnce, HostOnce
<1>4. Closing'
  BY DEF Closing, NothingLeaks
<1>. QED BY <1>1, <1>2, <1>3, <1>4 DEF EntryInv

\* The process ends.
LEMMA EndsInductive ==
  ASSUME EntryInv, Ends
  PROVE  EntryInv'
<1>. TypeOK /\ Steady /\ LineOnce /\ Closing
  BY DEF EntryInv
<1>. USE DEF Ends
<1>1. TypeOK'
  BY HostsKept DEF TypeOK, Writes
<1>2. Steady'
  BY DEF Steady, SteadyAgent, TypeOK
<1>3. LineOnce'
  BY HostsKept DEF LineOnce, HostOnce, Writes
<1>4. Closing'
  BY DEF Closing, NothingLeaks, TypeOK
<1>. QED BY <1>1, <1>2, <1>3, <1>4 DEF EntryInv

\* A client is accepted.
LEMMA AcceptInductive ==
  ASSUME EntryInv, NEW c \in Conn, Accept(c)
  PROVE  EntryInv'
<1>. TypeOK /\ Steady /\ LineOnce /\ Closing
  BY DEF EntryInv
<1>. USE DEF Accept, Accepts
<1>1. TypeOK'
  BY DEF TypeOK
<1>2. Steady'
  BY DEF Steady, SteadyAgent, TypeOK
<1>3. Closing'
  BY DEF Closing, NothingLeaks, TypeOK
<1>4. LineOnce'
  BY DEF LineOnce, HostOnce
<1>. QED BY <1>1, <1>2, <1>3, <1>4 DEF EntryInv

\* The test is.
LEMMA TestDialsInductive ==
  ASSUME EntryInv, NEW c \in Conn, TestDials(c)
  PROVE  EntryInv'
<1>. TypeOK /\ Steady /\ LineOnce /\ Closing
  BY DEF EntryInv
<1>. USE DEF TestDials, Accepts
<1>1. TypeOK'
  BY DEF TypeOK
<1>2. Steady'
  BY DEF Steady, SteadyAgent, TypeOK
<1>3. Closing'
  BY DEF Closing, NothingLeaks, TypeOK
<1>4. LineOnce'
  BY DEF LineOnce, HostOnce
<1>. QED BY <1>1, <1>2, <1>3, <1>4 DEF EntryInv

\* A client leaves.
LEMMA ClientLeavesInductive ==
  ASSUME EntryInv, NEW c \in Conn, ClientLeaves(c)
  PROVE  EntryInv'
<1>. TypeOK /\ Steady /\ LineOnce /\ Closing
  BY DEF EntryInv
<1>. USE DEF ClientLeaves
<1>1. TypeOK'
  BY DEF TypeOK
<1>2. Closing'
  BY DEF Closing, NothingLeaks, TypeOK
<1>3. Steady' /\ LineOnce'
  BY DEF Steady, LineOnce, SteadyAgent, HostOnce
<1>. QED BY <1>1, <1>2, <1>3 DEF EntryInv

\* The test ends.
LEMMA TestReturnsInductive ==
  ASSUME EntryInv, NEW c \in Conn, TestReturns(c)
  PROVE  EntryInv'
<1>. TypeOK /\ Steady /\ LineOnce /\ Closing
  BY DEF EntryInv
<1>. USE DEF TestReturns
<1>1. TypeOK'
  BY DEF TypeOK
<1>2. Closing'
  BY DEF Closing, NothingLeaks, TypeOK
<1>3. Steady' /\ LineOnce'
  BY DEF Steady, LineOnce, SteadyAgent, HostOnce
<1>. QED BY <1>1, <1>2, <1>3 DEF EntryInv

\* handleConn picks an agent, which is the one of Start.
LEMMA ConnPicksInductive ==
  ASSUME EntryInv, NEW c \in Conn, NEW a \in Agent, ConnPicks(c, a)
  PROVE  EntryInv'
<1>. TypeOK /\ Steady /\ LineOnce /\ Closing
  BY DEF EntryInv
<1>. USE DEF ConnPicks, Reaches, Keeps, Pick
<1>1. TypeOK'
  BY DEF TypeOK
<1>2. Steady'
  BY DEF Steady, SteadyAgent, TypeOK
<1>3. Closing'
  BY DEF Closing, NothingLeaks, TypeOK
<1>4. LineOnce'
  BY DEF LineOnce, HostOnce
<1>. QED BY <1>1, <1>2, <1>3, <1>4 DEF EntryInv

\* handleConn finds no agent.
LEMMA PickFailsInductive ==
  ASSUME EntryInv, NEW c \in Conn, PickFails(c)
  PROVE  EntryInv'
<1>. TypeOK /\ Steady /\ LineOnce /\ Closing
  BY DEF EntryInv
<1>. USE DEF PickFails, Reaches, Keeps
<1>1. TypeOK'
  BY DEF TypeOK
<1>2. Steady'
  BY DEF Steady, SteadyAgent, TypeOK
<1>3. Closing'
  BY DEF Closing, NothingLeaks, TypeOK
<1>4. LineOnce'
  BY DEF LineOnce, HostOnce
<1>. QED BY <1>1, <1>2, <1>3, <1>4 DEF EntryInv

\* handleConn dials the hub.
LEMMA DialInductive ==
  ASSUME EntryInv, NEW c \in Conn, Dial(c)
  PROVE  EntryInv'
<1>. TypeOK /\ Steady /\ LineOnce /\ Closing
  BY DEF EntryInv
<1>. USE DEF Dial, Reaches, Keeps
<1>1. TypeOK'
  BY DEF TypeOK
<1>2. Steady'
  BY DEF Steady, SteadyAgent, TypeOK
<1>3. Closing'
  BY DEF Closing, NothingLeaks, TypeOK
<1>4. LineOnce'
  BY DEF LineOnce, HostOnce
<1>. QED BY <1>1, <1>2, <1>3, <1>4 DEF EntryInv

\* The hub does not answer.
LEMMA DialFailsInductive ==
  ASSUME EntryInv, NEW c \in Conn, DialFails(c)
  PROVE  EntryInv'
<1>. TypeOK /\ Steady /\ LineOnce /\ Closing
  BY DEF EntryInv
<1>. USE DEF DialFails, Reaches, Keeps
<1>1. TypeOK'
  BY DEF TypeOK
<1>2. Steady'
  BY DEF Steady, SteadyAgent, TypeOK
<1>3. Closing'
  BY DEF Closing, NothingLeaks, TypeOK
<1>4. LineOnce'
  BY DEF LineOnce, HostOnce
<1>. QED BY <1>1, <1>2, <1>3, <1>4 DEF EntryInv

\* The handshake is sent.
LEMMA SendHelloInductive ==
  ASSUME EntryInv, NEW c \in Conn, SendHello(c)
  PROVE  EntryInv'
<1>. TypeOK /\ Steady /\ LineOnce /\ Closing
  BY DEF EntryInv
<1>. USE DEF SendHello, Reaches, Keeps
<1>1. TypeOK'
  BY DEF TypeOK
<1>2. Steady'
  BY DEF Steady, SteadyAgent, TypeOK
<1>3. Closing'
  BY DEF Closing, NothingLeaks, TypeOK
<1>4. LineOnce'
  BY DEF LineOnce, HostOnce
<1>. QED BY <1>1, <1>2, <1>3, <1>4 DEF EntryInv

\* The handshake is not.
LEMMA HelloFailsInductive ==
  ASSUME EntryInv, NEW c \in Conn, HelloFails(c)
  PROVE  EntryInv'
<1>. TypeOK /\ Steady /\ LineOnce /\ Closing
  BY DEF EntryInv
<1>. USE DEF HelloFails, Reaches, Keeps
<1>1. TypeOK'
  BY DEF TypeOK
<1>2. Steady'
  BY DEF Steady, SteadyAgent, TypeOK
<1>3. Closing'
  BY DEF Closing, NothingLeaks, TypeOK
<1>4. LineOnce'
  BY DEF LineOnce, HostOnce
<1>. QED BY <1>1, <1>2, <1>3, <1>4 DEF EntryInv

\* The copy from the hub ends.
LEMMA DownEndsInductive ==
  ASSUME EntryInv, NEW c \in Conn, DownEnds(c)
  PROVE  EntryInv'
<1>. TypeOK /\ Steady /\ LineOnce /\ Closing
  BY DEF EntryInv
<1>. USE DEF DownEnds, Reaches, Keeps
<1>1. TypeOK'
  BY DEF TypeOK
<1>2. Steady'
  BY DEF Steady, SteadyAgent, TypeOK
<1>3. Closing'
  BY DEF Closing, NothingLeaks, TypeOK
<1>4. LineOnce'
  BY DEF LineOnce, HostOnce
<1>. QED BY <1>1, <1>2, <1>3, <1>4 DEF EntryInv

\* The same for want of a client.
LEMMA DownWriteFailsInductive ==
  ASSUME EntryInv, NEW c \in Conn, DownWriteFails(c)
  PROVE  EntryInv'
<1>. TypeOK /\ Steady /\ LineOnce /\ Closing
  BY DEF EntryInv
<1>. USE DEF DownWriteFails, Reaches, Keeps
<1>1. TypeOK'
  BY DEF TypeOK
<1>2. Steady'
  BY DEF Steady, SteadyAgent, TypeOK
<1>3. Closing'
  BY DEF Closing, NothingLeaks, TypeOK
<1>4. LineOnce'
  BY DEF LineOnce, HostOnce
<1>. QED BY <1>1, <1>2, <1>3, <1>4 DEF EntryInv

\* handleConn closes the websocket.
LEMMA CloseWsInductive ==
  ASSUME EntryInv, NEW c \in Conn, CloseWs(c)
  PROVE  EntryInv'
<1>. TypeOK /\ Steady /\ LineOnce /\ Closing
  BY DEF EntryInv
<1>. USE DEF CloseWs, Reaches, Keeps
<1>1. TypeOK'
  BY DEF TypeOK
<1>2. Steady'
  BY DEF Steady, SteadyAgent, TypeOK
<1>3. Closing'
  BY DEF Closing, NothingLeaks, TypeOK
<1>4. LineOnce'
  BY DEF LineOnce, HostOnce
<1>. QED BY <1>1, <1>2, <1>3, <1>4 DEF EntryInv

\* handleConn closes the connection of the client.
LEMMA CloseLocalInductive ==
  ASSUME EntryInv, NEW c \in Conn, CloseLocal(c)
  PROVE  EntryInv'
<1>. TypeOK /\ Steady /\ LineOnce /\ Closing
  BY DEF EntryInv
<1>. USE DEF CloseLocal, Reaches, Keeps
<1>1. TypeOK'
  BY DEF TypeOK
<1>2. Steady'
  BY DEF Steady, SteadyAgent, TypeOK
<1>3. Closing'
  BY DEF Closing, NothingLeaks, TypeOK
<1>4. LineOnce'
  BY DEF LineOnce, HostOnce
<1>. QED BY <1>1, <1>2, <1>3, <1>4 DEF EntryInv

\* A tunnel breaks.
LEMMA TunnelBreaksInductive ==
  ASSUME EntryInv, NEW c \in Conn, TunnelBreaks(c)
  PROVE  EntryInv'
<1>. TypeOK /\ Steady /\ LineOnce /\ Closing
  BY DEF EntryInv
<1>. USE DEF TunnelBreaks, Keeps
<1>1. TypeOK'
  BY DEF TypeOK
<1>2. Closing'
  BY DEF Closing, NothingLeaks, TypeOK
<1>3. Steady' /\ LineOnce'
  BY DEF Steady, LineOnce, SteadyAgent, HostOnce
<1>. QED BY <1>1, <1>2, <1>3 DEF EntryInv

\* The copy to the hub ends.
LEMMA UpEndsInductive ==
  ASSUME EntryInv, NEW c \in Conn, UpEnds(c)
  PROVE  EntryInv'
<1>. TypeOK /\ Steady /\ LineOnce /\ Closing
  BY DEF EntryInv
<1>. USE DEF UpEnds, Keeps
<1>1. TypeOK'
  BY DEF TypeOK
<1>2. Closing'
  BY DEF Closing, NothingLeaks, TypeOK
<1>3. Steady' /\ LineOnce'
  BY DEF Steady, LineOnce, SteadyAgent, HostOnce
<1>. QED BY <1>1, <1>2, <1>3 DEF EntryInv

\* The same for want of a tunnel.
LEMMA UpWriteFailsInductive ==
  ASSUME EntryInv, NEW c \in Conn, UpWriteFails(c)
  PROVE  EntryInv'
<1>. TypeOK /\ Steady /\ LineOnce /\ Closing
  BY DEF EntryInv
<1>. USE DEF UpWriteFails, Keeps
<1>1. TypeOK'
  BY DEF TypeOK
<1>2. Closing'
  BY DEF Closing, NothingLeaks, TypeOK
<1>3. Steady' /\ LineOnce'
  BY DEF Steady, LineOnce, SteadyAgent, HostOnce
<1>. QED BY <1>1, <1>2, <1>3 DEF EntryInv

\* The goroutine of handleConn closes the websocket.
LEMMA UpClosesInductive ==
  ASSUME EntryInv, NEW c \in Conn, UpCloses(c)
  PROVE  EntryInv'
<1>. TypeOK /\ Steady /\ LineOnce /\ Closing
  BY DEF EntryInv
<1>. USE DEF UpCloses, Keeps
<1>1. TypeOK'
  BY DEF TypeOK
<1>2. Closing'
  BY DEF Closing, NothingLeaks, TypeOK
<1>3. Steady' /\ LineOnce'
  BY DEF Steady, LineOnce, SteadyAgent, HostOnce
<1>. QED BY <1>1, <1>2, <1>3 DEF EntryInv

-----------------------------------------------------------------------------
(* The invariant, and what follows from it. *)

LEMMA InitInductive == Init => EntryInv
<1>. SUFFICES ASSUME Init
              PROVE  EntryInv
  OBVIOUS
<1>1. hosts \in Seq({HostKey, NL, Torn}) /\ HostOnce
  BY InitHostsType DEF Init, HostOnce
<1>4. starts \in 0 .. MaxStarts /\ test \in {"none", "due", "done"} \cup Conn
  BY StartsAreNumber DEF Init
<1>2. TypeOK
  BY <1>1, <1>4 DEF Init, TypeOK
<1>3. Steady /\ LineOnce /\ Closing
  BY <1>1 DEF Init, Steady, SteadyAgent, LineOnce, Closing, NothingLeaks
<1>. QED BY <1>2, <1>3 DEF EntryInv

LEMMA NextInductive == EntryInv /\ [Next]_vars => EntryInv'
<1>. SUFFICES ASSUME EntryInv, [Next]_vars
              PROVE  EntryInv'
  OBVIOUS
<1>1. ASSUME Start
      PROVE  EntryInv'
  BY <1>1, StartPicksInductive, ReadKeyInductive, PushKeyInductive,
     LookForHostInductive, AppendHostInductive, AppendHostFailsInductive,
     ListenInductive, EndsInductive DEF Start
<1>2. ASSUME NEW c \in Conn, HandleConn(c)
      PROVE  EntryInv'
  BY <1>2, AcceptInductive, ConnPicksInductive, PickFailsInductive, DialInductive,
     DialFailsInductive, SendHelloInductive, HelloFailsInductive, DownEndsInductive,
     DownWriteFailsInductive, CloseWsInductive, CloseLocalInductive,
     UpEndsInductive, UpWriteFailsInductive, UpClosesInductive DEF HandleConn
<1>3. ASSUME NEW c \in Conn, Outside(c)
      PROVE  EntryInv'
  BY <1>3, TestDialsInductive, TestReturnsInductive, ClientLeavesInductive,
     TunnelBreaksInductive DEF Outside
<1>4. ASSUME \/ HubRestarts \/ RivalLooks \/ RivalAppends
             \/ \E a \in Agent : AgentRegisters(a)
      PROVE  EntryInv'
  BY <1>4, HubRestartsInductive, AgentRegistersInductive, RivalLooksInductive,
     RivalAppendsInductive
<1>5. CASE UNCHANGED vars
  BY <1>5 DEF vars, EntryInv, TypeOK, Steady, SteadyAgent, LineOnce, HostOnce,
              Closing, NothingLeaks
<1>. QED BY <1>1, <1>2, <1>3, <1>4, <1>5 DEF Next

THEOREM EntryInvariant == Spec => []EntryInv
BY InitInductive, NextInductive, PTL DEF Spec

\* Every variable keeps its type, and clients come only while the entry serves.
THEOREM TypeCorrect == Spec => []TypeOK
BY EntryInvariant, PTL DEF EntryInv

\* As long as the hub forgets no agent, every client is led to the agent that
\* Start picked and pushed the key to, whoever registers (pickAgent).
THEOREM AgentIsSteady == Spec => []SteadyAgent
<1>1. EntryInv => SteadyAgent
  BY DEF EntryInv, Steady
<1>. QED BY <1>1, EntryInvariant, PTL

\* However often the entry is started, wherever it dies and whatever another one on
\* its port writes, its line is in known_hosts once at most, unless a read of the
\* file failed or both were about to write at once (ensureKnownHost).
THEOREM HostLineOnce == Spec => []HostOnce
<1>1. EntryInv => HostOnce
  BY DEF EntryInv, LineOnce
<1>. QED BY <1>1, EntryInvariant, PTL

\* When ensureKnownHost has returned nil, ssh finds the host key in a known_hosts
\* that no write was cut off in: what HostKnown claims fails for such files only.
THEOREM HostIsFound == Spec => []HostFound
<1>1. EntryInv => HostFound
  BY LinedIsWhole DEF EntryInv, TypeOK, LineOnce, HostFound, Text
<1>. QED BY <1>1, EntryInvariant, PTL

\* Only a write that fails or is cut off by the end of the process, or one of the
\* other entry, leaves a line of known_hosts without its end (ensureKnownHost).
THEOREM LinesKeepTheirEnds == Spec => LinesEnded
<1> DEFINE Excused == pc = "append" /\ ~ensured'
<1>1. EntryInv /\ [Next]_vars => [Lined(hosts) => Lined(hosts') \/ Excused \/ rival = "append"]_vars
  <2>. SUFFICES ASSUME EntryInv, [Next]_vars, Lined(hosts), hosts' # hosts
                PROVE  Lined(hosts') \/ Excused \/ rival = "append"
    OBVIOUS
  <2>1. CASE AppendHost
    BY <2>1, LineWritten DEF AppendHost, EntryInv, TypeOK, Text
  <2>2. CASE AppendHostFails
    BY <2>2 DEF AppendHostFails, EntryInv, LineOnce
  <2>3. CASE Ends
    BY <2>3 DEF Ends
  <2>4. CASE ReadKey \/ PushKey \/ LookForHost \/ Listen \/ \E a \in Agent : StartPicks(a)
    BY <2>4 DEF ReadKey, PushKey, LookForHost, Listen, StartPicks
  <2>5. ASSUME NEW c \in Conn, HandleConn(c)
        PROVE  hosts' = hosts
    <3>1. CASE \/ Accept(c) \/ PickFails(c) \/ Dial(c) \/ DialFails(c)
               \/ SendHello(c) \/ HelloFails(c) \/ \E a \in Agent : ConnPicks(c, a)
      BY <3>1 DEF Keeps, Accepts, Accept, ConnPicks, PickFails, Dial, DialFails, SendHello, HelloFails
    <3>2. CASE \/ DownEnds(c) \/ DownWriteFails(c) \/ CloseWs(c) \/ CloseLocal(c)
               \/ UpEnds(c) \/ UpWriteFails(c) \/ UpCloses(c)
      BY <3>2 DEF Keeps, DownEnds, DownWriteFails, CloseWs, CloseLocal, UpEnds,
           UpWriteFails, UpCloses
    <3>. QED BY <2>5, <3>1, <3>2 DEF HandleConn
  <2>6. ASSUME NEW c \in Conn, Outside(c)
        PROVE  hosts' = hosts
    BY <2>6 DEF Outside, Keeps, Accepts, TestDials, TestReturns, ClientLeaves, TunnelBreaks
  <2>7. CASE \/ HubRestarts \/ RivalLooks \/ RivalAppends
             \/ (\E a \in Agent : AgentRegisters(a)) \/ UNCHANGED vars
    BY <2>7 DEF HubRestarts, RivalLooks, RivalAppends, AgentRegisters, vars
  <2>. QED BY <2>1, <2>2, <2>3, <2>4, <2>5, <2>6, <2>7 DEF Next, Start
<1>. QED BY <1>1, EntryInvariant, PTL DEF Spec, LinesEnded

\* handleConn leaves nothing open, on whichever path it returns.
THEOREM NothingLeft == Spec => []NothingLeaks
<1>1. EntryInv => NothingLeaks
  BY DEF EntryInv, Closing
<1>. QED BY <1>1, EntryInvariant, PTL
=============================================================================
