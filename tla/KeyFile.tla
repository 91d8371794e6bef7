------------------------------- MODULE KeyFile -------------------------------
(***************************************************************************)
(* Text files with one key a line, authorized_keys and known_hosts, and    *)
(* what a write that is cut off leaves of a line.  A file is a sequence of *)
(* keys, ends of lines, and remains of keys.                               *)
(***************************************************************************)
EXTENDS Integers, Sequences

NL == "newline"
Torn == "torn"

Line(k) == <<k, NL>>

\* What WriteString may leave of a line that it does not finish.
PartOfLine(k) == {<<>>, <<Torn>>, <<k>>}

\* strings.Contains for a key, and for a key with the end of its line.
Contains(f, k) == \E i \in DOMAIN f : f[i] = k
ContainsLine(f, k) == \E i \in 1 .. Len(f) - 1 : f[i] = k /\ f[i + 1] = NL

\* A line that is k and nothing else, as sshd and ssh read it.
WholeLine(f, k) ==
  \E i \in 1 .. Len(f) - 1 : /\ f[i] = k /\ f[i + 1] = NL
                             /\ i = 1 \/ f[i - 1] = NL

\* A file that no write was cut off in: every line has its end.
Lined(f) == \A i \in DOMAIN f : f[i] # NL => i < Len(f) /\ f[i + 1] = NL
=============================================================================
