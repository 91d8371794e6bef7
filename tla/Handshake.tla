------------------------------ MODULE Handshake ------------------------------
(***************************************************************************)
(* The handshake of a tunnel (pkg/tunnel): what SendHandshake writes, and  *)
(* which first message ReadHandshake accepts.  A session ID is a sequence  *)
(* of characters, the data of a message is a sequence of bytes.            *)
(***************************************************************************)
EXTENDS Integers, Sequences, FiniteSets

CONSTANTS
  HexDigit,   \* the characters hex.DecodeString takes, of both cases
  OtherChar,  \* the remaining characters, Dash among them
  Value,      \* what a hex digit stands for
  Dash,
  SessionIDs, \* the session IDs considered
  Hash(_),    \* the bytes SHA-256 makes of a session ID, cut off
  HashByte,   \* these bytes, kept apart from the bytes of decoded IDs
  Magic,      \* the bytes of HandshakeMagic
  SIDSize,    \* bytes for a session ID
  MaxPayload  \* bound: messages after the first one

Byte == (0 .. 255) \cup HashByte

ASSUME SizesAreNumbers == SIDSize \in Nat \ {0} /\ MaxPayload \in 0 .. 255
ASSUME Characters == Value \in [HexDigit -> 0 .. 15] /\ Dash \in OtherChar
                     /\ HexDigit \cap OtherChar = {}
ASSUME SessionIDsType == SessionIDs \subseteq Seq(HexDigit \cup OtherChar)
ASSUME MagicType == Magic \in Seq(Byte) /\ Len(Magic) > 0
ASSUME HashType == \A s \in SessionIDs : Hash(s) \in [1 .. SIDSize -> Byte]

VARIABLES
  sent,      \* the session ID the sender has been given
  expected,  \* and the one the reader has been given
  phase,     \* of the sender: "dialed", "open" after its first message, "closed"
  payloads,  \* messages sent after the first one
  wire,      \* messages on their way
  got,       \* what ReadHandshake has read, a sequence of at most one message
  verdict    \* "none" yet, "nil" or what the error is about

vars == <<sent, expected, phase, payloads, wire, got, verdict>>

-----------------------------------------------------------------------------
HandshakeSize == Len(Magic) + SIDSize

IsHex(s) == Len(s) = 2 * SIDSize /\ \A i \in 1 .. 2 * SIDSize : s[i] \in HexDigit

Decode(s) == [i \in 1 .. SIDSize |-> 16 * Value[s[2 * i - 1]] + Value[s[2 * i]]]

NotDash(c) == c # Dash

\* The loop over the ID: Kept(s)[i] is clean after i characters.
Kept(s) ==
  LET kept[i \in 0 .. Len(s)] ==
        IF i = 0 THEN <<>>
        ELSE IF NotDash(s[i]) THEN Append(kept[i - 1], s[i]) ELSE kept[i - 1]
  IN  kept

Clean(s) == Kept(s)[Len(s)]

\* Fault: an ID with dashes is hashed as it is.
BytesWithDashes(s) == IF IsHex(s) THEN Decode(s) ELSE Hash(s)

SessionIDTo16Bytes(s) ==
  IF IsHex(s) THEN Decode(s) ELSE IF IsHex(Clean(s)) THEN Decode(Clean(s)) ELSE Hash(s)

BuildHandshake(s) == Magic \o SessionIDTo16Bytes(s)

equalBytes(a, b) == Len(a) = Len(b) /\ \A i \in 1 .. Len(a) : a[i] = b[i]

\* Fault: the size is a lower bound, and the rest is left unread.
ValidateLonger(data, s) ==
  IF Len(data) < HandshakeSize THEN "size"
  ELSE IF ~equalBytes(SubSeq(data, 1, Len(Magic)), Magic) THEN "magic"
  ELSE IF ~equalBytes(SubSeq(data, Len(Magic) + 1, HandshakeSize), SessionIDTo16Bytes(s))
       THEN "session" ELSE "nil"

ValidateHandshake(data, s) ==
  IF Len(data) # HandshakeSize THEN "size"
  ELSE IF ~equalBytes(SubSeq(data, 1, Len(Magic)), Magic) THEN "magic"
  ELSE IF ~equalBytes(SubSeq(data, Len(Magic) + 1, Len(data)), SessionIDTo16Bytes(s))
       THEN "session" ELSE "nil"

-----------------------------------------------------------------------------
Message == [type : {"binary", "text"}, data : Seq(Byte)]

Binary(data) == [type |-> "binary", data |-> data]
Payload(i) == Binary(<<i>>)

Verdicts == {"none", "nil", "read", "type", "size", "magic", "session"}

Init == /\ sent \in SessionIDs /\ expected \in SessionIDs
        /\ phase = "dialed" /\ payloads = 0
        /\ wire = <<>> /\ got = <<>> /\ verdict = "none"

SendsFirst(m) == /\ phase = "dialed" /\ phase' = "open"
                 /\ wire' = Append(wire, m)
                 /\ UNCHANGED <<sent, expected, payloads, got, verdict>>

SendHandshake == SendsFirst(Binary(BuildHandshake(sent)))

(* A client that is not this program: text, a part of the header, more     *)
(* than the header in one message, or the session ID before the magic.     *)
SendOther ==
  LET h == BuildHandshake(sent) IN
  \E m \in {[type |-> "text", data |-> h], Binary(SubSeq(h, 1, Len(h) - 1)),
            Binary(Append(h, 0)), Binary(SessionIDTo16Bytes(sent) \o Magic)} : SendsFirst(m)

\* The sender copies data as soon as it has written the handshake, read or not.
SendPayload == /\ phase = "open" /\ payloads < MaxPayload
               /\ payloads' = payloads + 1
               /\ wire' = Append(wire, Payload(payloads + 1))
               /\ UNCHANGED <<sent, expected, phase, got, verdict>>

\* It closes its websocket: what is on the way still arrives.
Close == /\ phase # "closed" /\ phase' = "closed"
         /\ UNCHANGED <<sent, expected, payloads, wire, got, verdict>>

\* Fault: the message is left on the wire, for the copy to deliver.
ReadLeaves ==
  /\ verdict = "none" /\ wire # <<>>
  /\ got' = <<Head(wire)>>
  /\ verdict' = IF Head(wire).type # "binary" THEN "type"
                ELSE ValidateHandshake(Head(wire).data, expected)
  /\ UNCHANGED <<sent, expected, phase, payloads, wire>>

ReadHandshake ==
  /\ verdict = "none" /\ wire # <<>>
  /\ got' = <<Head(wire)>>
  /\ verdict' = IF Head(wire).type # "binary" THEN "type"
                ELSE ValidateHandshake(Head(wire).data, expected)
  /\ wire' = Tail(wire)
  /\ UNCHANGED <<sent, expected, phase, payloads>>

\* Fault: the error of the read is dropped.
ReadFailsUnseen == /\ verdict = "none"
                   /\ verdict' = "nil"
                   /\ UNCHANGED <<sent, expected, phase, payloads, wire, got>>

\* The sender is gone, or the connection breaks with messages still on the way, or
\* the context of the reader ends.
ReadFails == /\ verdict = "none"
             /\ verdict' = "read"
             /\ UNCHANGED <<sent, expected, phase, payloads, wire, got>>

Next == \/ SendHandshake \/ SendOther \/ SendPayload \/ Close
        \/ ReadHandshake \/ ReadFails

Spec == Init /\ [][Next]_vars

-----------------------------------------------------------------------------
(* What two IDs of one session have in common: they are equal, or both are *)
(* the same bytes in hex, however they are dashed and whatever their case. *)

Digits(s) == {i \in 1 .. Len(s) : s[i] # Dash}
Rank(s, i) == Cardinality({j \in Digits(s) : j <= i})
IsUUID(s) == /\ Cardinality(Digits(s)) = 2 * SIDSize
             /\ \A i \in Digits(s) : s[i] \in HexDigit
SameUUID(s, t) == /\ IsUUID(s) /\ IsUUID(t)
                  /\ \A i \in Digits(s), j \in Digits(t) :
                       Rank(s, i) = Rank(t, j) => Value[s[i]] = Value[t[j]]

(* SHA-256 is cut off at SIDSize bytes: that the hash of an ID is neither  *)
(* that of another one nor the bytes of one in hex is not in this code.    *)
NoCollision ==
  \A s, t \in SessionIDs : ~IsUUID(s) /\ Hash(s) = SessionIDTo16Bytes(t) => s = t

(* The types, and that a verdict is given on a message that was read,      *)
(* except for the error of the read itself.                                *)
TypeOK ==
  /\ sent \in SessionIDs /\ expected \in SessionIDs
  /\ phase \in {"dialed", "open", "closed"} /\ payloads \in 0 .. MaxPayload
  /\ wire \in Seq(Message) /\ verdict \in Verdicts
  /\ got = <<>> \/ (Len(got) = 1 /\ got \in Seq(Message))
  /\ got = <<>> <=> verdict \in {"none", "read"}

(* The handshake of SendHandshake is accepted exactly by the reader of the *)
(* same session: the ends of one session agree however they write its ID,  *)
(* and the ends of two sessions are never joined.                          *)
SameSession ==
  (got # <<>> /\ got[1] = Binary(BuildHandshake(sent)))
    => (verdict = "nil" <=> (sent = expected \/ SameUUID(sent, expected)))

(* Nothing but the whole header of its own session, in a binary message of *)
(* its own, makes a reader go on: no data are mistaken for a handshake,    *)
(* and none that came along with one are dropped.                          *)
OnlyExactHeader == verdict = "nil" => got = <<Binary(BuildHandshake(expected))>>

(* ReadHandshake takes one message: what the sender has written after it,  *)
(* before or after it was read, is what the copy finds, in order.          *)
PayloadIntact ==
  got # <<>> => wire = [i \in 1 .. payloads |-> Payload(i)]
=============================================================================
