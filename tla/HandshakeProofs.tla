--------------------------- MODULE HandshakeProofs ---------------------------
(***************************************************************************)
(* Proofs about the handshake: what is accepted is exactly what            *)
(* BuildHandshake makes of the session ID, two IDs are the same bytes if   *)
(* they are of one session, and the messages after the first one stay.     *)
(***************************************************************************)
EXTENDS Handshake, TLAPS, FiniteSetTheorems, WellFoundedInduction

LEMMA TwoParts ==
  ASSUME NEW S, NEW a \in Seq(S), NEW b \in Seq(S)
  PROVE  /\ a \o b \in Seq(S)
         /\ Len(a \o b) = Len(a) + Len(b)
         /\ \A i \in 1 .. Len(a) : (a \o b)[i] = a[i]
OBVIOUS

LEMMA HeadApart ==
  ASSUME NEW S, NEW m \in S, NEW q \in Seq(S), NEW x \in S
  PROVE  /\ Tail(<<m>> \o q) = q
         /\ Append(<<m>> \o q, x) = <<m>> \o Append(q, x)
         /\ (<<m>> \o q)[1] = m
         /\ <<m>> \o q # <<>>
<1> DEFINE w == <<m>> \o q
<1>1. w \in Seq(S) /\ Len(w) = Len(q) + 1 /\ w[1] = m /\ w # <<>>  OBVIOUS
<1>2. \A i \in 1 .. Len(q) : w[i + 1] = q[i]  OBVIOUS
<1>3. Tail(w) = q
  <2>1. Tail(w) \in Seq(S) /\ Len(Tail(w)) = Len(q)  BY <1>1
  <2>2. \A i \in 1 .. Len(q) : Tail(w)[i] = q[i]  BY <1>1, <1>2
  <2> HIDE DEF w
  <2> QED  BY <2>1, <2>2
<1>4. Append(w, x) = <<m>> \o Append(q, x)
  <2> DEFINE a == Append(w, x)   b == <<m>> \o Append(q, x)
  <2>1. /\ a \in Seq(S) /\ Len(a) = Len(q) + 2
        /\ b \in Seq(S) /\ Len(b) = Len(q) + 2
    OBVIOUS
  <2>2. \A i \in 1 .. Len(q) + 2 : a[i] = b[i]  OBVIOUS
  <2> HIDE DEF a, b
  <2>3. a = b  BY <2>1, <2>2
  <2> QED  BY <2>3 DEF a, b
<1> QED  BY <1>1, <1>3, <1>4

-----------------------------------------------------------------------------
(* The loop that drops the dashes of an ID. *)

(* Induction as a fact about sets, which takes no predicate: a set with 0  *)
(* and the successors, up to n, of its elements has every number up to n.  *)
LEMMA UpTo ==
  ASSUME NEW n \in Nat, NEW T, 0 \in T,
         \A i \in Nat : i < n /\ i \in T => i + 1 \in T
  PROVE  0 .. n \subseteq T
<1> DEFINE R == OpToRel(<, Nat)   U == (0 .. n) \ T
<1>1. IsWellFoundedOn(R, Nat)  BY NatLessThanWellFounded
<1>2. \A i, j \in Nat : i < j => <<i, j>> \in R  BY DEF OpToRel
<1> HIDE DEF R
<1> SUFFICES ASSUME U # {}  PROVE FALSE
  OBVIOUS
<1>3. U \subseteq Nat  OBVIOUS
<1>4. PICK j \in U : \A i \in U : ~ (<<i, j>> \in R)
  <2> HIDE DEF U
  <2> QED  BY <1>1, <1>3, WFMin
<1>5. j \in Nat /\ j # 0 /\ j <= n  OBVIOUS
<1>6. j - 1 \in Nat /\ j - 1 < n /\ (j - 1) + 1 = j  BY <1>5
<1>7. j - 1 \notin U
  <2>1. <<j - 1, j>> \in R  BY ONLY <1>2, <1>5, <1>6
  <2> HIDE DEF U
  <2> QED  BY ONLY <1>4, <2>1
<1>8. j - 1 \in T  BY <1>5, <1>6, <1>7
<1> QED  BY <1>6, <1>8

(* The loop of SessionIDTo16Bytes is well defined. *)
LEMMA LoopSteps ==
  ASSUME NEW s, NEW n \in Nat, Len(s) = n
  PROVE  /\ Kept(s)[0] = <<>>
         /\ \A i \in 1 .. n : Kept(s)[i] = IF NotDash(s[i])
                                           THEN Append(Kept(s)[i - 1], s[i])
                                           ELSE Kept(s)[i - 1]
<1> DEFINE Run(k, m) == k = [i \in 0 .. m |->
             IF i = 0 THEN <<>>
             ELSE IF NotDash(s[i]) THEN Append(k[i - 1], s[i]) ELSE k[i - 1]]
           T == {m \in Nat : \E k : Run(k, m)}
<1>1. 0 \in T
  <2>1. Run([i \in 0 .. 0 |-> <<>>], 0)  OBVIOUS
  <2> QED  BY <2>1
<1>2. ASSUME NEW m \in Nat, m \in T
      PROVE  m + 1 \in T
  <2>1. PICK k : Run(k, m)  BY <1>2
  <2> DEFINE last == IF NotDash(s[m + 1]) THEN Append(k[m], s[m + 1]) ELSE k[m]
             h == [i \in 0 .. m + 1 |-> IF i = m + 1 THEN last ELSE k[i]]
  <2>2. \A i \in 0 .. m : h[i] = k[i]  OBVIOUS
  <2>3. Run(h, m + 1)
    <3>1. ASSUME NEW i \in 0 .. m + 1
          PROVE  h[i] = IF i = 0 THEN <<>>
                        ELSE IF NotDash(s[i]) THEN Append(h[i - 1], s[i]) ELSE h[i - 1]
      <4>1. CASE i = m + 1
        <5>1. i # 0 /\ i - 1 = m /\ m \in 0 .. m  BY <4>1
        <5>2. h[i - 1] = k[m]  BY <5>1, <2>2
        <5>3. h[i] = last  BY <4>1
        <5> QED  BY <4>1, <5>1, <5>2, <5>3
      <4>2. CASE i = 0
        <5>1. h[i] = k[0]  BY <4>2
        <5>2. k[0] = <<>>  BY <2>1
        <5> QED  BY <4>2, <5>1, <5>2
      <4>3. CASE i \in 1 .. m
        <5>1. i \in 0 .. m /\ i - 1 \in 0 .. m /\ i # 0  BY <4>3
        <5>2. h[i] = k[i] /\ h[i - 1] = k[i - 1]  BY <5>1, <2>2
        <5>3. k[i] = IF NotDash(s[i]) THEN Append(k[i - 1], s[i]) ELSE k[i - 1]
          BY <2>1, <5>1
        <5> QED  BY <5>1, <5>2, <5>3
      <4> QED  BY <4>1, <4>2, <4>3
    <3>2. h = [i \in 0 .. m + 1 |-> h[i]]  OBVIOUS
    <3> HIDE DEF h
    <3> QED  BY <3>1, <3>2
  <2> HIDE DEF h, Run
  <2> QED  BY <2>3
<1>3. \E k : Run(k, n)
  <2>1. 0 .. n \subseteq T
    <3> HIDE DEF T
    <3> QED  BY <1>1, <1>2, UpTo
  <2>2. n \in T
    <3> HIDE DEF T
    <3> QED  BY <2>1
  <2> HIDE DEF Run
  <2> QED  BY <2>2
<1>4. Kept(s) = CHOOSE k : Run(k, n)  BY DEF Kept
<1>5. Run(Kept(s), n)
  <2> HIDE DEF Run
  <2> QED  BY <1>3, <1>4
<1> DEFINE k == Kept(s)
<1>6. k = [i \in 0 .. n |->
        IF i = 0 THEN <<>>
        ELSE IF NotDash(s[i]) THEN Append(k[i - 1], s[i]) ELSE k[i - 1]]
  BY <1>5
<1>7. 0 \in 0 .. n /\ \A i \in 1 .. n : i \in 0 .. n /\ i # 0  OBVIOUS
<1> HIDE DEF k
<1>8. /\ k[0] = <<>>
      /\ \A i \in 1 .. n : k[i] = IF NotDash(s[i]) THEN Append(k[i - 1], s[i]) ELSE k[i - 1]
  BY <1>6, <1>7
<1> QED  BY <1>8 DEF k

-----------------------------------------------------------------------------
Char == HexDigit \cup OtherChar
Upto(s, i) == {j \in Digits(s) : j <= i}

(* The rank of a place counts the digits up to it. *)
LEMMA RankSteps ==
  ASSUME NEW s \in Seq(Char)
  PROVE  /\ \A i \in 0 .. Len(s) : Rank(s, i) \in Nat
         /\ Rank(s, 0) = 0
         /\ \A i \in 1 .. Len(s) :
              Rank(s, i) = IF NotDash(s[i]) THEN Rank(s, i - 1) + 1 ELSE Rank(s, i - 1)
         /\ Rank(s, Len(s)) = Cardinality(Digits(s))
<1>1. \A i \in 0 .. Len(s) : Rank(s, i) = Cardinality(Upto(s, i))  BY DEF Rank, Upto
<1>2. IsFiniteSet(1 .. Len(s))  BY FS_Interval
<1>3. \A i \in 0 .. Len(s) : IsFiniteSet(Upto(s, i))
  <2>1. \A i \in 0 .. Len(s) : Upto(s, i) \subseteq 1 .. Len(s)  BY DEF Upto, Digits
  <2> QED  BY <1>2, <2>1, FS_Subset
<1>4. \A i \in 0 .. Len(s) : Rank(s, i) \in Nat  BY <1>1, <1>3, FS_CardinalityType
<1>5. Rank(s, 0) = 0
  <2>1. Upto(s, 0) = {}  BY DEF Upto, Digits
  <2>2. 0 \in 0 .. Len(s)  OBVIOUS
  <2> QED  BY <1>1, <2>1, <2>2, FS_EmptySet
<1>6. ASSUME NEW i \in 1 .. Len(s)
      PROVE  Rank(s, i) = IF NotDash(s[i]) THEN Rank(s, i - 1) + 1 ELSE Rank(s, i - 1)
  <2>1. i \in 0 .. Len(s) /\ i - 1 \in 0 .. Len(s)  OBVIOUS
  <2>2. CASE NotDash(s[i])
    <3>1. i \in Digits(s)  BY <2>2 DEF Digits, NotDash
    <3>2. Upto(s, i) = Upto(s, i - 1) \cup {i}  BY <3>1 DEF Upto, Digits
    <3>3. i \notin Upto(s, i - 1)  BY DEF Upto
    <3>4. IsFiniteSet(Upto(s, i - 1))  BY <1>3, <2>1
    <3> QED  BY <1>1, <2>1, <2>2, <3>2, <3>3, <3>4, FS_AddElement
  <2>3. CASE ~NotDash(s[i])
    <3>1. i \notin Digits(s)  BY <2>3 DEF Digits, NotDash
    <3>2. Upto(s, i) = Upto(s, i - 1)  BY <3>1 DEF Upto, Digits
    <3> QED  BY <1>1, <2>1, <2>3, <3>2
  <2> QED  BY <2>2, <2>3
<1>7. Rank(s, Len(s)) = Cardinality(Digits(s))
  <2>1. Upto(s, Len(s)) = Digits(s)  BY DEF Upto, Digits
  <2> QED  BY <1>1, <2>1
<1> QED  BY <1>4, <1>5, <1>6, <1>7

(* After i characters the loop has kept the digits up to i, in their order. *)
KeptUpTo(s, i) ==
  LET k == Kept(s)[i] IN
  /\ k \in Seq(Char) /\ Len(k) = Rank(s, i)
  /\ \A j \in Upto(s, i) : Rank(s, j) \in 1 .. Rank(s, i) /\ k[Rank(s, j)] = s[j]
  /\ \A r \in 1 .. Rank(s, i) : \E j \in Upto(s, i) : Rank(s, j) = r

LEMMA LoopKeeps ==
  ASSUME NEW s \in Seq(Char)
  PROVE  \A i \in 0 .. Len(s) : KeptUpTo(s, i)
<1> DEFINE n == Len(s)   T == {i \in 0 .. n : KeptUpTo(s, i)}
<1>0. n \in Nat  OBVIOUS
<1>1. 0 \in T
  <2>1. Kept(s)[0] = <<>>  BY <1>0, LoopSteps
  <2>2. Rank(s, 0) = 0  BY RankSteps
  <2>3. Upto(s, 0) = {}  BY DEF Upto, Digits
  <2>4. <<>> \in Seq(Char) /\ Len(<<>>) = 0  OBVIOUS
  <2>5. KeptUpTo(s, 0)  BY <2>1, <2>2, <2>3, <2>4 DEF KeptUpTo
  <2> QED  BY <1>0, <2>5
<1>2. ASSUME NEW m \in Nat, m < n, m \in T
      PROVE  m + 1 \in T
  <2> DEFINE k == Kept(s)[m]   i == m + 1   c == s[m + 1]
  <2>0. i \in 1 .. n /\ i \in 0 .. n /\ i - 1 = m /\ m \in 0 .. n /\ i # 0 /\ c \in Char
    BY <1>2
  <2>1. Kept(s)[i] = IF NotDash(c) THEN Append(k, c) ELSE k
    <3>1. Kept(s)[i] = IF NotDash(s[i]) THEN Append(Kept(s)[i - 1], s[i]) ELSE Kept(s)[i - 1]
      BY ONLY <1>0, <2>0, LoopSteps
    <3> QED  BY <2>0, <3>1
  <2>2. Rank(s, m) \in Nat /\ Rank(s, i) = IF NotDash(c) THEN Rank(s, m) + 1 ELSE Rank(s, m)
    BY <2>0, RankSteps
  <2>3. KeptUpTo(s, m)  BY <1>2
  <2>4. /\ k \in Seq(Char) /\ Len(k) = Rank(s, m)
        /\ \A j \in Upto(s, m) : Rank(s, j) \in 1 .. Rank(s, m) /\ k[Rank(s, j)] = s[j]
        /\ \A r \in 1 .. Rank(s, m) : \E j \in Upto(s, m) : Rank(s, j) = r
    BY <2>3 DEF KeptUpTo
  <2>5. CASE ~NotDash(c)
    <3>1. Upto(s, i) = Upto(s, m)  BY <2>0, <2>5 DEF Upto, Digits, NotDash
    <3>2. Kept(s)[i] = k /\ Rank(s, i) = Rank(s, m)  BY <2>1, <2>2, <2>5
    <3>3. KeptUpTo(s, i)  BY ONLY <2>3, <3>1, <3>2 DEF KeptUpTo
    <3> QED  BY <2>0, <3>3
  <2>6. CASE NotDash(c)
    <3>1. Upto(s, i) = Upto(s, m) \cup {i}  BY <2>0, <2>6 DEF Upto, Digits, NotDash
    <3> DEFINE a == Append(k, c)   q == Rank(s, m)
    <3>2. Kept(s)[i] = a /\ Rank(s, i) = q + 1 /\ q \in Nat  BY <2>1, <2>2, <2>6
    <3>3. a \in Seq(Char) /\ Len(a) = q + 1 /\ a[q + 1] = c
          /\ \A r \in 1 .. q : a[r] = k[r]
      BY <2>0, <2>4
    <3> HIDE DEF k, c, a, q, i
    <3>4. ASSUME NEW j \in Upto(s, i)
          PROVE  Rank(s, j) \in 1 .. q + 1 /\ a[Rank(s, j)] = s[j]
      <4>1. CASE j \in Upto(s, m)
        <5>1. Rank(s, j) \in 1 .. q /\ k[Rank(s, j)] = s[j]  BY <2>4, <4>1 DEF q
        <5> QED  BY <3>2, <3>3, <5>1
      <4>2. CASE j = i
        <5>1. s[j] = c  BY <4>2 DEF c, i
        <5> QED  BY <3>2, <3>3, <4>2, <5>1
      <4> QED  BY <3>1, <4>1, <4>2
    <3>5. ASSUME NEW r \in 1 .. q + 1
          PROVE  \E j \in Upto(s, i) : Rank(s, j) = r
      <4>1. CASE r \in 1 .. q  BY <2>4, <3>1, <4>1 DEF q
      <4>2. CASE r = q + 1  BY <3>1, <3>2, <4>2
      <4> QED  BY <3>2, <4>1, <4>2
    <3>6. KeptUpTo(s, i)  BY <3>2, <3>3, <3>4, <3>5 DEF KeptUpTo
    <3> QED  BY <2>0, <3>6 DEF i
  <2> QED  BY <2>5, <2>6
<1>3. 0 .. n \subseteq T
  <2> HIDE DEF T, n
  <2> QED  BY <1>0, <1>1, <1>2, UpTo
<1> QED  BY <1>3

(* What is left of an ID without its dashes: the digits, by their ranks. *)
LEMMA CleanDigits ==
  ASSUME NEW s \in Seq(Char)
  PROVE  /\ Clean(s) \in Seq(Char) /\ Len(Clean(s)) = Cardinality(Digits(s))
         /\ \A j \in Digits(s) :
              Rank(s, j) \in 1 .. Len(Clean(s)) /\ Clean(s)[Rank(s, j)] = s[j]
         /\ \A r \in 1 .. Len(Clean(s)) : \E j \in Digits(s) : Rank(s, j) = r
<1>1. KeptUpTo(s, Len(s))  BY LoopKeeps
<1>2. Upto(s, Len(s)) = Digits(s)  BY DEF Upto, Digits
<1> QED  BY <1>1, <1>2, RankSteps DEF KeptUpTo, Clean

USE SizesAreNumbers, Characters, SessionIDsType, MagicType, HashType

-----------------------------------------------------------------------------
(* SessionIDTo16Bytes gives SIDSize bytes whatever the session ID is. *)

LEMMA DecodedBytes ==
  ASSUME NEW s, IsHex(s)
  PROVE  Decode(s) \in [1 .. SIDSize -> Byte]
<1>1. ASSUME NEW i \in 1 .. SIDSize
      PROVE  16 * Value[s[2 * i - 1]] + Value[s[2 * i]] \in Byte
  <2>1. 2 * i - 1 \in 1 .. 2 * SIDSize /\ 2 * i \in 1 .. 2 * SIDSize  OBVIOUS
  <2>2. s[2 * i - 1] \in HexDigit /\ s[2 * i] \in HexDigit  BY <2>1 DEF IsHex
  <2>3. Value[s[2 * i - 1]] \in 0 .. 15 /\ Value[s[2 * i]] \in 0 .. 15  BY <2>2
  <2>4. \A a, b \in 0 .. 15 : 16 * a + b \in 0 .. 255  OBVIOUS
  <2> QED  BY <2>3, <2>4 DEF Byte
<1> QED  BY <1>1 DEF Decode

LEMMA SessionBytes ==
  ASSUME NEW s \in SessionIDs
  PROVE  /\ SessionIDTo16Bytes(s) \in Seq(Byte)
         /\ Len(SessionIDTo16Bytes(s)) = SIDSize
<1>1. SessionIDTo16Bytes(s) \in [1 .. SIDSize -> Byte]
  <2>1. CASE IsHex(s)  BY <2>1, DecodedBytes DEF SessionIDTo16Bytes
  <2>2. CASE ~IsHex(s) /\ IsHex(Clean(s))  BY <2>2, DecodedBytes DEF SessionIDTo16Bytes
  <2>3. CASE ~IsHex(s) /\ ~IsHex(Clean(s))  BY <2>3 DEF SessionIDTo16Bytes
  <2> QED  BY <2>1, <2>2, <2>3
<1> QED  BY <1>1

-----------------------------------------------------------------------------
(* What an ID stands for. *)

LEMMA UUIDIsCleanHex ==
  ASSUME NEW s \in Seq(Char)
  PROVE  IsUUID(s) <=> IsHex(Clean(s))
<1> DEFINE c == Clean(s)
<1>1. /\ c \in Seq(Char) /\ Len(c) = Cardinality(Digits(s))
      /\ \A j \in Digits(s) : Rank(s, j) \in 1 .. Len(c) /\ c[Rank(s, j)] = s[j]
      /\ \A r \in 1 .. Len(c) : \E j \in Digits(s) : Rank(s, j) = r
  BY CleanDigits
<1> HIDE DEF c
<1>2. ASSUME IsUUID(s)  PROVE IsHex(c)
  <2>1. Len(c) = 2 * SIDSize  BY <1>1, <1>2 DEF IsUUID
  <2>2. \A r \in 1 .. Len(c) : c[r] \in HexDigit  BY <1>1, <1>2 DEF IsUUID
  <2> QED  BY <2>1, <2>2 DEF IsHex
<1>3. ASSUME IsHex(c)  PROVE IsUUID(s)
  <2>1. Len(c) = 2 * SIDSize /\ \A r \in 1 .. Len(c) : c[r] \in HexDigit
    BY <1>3 DEF IsHex
  <2> QED  BY <1>1, <2>1 DEF IsUUID
<1> QED  BY <1>2, <1>3 DEF c

(* What is hex already has no dashes to lose. *)
LEMMA HexIsClean ==
  ASSUME NEW s \in Seq(Char), IsHex(s)
  PROVE  Clean(s) = s
<1> DEFINE n == Len(s)   c == Clean(s)
<1>0. n \in Nat /\ \A i \in 1 .. n : s[i] \in HexDigit  BY DEF IsHex
<1>1. Digits(s) = 1 .. n  BY <1>0 DEF Digits
<1>2. ASSUME NEW i \in 1 .. n  PROVE Rank(s, i) = i
  <2>1. {j \in Digits(s) : j <= i} = 1 .. i  BY <1>1
  <2>2. Cardinality(1 .. i) = i  BY FS_Interval
  <2> QED  BY <2>1, <2>2 DEF Rank
<1>3. Cardinality(Digits(s)) = n
  <2>1. \A m \in Nat : Cardinality(1 .. m) = m  BY ONLY FS_Interval
  <2> QED  BY <1>0, <1>1, <2>1
<1>4. c \in Seq(Char) /\ Len(c) = n /\ \A i \in 1 .. n : c[i] = s[i]
  BY <1>1, <1>2, <1>3, CleanDigits
<1> HIDE DEF c
<1>5. c = s  BY <1>4
<1> QED  BY <1>5 DEF c

LEMMA DecodeOrHash ==
  ASSUME NEW s \in SessionIDs
  PROVE  SessionIDTo16Bytes(s) = IF IsUUID(s) THEN Decode(Clean(s)) ELSE Hash(s)
<1>1. s \in Seq(Char)  BY DEF Char
<1>2. IsHex(s) => Clean(s) = s  BY <1>1, HexIsClean
<1>3. IsUUID(s) <=> IsHex(Clean(s))  BY <1>1, UUIDIsCleanHex
<1> QED  BY <1>2, <1>3 DEF SessionIDTo16Bytes

(* Two hex texts are decoded to the same bytes if their digits have the    *)
(* same values, place by place.                                            *)
LEMMA DecodeInjective ==
  ASSUME NEW a, NEW b, IsHex(a), IsHex(b)
  PROVE  Decode(a) = Decode(b)
           <=> \A r \in 1 .. 2 * SIDSize : Value[a[r]] = Value[b[r]]
<1> DEFINE V(s, r) == Value[s[r]]
<1>1. \A r \in 1 .. 2 * SIDSize : V(a, r) \in 0 .. 15 /\ V(b, r) \in 0 .. 15
  BY DEF IsHex
<1>2. /\ Decode(a) = [i \in 1 .. SIDSize |-> 16 * V(a, 2 * i - 1) + V(a, 2 * i)]
      /\ Decode(b) = [i \in 1 .. SIDSize |-> 16 * V(b, 2 * i - 1) + V(b, 2 * i)]
  BY DEF Decode
<1>3. \A i \in 1 .. SIDSize : 2 * i - 1 \in 1 .. 2 * SIDSize /\ 2 * i \in 1 .. 2 * SIDSize
  OBVIOUS
<1>4. SUFFICES (\A i \in 1 .. SIDSize : 16 * V(a, 2 * i - 1) + V(a, 2 * i)
                                        = 16 * V(b, 2 * i - 1) + V(b, 2 * i))
                <=> \A r \in 1 .. 2 * SIDSize : V(a, r) = V(b, r)
  <2> HIDE DEF V
  <2>1. Decode(a) = Decode(b) <=> 
          \A i \in 1 .. SIDSize : 16 * V(a, 2 * i - 1) + V(a, 2 * i)
                                 = 16 * V(b, 2 * i - 1) + V(b, 2 * i)
    <3> DEFINE da == Decode(a)  db == Decode(b)
    <3>1. /\ DOMAIN da = 1 .. SIDSize /\ DOMAIN db = 1 .. SIDSize
          /\ \A i \in 1 .. SIDSize : /\ da[i] = 16 * V(a, 2 * i - 1) + V(a, 2 * i)
                                     /\ db[i] = 16 * V(b, 2 * i - 1) + V(b, 2 * i)
      BY ONLY <1>2
    <3>2. da = [i \in 1 .. SIDSize |-> da[i]] /\ db = [i \in 1 .. SIDSize |-> db[i]]
      BY DEF Decode
    <3> HIDE DEF da, db
    <3>3. da = db <=> \A i \in 1 .. SIDSize : da[i] = db[i]  BY ONLY <3>2
    <3>4. da = db <=> \A i \in 1 .. SIDSize : 16 * V(a, 2 * i - 1) + V(a, 2 * i)
                                 = 16 * V(b, 2 * i - 1) + V(b, 2 * i)
      BY ONLY <3>1, <3>3
    <3> QED  BY <3>4 DEF da, db
  <2> QED  BY <2>1 DEF V
<1> HIDE DEF V
<1>5. ASSUME \A r \in 1 .. 2 * SIDSize : V(a, r) = V(b, r), NEW i \in 1 .. SIDSize
      PROVE  16 * V(a, 2 * i - 1) + V(a, 2 * i) = 16 * V(b, 2 * i - 1) + V(b, 2 * i)
  BY <1>3, <1>5
<1>6. ASSUME \A i \in 1 .. SIDSize : 16 * V(a, 2 * i - 1) + V(a, 2 * i)
                                    = 16 * V(b, 2 * i - 1) + V(b, 2 * i),
             NEW r \in 1 .. 2 * SIDSize
      PROVE  V(a, r) = V(b, r)
  <2>1. \A x, y, u, v \in 0 .. 15 : 16 * x + y = 16 * u + v => x = u /\ y = v
    OBVIOUS
  <2>2. \A i \in 1 .. SIDSize : /\ V(a, 2 * i - 1) = V(b, 2 * i - 1)
                                /\ V(a, 2 * i) = V(b, 2 * i)
    <3> SUFFICES ASSUME NEW i \in 1 .. SIDSize
                 PROVE  V(a, 2 * i - 1) = V(b, 2 * i - 1) /\ V(a, 2 * i) = V(b, 2 * i)
      OBVIOUS
    <3>1. /\ V(a, 2 * i - 1) \in 0 .. 15 /\ V(a, 2 * i) \in 0 .. 15
          /\ V(b, 2 * i - 1) \in 0 .. 15 /\ V(b, 2 * i) \in 0 .. 15
      BY <1>1, <1>3
    <3>2. 16 * V(a, 2 * i - 1) + V(a, 2 * i) = 16 * V(b, 2 * i - 1) + V(b, 2 * i)
      BY <1>6
    <3> QED  BY ONLY <2>1, <3>1, <3>2
  <2>3. \E i \in 1 .. SIDSize : r = 2 * i - 1 \/ r = 2 * i
    <3>1. \A i \in Int : r = 2 * i \/ r = 2 * i - 1 => i \in 1 .. SIDSize  OBVIOUS
    <3>3. (\E i \in Int : r = 2 * i) \/ (\E i \in Int : r = 2 * i - 1)
      <4>1. r = 2 * (r \div 2) \/ r = 2 * (r \div 2 + 1) - 1  OBVIOUS
      <4>2. r \div 2 \in Int /\ r \div 2 + 1 \in Int  OBVIOUS
      <4> QED  BY <4>1, <4>2
    <3> QED  BY <3>1, <3>3
  <2> QED  BY <2>2, <2>3
<1> QED  BY <1>5, <1>6

LEMMA SameUUIDIsSameDigits ==
  ASSUME NEW s \in Seq(Char), NEW t \in Seq(Char), IsUUID(s), IsUUID(t)
  PROVE  SameUUID(s, t)
           <=> \A r \in 1 .. 2 * SIDSize : Value[Clean(s)[r]] = Value[Clean(t)[r]]
<1> DEFINE n == 2 * SIDSize
<1>1. Len(Clean(s)) = n /\ Len(Clean(t)) = n  BY CleanDigits DEF IsUUID
<1>2. /\ \A j \in Digits(s) : Rank(s, j) \in 1 .. n /\ Clean(s)[Rank(s, j)] = s[j]
      /\ \A r \in 1 .. n : \E j \in Digits(s) : Rank(s, j) = r
  BY <1>1, CleanDigits
<1>3. /\ \A j \in Digits(t) : Rank(t, j) \in 1 .. n /\ Clean(t)[Rank(t, j)] = t[j]
      /\ \A r \in 1 .. n : \E j \in Digits(t) : Rank(t, j) = r
  BY <1>1, CleanDigits
<1> HIDE DEF n
<1>4. (\A i \in Digits(s), j \in Digits(t) : Rank(s, i) = Rank(t, j) => Value[s[i]] = Value[t[j]])
        <=> \A r \in 1 .. n : Value[Clean(s)[r]] = Value[Clean(t)[r]]
  BY ONLY <1>2, <1>3
<1> QED  BY <1>4 DEF SameUUID, n

(* Two IDs of one session are the same bytes. *)
THEOREM SameSessionSameBytes ==
  ASSUME NEW s \in SessionIDs, NEW t \in SessionIDs, s = t \/ SameUUID(s, t)
  PROVE  SessionIDTo16Bytes(s) = SessionIDTo16Bytes(t)
<1>1. CASE s = t  BY <1>1
<1>2. CASE SameUUID(s, t)
  <2>1. s \in Seq(Char) /\ t \in Seq(Char)  BY DEF Char
  <2>2. IsUUID(s) /\ IsUUID(t)  BY <1>2 DEF SameUUID
  <2>3. IsHex(Clean(s)) /\ IsHex(Clean(t))  BY <2>1, <2>2, UUIDIsCleanHex
  <2>4. Decode(Clean(s)) = Decode(Clean(t))
    BY <1>2, <2>1, <2>2, <2>3, SameUUIDIsSameDigits, DecodeInjective
  <2> QED  BY <2>2, <2>4, DecodeOrHash
<1> QED  BY <1>1, <1>2

(* And two IDs that are the same bytes are of one session, if hashes do    *)
(* not collide.                                                            *)
THEOREM SameBytesSameSession ==
  ASSUME NoCollision, NEW s \in SessionIDs, NEW t \in SessionIDs,
         SessionIDTo16Bytes(s) = SessionIDTo16Bytes(t)
  PROVE  s = t \/ SameUUID(s, t)
<1>1. CASE ~IsUUID(s)
  <2>1. Hash(s) = SessionIDTo16Bytes(t)  BY <1>1, DecodeOrHash
  <2> QED  BY <1>1, <2>1 DEF NoCollision
<1>2. CASE ~IsUUID(t)
  <2>1. Hash(t) = SessionIDTo16Bytes(s)  BY <1>2, DecodeOrHash
  <2> QED  BY <1>2, <2>1 DEF NoCollision
<1>3. CASE IsUUID(s) /\ IsUUID(t)
  <2>1. s \in Seq(Char) /\ t \in Seq(Char)  BY DEF Char
  <2>2. IsHex(Clean(s)) /\ IsHex(Clean(t))  BY <1>3, <2>1, UUIDIsCleanHex
  <2>3. Decode(Clean(s)) = Decode(Clean(t))  BY <1>3, DecodeOrHash
  <2>4. \A r \in 1 .. 2 * SIDSize : Value[Clean(s)[r]] = Value[Clean(t)[r]]
    BY <2>2, <2>3, DecodeInjective
  <2> QED  BY <1>3, <2>1, <2>4, SameUUIDIsSameDigits
<1> QED  BY <1>1, <1>2, <1>3

-----------------------------------------------------------------------------
(* BuildHandshake and ValidateHandshake belong together: what one of them  *)
(* builds the other accepts, and it accepts nothing else.                  *)

LEMMA HeaderShape ==
  ASSUME NEW s \in SessionIDs
  PROVE  /\ BuildHandshake(s) \in Seq(Byte)
         /\ Len(BuildHandshake(s)) = HandshakeSize
         /\ \A i \in 1 .. Len(Magic) : BuildHandshake(s)[i] = Magic[i]
         /\ \A i \in 1 .. SIDSize :
              BuildHandshake(s)[Len(Magic) + i] = SessionIDTo16Bytes(s)[i]
<1> DEFINE b == SessionIDTo16Bytes(s)
<1>1. b \in Seq(Byte) /\ Len(b) = SIDSize  BY SessionBytes
<1>2. BuildHandshake(s) = Magic \o b  BY DEF BuildHandshake
<1> HIDE DEF b
<1>3. \A i \in 1 .. SIDSize : (Magic \o b)[Len(Magic) + i] = b[i]
  <2> SUFFICES ASSUME NEW i \in 1 .. SIDSize
               PROVE  (Magic \o b)[Len(Magic) + i] = b[i]
    OBVIOUS
  <2>1. Len(Magic) + i > Len(Magic) /\ Len(Magic) + i <= Len(Magic) + Len(b)  BY <1>1
  <2>2. (Len(Magic) + i) - Len(Magic) = i  OBVIOUS
  <2> QED  BY <1>1, <2>1, <2>2
<1>4. /\ Magic \o b \in Seq(Byte)
      /\ Len(Magic \o b) = Len(Magic) + Len(b)
      /\ \A i \in 1 .. Len(Magic) : (Magic \o b)[i] = Magic[i]
  BY ONLY <1>1, TwoParts, MagicType
<1> QED  BY <1>1, <1>2, <1>3, <1>4 DEF b, HandshakeSize

LEMMA Parts ==
  ASSUME NEW data \in Seq(Byte), Len(data) = HandshakeSize
  PROVE  /\ Len(SubSeq(data, 1, Len(Magic))) = Len(Magic)
         /\ \A i \in 1 .. Len(Magic) : SubSeq(data, 1, Len(Magic))[i] = data[i]
         /\ Len(SubSeq(data, Len(Magic) + 1, Len(data))) = SIDSize
         /\ \A i \in 1 .. SIDSize :
              SubSeq(data, Len(Magic) + 1, Len(data))[i] = data[Len(Magic) + i]
BY DEF HandshakeSize

(* A reader accepts the header that is built of its own session ID. *)
THEOREM OwnHeaderAccepted ==
  ASSUME NEW s \in SessionIDs
  PROVE  ValidateHandshake(BuildHandshake(s), s) = "nil"
<1> DEFINE h == BuildHandshake(s)
<1>1. h \in Seq(Byte) /\ Len(h) = HandshakeSize  BY HeaderShape
<1>2. equalBytes(SubSeq(h, 1, Len(Magic)), Magic)
  BY <1>1, Parts, HeaderShape DEF equalBytes
<1>3. equalBytes(SubSeq(h, Len(Magic) + 1, Len(h)), SessionIDTo16Bytes(s))
  BY <1>1, Parts, HeaderShape, SessionBytes DEF equalBytes
<1> QED  BY <1>1, <1>2, <1>3 DEF ValidateHandshake

(* What a reader accepts is that header, byte by byte. *)
THEOREM OnlyOwnHeader ==
  ASSUME NEW s \in SessionIDs, NEW data \in Seq(Byte),
         ValidateHandshake(data, s) = "nil"
  PROVE  data = BuildHandshake(s)
<1>1. /\ Len(data) = HandshakeSize
      /\ equalBytes(SubSeq(data, 1, Len(Magic)), Magic)
      /\ equalBytes(SubSeq(data, Len(Magic) + 1, Len(data)), SessionIDTo16Bytes(s))
  BY DEF ValidateHandshake
<1>2. \A i \in 1 .. Len(Magic) : data[i] = Magic[i]
  BY <1>1, Parts DEF equalBytes
<1>3. \A i \in 1 .. SIDSize : data[Len(Magic) + i] = SessionIDTo16Bytes(s)[i]
  BY <1>1, Parts, SessionBytes DEF equalBytes
<1>4. \A i \in 1 .. HandshakeSize : data[i] = BuildHandshake(s)[i]
  <2> SUFFICES ASSUME NEW i \in 1 .. HandshakeSize
               PROVE  data[i] = BuildHandshake(s)[i]
    OBVIOUS
  <2>1. CASE i \in 1 .. Len(Magic)  BY <2>1, <1>2, HeaderShape
  <2>2. CASE i > Len(Magic)
    <3>1. i - Len(Magic) \in 1 .. SIDSize /\ i = Len(Magic) + (i - Len(Magic))
      BY <2>2 DEF HandshakeSize
    <3> QED  BY <3>1, <1>3, HeaderShape
  <2> QED  BY <2>1, <2>2
<1> QED  BY <1>1, <1>4, HeaderShape DEF HandshakeSize

(* Two ends join exactly when their session IDs stand for the same bytes. *)
THEOREM SameBytesAccepted ==
  ASSUME NEW s \in SessionIDs, NEW t \in SessionIDs
  PROVE  ValidateHandshake(BuildHandshake(s), t) = "nil"
           <=> SessionIDTo16Bytes(s) = SessionIDTo16Bytes(t)
<1> DEFINE a == SessionIDTo16Bytes(s)   b == SessionIDTo16Bytes(t)
<1>1. ASSUME a = b
      PROVE  ValidateHandshake(BuildHandshake(s), t) = "nil"
  <2>1. BuildHandshake(s) = BuildHandshake(t)  BY <1>1 DEF BuildHandshake
  <2> QED  BY <2>1, OwnHeaderAccepted
<1>2. ASSUME ValidateHandshake(BuildHandshake(s), t) = "nil"
      PROVE  a = b
  <2>1. BuildHandshake(s) = BuildHandshake(t)
    BY <1>2, HeaderShape, OnlyOwnHeader
  <2>2. /\ a \in Seq(Byte) /\ Len(a) = SIDSize
        /\ b \in Seq(Byte) /\ Len(b) = SIDSize
    BY SessionBytes
  <2>3. \A i \in 1 .. SIDSize : a[i] = b[i]
    <3>1. \A i \in 1 .. SIDSize : BuildHandshake(s)[Len(Magic) + i] = a[i]
      BY ONLY HeaderShape, s \in SessionIDs
    <3>2. \A i \in 1 .. SIDSize : BuildHandshake(t)[Len(Magic) + i] = b[i]
      BY ONLY HeaderShape, t \in SessionIDs
    <3> QED  BY ONLY <2>1, <3>1, <3>2
  <2> HIDE DEF a, b
  <2> QED  BY <2>2, <2>3
<1> QED  BY <1>1, <1>2

-----------------------------------------------------------------------------
(* The inductive invariant: beyond the properties themselves it says what  *)
(* is on the wire while the first message has not been read.               *)

PayloadsTo(n) == [i \in 1 .. n |-> Payload(i)]

FirstThenPayloads ==
  /\ phase = "dialed" => got = <<>> /\ wire = <<>>
  /\ got = <<>> /\ wire = <<>> => payloads = 0 /\ phase # "open"
  /\ got = <<>> /\ wire # <<>> => wire = <<wire[1]>> \o PayloadsTo(payloads)

VerdictOnMessage ==
  got # <<>> => verdict = IF got[1].type # "binary" THEN "type"
                          ELSE ValidateHandshake(got[1].data, expected)

HandshakeInv == /\ TypeOK /\ OnlyExactHeader /\ PayloadIntact
                /\ FirstThenPayloads /\ VerdictOnMessage

LEMMA MessageTypes ==
  /\ \A d \in Seq(Byte) : Binary(d) \in Message
  /\ \A i \in 1 .. MaxPayload : Payload(i) \in Message
  /\ \A n \in 0 .. MaxPayload : PayloadsTo(n) \in Seq(Message)
<1>1. \A d \in Seq(Byte) : Binary(d) \in Message  BY DEF Binary, Message
<1>2. \A i \in 1 .. MaxPayload : <<i>> \in Seq(Byte)  BY DEF Byte
<1>3. \A i \in 1 .. MaxPayload : Payload(i) \in Message  BY <1>1, <1>2 DEF Payload
<1> QED  BY <1>1, <1>3 DEF PayloadsTo

LEMMA OneMorePayload ==
  ASSUME NEW n \in 0 .. MaxPayload, n < MaxPayload
  PROVE  Append(PayloadsTo(n), Payload(n + 1)) = PayloadsTo(n + 1)
<1> DEFINE p == PayloadsTo(n)   q == PayloadsTo(n + 1)   x == Payload(n + 1)
<1>1. p \in Seq(Message) /\ q \in Seq(Message) /\ x \in Message  BY MessageTypes
<1>2. Len(p) = n /\ Len(q) = n + 1  BY DEF PayloadsTo
<1>3. \A i \in 1 .. n : p[i] = q[i]  BY DEF PayloadsTo
<1>4. q[n + 1] = x  BY DEF PayloadsTo
<1> HIDE DEF p, q, x
<1>5. \A i \in 1 .. n + 1 : Append(p, x)[i] = q[i]
  <2> SUFFICES ASSUME NEW i \in 1 .. n + 1  PROVE Append(p, x)[i] = q[i]
    OBVIOUS
  <2>1. CASE i \in 1 .. n  BY <2>1, <1>1, <1>2, <1>3
  <2>2. CASE i = n + 1  BY <2>2, <1>1, <1>2, <1>4
  <2>3. i \in 1 .. n \/ i = n + 1  OBVIOUS
  <2> QED  BY <2>1, <2>2, <2>3
<1>6. Append(p, x) \in Seq(Message) /\ Len(Append(p, x)) = n + 1  BY <1>1, <1>2
<1>7. Append(p, x) = q  BY <1>1, <1>2, <1>5, <1>6
<1> QED  BY <1>7 DEF p, q, x

LEMMA VerdictOfData ==
  ASSUME NEW data, NEW s
  PROVE  ValidateHandshake(data, s) \in {"nil", "size", "magic", "session"}
BY DEF ValidateHandshake

-----------------------------------------------------------------------------
LEMMA InitHolds == Init => HandshakeInv
BY DEF Init, HandshakeInv, TypeOK, OnlyExactHeader, PayloadIntact, FirstThenPayloads,
       VerdictOnMessage, Verdicts

LEMMA FirstSent ==
  ASSUME HandshakeInv, NEW m \in Message, SendsFirst(m)
  PROVE  HandshakeInv'
<1> USE DEF HandshakeInv, SendsFirst
<1>1. got = <<>> /\ wire = <<>> /\ payloads = 0  BY DEF FirstThenPayloads
<1>2. wire' = <<m>> /\ wire' \in Seq(Message)  BY <1>1
<1>3. TypeOK'  BY <1>2 DEF TypeOK
<1>4. <<m>> \o PayloadsTo(0) = <<m>>
  <2>1. PayloadsTo(0) = <<>>  BY DEF PayloadsTo
  <2>2. <<m>> \in Seq(Message)  OBVIOUS
  <2>3. \A q \in Seq(Message) : q \o <<>> = q  OBVIOUS
  <2> QED  BY <2>1, <2>2, <2>3
<1>5. wire' # <<>> /\ wire'[1] = m  BY <1>2
<1>6. wire' = <<wire'[1]>> \o PayloadsTo(payloads)  BY <1>2, <1>4, <1>5, <1>1
<1>7. FirstThenPayloads'  BY <1>1, <1>5, <1>6 DEF FirstThenPayloads
<1> QED  BY <1>1, <1>3, <1>7 DEF OnlyExactHeader, PayloadIntact, VerdictOnMessage

LEMMA OtherFirstMessages ==
  ASSUME NEW s \in SessionIDs, NEW h, h = BuildHandshake(s)
  PROVE  {[type |-> "text", data |-> h], Binary(SubSeq(h, 1, Len(h) - 1)),
          Binary(Append(h, 0)), Binary(SessionIDTo16Bytes(s) \o Magic)} \subseteq Message
<1>1. h \in Seq(Byte) /\ 0 \in Byte  BY HeaderShape DEF Byte
<1>2. Len(h) \in Nat /\ Len(h) > 1  BY HeaderShape DEF HandshakeSize
<1>3. SubSeq(h, 1, Len(h) - 1) \in Seq(Byte)  BY <1>1, <1>2
<1>4. Append(h, 0) \in Seq(Byte)  BY <1>1
<1>5. SessionIDTo16Bytes(s) \o Magic \in Seq(Byte)  BY SessionBytes
<1>6. [type |-> "text", data |-> h] \in Message  BY <1>1 DEF Message
<1> QED  BY <1>3, <1>4, <1>5, <1>6, MessageTypes

LEMMA PayloadSent == ASSUME HandshakeInv, SendPayload  PROVE HandshakeInv'
<1> USE DEF HandshakeInv, SendPayload
<1>1. /\ payloads \in 0 .. MaxPayload /\ payloads' = payloads + 1
      /\ payloads' \in 0 .. MaxPayload
      /\ wire \in Seq(Message) /\ Payload(payloads + 1) \in Message
  BY MessageTypes DEF TypeOK
<1>2. TypeOK'  BY <1>1 DEF TypeOK
<1>3. PayloadIntact'
  <2> SUFFICES ASSUME got # <<>>  PROVE wire' = PayloadsTo(payloads')
    BY DEF PayloadIntact, PayloadsTo
  <2>1. wire = PayloadsTo(payloads)  BY DEF PayloadIntact, PayloadsTo
  <2> QED  BY <2>1, <1>1, OneMorePayload
<1>4. FirstThenPayloads'
  <2> SUFFICES ASSUME got = <<>>
               PROVE  wire' # <<>> /\ wire' = <<wire'[1]>> \o PayloadsTo(payloads')
    BY DEF FirstThenPayloads
  <2> DEFINE m == wire[1]   q == PayloadsTo(payloads)   x == Payload(payloads + 1)
  <2>1. wire # <<>> /\ wire = <<m>> \o q  BY DEF FirstThenPayloads
  <2>2. m \in Message /\ q \in Seq(Message) /\ x \in Message
    BY <1>1, <2>1, MessageTypes
  <2>3. Append(q, x) \in Seq(Message) /\ Append(q, x) = PayloadsTo(payloads')
    BY <1>1, <2>2, OneMorePayload
  <2>4. wire' = Append(<<m>> \o q, x)  BY <2>1
  <2> HIDE DEF m, q, x
  <2>5. wire' = <<m>> \o Append(q, x)
    <3>1. Append(<<m>> \o q, x) = <<m>> \o Append(q, x)  BY ONLY <2>2, HeadApart
    <3> QED  BY <3>1, <2>4
  <2> DEFINE r == Append(q, x)
  <2>6. <<m>> \o r # <<>> /\ (<<m>> \o r)[1] = m
    <3>1. r \in Seq(Message)  BY <2>3
    <3> HIDE DEF r
    <3> QED  BY <3>1, <2>2, HeadApart
  <2>7. wire' # <<>> /\ wire'[1] = m  BY <2>5, <2>6
  <2> QED  BY <2>3, <2>5, <2>7
<1>5. VerdictOnMessage'  BY DEF VerdictOnMessage
<1> QED  BY <1>2, <1>3, <1>4, <1>5 DEF OnlyExactHeader

LEMMA FirstRead == ASSUME HandshakeInv, ReadHandshake  PROVE HandshakeInv'
<1> USE DEF HandshakeInv, ReadHandshake
<1> DEFINE m == wire[1]   q == PayloadsTo(payloads)
<1>1. got = <<>> /\ m \in Message /\ q \in Seq(Message) /\ wire = <<m>> \o q
  BY MessageTypes DEF TypeOK, FirstThenPayloads
<1>2. wire' = q /\ got' = <<m>> /\ phase # "dialed"
  BY <1>1, HeadApart DEF FirstThenPayloads
<1>3. m.data \in Seq(Byte) /\ m.type \in {"binary", "text"}  BY <1>1 DEF Message
<1>4. verdict' \in {"type", "nil", "size", "magic", "session"}  BY VerdictOfData
<1>5. TypeOK'
  <2>1. got' \in Seq(Message) /\ Len(got') = 1 /\ got' # <<>>  BY <1>1, <1>2
  <2> QED  BY <2>1, <1>1, <1>2, <1>4 DEF TypeOK, Verdicts
<1>6. OnlyExactHeader'
  <2> SUFFICES ASSUME verdict' = "nil"
               PROVE  got' = <<Binary(BuildHandshake(expected))>>
    BY DEF OnlyExactHeader
  <2>1. m.type = "binary" /\ ValidateHandshake(m.data, expected) = "nil"  BY VerdictOfData
  <2>2. m.data = BuildHandshake(expected)  BY <2>1, <1>3, OnlyOwnHeader DEF TypeOK
  <2>3. m = Binary(m.data)  BY <1>1, <2>1 DEF Message, Binary
  <2> QED  BY <2>2, <2>3, <1>2
<1>7. got' # <<>>  BY <1>2
<1>8. PayloadIntact'  BY <1>2 DEF PayloadIntact, PayloadsTo
<1>9. FirstThenPayloads'  BY <1>2, <1>7 DEF FirstThenPayloads
<1>10. VerdictOnMessage'
  <2>1. m = Head(wire) /\ got'[1] = m  BY <1>1, <1>2, HeadApart DEF TypeOK
  <2> HIDE DEF m
  <2> QED  BY <2>1, <1>2 DEF VerdictOnMessage
<1> QED  BY <1>5, <1>6, <1>8, <1>9, <1>10

LEMMA Preserved == HandshakeInv /\ [Next]_vars => HandshakeInv'
<1> SUFFICES ASSUME HandshakeInv, [Next]_vars  PROVE HandshakeInv'
  OBVIOUS
<1> USE DEF HandshakeInv
<1>1. CASE SendHandshake
  <2>1. Binary(BuildHandshake(sent)) \in Message
    BY HeaderShape, MessageTypes DEF TypeOK
  <2> QED  BY <1>1, <2>1, FirstSent DEF SendHandshake
<1>2. CASE SendOther
  <2> DEFINE h == BuildHandshake(sent)
  <2>1. PICK m \in {[type |-> "text", data |-> h], Binary(SubSeq(h, 1, Len(h) - 1)),
                    Binary(Append(h, 0)), Binary(SessionIDTo16Bytes(sent) \o Magic)} :
          SendsFirst(m)
    BY <1>2 DEF SendOther
  <2>2. sent \in SessionIDs  BY DEF TypeOK
  <2>3. {[type |-> "text", data |-> h], Binary(SubSeq(h, 1, Len(h) - 1)),
         Binary(Append(h, 0)), Binary(SessionIDTo16Bytes(sent) \o Magic)} \subseteq Message
    BY ONLY <2>2, OtherFirstMessages
  <2>4. m \in Message  BY <2>3
  <2> QED  BY <2>1, <2>4, FirstSent
<1>3. CASE SendPayload  BY <1>3, PayloadSent
<1>4. CASE Close
  <2> USE <1>4 DEF Close
  <2>1. TypeOK'  BY DEF TypeOK
  <2>2. OnlyExactHeader' /\ PayloadIntact'  BY DEF OnlyExactHeader, PayloadIntact
  <2>3. FirstThenPayloads' /\ VerdictOnMessage'
    BY DEF TypeOK, FirstThenPayloads, VerdictOnMessage
  <2> QED  BY <2>1, <2>2, <2>3
<1>5. CASE ReadHandshake  BY <1>5, FirstRead
<1>6. CASE ReadFails
  <2> USE <1>6 DEF ReadFails
  <2>1. TypeOK'  BY DEF TypeOK, Verdicts
  <2>2. OnlyExactHeader' /\ PayloadIntact'  BY DEF OnlyExactHeader, PayloadIntact
  <2>3. FirstThenPayloads' /\ VerdictOnMessage'
    BY DEF TypeOK, FirstThenPayloads, VerdictOnMessage
  <2> QED  BY <2>1, <2>2, <2>3
<1>7. CASE UNCHANGED vars
  BY <1>7 DEF vars, TypeOK, OnlyExactHeader, PayloadIntact, FirstThenPayloads,
              VerdictOnMessage, PayloadsTo
<1> QED  BY <1>1, <1>2, <1>3, <1>4, <1>5, <1>6, <1>7 DEF Next

-----------------------------------------------------------------------------
(* In every reachable state the invariant holds, for every set of session  *)
(* IDs, every magic and every number of messages.                          *)
THEOREM HandshakeInvariant == Spec => []HandshakeInv
BY InitHolds, Preserved, PTL DEF Spec

(* Type correctness of the exchange (SendHandshake, ReadHandshake). *)
THEOREM TypeCorrect == Spec => []TypeOK
<1>1. HandshakeInv => TypeOK  BY DEF HandshakeInv
<1> QED  BY <1>1, HandshakeInvariant, PTL

(* ReadHandshake succeeds on the header of its own session only. *)
THEOREM HeaderIsExact == Spec => []OnlyExactHeader
<1>1. HandshakeInv => OnlyExactHeader  BY DEF HandshakeInv
<1> QED  BY <1>1, HandshakeInvariant, PTL

(* The two ends of a tunnel agree exactly when they have the same session  *)
(* (SessionIDTo16Bytes, ValidateHandshake), however the ID is written, for *)
(* session IDs of any length, unless hashes collide.                       *)
THEOREM EndsAgree == ASSUME NoCollision  PROVE Spec => []SameSession
<1>1. HandshakeInv => SameSession
  <2> SUFFICES ASSUME HandshakeInv, got # <<>>, got[1] = Binary(BuildHandshake(sent))
               PROVE  verdict = "nil" <=> (sent = expected \/ SameUUID(sent, expected))
    BY DEF SameSession
  <2>1. sent \in SessionIDs /\ expected \in SessionIDs  BY DEF HandshakeInv, TypeOK
  <2>2. verdict = ValidateHandshake(BuildHandshake(sent), expected)
    BY DEF HandshakeInv, VerdictOnMessage, Binary
  <2>3. verdict = "nil" <=> SessionIDTo16Bytes(sent) = SessionIDTo16Bytes(expected)
    BY <2>1, <2>2, SameBytesAccepted
  <2> QED  BY <2>1, <2>3, NoCollision, SameSessionSameBytes, SameBytesSameSession
<1> QED  BY <1>1, HandshakeInvariant, PTL

(* ReadHandshake leaves what follows the handshake for the copy. *)
THEOREM PayloadStays == Spec => []PayloadIntact
<1>1. HandshakeInv => PayloadIntact  BY DEF HandshakeInv
<1> QED  BY <1>1, HandshakeInvariant, PTL
=============================================================================
