------------------------- MODULE FrameAssemblyProofs -------------------------
(***************************************************************************)
(* Proofs about FrameAssembly: s_buf holds the units received since the    *)
(* last frame ended, each behind its length, as far as they are copied.    *)
(***************************************************************************)
EXTENDS FrameAssembly, SequenceTheorems, WellFoundedInduction, TLAPS

-----------------------------------------------------------------------------
(* Induction, and the recursion FlattenSeq is defined by.                  *)

\* A set of numbers with 0 and the successor of each of its members is Nat.
LEMMA InductionOnNat ==
    ASSUME NEW S \in SUBSET Nat, 0 \in S, \A n \in S : n + 1 \in S
    PROVE  S = Nat
<1> SUFFICES ASSUME Nat \ S # {} PROVE FALSE
  OBVIOUS
<1>1. PICK x \in Nat \ S : \A y \in Nat \ S : <<y, x>> \notin OpToRel(<, Nat)
  BY NatLessThanWellFounded, WFMin
<1>2. \A y \in Nat \ S : ~(y < x)
  BY <1>1 DEF OpToRel
<1>3. x # 0 /\ x - 1 \in Nat
  OBVIOUS
<1>4. x - 1 \in S
  BY <1>2, <1>3
<1> QED
  BY <1>4

\* f is the function the local definition in FlattenSeq asks for.
Flattening(s, n, f) == f = [i \in 1..n |-> IF i = 1 THEN s[i] ELSE f[i - 1] \o s[i]]

\* Such a function exists for every length.
LEMMA FlatteningExists ==
    ASSUME NEW s, NEW n \in Nat
    PROVE  \E f : Flattening(s, n, f)
<1> DEFINE S == {m \in Nat : \E f : Flattening(s, m, f)}
<1>1. 0 \in S
  <2>1. Flattening(s, 0, [i \in 1..0 |-> s[i]])
    BY DEF Flattening
  <2> QED
    BY <2>1
<1>2. ASSUME NEW m \in S
      PROVE  m + 1 \in S
  <2>1. PICK f : Flattening(s, m, f)
    OBVIOUS
  <2> DEFINE last == IF m = 0 THEN s[1] ELSE f[m] \o s[m + 1]
             g == [i \in 1..m + 1 |-> IF i = m + 1 THEN last ELSE f[i]]
  <2>2. m \in Nat
    OBVIOUS
  <2>3. ASSUME NEW i \in 1..m
        PROVE  f[i] = IF i = 1 THEN s[i] ELSE f[i - 1] \o s[i]
    BY <2>1 DEF Flattening
  <2>4. ASSUME NEW i \in 1..m + 1
        PROVE  g[i] = IF i = 1 THEN s[i] ELSE g[i - 1] \o s[i]
    <3>1. CASE i = m + 1 /\ m = 0
      BY <3>1
    <3>2. CASE i = m + 1 /\ m # 0
      <4>1. i - 1 = m /\ m \in 1..m + 1 /\ m # m + 1 /\ i # 1
        BY <2>2, <3>2
      <4> QED
        BY <3>2, <4>1
    <3>3. CASE i # m + 1
      <4>1. i \in 1..m
        BY <2>2, <3>3
      <4>2. CASE i = 1
        BY <2>3, <3>3, <4>1, <4>2
      <4>3. CASE i # 1
        <5>1. i - 1 \in 1..m + 1 /\ i - 1 # m + 1
          BY <2>2, <4>1, <4>3
        <5>2. g[i - 1] = f[i - 1]
          BY <5>1
        <5> QED
          BY <2>3, <3>3, <4>1, <4>3, <5>2
      <4> QED
        BY <4>2, <4>3
    <3> QED
      BY <3>1, <3>2, <3>3
  <2>5. Flattening(s, m + 1, g)
    <3>1. [i \in 1..m + 1 |-> g[i]] = [i \in 1..m + 1 |-> IF i = 1 THEN s[i] ELSE g[i - 1] \o s[i]]
      BY <2>4
    <3> HIDE DEF last
    <3>2. g = [i \in 1..m + 1 |-> g[i]]
      OBVIOUS
    <3> HIDE DEF g
    <3> QED
      BY <3>1, <3>2 DEF Flattening
  <2> QED
    BY <2>2, <2>5
<1>3. S = Nat
  <2> HIDE DEF S
  <2>1. S \in SUBSET Nat
    BY DEF S
  <2> QED
    BY <1>1, <1>2, <2>1, InductionOnNat
<1> QED
  BY <1>3

\* Two of them agree as far as their sequences do.
LEMMA FlatteningUnique ==
    ASSUME NEW s, NEW t, NEW m \in Nat, NEW n \in Nat, m <= n,
           \A i \in 1..m : s[i] = t[i],
           NEW f, Flattening(s, m, f), NEW g, Flattening(t, n, g)
    PROVE  \A i \in 1..m : f[i] = g[i]
<1> DEFINE S == {i \in Nat : i \in 1..m => f[i] = g[i]}
<1>1. \A i \in 1..m : f[i] = IF i = 1 THEN s[i] ELSE f[i - 1] \o s[i]
  BY DEF Flattening
<1>2. \A i \in 1..n : g[i] = IF i = 1 THEN t[i] ELSE g[i - 1] \o t[i]
  BY DEF Flattening
<1>3. 0 \in S
  OBVIOUS
<1>4. ASSUME NEW i \in S
      PROVE  i + 1 \in S
  <2> SUFFICES ASSUME i + 1 \in 1..m
               PROVE  f[i + 1] = g[i + 1]
    OBVIOUS
  <2>1. i \in Nat /\ i + 1 \in 1..n /\ (i + 1) - 1 = i
    OBVIOUS
  <2>2. i + 1 # 1 => f[i] = g[i]
    BY <2>1
  <2> QED
    BY <1>1, <1>2, <2>1, <2>2
<1>5. S = Nat
  <2> HIDE DEF S
  <2>1. S \in SUBSET Nat
    BY DEF S
  <2> QED
    BY <1>3, <1>4, <2>1, InductionOnNat
<1> QED
  BY <1>5

\* FlattenSeq is the last value of that function.
LEMMA FlattenSeqDef ==
    ASSUME NEW s, Len(s) \in Nat \ {0}
    PROVE  \E f : Flattening(s, Len(s), f) /\ FlattenSeq(s) = f[Len(s)]
<1> DEFINE f[i \in 1..Len(s)] == IF i = 1 THEN s[i] ELSE f[i - 1] \o s[i]
<1>1. \E g : g = [i \in 1..Len(s) |-> IF i = 1 THEN s[i] ELSE g[i - 1] \o s[i]]
  BY FlatteningExists DEF Flattening
<1>2. f = [i \in 1..Len(s) |-> IF i = 1 THEN s[i] ELSE f[i - 1] \o s[i]]
  BY <1>1, Zenon DEF f
<1>3. FlattenSeq(s) = f[Len(s)]
  BY Zenon DEF FlattenSeq, f
<1> HIDE DEF f
<1> QED
  BY <1>2, <1>3 DEF Flattening

\* Its values are sequences.
LEMMA FlatteningType ==
    ASSUME NEW T, NEW s \in Seq(Seq(T)), NEW f, Flattening(s, Len(s), f)
    PROVE  \A i \in 1..Len(s) : f[i] \in Seq(T)
<1> DEFINE S == {i \in Nat : i \in 1..Len(s) => f[i] \in Seq(T)}
<1>1. \A i \in 1..Len(s) : f[i] = IF i = 1 THEN s[i] ELSE f[i - 1] \o s[i]
  BY DEF Flattening
<1>2. \A i \in 1..Len(s) : s[i] \in Seq(T)
  BY ElementOfSeq
<1>3. 0 \in S
  OBVIOUS
<1>4. ASSUME NEW i \in S
      PROVE  i + 1 \in S
  <2> SUFFICES ASSUME i + 1 \in 1..Len(s)
               PROVE  f[i + 1] \in Seq(T)
    OBVIOUS
  <2>1. Len(s) \in Nat /\ i \in Nat /\ (i + 1) - 1 = i
    BY LenProperties
  <2>2. i + 1 # 1 => f[i] \in Seq(T)
    BY <2>1
  <2>3. CASE i + 1 = 1
    BY <1>1, <1>2, <2>3
  <2>4. CASE i + 1 # 1
    <3>1. f[i + 1] = f[i] \o s[i + 1]
      BY <1>1, <2>1, <2>4
    <3> QED
      BY <1>2, <2>2, <2>4, <3>1, ConcatProperties
  <2> QED
    BY <2>3, <2>4
<1>5. S = Nat
  <2> HIDE DEF S
  <2>1. S \in SUBSET Nat
    BY DEF S
  <2> QED
    BY <1>3, <1>4, <2>1, InductionOnNat
<1> QED
  BY <1>5

\* What is flattened is a sequence.
LEMMA FlattenSeqType ==
    ASSUME NEW T, NEW s \in Seq(Seq(T))
    PROVE  FlattenSeq(s) \in Seq(T)
<1>1. CASE Len(s) = 0
  <2>1. s = <<>> /\ FlattenSeq(s) = s
    BY <1>1, EmptySeq DEF FlattenSeq
  <2> QED
    BY <2>1, EmptySeq
<1>2. CASE Len(s) # 0
  <2>1. Len(s) \in Nat \ {0}
    BY <1>2, LenProperties
  <2>2. PICK f : Flattening(s, Len(s), f) /\ FlattenSeq(s) = f[Len(s)]
    BY <2>1, FlattenSeqDef
  <2>3. \A i \in 1..Len(s) : f[i] \in Seq(T)
    BY <2>2, FlatteningType
  <2> QED
    BY <2>1, <2>2, <2>3
<1> QED
  BY <1>1, <1>2

\* One more sequence comes at the end of what is flattened.
LEMMA FlattenSeqAppend ==
    ASSUME NEW T, NEW s \in Seq(Seq(T)), NEW x \in Seq(T)
    PROVE  FlattenSeq(Append(s, x)) = FlattenSeq(s) \o x
<1> DEFINE t == Append(s, x)
           n == Len(s)
<1>1. /\ n \in Nat
      /\ Len(t) = n + 1
      /\ t[n + 1] = x
      /\ \A i \in 1..n : s[i] = t[i]
  BY AppendProperties, LenProperties
<1> HIDE DEF t
<1>2. PICK g : Flattening(t, n + 1, g) /\ FlattenSeq(t) = g[n + 1]
  BY <1>1, FlattenSeqDef
<1>3. g[n + 1] = IF n + 1 = 1 THEN t[n + 1] ELSE g[n] \o t[n + 1]
  <2>1. n + 1 \in 1..n + 1 /\ (n + 1) - 1 = n
    BY <1>1
  <2>2. \A i \in 1..n + 1 : g[i] = IF i = 1 THEN t[i] ELSE g[i - 1] \o t[i]
    BY <1>2 DEF Flattening
  <2> QED
    BY <2>1, <2>2
<1>4. CASE n = 0
  <2>1. s = <<>> /\ FlattenSeq(s) = <<>>
    BY <1>4, EmptySeq DEF FlattenSeq
  <2>2. FlattenSeq(t) = x
    BY <1>1, <1>2, <1>3, <1>4
  <2>3. <<>> \o x = x
    BY ConcatEmptySeq
  <2> QED
    BY <2>1, <2>2, <2>3 DEF t
<1>5. CASE n # 0
  <2>1. PICK f : Flattening(s, n, f) /\ FlattenSeq(s) = f[n]
    BY <1>1, <1>5, FlattenSeqDef
  <2>2. \A i \in 1..n : f[i] = g[i]
    <3> DEFINE l == n + 1
    <3>1. n \in Nat /\ l \in Nat /\ n <= l /\ Flattening(t, l, g)
      BY <1>1, <1>2
    <3> HIDE DEF n, l
    <3>2. \A i \in 1..n : s[i] = t[i]
      BY <1>1
    <3>3. Flattening(s, n, f)
      BY <2>1
    <3> QED
      BY <3>1, <3>2, <3>3, FlatteningUnique
  <2>3. n \in 1..n /\ n + 1 # 1
    BY <1>1, <1>5
  <2> QED
    BY <1>1, <1>2, <1>3, <2>1, <2>2, <2>3 DEF t
<1> QED
  BY <1>4, <1>5

-----------------------------------------------------------------------------
(* The framing of units by their length.                                   *)

Payloads == Seq(0..255)

\* Payloads that are joined: their lengths add up, and each keeps its bytes.
LEMMA Joined ==
    ASSUME NEW a \in Payloads, NEW b \in Payloads
    PROVE  /\ a \o b \in Payloads
           /\ Len(a) \in Nat /\ Len(b) \in Nat
           /\ Len(a \o b) = Len(a) + Len(b)
           /\ \A i \in 1..Len(a) + Len(b) : (a \o b)[i] = IF i <= Len(a) THEN a[i] ELSE b[i - Len(a)]
<1> DEFINE T == 0..255
<1>1. a \in Seq(T) /\ b \in Seq(T)
  BY DEF Payloads
<1> HIDE DEF T
<1>2. /\ a \o b \in Seq(T)
      /\ Len(a) \in Nat /\ Len(b) \in Nat
      /\ Len(a \o b) = Len(a) + Len(b)
      /\ \A i \in 1..Len(a) + Len(b) : (a \o b)[i] = IF i <= Len(a) THEN a[i] ELSE b[i - Len(a)]
  BY <1>1, ConcatProperties, LenProperties
<1> QED
  BY <1>2 DEF Payloads, T

\* A length takes four bytes.
LEMMA LengthBytesType ==
    ASSUME NEW n \in Nat
    PROVE  LengthBytes(n) \in Payloads /\ Len(LengthBytes(n)) = 4
<1> DEFINE a == (n \div 16777216) % 256
           b == (n \div 65536) % 256
           c == (n \div 256) % 256
           d == n % 256
<1>1. a \in 0..255 /\ b \in 0..255 /\ c \in 0..255 /\ d \in 0..255
  OBVIOUS
<1> HIDE DEF a, b, c, d
<1>2. <<a, b, c, d>> \in Payloads /\ Len(<<a, b, c, d>>) = 4
  BY <1>1 DEF Payloads
<1> QED
  BY <1>2 DEF LengthBytes, a, b, c, d

\* A unit behind its length.
Framed(unit) == LengthBytes(Len(unit)) \o unit

\* A framed unit is four bytes longer, and ends in the unit.
LEMMA FramedUnit ==
    ASSUME NEW u \in Payloads
    PROVE  /\ Framed(u) \in Payloads
           /\ Len(u) \in Nat
           /\ Len(Framed(u)) = 4 + Len(u)
           /\ \A k \in 1..Len(u) : Framed(u)[4 + k] = u[k]
<1>1. Len(u) \in Nat
  BY LenProperties DEF Payloads
<1>2. LengthBytes(Len(u)) \in Payloads /\ Len(LengthBytes(Len(u))) = 4
  BY <1>1, LengthBytesType
<1>3. /\ Framed(u) \in Payloads
      /\ Len(Framed(u)) = 4 + Len(u)
      /\ \A i \in 1..4 + Len(u) : Framed(u)[i] = IF i <= 4 THEN LengthBytes(Len(u))[i] ELSE u[i - 4]
  <2> DEFINE l == LengthBytes(Len(u))
  <2> HIDE DEF l
  <2>1. l \in Payloads /\ Len(l) = 4
    BY <1>2 DEF l
  <2>2. /\ l \o u \in Payloads
        /\ Len(l \o u) = Len(l) + Len(u)
        /\ \A i \in 1..Len(l) + Len(u) : (l \o u)[i] = IF i <= Len(l) THEN l[i] ELSE u[i - Len(l)]
    BY <2>1, Joined
  <2> QED
    BY <2>1, <2>2 DEF Framed, l
<1>4. ASSUME NEW k \in 1..Len(u)
      PROVE  Framed(u)[4 + k] = u[k]
  <2>1. 4 + k \in 1..4 + Len(u) /\ ~(4 + k <= 4) /\ (4 + k) - 4 = k
    BY <1>1
  <2> QED
    BY <1>3, <2>1
<1> QED
  BY <1>1, <1>3, <1>4

\* The sequence of framed units, which Framing flattens.
LEMMA FramedType ==
    ASSUME NEW s \in Seq(Payloads)
    PROVE  /\ [k \in 1..Len(s) |-> Framed(s[k])] \in Seq(Payloads)
           /\ Len([k \in 1..Len(s) |-> Framed(s[k])]) = Len(s)
<1>1. Len(s) \in Nat /\ \A k \in 1..Len(s) : s[k] \in Payloads
  BY LenProperties, ElementOfSeq
<1>2. \A k \in 1..Len(s) : Framed(s[k]) \in Payloads
  BY <1>1, FramedUnit
<1> QED
  BY <1>1, <1>2

\* Framing yields bytes, none for no unit.
LEMMA FramingType ==
    ASSUME NEW s \in Seq(Payloads)
    PROVE  Framing(s) \in Payloads /\ (s = <<>> => Framing(s) = <<>>)
<1> DEFINE framed == [k \in 1..Len(s) |-> Framed(s[k])]
<1>1. framed \in Seq(Seq(0..255)) /\ Len(framed) = Len(s)
  BY FramedType DEF Payloads
<1>2. Framing(s) = FlattenSeq(framed)
  BY DEF Framing, Framed
<1> HIDE DEF framed
<1>3. FlattenSeq(framed) \in Payloads
  BY <1>1, FlattenSeqType DEF Payloads
<1>4. ASSUME s = <<>>
      PROVE  Framing(s) = <<>>
  <2>1. framed = <<>> /\ Len(framed) = 0
    BY <1>1, <1>4, EmptySeq
  <2> QED
    BY <1>2, <2>1 DEF FlattenSeq
<1> QED
  BY <1>2, <1>3, <1>4

\* One more unit comes, framed, at the end.
LEMMA FramingAppend ==
    ASSUME NEW s \in Seq(Payloads), NEW u \in Payloads
    PROVE  Framing(Append(s, u)) = Framing(s) \o Framed(u)
<1> DEFINE t == Append(s, u)
           framed(r) == [k \in 1..Len(r) |-> Framed(r[k])]
<1>1. /\ Len(s) \in Nat
      /\ t \in Seq(Payloads)
      /\ Len(t) = Len(s) + 1
      /\ t[Len(s) + 1] = u
      /\ \A i \in 1..Len(s) : t[i] = s[i]
  BY AppendProperties, LenProperties
<1>2. Framing(s) = FlattenSeq(framed(s)) /\ Framing(t) = FlattenSeq(framed(t))
  BY DEF Framing, Framed
<1> HIDE DEF t
<1>3. /\ framed(s) \in Seq(Payloads) /\ Len(framed(s)) = Len(s)
      /\ framed(t) \in Seq(Payloads) /\ Len(framed(t)) = Len(t)
  BY <1>1, FramedType
<1>4. Framed(u) \in Payloads
  BY FramedUnit
<1>5. framed(t) = Append(framed(s), Framed(u))
  <2> DEFINE a == Append(framed(s), Framed(u))
  <2>1. /\ a \in Seq(Payloads)
        /\ Len(a) = Len(s) + 1
        /\ a[Len(s) + 1] = Framed(u)
        /\ \A i \in 1..Len(s) : a[i] = framed(s)[i]
    <3> HIDE DEF framed
    <3>1. /\ a \in Seq(Payloads)
          /\ Len(a) = Len(framed(s)) + 1
          /\ a[Len(framed(s)) + 1] = Framed(u)
          /\ \A i \in 1..Len(framed(s)) : a[i] = framed(s)[i]
      BY <1>3, <1>4, AppendProperties
    <3> QED
      BY <1>3, <3>1
  <2> HIDE DEF a
  <2>2. ASSUME NEW i \in 1..Len(t)
        PROVE  framed(t)[i] = a[i]
    <3>1. CASE i = Len(s) + 1
      BY <1>1, <2>1, <3>1
    <3>2. CASE i # Len(s) + 1
      <4>1. i \in 1..Len(s)
        BY <1>1, <3>2
      <4> QED
        BY <1>1, <2>1, <4>1
    <3> QED
      BY <3>1, <3>2
  <2> HIDE DEF framed
  <2>3. framed(t) = a
    BY <1>1, <1>3, <2>1, <2>2, SeqEqual
  <2> QED
    BY <2>3 DEF a
<1> HIDE DEF framed
<1>6. FlattenSeq(Append(framed(s), Framed(u))) = FlattenSeq(framed(s)) \o Framed(u)
  BY <1>3, <1>4, FlattenSeqAppend DEF Payloads
<1> QED
  BY <1>2, <1>5, <1>6 DEF t

\* A prefix of n + 1 units is that of n units and the next unit.
LEMMA FramingPrefix ==
    ASSUME NEW s \in Seq(Payloads), NEW n \in Nat, n + 1 <= Len(s)
    PROVE  /\ SubSeq(s, 1, n) \in Seq(Payloads)
           /\ s[n + 1] \in Payloads
           /\ Framing(SubSeq(s, 1, n + 1)) = Framing(SubSeq(s, 1, n)) \o Framed(s[n + 1])
<1>1. Len(s) \in Nat /\ 1 \in 1..Len(s) /\ n + 1 \in 1..Len(s) /\ (n + 1) - 1 = n
  BY LenProperties
<1>2. \A i \in 1..Len(s) : s[i] \in Payloads
  BY ElementOfSeq
<1>3. \A i \in 1..n : s[i] \in Payloads
  BY <1>1, <1>2
<1>4. SubSeq(s, 1, n) \in Seq(Payloads)
  BY <1>3, SubSeqProperties
<1>5. SubSeq(s, 1, n + 1) = SubSeq(s, 1, n) \o <<s[n + 1]>>
  BY <1>1, SubSeqRecursiveSecond
<1>6. SubSeq(s, 1, n + 1) = Append(SubSeq(s, 1, n), s[n + 1])
  BY <1>1, <1>2, <1>4, <1>5, AppendIsConcat
<1> QED
  BY <1>1, <1>2, <1>4, <1>6, FramingAppend

\* The framing of a prefix is no longer than that of the whole.
LEMMA FramingGrows ==
    ASSUME NEW s \in Seq(Payloads), NEW n \in 0..Len(s)
    PROVE  Len(Framing(SubSeq(s, 1, n))) <= Len(Framing(s))
<1> DEFINE size(m) == Len(Framing(SubSeq(s, 1, m)))
           S == {d \in Nat : n + d <= Len(s) => size(n) <= size(n + d)}
<1>1. Len(s) \in Nat /\ n \in Nat
  BY LenProperties
<1>2. ASSUME NEW m \in Nat, m + 1 <= Len(s)
      PROVE  size(m) \in Nat /\ size(m + 1) \in Nat /\ size(m) <= size(m + 1)
  <2> DEFINE p == Framing(SubSeq(s, 1, m))
             q == Framed(s[m + 1])
  <2>1. p \in Payloads /\ q \in Payloads /\ Framing(SubSeq(s, 1, m + 1)) = p \o q
    BY <1>2, FramingPrefix, FramingType, FramedUnit
  <2> HIDE DEF p, q
  <2>2. Len(p \o q) = Len(p) + Len(q) /\ Len(p) \in Nat /\ Len(q) \in Nat
    BY <2>1, Joined
  <2> QED
    BY <2>1, <2>2 DEF p
<1>3. size(n) \in Nat
  <2>1. \A i \in 1..n : s[i] \in Payloads
    BY <1>1, ElementOfSeq
  <2>2. SubSeq(s, 1, n) \in Seq(Payloads)
    BY <1>1, <2>1, SubSeqProperties
  <2> QED
    BY <2>2, FramingType, LenProperties DEF Payloads
<1> HIDE DEF size
<1>4. 0 \in S
  BY <1>1, <1>3
<1>5. ASSUME NEW d \in S
      PROVE  d + 1 \in S
  <2> SUFFICES ASSUME n + (d + 1) <= Len(s)
               PROVE  size(n) <= size(n + (d + 1))
    OBVIOUS
  <2>1. n + d \in Nat /\ (n + d) + 1 = n + (d + 1) /\ n + d <= Len(s)
    BY <1>1
  <2>2. size(n) <= size(n + d)
    BY <2>1
  <2>3. size(n + d) \in Nat /\ size(n + (d + 1)) \in Nat /\ size(n + d) <= size(n + (d + 1))
    BY <1>2, <2>1
  <2> QED
    BY <1>3, <2>2, <2>3
<1>6. S = Nat
  <2> HIDE DEF S
  <2>1. S \in SUBSET Nat
    BY DEF S
  <2> QED
    BY <1>4, <1>5, <2>1, InductionOnNat
<1>7. size(n) <= size(Len(s))
  <2>1. Len(s) - n \in Nat /\ n + (Len(s) - n) = Len(s)
    BY <1>1
  <2>2. Len(s) - n \in S
    BY <1>6, <2>1
  <2> QED
    BY <1>1, <2>1, <2>2
<1>8. SubSeq(s, 1, Len(s)) = s
  BY SubSeqFull
<1> QED
  BY <1>7, <1>8 DEF size

-----------------------------------------------------------------------------
(* The inductive invariant.                                                *)

\* The units of the buffer that was withheld, which come before this buffer's.
Before == Len(unsent) - Len(buffer.units)

\* How many units of unsent s_buf holds.
Copied == IF camera = "idle" THEN Len(unsent)
          ELSE IF camera = "copy" THEN Before + jt - 1
          ELSE Before + jt

\* s_buf holds the units copied so far, each behind its length.
Assembled ==
    camera # "idle" \/ pending_frame => Bytes(0, s_buf_length) = Framing(SubSeq(unsent, 1, Copied))

\* The units of the buffer at hand are the last ones received.
EndsWithBuffer ==
    camera # "idle" =>
        /\ Before >= 0
        /\ \A k \in 1..Len(buffer.units) : unsent[Before + k] = buffer.units[k]

\* Only a config buffer leaves units behind.
NothingLeft == camera = "idle" /\ ~pending_frame => unsent = <<>>

\* The unit about to be stored ends where s_buf ends.
UnitInPlace ==
    camera = "store" =>
        /\ jt <= Len(buffer.units)
        /\ UnitType \in Kept
        /\ start_ptr + 4 + Len(Unit) = s_buf_length

\* What is stored of a type begins with the last unit of that type.
StoredBeginsWithLatest ==
    \A t \in Kept :
        /\ Len(latest[t]) <= Len(previousUnit[t])
        /\ \A k \in 1..Len(latest[t]) : previousUnit[t][k] = latest[t][k]

IInv ==
    /\ TypeOK
    /\ Assembled
    /\ EndsWithBuffer
    /\ NothingLeft
    /\ UnitInPlace
    /\ StoredBeginsWithLatest
    /\ OverflowOnlyIfTooLong
-----------------------------------------------------------------------------
(* What the types give.                                                    *)

\* The numbers and sequences the steps compute with.
LEMMA Types ==
    ASSUME TypeOK
    PROVE  /\ Capacity \in Nat
           /\ s_buf_length \in 0..Capacity /\ start_ptr \in 0..Capacity
           /\ Len(buffer.units) \in Nat /\ jt \in 1..Len(buffer.units) + 1
           /\ unsent \in Seq(Payloads) /\ Len(unsent) \in Nat
           /\ buffer.units \in Seq(Payloads)
           /\ \A k \in 1..Len(buffer.units) : buffer.units[k] \in Payloads
<1>1. unsent \in Seq(Payloads) /\ Len(unsent) \in Nat
  BY LenProperties DEF TypeOK, Payloads
<1>2. buffer.units \in Seq(Payloads)
  <2>1. CASE buffer \in Buffers
    <3>1. buffer.units \in Seq(Payloads \ {<<>>})
      BY <2>1, FrameAssumption DEF Payloads
    <3> QED
      BY <3>1, SeqMonotonic
  <2>2. CASE buffer = [config |-> FALSE, units |-> <<>>]
    BY <2>2, EmptySeq
  <2> QED
    BY <2>1, <2>2 DEF TypeOK
<1>3. Len(buffer.units) \in Nat /\ \A k \in 1..Len(buffer.units) : buffer.units[k] \in Payloads
  BY <1>2, LenProperties, ElementOfSeq
<1> QED
  BY <1>1, <1>2, <1>3, FrameAssumption DEF TypeOK

\* Bytes yields as many bytes as there are between the offsets.
LEMMA BytesType ==
    ASSUME TypeOK, NEW from \in Nat, NEW to \in Nat, from <= to
    PROVE  /\ Bytes(from, to) \in Seq(Byte)
           /\ Len(Bytes(from, to)) = to - from
           /\ \A k \in 1..to - from : from + k - 1 < Capacity => Bytes(from, to)[k] = s_buf[from + k - 1]
<1>1. to - from \in Nat /\ Capacity \in Nat /\ s_buf \in [0..Capacity - 1 -> Byte] /\ Junk \in Byte
  BY FrameAssumption DEF TypeOK, Byte
<1>2. \A k \in 1..to - from : from + k - 1 \in Nat
  OBVIOUS
<1>3. \A k \in 1..to - from : from + k - 1 < Capacity => from + k - 1 \in 0..Capacity - 1
  BY <1>1, <1>2
<1>4. \A k \in 1..to - from : (IF from + k - 1 < Capacity THEN s_buf[from + k - 1] ELSE Junk) \in Byte
  BY <1>1, <1>3
<1>5. /\ Bytes(from, to) \in [1..to - from -> Byte]
      /\ \A k \in 1..to - from : from + k - 1 < Capacity => Bytes(from, to)[k] = s_buf[from + k - 1]
  BY <1>4 DEF Bytes
<1>6. Bytes(from, to) \in Seq(Byte) /\ Len(Bytes(from, to)) = to - from
  BY <1>1, <1>5
<1> QED
  BY <1>5, <1>6

\* The bytes s_buf holds.
LEMMA HeldBytes ==
    ASSUME TypeOK
    PROVE  /\ Len(Bytes(0, s_buf_length)) = s_buf_length
           /\ \A k \in 1..s_buf_length : Bytes(0, s_buf_length)[k] = s_buf[k - 1]
<1> DEFINE from == 0
           to == s_buf_length
<1>1. from \in Nat /\ to \in Nat /\ from <= to /\ to <= Capacity /\ Capacity \in Nat /\ from = 0
  BY Types
<1> HIDE DEF from, to
<1>2. /\ Len(Bytes(from, to)) = to - from
      /\ \A k \in 1..to - from : from + k - 1 < Capacity => Bytes(from, to)[k] = s_buf[from + k - 1]
  BY <1>1, BytesType
<1>3. \A k \in 1..to : k \in 1..to - from /\ from + k - 1 < Capacity /\ from + k - 1 = k - 1
  BY <1>1
<1>4. Len(Bytes(from, to)) = to /\ \A k \in 1..to : Bytes(from, to)[k] = s_buf[k - 1]
  BY <1>1, <1>2, <1>3
<1> QED
  BY <1>4 DEF from, to

\* The unit on_mmalcam_buffer is at is one of unsent's, behind those before it.
LEMMA UnitOfUnsent ==
    ASSUME TypeOK, EndsWithBuffer, camera # "idle", jt <= Len(buffer.units)
    PROVE  /\ Before + jt - 1 \in Nat
           /\ (Before + jt - 1) + 1 <= Len(unsent)
           /\ unsent[(Before + jt - 1) + 1] = Unit
           /\ Unit \in Payloads
<1>1. /\ Len(buffer.units) \in Nat /\ Len(unsent) \in Nat /\ jt \in 1..Len(buffer.units)
      /\ \A k \in 1..Len(buffer.units) : buffer.units[k] \in Payloads
  BY Types
<1>2. Before >= 0 /\ Before = Len(unsent) - Len(buffer.units)
  BY DEF EndsWithBuffer, Before
<1>3. unsent[Before + jt] = buffer.units[jt]
  BY <1>1 DEF EndsWithBuffer
<1> HIDE DEF Before
<1>4. Before + jt - 1 \in Nat /\ (Before + jt - 1) + 1 = Before + jt /\ Before + jt <= Len(unsent)
  BY <1>1, <1>2
<1> QED
  BY <1>1, <1>3, <1>4 DEF Unit

\* What s_buf will hold with that unit behind what it holds now.
LEMMA WithUnit ==
    ASSUME TypeOK, EndsWithBuffer, camera # "idle", jt <= Len(buffer.units)
    PROVE  /\ Framing(SubSeq(unsent, 1, Before + jt)) = Framing(SubSeq(unsent, 1, Before + jt - 1)) \o Framed(Unit)
           /\ Framing(SubSeq(unsent, 1, Before + jt - 1)) \in Payloads
           /\ Unit \in Payloads
<1> DEFINE n == Before + jt - 1
<1>1. n \in Nat /\ n + 1 <= Len(unsent) /\ unsent[n + 1] = Unit /\ Unit \in Payloads
  BY UnitOfUnsent
<1>2. n + 1 = Before + jt
  BY Types DEF Before
<1>3. unsent \in Seq(Payloads)
  BY Types
<1> HIDE DEF n
<1>4. /\ SubSeq(unsent, 1, n) \in Seq(Payloads)
      /\ Framing(SubSeq(unsent, 1, n + 1)) = Framing(SubSeq(unsent, 1, n)) \o Framed(unsent[n + 1])
  BY <1>1, <1>3, FramingPrefix
<1>5. Framing(SubSeq(unsent, 1, n)) \in Payloads
  BY <1>4, FramingType
<1> QED
  BY <1>1, <1>2, <1>4, <1>5 DEF n

-----------------------------------------------------------------------------
(* The types of the next state.                                            *)

\* A step that takes a buffer leaves the types as they are.
LEMMA TypesBegin == TypeOK /\ (\E b \in Buffers : BeginBuffer(b)) => TypeOK'
<1> SUFFICES ASSUME TypeOK, NEW b \in Buffers, BeginBuffer(b)
             PROVE  TypeOK'
  OBVIOUS
<1>1. b.config \in BOOLEAN /\ b.units \in Seq(Payloads)
  <2>1. b.config \in BOOLEAN /\ b.units \in Seq(Payloads \ {<<>>})
    BY FrameAssumption DEF Payloads
  <2>2. Payloads \ {<<>>} \subseteq Payloads
    OBVIOUS
  <2> QED
    BY <2>1, <2>2, SeqMonotonic
<1> USE DEF BeginBuffer, Begin
<1>2. unsent' \in Seq(Seq(0..255))
  <2>1. unsent \in Seq(Payloads)
    BY Types
  <2>2. unsent \o b.units \in Seq(Payloads)
    BY <1>1, <2>1, ConcatProperties
  <2> QED
    BY <2>2 DEF Payloads
<1>3. jt' \in 1..Len(buffer'.units) + 1
  BY <1>1, LenProperties
<1>4. s_buf_length' \in 0..Capacity
  BY Types
<1>5. pending_frame' \in BOOLEAN
  BY <1>1 DEF TypeOK
<1>6. /\ s_buf' \in [0..Capacity - 1 -> Byte] /\ previousUnit' \in [Kept -> Seq(Byte)]
      /\ start_ptr' \in 0..Capacity /\ latest' \in [Kept -> Seq(0..255)]
  BY DEF TypeOK
<1>7. /\ buffer' \in Buffers \union {[config |-> FALSE, units |-> <<>>]}
      /\ camera' \in {"idle", "copy", "store"}
  OBVIOUS
<1>8. /\ client' \in {"Waiting", "Ready"} /\ adding' \in BOOLEAN /\ toCollect' \in Seq(Kept)
      /\ units' \in Seq(Byte) /\ message' \in [from : {"nobody", "camera", "MainThread"}, data : Seq(Byte)]
      /\ crashed' \in {"no", "overflow", "race"}
  BY DEF TypeOK, addingVars
<1> QED
  BY <1>2, <1>3, <1>4, <1>5, <1>6, <1>7, <1>8 DEF TypeOK

\* So does the copy of a unit.
LEMMA TypesCopy == TypeOK /\ CopyUnit => TypeOK'
<1> SUFFICES ASSUME TypeOK, CopyUnit
             PROVE  TypeOK'
  OBVIOUS
<1> USE DEF CopyUnit, Copying
<1> DEFINE copy == Framed(Unit)
<1>1. /\ Capacity \in Nat /\ s_buf_length \in 0..Capacity /\ start_ptr \in 0..Capacity
      /\ Len(buffer.units) \in Nat /\ jt \in 1..Len(buffer.units)
      /\ Unit \in Payloads
  BY Types DEF Unit
<1>2. copy \in Payloads /\ Len(copy) \in Nat /\ \A k \in 1..Len(copy) : copy[k] \in 0..255
  <2>1. copy \in Payloads
    BY <1>1, FramedUnit
  <2> QED
    BY <2>1, LenProperties, ElementOfSeq DEF Payloads
<1>3. /\ s_buf_length + Len(copy) <= Capacity
      /\ s_buf' = [k \in 0..Capacity - 1 |->
             IF k - s_buf_length \in 0..Len(copy) - 1 THEN copy[k - s_buf_length + 1] ELSE s_buf[k]]
      /\ s_buf_length' = s_buf_length + Len(copy)
  BY DEF Framed
<1> HIDE DEF copy
<1>4. s_buf' \in [0..Capacity - 1 -> Byte]
  <2>1. s_buf \in [0..Capacity - 1 -> Byte]
    BY DEF TypeOK
  <2>2. ASSUME NEW k \in 0..Capacity - 1
        PROVE  (IF k - s_buf_length \in 0..Len(copy) - 1 THEN copy[k - s_buf_length + 1] ELSE s_buf[k]) \in Byte
    <3>1. CASE k - s_buf_length \in 0..Len(copy) - 1
      <4> HIDE DEF CopyUnit, Copying
      <4>1. k - s_buf_length + 1 \in 1..Len(copy)
        BY <1>1, <1>2, <3>1
      <4> QED
        BY <1>2, <3>1, <4>1 DEF Byte
    <3>2. CASE k - s_buf_length \notin 0..Len(copy) - 1
      BY <2>1, <3>2
    <3> QED
      BY <3>1, <3>2
  <2> QED
    BY <1>3, <2>2
<1>5. s_buf_length' \in 0..Capacity /\ start_ptr' \in 0..Capacity
  BY <1>1, <1>2, <1>3
<1>6. jt' \in 1..Len(buffer'.units) + 1 /\ camera' \in {"idle", "copy", "store"}
  BY <1>1
<1>7. /\ buffer' \in Buffers \union {[config |-> FALSE, units |-> <<>>]}
      /\ pending_frame' \in BOOLEAN /\ previousUnit' \in [Kept -> Seq(Byte)]
      /\ unsent' \in Seq(Seq(0..255)) /\ latest' \in [Kept -> Seq(0..255)]
  BY DEF TypeOK
<1>8. /\ client' \in {"Waiting", "Ready"} /\ adding' \in BOOLEAN /\ toCollect' \in Seq(Kept)
      /\ units' \in Seq(Byte) /\ message' \in [from : {"nobody", "camera", "MainThread"}, data : Seq(Byte)]
      /\ crashed' \in {"no", "overflow", "race"}
  BY DEF TypeOK, addingVars
<1> QED
  BY <1>4, <1>5, <1>6, <1>7, <1>8 DEF TypeOK

\* So does the storing of a unit, which is in place.
LEMMA TypesStore == TypeOK /\ UnitInPlace /\ StoreUnit => TypeOK'
<1> SUFFICES ASSUME TypeOK, UnitInPlace, StoreUnit
             PROVE  TypeOK'
  OBVIOUS
<1>1. /\ s_buf_length \in Nat /\ start_ptr \in Nat
      /\ Len(buffer.units) \in Nat /\ jt \in 1..Len(buffer.units)
      /\ Unit \in Payloads /\ UnitType \in Kept
      /\ start_ptr + 4 + Len(Unit) = s_buf_length /\ Len(Unit) \in Nat
  <2>1. camera = "store"
    BY DEF StoreUnit, Store
  <2>2. /\ s_buf_length \in Nat /\ start_ptr \in Nat
        /\ Len(buffer.units) \in Nat /\ jt \in 1..Len(buffer.units)
        /\ \A k \in 1..Len(buffer.units) : buffer.units[k] \in Payloads
    BY <2>1, Types DEF UnitInPlace
  <2>3. Unit \in Payloads /\ Len(Unit) \in Nat
    BY <2>2, LenProperties DEF Unit, Payloads
  <2> QED
    BY <2>1, <2>2, <2>3 DEF UnitInPlace
<1> USE DEF StoreUnit, Store
<1>2. Bytes(start_ptr + 4, start_ptr + s_buf_length) \in Seq(Byte)
  <2>1. start_ptr + 4 \in Nat /\ start_ptr + s_buf_length \in Nat /\ start_ptr + 4 <= start_ptr + s_buf_length
    BY <1>1
  <2> QED
    BY <2>1, BytesType
<1>3. previousUnit' \in [Kept -> Seq(Byte)]
  <2>1. previousUnit \in [Kept -> Seq(Byte)]
    BY DEF TypeOK
  <2> QED
    BY <1>2, <2>1
<1>4. latest' \in [Kept -> Seq(0..255)]
  <2>1. latest \in [Kept -> Seq(0..255)]
    BY DEF TypeOK
  <2> QED
    BY <1>1, <2>1 DEF Payloads
<1>5. jt' \in 1..Len(buffer'.units) + 1 /\ camera' \in {"idle", "copy", "store"}
  BY <1>1
<1>6. /\ s_buf' \in [0..Capacity - 1 -> Byte] /\ s_buf_length' \in 0..Capacity
      /\ buffer' \in Buffers \union {[config |-> FALSE, units |-> <<>>]}
      /\ start_ptr' \in 0..Capacity /\ pending_frame' \in BOOLEAN
      /\ unsent' \in Seq(Seq(0..255))
  BY DEF TypeOK
<1>7. /\ client' \in {"Waiting", "Ready"} /\ adding' \in BOOLEAN /\ toCollect' \in Seq(Kept)
      /\ units' \in Seq(Byte) /\ message' \in [from : {"nobody", "camera", "MainThread"}, data : Seq(Byte)]
      /\ crashed' \in {"no", "overflow", "race"}
  BY DEF TypeOK, addingVars
<1> QED
  BY <1>3, <1>4, <1>5, <1>6, <1>7 DEF TypeOK

\* So does the end of a buffer.
LEMMA TypesEnd == TypeOK /\ EndBuffer => TypeOK'
<1> SUFFICES ASSUME TypeOK, EndBuffer
             PROVE  TypeOK'
  OBVIOUS
<1> USE DEF EndBuffer
<1>1. Bytes(0, s_buf_length) \in Seq(Byte)
  BY Types, BytesType
<1>2. message' \in [from : {"nobody", "camera", "MainThread"}, data : Seq(Byte)]
  BY <1>1, EmptySeq DEF NoMessage
<1>3. unsent' \in Seq(Seq(0..255))
  BY EmptySeq DEF TypeOK
<1>4. /\ s_buf' \in [0..Capacity - 1 -> Byte] /\ s_buf_length' \in 0..Capacity
      /\ buffer' \in Buffers \union {[config |-> FALSE, units |-> <<>>]}
      /\ start_ptr' \in 0..Capacity /\ pending_frame' \in BOOLEAN
      /\ jt' \in 1..Len(buffer'.units) + 1 /\ camera' \in {"idle", "copy", "store"}
      /\ previousUnit' \in [Kept -> Seq(Byte)] /\ latest' \in [Kept -> Seq(0..255)]
  BY DEF TypeOK
<1>5. /\ client' \in {"Waiting", "Ready"} /\ adding' \in BOOLEAN /\ toCollect' \in Seq(Kept)
      /\ units' \in Seq(Byte) /\ crashed' \in {"no", "overflow", "race"}
  BY DEF TypeOK, addingVars
<1> QED
  BY <1>2, <1>3, <1>4, <1>5 DEF TypeOK

\* So do the steps of MainThread, a crash, and a client that is replaced.
LEMMA TypesMain == TypeOK /\ (MainStep \/ Overflow \/ Replace \/ UNCHANGED vars) => TypeOK'
<1> SUFFICES ASSUME TypeOK, MainStep \/ Overflow \/ Replace \/ UNCHANGED vars
             PROVE  TypeOK'
  OBVIOUS
<1>1. UNCHANGED cameraVars
  BY DEF MainStep, SetReady, Collect, Race, SendInitial, Overflow, Crash, Replace, vars
<1>2. /\ client \in {"Waiting", "Ready"} /\ adding \in BOOLEAN /\ toCollect \in Seq(Kept)
      /\ units \in Seq(Byte) /\ message \in [from : {"nobody", "camera", "MainThread"}, data : Seq(Byte)]
      /\ crashed \in {"no", "overflow", "race"}
  BY DEF TypeOK
<1>3. /\ client' \in {"Waiting", "Ready"} /\ adding' \in BOOLEAN /\ crashed' \in {"no", "overflow", "race"}
  BY <1>2 DEF MainStep, SetReady, Collect, Race, SendInitial, Overflow, Crash, Replace, vars, addingVars
<1>4. /\ toCollect' \in Seq(Kept) /\ units' \in Seq(Byte)
      /\ message' \in [from : {"nobody", "camera", "MainThread"}, data : Seq(Byte)]
  <2>1. CASE SetReady
    <3>1. <<7, 8, 5>> \in Seq(Kept) /\ <<>> \in Seq(Byte)
      BY EmptySeq DEF Kept
    <3> QED
      BY <1>2, <2>1, <3>1 DEF SetReady
  <2>2. CASE Collect
    <3>1. Head(toCollect) \in Kept /\ Tail(toCollect) \in Seq(Kept)
      BY <1>2, <2>2, HeadTailProperties DEF Collect
    <3>2. previousUnit[Head(toCollect)] \in Seq(Byte)
      BY <3>1 DEF TypeOK
    <3>3. units \o previousUnit[Head(toCollect)] \in Seq(Byte)
      BY <1>2, <3>2, ConcatProperties
    <3> QED
      BY <1>2, <2>2, <3>1, <3>3 DEF Collect
  <2>3. CASE SendInitial
    BY <1>2, <2>3 DEF SendInitial
  <2>4. CASE Race \/ Overflow \/ Replace \/ UNCHANGED vars
    BY <1>2, <2>4 DEF Race, Overflow, Crash, Replace, vars, addingVars
  <2> QED
    BY <2>1, <2>2, <2>3, <2>4 DEF MainStep
<1> QED
  BY <1>1, <1>3, <1>4 DEF TypeOK, cameraVars

-----------------------------------------------------------------------------
(* What s_buf holds in the next state.                                     *)

\* Steps that leave the camera's variables alone keep all that is said of them.
LEMMA CameraKept ==
    ASSUME UNCHANGED cameraVars
    PROVE  /\ Assembled => Assembled'
           /\ EndsWithBuffer => EndsWithBuffer'
           /\ NothingLeft => NothingLeft'
           /\ UnitInPlace => UnitInPlace'
           /\ StoredBeginsWithLatest => StoredBeginsWithLatest'
<1> USE DEF cameraVars
<1>1. Assembled => Assembled'
  BY DEF Assembled, Copied, Before, Bytes
<1>2. EndsWithBuffer => EndsWithBuffer'
  BY DEF EndsWithBuffer, Before
<1>3. NothingLeft => NothingLeft'
  BY DEF NothingLeft
<1>4. UnitInPlace => UnitInPlace'
  BY DEF UnitInPlace, UnitType, Unit
<1>5. StoredBeginsWithLatest => StoredBeginsWithLatest'
  BY DEF StoredBeginsWithLatest
<1> QED
  BY <1>1, <1>2, <1>3, <1>4, <1>5

\* A buffer begins behind what was withheld, or at the start of s_buf.
LEMMA HeldBegin == IInv /\ crashed = "no" /\ (\E b \in Buffers : BeginBuffer(b)) => IInv'
<1> SUFFICES ASSUME IInv, crashed = "no", NEW b \in Buffers, BeginBuffer(b)
             PROVE  IInv'
  OBVIOUS
<1> USE DEF BeginBuffer, Begin
<1>1. TypeOK /\ TypeOK'
  BY TypesBegin DEF IInv
<1>2. /\ unsent \in Seq(Payloads) /\ Len(unsent) \in Nat
      /\ b.units \in Seq(Payloads) /\ Len(b.units) \in Nat
      /\ s_buf_length \in 0..Capacity /\ Capacity \in Nat
  <2>1. b.units \in Seq(Payloads \ {<<>>})
    BY FrameAssumption DEF Payloads
  <2>2. b.units \in Seq(Payloads)
    BY <2>1, SeqMonotonic
  <2> QED
    BY <1>1, <2>2, Types, LenProperties
<1>3. /\ Len(unsent') = Len(unsent) + Len(b.units)
      /\ \A i \in 1..Len(unsent) + Len(b.units) : unsent'[i] = IF i <= Len(unsent) THEN unsent[i] ELSE b.units[i - Len(unsent)]
  BY <1>2, ConcatProperties
<1>4. Before' = Len(unsent) /\ Copied' = Len(unsent)
  <2>1. Len(unsent') - Len(buffer'.units) = Len(unsent)
    BY <1>2, <1>3
  <2>2. camera' = "copy" /\ jt' = 1
    OBVIOUS
  <2>3. Len(unsent') - Len(buffer'.units) + jt' - 1 = Len(unsent)
    BY <1>2, <2>1, <2>2
  <2> QED
    BY <2>1, <2>2, <2>3 DEF Before, Copied
<1>5. SubSeq(unsent', 1, Len(unsent)) = unsent
  <2>1. CASE unsent = <<>>
    <3>1. Len(unsent) = 0
      BY <2>1
    <3> QED
      BY <2>1, <3>1, SubSeqEmpty
  <2>2. CASE unsent # <<>>
    <3>1. Len(unsent) \in 1..Len(unsent) /\ 1 \in 1..Len(unsent)
      BY <1>2, <2>2, EmptySeq
    <3>2. SubSeq(unsent \o b.units, 1, Len(unsent)) = SubSeq(unsent, 1, Len(unsent))
      BY <1>2, <3>1, SubSeqOfConcat1
    <3> QED
      BY <1>2, <3>2, SubSeqFull
  <2> QED
    BY <2>1, <2>2
<1>6. Assembled'
  <2>1. CASE pending_frame
    <3>1. Bytes(0, s_buf_length) = Framing(SubSeq(unsent, 1, Len(unsent)))
      BY <2>1 DEF IInv, Assembled, Copied
    <3>2. SubSeq(unsent, 1, Len(unsent)) = unsent
      BY <1>2, SubSeqFull
    <3>3. Bytes(0, s_buf_length)' = Bytes(0, s_buf_length)
      BY <2>1 DEF Bytes
    <3> QED
      BY <1>4, <1>5, <3>1, <3>2, <3>3 DEF Assembled
  <2>2. CASE ~pending_frame
    <3>1. unsent = <<>>
      BY <2>2 DEF IInv, NothingLeft
    <3>2. Framing(unsent) = <<>>
      BY <1>2, <3>1, FramingType
    <3>3. s_buf_length' = 0
      BY <2>2
    <3>4. Bytes(0, s_buf_length)' = <<>>
      BY <3>3 DEF Bytes
    <3> QED
      BY <1>4, <1>5, <3>2, <3>4 DEF Assembled
  <2> QED
    BY <2>1, <2>2
<1>7. EndsWithBuffer'
  <2>1. ASSUME NEW k \in 1..Len(buffer'.units)
        PROVE  unsent'[Before' + k] = buffer'.units[k]
    <3>1. /\ Len(unsent) + k \in 1..Len(unsent) + Len(b.units)
          /\ ~(Len(unsent) + k <= Len(unsent))
          /\ (Len(unsent) + k) - Len(unsent) = k
      BY <1>2
    <3> QED
      BY <1>3, <1>4, <3>1
  <2> QED
    BY <1>2, <1>4, <2>1 DEF EndsWithBuffer
<1>8. NothingLeft' /\ UnitInPlace'
  BY DEF NothingLeft, UnitInPlace
<1>9. StoredBeginsWithLatest'
  BY DEF IInv, StoredBeginsWithLatest
<1>10. OverflowOnlyIfTooLong'
  BY DEF OverflowOnlyIfTooLong
<1> QED
  BY <1>1, <1>6, <1>7, <1>8, <1>9, <1>10 DEF IInv

\* A unit that is copied comes behind those s_buf holds.
LEMMA HeldCopy == IInv /\ crashed = "no" /\ CopyUnit => IInv'
<1> SUFFICES ASSUME IInv, crashed = "no", CopyUnit
             PROVE  IInv'
  OBVIOUS
<1> USE DEF CopyUnit, Copying
<1>1. TypeOK /\ TypeOK' /\ EndsWithBuffer
  BY TypesCopy DEF IInv
<1>2. /\ Capacity \in Nat /\ s_buf_length \in Nat
      /\ Len(buffer.units) \in Nat /\ Len(unsent) \in Nat /\ jt \in 1..Len(buffer.units)
  BY <1>1, Types
<1> DEFINE held == Framing(SubSeq(unsent, 1, Before + jt - 1))
           copy == Framed(Unit)
<1>3. /\ held \in Payloads /\ copy \in Payloads
      /\ Len(held) \in Nat /\ Len(copy) = 4 + Len(Unit) /\ Len(Unit) \in Nat
      /\ Framing(SubSeq(unsent, 1, Before + jt)) = held \o copy
      /\ Len(held \o copy) = Len(held) + Len(copy)
      /\ \A i \in 1..Len(held) + Len(copy) : (held \o copy)[i] = IF i <= Len(held) THEN held[i] ELSE copy[i - Len(held)]
  <2>1. held \in Payloads /\ Unit \in Payloads /\ Framing(SubSeq(unsent, 1, Before + jt)) = held \o copy
    BY <1>1, WithUnit
  <2> HIDE DEF held
  <2>2. copy \in Payloads /\ Len(copy) = 4 + Len(Unit) /\ Len(Unit) \in Nat
    BY <2>1, FramedUnit
  <2> HIDE DEF copy
  <2>3. /\ Len(held) \in Nat
        /\ Len(held \o copy) = Len(held) + Len(copy)
        /\ \A i \in 1..Len(held) + Len(copy) : (held \o copy)[i] = IF i <= Len(held) THEN held[i] ELSE copy[i - Len(held)]
    BY <2>1, <2>2, Joined
  <2> QED
    BY <2>1, <2>2, <2>3
<1>4. Bytes(0, s_buf_length) = held
  BY DEF IInv, Assembled, Copied
<1>5. /\ s_buf_length + Len(copy) <= Capacity
      /\ s_buf' = [k \in 0..Capacity - 1 |->
             IF k - s_buf_length \in 0..Len(copy) - 1 THEN copy[k - s_buf_length + 1] ELSE s_buf[k]]
      /\ s_buf_length' = s_buf_length + Len(copy)
  BY DEF Framed
<1>6. UNCHANGED <<unsent, buffer>> /\ Before' = Before /\ Copied' = Before + jt /\ Before \in Int
  <2>1. UNCHANGED <<unsent, buffer>> /\ Before' = Before /\ Before \in Int
    BY <1>2 DEF Before
  <2>2. \/ camera' = "store" /\ jt' = jt
        \/ camera' = "copy" /\ jt' = jt + 1
    OBVIOUS
  <2> HIDE DEF CopyUnit
  <2>3. Copied' = Before + jt
    BY <1>2, <2>1, <2>2 DEF Copied
  <2> QED
    BY <2>1, <2>3
<1> HIDE DEF held, copy
<1>7. Len(held) = s_buf_length /\ \A k \in 1..s_buf_length : held[k] = s_buf[k - 1]
  BY <1>1, <1>4, HeldBytes
<1>8. Assembled'
  <2> DEFINE next == Bytes(0, s_buf_length)'
             n == s_buf_length'
             b == s_buf'
  <2>1. n \in Nat /\ n <= Capacity /\ n = s_buf_length + Len(copy)
    <3>1. Len(copy) \in Nat
      BY <1>3
    <3> HIDE DEF CopyUnit
    <3>2. n = s_buf_length + Len(copy) /\ s_buf_length + Len(copy) <= Capacity
      BY <1>5
    <3> HIDE DEF n
    <3> QED
      BY <1>2, <3>1, <3>2
  <2>2. next = [k \in 1..n |-> b[k - 1]]
    <3>1. next = [k \in 1..n - 0 |-> IF 0 + k - 1 < Capacity THEN b[0 + k - 1] ELSE Junk]
      BY DEF Bytes
    <3> HIDE DEF next, n, b
    <3>2. n - 0 = n /\ \A k \in 1..n : 0 + k - 1 = k - 1 /\ k - 1 < Capacity
      BY <1>2, <2>1
    <3> QED
      BY <3>1, <3>2
  <2>3. ASSUME NEW k \in 1..Len(held) + Len(copy)
        PROVE  s_buf'[k - 1] = (held \o copy)[k]
    <3>1. s_buf'[k - 1] = IF (k - 1) - s_buf_length \in 0..Len(copy) - 1 THEN copy[(k - 1) - s_buf_length + 1] ELSE s_buf[k - 1]
      <4>1. k - 1 \in 0..Capacity - 1
        BY <1>2, <1>3, <1>5, <1>7
      <4> HIDE DEF CopyUnit
      <4> QED
        BY <1>5, <4>1
    <3>2. CASE k <= Len(held)
      <4> HIDE DEF CopyUnit
      <4>1. (k - 1) - s_buf_length \notin 0..Len(copy) - 1 /\ k \in 1..s_buf_length
        BY <1>2, <1>7, <3>2
      <4> QED
        BY <1>3, <1>7, <3>1, <3>2, <4>1
    <3>3. CASE ~(k <= Len(held))
      <4> HIDE DEF CopyUnit
      <4>1. /\ (k - 1) - s_buf_length \in 0..Len(copy) - 1
            /\ (k - 1) - s_buf_length + 1 = k - Len(held)
        <5>1. Len(copy) \in Nat /\ k \in Nat
          BY <1>2, <1>3
        <5> QED
          BY <1>2, <1>3, <1>7, <3>3, <5>1
      <4> QED
        BY <1>3, <3>1, <3>3, <4>1
    <3> QED
      BY <3>2, <3>3
  <2>4. next = held \o copy
    <3> DEFINE whole == held \o copy
    <3>1. whole \in Payloads /\ Len(whole) = n
      BY <1>3, <1>7, <2>1, Joined
    <3>2. \A k \in 1..n : b[k - 1] = whole[k]
      BY <1>3, <2>3, <3>1
    <3> HIDE DEF next, n, b, whole
    <3>3. whole = [k \in 1..n |-> whole[k]]
      BY <3>1, LenProperties DEF Payloads
    <3>4. next = whole
      BY <2>2, <3>2, <3>3
    <3> QED
      BY <3>4 DEF whole
  <2>5. SubSeq(unsent, 1, Copied)' = SubSeq(unsent, 1, Before + jt)
    BY <1>6
  <2> QED
    BY <1>3, <2>4, <2>5 DEF Assembled
<1>9. EndsWithBuffer'
  BY <1>1, <1>6 DEF EndsWithBuffer
<1>10. NothingLeft'
  BY DEF NothingLeft
<1>11. UnitInPlace'
  <2>1. SUFFICES ASSUME camera' = "store"
                 PROVE  UnitInPlace'
    BY DEF UnitInPlace
  <2>2. jt' = jt /\ UnitType \in Kept /\ Unit' = Unit /\ UnitType' = UnitType
    BY <2>1 DEF Unit, UnitType
  <2>3. start_ptr' + 4 + Len(Unit) = s_buf_length'
    BY <1>2, <1>3, <1>5
  <2> QED
    BY <1>2, <1>6, <2>2, <2>3 DEF UnitInPlace
<1>12. StoredBeginsWithLatest'
  BY DEF IInv, StoredBeginsWithLatest
<1>13. OverflowOnlyIfTooLong'
  BY DEF OverflowOnlyIfTooLong
<1> QED
  BY <1>1, <1>8, <1>9, <1>10, <1>11, <1>12, <1>13 DEF IInv

\* What is stored is too long, and begins with the unit.
LEMMA HeldStore == IInv /\ crashed = "no" /\ StoreUnit => IInv'
<1> SUFFICES ASSUME IInv, crashed = "no", StoreUnit
             PROVE  IInv'
  OBVIOUS
<1> USE DEF StoreUnit, Store
<1>1. TypeOK /\ TypeOK' /\ EndsWithBuffer /\ UnitInPlace
  BY TypesStore DEF IInv
<1>2. /\ Capacity \in Nat /\ s_buf_length \in 0..Capacity /\ start_ptr \in Nat
      /\ Len(buffer.units) \in Nat /\ Len(unsent) \in Nat /\ jt \in 1..Len(buffer.units)
      /\ UnitType \in Kept /\ start_ptr + 4 + Len(Unit) = s_buf_length
  BY <1>1, Types DEF UnitInPlace
<1> DEFINE held == Framing(SubSeq(unsent, 1, Before + jt - 1))
<1>3. /\ held \in Payloads /\ Unit \in Payloads /\ Framed(Unit) \in Payloads
      /\ Framing(SubSeq(unsent, 1, Before + jt)) = held \o Framed(Unit)
      /\ Len(Framed(Unit)) = 4 + Len(Unit) /\ Len(Unit) \in Nat
      /\ \A k \in 1..Len(Unit) : Framed(Unit)[4 + k] = Unit[k]
  <2>1. camera # "idle" /\ jt <= Len(buffer.units)
    BY <1>2
  <2>2. held \in Payloads /\ Unit \in Payloads /\ Framing(SubSeq(unsent, 1, Before + jt)) = held \o Framed(Unit)
    BY <1>1, <2>1, WithUnit
  <2> HIDE DEF held
  <2> QED
    BY <2>2, FramedUnit
<1>4. Bytes(0, s_buf_length) = held \o Framed(Unit)
  BY <1>3 DEF IInv, Assembled, Copied
<1> HIDE DEF held
<1>5. /\ Len(held) \in Nat /\ Len(held \o Framed(Unit)) = Len(held) + Len(Framed(Unit))
      /\ \A i \in 1..Len(held) + Len(Framed(Unit)) : (held \o Framed(Unit))[i] =
             IF i <= Len(held) THEN held[i] ELSE Framed(Unit)[i - Len(held)]
  <2> DEFINE copy == Framed(Unit)
  <2>1. held \in Payloads /\ copy \in Payloads
    BY <1>3
  <2> HIDE DEF copy
  <2>2. /\ Len(held) \in Nat /\ Len(held \o copy) = Len(held) + Len(copy)
        /\ \A i \in 1..Len(held) + Len(copy) : (held \o copy)[i] = IF i <= Len(held) THEN held[i] ELSE copy[i - Len(held)]
    BY <2>1, Joined
  <2> QED
    BY <2>2 DEF copy
<1>6. /\ Len(Bytes(0, s_buf_length)) = s_buf_length
      /\ \A k \in 1..s_buf_length : Bytes(0, s_buf_length)[k] = s_buf[k - 1]
  BY <1>1, HeldBytes
<1>7. Len(held) = start_ptr
  BY <1>2, <1>3, <1>4, <1>5, <1>6
<1> DEFINE stored == Bytes(start_ptr + 4, start_ptr + s_buf_length)
<1>8. Len(Unit) <= Len(stored) /\ \A k \in 1..Len(Unit) : stored[k] = Unit[k]
  <2> DEFINE from == start_ptr + 4
             to == start_ptr + s_buf_length
  <2>1. /\ from \in Nat /\ to \in Nat /\ from <= to /\ Len(Unit) <= to - from
        /\ from + Len(Unit) = s_buf_length
    BY <1>2, <1>3
  <2>2. from = start_ptr + 4
    OBVIOUS
  <2>3. stored = Bytes(from, to)
    OBVIOUS
  <2> HIDE DEF from, to, stored
  <2>4. /\ Len(stored) = to - from
        /\ \A k \in 1..to - from : from + k - 1 < Capacity => stored[k] = s_buf[from + k - 1]
    BY <1>1, <2>1, <2>3, BytesType
  <2>5. ASSUME NEW k \in 1..Len(Unit)
        PROVE  stored[k] = Unit[k]
    <3>1. k \in 1..to - from /\ from + k - 1 < Capacity
      BY <1>2, <1>3, <2>1
    <3>2. /\ from + k \in 1..s_buf_length /\ (from + k) - 1 = from + k - 1
          /\ ~(from + k <= Len(held)) /\ (from + k) - Len(held) = 4 + k
          /\ from + k \in 1..Len(held) + Len(Framed(Unit))
      BY <1>2, <1>3, <1>7, <2>1, <2>2
    <3>3. s_buf[from + k - 1] = Framed(Unit)[4 + k]
      BY <1>4, <1>5, <1>6, <3>2
    <3> QED
      BY <1>3, <2>4, <3>1, <3>3
  <2> QED
    BY <2>1, <2>4, <2>5
<1> HIDE DEF stored
<1>9. StoredBeginsWithLatest'
  <2> SUFFICES ASSUME NEW t \in Kept
               PROVE  /\ Len(latest'[t]) <= Len(previousUnit'[t])
                      /\ \A k \in 1..Len(latest'[t]) : previousUnit'[t][k] = latest'[t][k]
    BY DEF StoredBeginsWithLatest
  <2>1. /\ previousUnit' = [previousUnit EXCEPT ![UnitType] = stored]
        /\ latest' = [latest EXCEPT ![UnitType] = Unit]
        /\ previousUnit \in [Kept -> Seq(Byte)] /\ latest \in [Kept -> Seq(0..255)]
    BY <1>1 DEF stored, TypeOK
  <2>2. CASE t = UnitType
    <3>1. previousUnit'[t] = stored /\ latest'[t] = Unit
      BY <2>1, <2>2
    <3> QED
      BY <1>8, <3>1
  <2>3. CASE t # UnitType
    <3>1. previousUnit'[t] = previousUnit[t] /\ latest'[t] = latest[t]
      BY <2>1, <2>3
    <3> QED
      BY <3>1 DEF IInv, StoredBeginsWithLatest
  <2> QED
    BY <2>2, <2>3
<1>10. Assembled'
  <2>1. Copied' = Before + jt /\ Copied = Before + jt
    BY <1>2 DEF Copied, Before
  <2>2. Bytes(0, s_buf_length)' = Bytes(0, s_buf_length) /\ unsent' = unsent
    BY DEF Bytes
  <2> QED
    BY <2>1, <2>2 DEF IInv, Assembled
<1>11. EndsWithBuffer'
  BY <1>1 DEF EndsWithBuffer, Before
<1>12. NothingLeft' /\ UnitInPlace'
  BY DEF NothingLeft, UnitInPlace
<1>13. OverflowOnlyIfTooLong'
  BY DEF OverflowOnlyIfTooLong
<1> QED
  BY <1>1, <1>9, <1>10, <1>11, <1>12, <1>13 DEF IInv

\* At the end of a buffer s_buf holds all units received since the last frame.
LEMMA WholeFrame == IInv /\ EndBuffer => Bytes(0, s_buf_length) = Framing(unsent)
<1> SUFFICES ASSUME IInv, EndBuffer
             PROVE  Bytes(0, s_buf_length) = Framing(unsent)
  OBVIOUS
<1>1. /\ TypeOK /\ camera = "copy" /\ jt > Len(buffer.units)
      /\ Len(buffer.units) \in Nat /\ jt \in 1..Len(buffer.units) + 1
      /\ unsent \in Seq(Payloads) /\ Len(unsent) \in Nat
  BY Types DEF IInv, EndBuffer
<1>2. Copied = Len(unsent)
  <2>1. jt = Len(buffer.units) + 1
    BY <1>1
  <2>2. Len(unsent) - Len(buffer.units) + jt - 1 = Len(unsent)
    BY <1>1, <2>1
  <2> QED
    BY <1>1, <2>2 DEF Copied, Before
<1>3. SubSeq(unsent, 1, Len(unsent)) = unsent
  BY <1>1, SubSeqFull
<1> QED
  BY <1>1, <1>2, <1>3 DEF IInv, Assembled

\* They stay there if the buffer is withheld, and are forgotten if it is not.
LEMMA HeldEnd == IInv /\ crashed = "no" /\ EndBuffer => IInv'
<1> SUFFICES ASSUME IInv, crashed = "no", EndBuffer
             PROVE  IInv'
  OBVIOUS
<1>1. TypeOK /\ TypeOK' /\ Bytes(0, s_buf_length) = Framing(unsent) /\ unsent \in Seq(Payloads)
  BY TypesEnd, WholeFrame, Types DEF IInv
<1> USE DEF EndBuffer
<1>2. Assembled'
  <2>1. CASE pending_frame
    <3>1. unsent' = unsent /\ Copied' = Len(unsent)
      BY <2>1 DEF Copied
    <3>2. SubSeq(unsent, 1, Len(unsent)) = unsent
      BY <1>1, SubSeqFull
    <3>3. Bytes(0, s_buf_length)' = Bytes(0, s_buf_length)
      BY DEF Bytes
    <3> QED
      BY <1>1, <3>1, <3>2, <3>3 DEF Assembled
  <2>2. CASE ~pending_frame
    BY <2>2 DEF Assembled
  <2> QED
    BY <2>1, <2>2
<1>3. NothingLeft'
  BY DEF NothingLeft
<1>4. EndsWithBuffer' /\ UnitInPlace'
  BY DEF EndsWithBuffer, UnitInPlace
<1>5. StoredBeginsWithLatest'
  BY DEF IInv, StoredBeginsWithLatest
<1>6. OverflowOnlyIfTooLong'
  BY DEF OverflowOnlyIfTooLong
<1> QED
  BY <1>1, <1>2, <1>3, <1>4, <1>5, <1>6 DEF IInv

\* What overflows s_buf is the units copied so far and the one to copy, which are
\* no longer than all that were received since the last frame.
LEMMA HeldOverflow == IInv /\ Overflow => Len(Framing(unsent)) > Capacity
<1> SUFFICES ASSUME IInv, Overflow
             PROVE  Len(Framing(unsent)) > Capacity
  OBVIOUS
<1>1. /\ TypeOK /\ EndsWithBuffer /\ camera = "copy" /\ jt <= Len(buffer.units)
      /\ s_buf_length + 4 + Len(Unit) > Capacity
  BY DEF IInv, Overflow, Copying
<1>2. /\ s_buf_length \in 0..Capacity /\ Capacity \in Nat
      /\ Len(unsent) \in Nat /\ unsent \in Seq(Payloads)
  BY <1>1, Types
<1> DEFINE held == Framing(SubSeq(unsent, 1, Before + jt - 1))
<1>3. /\ Framing(SubSeq(unsent, 1, Before + jt)) = held \o Framed(Unit)
      /\ held \in Payloads /\ Unit \in Payloads
  BY <1>1, WithUnit
<1>4. Bytes(0, s_buf_length) = held
  BY <1>1 DEF IInv, Assembled, Copied
<1> HIDE DEF held
<1>5. Len(held) = s_buf_length
  BY <1>1, <1>4, HeldBytes
<1>6. Framed(Unit) \in Payloads /\ Len(Framed(Unit)) = 4 + Len(Unit) /\ Len(Unit) \in Nat
  BY <1>3, FramedUnit
<1>7. Len(held \o Framed(Unit)) = s_buf_length + (4 + Len(Unit))
  <2> DEFINE copy == Framed(Unit)
  <2>1. held \in Payloads /\ copy \in Payloads /\ Len(copy) = 4 + Len(Unit)
    BY <1>3, <1>6
  <2> HIDE DEF copy
  <2>2. Len(held \o copy) = Len(held) + Len(copy)
    BY <2>1, Joined
  <2> QED
    BY <1>5, <2>1, <2>2 DEF copy
<1>8. Before + jt \in 0..Len(unsent)
  <2>1. Before + jt - 1 \in Nat /\ (Before + jt - 1) + 1 <= Len(unsent)
    BY <1>1, UnitOfUnsent
  <2>2. Before \in Int /\ jt \in Int
    BY <1>1, <1>2, Types DEF Before
  <2> HIDE DEF Before
  <2> QED
    BY <1>2, <2>1, <2>2
<1>9. Len(Framing(SubSeq(unsent, 1, Before + jt))) <= Len(Framing(unsent))
  BY <1>2, <1>8, FramingGrows
<1>10. Len(Framing(unsent)) \in Nat
  <2>1. Framing(unsent) \in Payloads
    BY <1>2, FramingType
  <2> QED
    BY <2>1, LenProperties DEF Payloads
<1> QED
  BY <1>1, <1>2, <1>3, <1>6, <1>7, <1>9, <1>10

\* MainThread, a crash and a client that is replaced leave the camera alone.
LEMMA HeldMain ==
    IInv /\ crashed = "no" /\ (MainStep \/ Overflow \/ Replace) => IInv'
<1> SUFFICES ASSUME IInv, crashed = "no", MainStep \/ Overflow \/ Replace
             PROVE  IInv'
  OBVIOUS
<1>1. TypeOK'
  BY TypesMain DEF IInv
<1>2. UNCHANGED cameraVars
  BY DEF MainStep, SetReady, Collect, Race, SendInitial, Overflow, Crash, Replace
<1>3. OverflowOnlyIfTooLong'
  <2>1. CASE Overflow
    <3>1. Len(Framing(unsent)) > Capacity
      BY <2>1, HeldOverflow
    <3> QED
      BY <1>2, <3>1 DEF OverflowOnlyIfTooLong, cameraVars
  <2>2. CASE MainStep \/ Replace
    <3>1. crashed' # "overflow"
      BY <2>2 DEF MainStep, SetReady, Collect, Race, SendInitial, Crash, Replace
    <3> QED
      BY <3>1 DEF OverflowOnlyIfTooLong
  <2> QED
    BY <2>1, <2>2
<1> QED
  BY <1>1, <1>2, <1>3, CameraKept DEF IInv

-----------------------------------------------------------------------------
(* The theorems.                                                           *)

\* At the start s_buf holds nothing.
LEMMA InitInv == Init => IInv
<1> SUFFICES ASSUME Init
             PROVE  IInv
  OBVIOUS
<1> USE DEF Init
<1>1. TypeOK
  <2>1. /\ s_buf \in [0..Capacity - 1 -> Byte] /\ s_buf_length \in 0..Capacity
        /\ start_ptr \in 0..Capacity
    BY FrameAssumption DEF Byte
  <2>2. /\ previousUnit \in [Kept -> Seq(Byte)] /\ latest \in [Kept -> Seq(0..255)]
        /\ unsent \in Seq(Seq(0..255)) /\ toCollect \in Seq(Kept) /\ units \in Seq(Byte)
        /\ message \in [from : {"nobody", "camera", "MainThread"}, data : Seq(Byte)]
    BY EmptySeq DEF NoMessage
  <2>3. /\ buffer \in Buffers \union {[config |-> FALSE, units |-> <<>>]}
        /\ jt \in 1..Len(buffer.units) + 1
    <3>1. buffer = [config |-> FALSE, units |-> <<>>] /\ jt = 1 /\ Len(<<>>) = 0
      OBVIOUS
    <3> QED
      BY <3>1
  <2> QED
    BY <2>1, <2>2, <2>3 DEF TypeOK
<1>2. Assembled /\ EndsWithBuffer /\ NothingLeft /\ UnitInPlace /\ OverflowOnlyIfTooLong
  BY DEF Assembled, EndsWithBuffer, NothingLeft, UnitInPlace, OverflowOnlyIfTooLong
<1>3. StoredBeginsWithLatest
  <2>1. \A t \in Kept : latest[t] = <<>> /\ previousUnit[t] = <<>> /\ Len(latest[t]) = 0
    OBVIOUS
  <2> QED
    BY <2>1 DEF StoredBeginsWithLatest
<1> QED
  BY <1>1, <1>2, <1>3 DEF IInv

\* The invariant is inductive.
LEMMA NextInv == IInv /\ [Next]_vars => IInv'
<1> SUFFICES ASSUME IInv, [Next]_vars
             PROVE  IInv'
  OBVIOUS
<1>1. CASE crashed = "no" /\ (\E b \in Buffers : BeginBuffer(b))
  BY <1>1, HeldBegin
<1>2. CASE crashed = "no" /\ CopyUnit
  BY <1>2, HeldCopy
<1>3. CASE crashed = "no" /\ StoreUnit
  BY <1>3, HeldStore
<1>4. CASE crashed = "no" /\ EndBuffer
  BY <1>4, HeldEnd
<1>5. CASE crashed = "no" /\ (MainStep \/ Overflow \/ Replace)
  BY <1>5, HeldMain
<1>6. CASE UNCHANGED vars
  <2>1. UNCHANGED cameraVars /\ crashed' = crashed
    BY <1>6 DEF vars
  <2>2. TypeOK'
    BY <1>6, TypesMain DEF IInv
  <2>3. OverflowOnlyIfTooLong'
    BY <2>1 DEF IInv, OverflowOnlyIfTooLong, cameraVars
  <2> QED
    BY <2>1, <2>2, <2>3, CameraKept DEF IInv
<1> QED
  BY <1>1, <1>2, <1>3, <1>4, <1>5, <1>6 DEF Next, CameraStep

\* In every state s_buf holds, each behind its length, the units copied since
\* the last frame ended, in order: what on_mmalcam_buffer (main.cpp) is about to send.
THEOREM Invariant == Spec => []IInv
<1> QED
  BY InitInv, NextInv, PTL DEF Spec

\* The types of the variables: the copy ends within s_buf and the iterator at
\* most behind the last unit of the buffer.
THEOREM TypeCorrect == Spec => []TypeOK
<1>1. IInv => TypeOK
  BY DEF IInv
<1> QED
  BY <1>1, Invariant, PTL

\* memcpy (main.cpp:292-293) writes past s_buf only where the frame at hand is too
\* long for it, whatever the sizes of the encoder's buffers: s_buf_length goes back
\* to 0 for each buffer that does not follow a config buffer.
THEOREM OverflowsTooLong == Spec => []OverflowOnlyIfTooLong
<1>1. IInv => OverflowOnlyIfTooLong
  BY DEF IInv
<1> QED
  BY <1>1, Invariant, PTL

\* A frame the camera sends is every unit received since the frame before,
\* once, in order, behind its length.
THEOREM FramesWhole == Spec => FrameIsWhole
<1>1. ASSUME IInv, [Next]_vars
      PROVE  [camera' = "idle" /\ camera # "idle" /\ message' # NoMessage
                => message'.data = Framing(unsent)]_vars
  <2> SUFFICES ASSUME camera' = "idle", camera # "idle", message' # NoMessage
               PROVE  message'.data = Framing(unsent)
    OBVIOUS
  <2>1. EndBuffer
    BY <1>1 DEF Next, CameraStep, MainStep, BeginBuffer, Begin, CopyUnit, Copying, Overflow, StoreUnit,
       Store, Crash, SetReady, Collect, Race, SendInitial, Replace, cameraVars, vars
  <2>2. Bytes(0, s_buf_length) = Framing(unsent)
    BY <1>1, <2>1, WholeFrame
  <2>3. message' = [from |-> "camera", data |-> Bytes(0, s_buf_length)]
    BY <2>1 DEF EndBuffer
  <2> QED
    BY <2>2, <2>3
<1> QED
  BY <1>1, Invariant, PTL DEF Spec, FrameIsWhole

\* What previousUnitType7, 8 and 5 hold begins with the last unit of that type:
\* the copies main.cpp keeps are wrong only in what follows the unit.
THEOREM StoredBegins == Spec => []StoredBeginsWithLatest
<1>1. IInv => StoredBeginsWithLatest
  BY DEF IInv
<1> QED
  BY <1>1, Invariant, PTL
=============================================================================
