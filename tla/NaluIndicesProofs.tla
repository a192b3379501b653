-------------------------- MODULE NaluIndicesProofs --------------------------
(***************************************************************************)
(* What FindNaluIndices returns, for buffers of any content and length.    *)
(*                                                                         *)
(* The invariant says of the loop at position i what the properties say of *)
(* its result: the units are the start codes before i, each but the last   *)
(* ends where the next one begins, and none reaches past i.                *)
(***************************************************************************)
EXTENDS NaluIndices, SequenceTheorems, TLAPS

\* The start codes the units of s stand for.
Starts(s) == {s[k].payload_start_offset - 3 : k \in 1..Len(s)}

\* A unit begins with its whole start code.
Whole(u) ==
    /\ CodeAt(u.payload_start_offset - 3)
    /\ u.start_offset \in {u.payload_start_offset - 4, u.payload_start_offset - 3}
    /\ u.start_offset = u.payload_start_offset - 4
        <=> u.payload_start_offset > 3 /\ ByteAt(u.payload_start_offset - 4) = 0

\* Unit k ends where the next one begins.
Closed(s, k) ==
    /\ s[k].payload_size >= 0
    /\ s[k].payload_start_offset + s[k].payload_size = s[k + 1].start_offset

\* s holds the units whose start codes begin before n.
Before(s, n) ==
    /\ Starts(s) = {j \in 0..End - 1 : j < n /\ CodeAt(j)}
    /\ \A k \in 1..Len(s) :
          /\ s[k].payload_start_offset \in 3..n
          /\ s[k].payload_start_offset < Size
          /\ Whole(s[k])
    /\ \A k \in 1..Len(s) - 1 : Closed(s, k)

Scanned == pc = "scan" => Size >= Short /\ Before(nalu_indices, i)

IInv == TypeOK /\ Scanned /\ FindsAll /\ Tiled /\ WholeStartCodes

\* The buffer is a sequence of bytes.
LEMMA BufferType ==
  ASSUME TypeOK
  PROVE  /\ buffer \in Seq(0..255) /\ Size \in Nat
         /\ \A k \in 0..Size - 1 : ByteAt(k) \in 0..255
  <1>1. buffer \in Seq(0..255) BY NaluAssumption DEF TypeOK
  <1>2. Size \in Nat BY <1>1 DEF Size
  <1>3. ASSUME NEW k \in 0..Size - 1 PROVE ByteAt(k) \in 0..255
    <2>1. k + 1 \in 1..Len(buffer) BY <1>1 DEF Size
    <2>. QED BY <1>1, <2>1, ElementOfSeq DEF ByteAt
  <1>. QED BY <1>1, <1>2, <1>3

\* CloseLast changes the last payload_size and nothing else.
LEMMA CloseLastStep ==
  ASSUME NEW s \in Seq(NaluIndex), NEW to \in Int
  PROVE  /\ CloseLast(s, to) \in Seq(NaluIndex)
         /\ Len(CloseLast(s, to)) = Len(s)
         /\ \A k \in 1..Len(s) :
               /\ CloseLast(s, to)[k].start_offset = s[k].start_offset
               /\ CloseLast(s, to)[k].payload_start_offset = s[k].payload_start_offset
               /\ CloseLast(s, to)[k].payload_size
                   = IF k = Len(s) THEN to - s[k].payload_start_offset ELSE s[k].payload_size
  <1>1. CASE s = <<>> BY <1>1 DEF CloseLast
  <1>2. CASE s # <<>>
    <2>1. Len(s) \in 1..Len(s) /\ s[Len(s)] \in NaluIndex BY <1>2
    <2>2. to - s[Len(s)].payload_start_offset \in Int BY <2>1 DEF NaluIndex
    <2>3. [s[Len(s)] EXCEPT !.payload_size = to - s[Len(s)].payload_start_offset] \in NaluIndex
      BY <2>1, <2>2 DEF NaluIndex
    <2>4. CloseLast(s, to) = [s EXCEPT ![Len(s)] =
              [s[Len(s)] EXCEPT !.payload_size = to - s[Len(s)].payload_start_offset]]
      BY <1>2 DEF CloseLast
    <2>5. CloseLast(s, to) \in Seq(NaluIndex) /\ Len(CloseLast(s, to)) = Len(s)
      BY <2>1, <2>3, <2>4
    <2>6. \A k \in 1..Len(s) : s[k] \in NaluIndex OBVIOUS
    <2>. QED BY <2>1, <2>4, <2>5, <2>6 DEF NaluIndex
  <1>. QED BY <1>1, <1>2

\* Bytes that begin no start code may be passed over.
LEMMA PassOver ==
  ASSUME TypeOK, NEW s \in Seq(NaluIndex), NEW n \in Nat, NEW m \in Nat,
         n < m, Before(s, n), \A j \in n..m - 1 : ~CodeAt(j)
  PROVE  Before(s, m)
  <1>1. End \in Int BY BufferType DEF End, Short
  <1>2. {j \in 0..End - 1 : j < n /\ CodeAt(j)} = {j \in 0..End - 1 : j < m /\ CodeAt(j)}
    <2>1. ASSUME NEW j \in 0..End - 1 PROVE j < m <=> j < n \/ j \in n..m - 1
      BY <1>1
    <2>. QED BY <2>1
  <1>3. ASSUME NEW k \in 1..Len(s) PROVE s[k].payload_start_offset \in 3..m
    BY DEF Before
  <1>. QED BY <1>2, <1>3 DEF Before

\* A step over bytes that end no start code.
LEMMA SkipSteps == ASSUME IInv, SkipThree \/ SkipOne \/ SkipLoneOne PROVE IInv'
  <1>1. PICK n \in {i + 1, i + 3} :
            /\ Scanning /\ i' = n /\ UNCHANGED <<buffer, nalu_indices, pc>>
            /\ ByteAt(i + 2) # 0 \/ n = i + 1
            /\ ~CodeAt(i)
    BY DEF SkipThree, SkipOne, SkipLoneOne, StartCode, CodeAt, Scanning
  <1>2. i \in Nat /\ n \in Nat /\ nalu_indices \in Seq(NaluIndex)
    BY <1>1 DEF IInv, TypeOK
  <1>3. \A j \in i..n - 1 : ~CodeAt(j)
    <2>1. CASE n = i + 1 BY <1>1, <1>2, <2>1
    <2>2. CASE n = i + 3
      <3>1. ByteAt(i + 2) # 0 BY <1>1, <1>2, <2>2
      <3>2. ~CodeAt(i + 1) BY <3>1, <1>2 DEF CodeAt
      <3>3. ~CodeAt(i + 2) BY <3>1, <1>2 DEF CodeAt
      <3>4. i..n - 1 = {i, i + 1, i + 2} BY <1>2, <2>2
      <3>. QED BY <1>1, <3>2, <3>3, <3>4
    <2>. QED BY <1>1, <2>1, <2>2
  <1>4. TypeOK' BY <1>1, <1>2 DEF IInv, TypeOK
  <1>5. Scanned'
    <2>1. Size >= Short /\ Before(nalu_indices, i) BY <1>1 DEF IInv, Scanned, Scanning
    <2>2. i < n BY <1>2
    <2>3. Before(nalu_indices, n) BY <1>2, <1>3, <2>1, <2>2, PassOver DEF IInv
    <2>. QED BY <1>1, <2>1, <2>3
         DEF Scanned, Before, Starts, Whole, Closed, CodeAt, ByteAt, Size, End, Short
  <1>6. (FindsAll /\ Tiled /\ WholeStartCodes)'
    BY <1>1 DEF Scanning, FindsAll, Tiled, WholeStartCodes, Searched
  <1>. QED BY <1>4, <1>5, <1>6 DEF IInv

\* The start code at n ends the last unit, which does not reach into it, and
\* begins a new one.
LEMMA FindOne ==
  ASSUME TypeOK, NEW s \in Seq(NaluIndex), i < End, Before(s, i), CodeAt(i),
         NEW t, t = Append(CloseLast(s, LongStart), NewUnit(LongStart))
  PROVE  t \in Seq(NaluIndex) /\ Before(t, i + 3)
  <1>. DEFINE N == Len(s)
              L == LongStart
  <1>1. N \in Nat /\ End \in Int /\ End = Size - 3 /\ i \in Nat /\ Size \in Nat
    BY BufferType DEF End, Short, TypeOK
  <1>2. L \in Nat /\ L \in {i - 1, i} /\ (L = i - 1 <=> i > 0 /\ ByteAt(i - 1) = 0)
    BY <1>1 DEF LongStart
  <1>. HIDE DEF L
  <1>3. NewUnit(L) \in NaluIndex /\ NewUnit(L).start_offset = L
           /\ NewUnit(L).payload_start_offset = i + 3 /\ NewUnit(L).payload_size = 0
    BY <1>1, <1>2 DEF NewUnit, NaluIndex
  <1>4. /\ t \in Seq(NaluIndex) /\ Len(t) = N + 1 /\ t[N + 1] = NewUnit(L)
        /\ \A k \in 1..N : t[k] = CloseLast(s, L)[k]
    BY <1>2, <1>3, CloseLastStep DEF L
  <1>5. \A k \in 1..N : s[k] \in NaluIndex /\ t[k] \in NaluIndex
    BY <1>1, <1>4
  <1>6. \A k \in 1..N : /\ t[k].start_offset = s[k].start_offset
                        /\ t[k].payload_start_offset = s[k].payload_start_offset
                        /\ t[k].payload_size = IF k = N THEN L - s[k].payload_start_offset
                                                        ELSE s[k].payload_size
    BY <1>2, <1>4, CloseLastStep
  <1>7. Starts(t) = {j \in 0..End - 1 : j < i + 3 /\ CodeAt(j)}
    <2>1. Starts(t) = Starts(s) \cup {i}
      <3>1. 1..Len(t) = (1..N) \cup {N + 1} BY <1>1, <1>4
      <3>2. t[N + 1].payload_start_offset - 3 = i BY <1>1, <1>3, <1>4
      <3>3. Starts(t) = {t[k].payload_start_offset - 3 : k \in 1..N} \cup {i}
        BY <3>1, <3>2 DEF Starts
      <3>4. {t[k].payload_start_offset - 3 : k \in 1..N} = Starts(s) BY <1>6 DEF Starts
      <3>. QED BY <3>3, <3>4
    <2>2. ~CodeAt(i + 1) /\ ~CodeAt(i + 2) BY <1>1 DEF CodeAt
    <2>3. ASSUME NEW j \in 0..End - 1
          PROVE  j < i + 3 <=> j < i \/ j = i \/ j = i + 1 \/ j = i + 2
      BY <1>1
    <2>4. i \in 0..End - 1 BY <1>1
    <2>. QED BY <2>1, <2>2, <2>3, <2>4 DEF Before
  <1>8. ASSUME NEW k \in 1..Len(t)
        PROVE  t[k].payload_start_offset \in 3..i + 3 /\ t[k].payload_start_offset < Size
               /\ Whole(t[k])
    <2>1. CASE k \in 1..N
      <3>1. s[k].payload_start_offset \in 3..i + 3 /\ s[k].payload_start_offset < Size /\ Whole(s[k])
        BY <1>1, <2>1 DEF Before
      <3>. QED BY <1>6, <2>1, <3>1 DEF Whole
    <2>2. CASE k = N + 1
      <3>1. t[k].start_offset = L /\ t[k].payload_start_offset = i + 3
        BY <1>3, <1>4, <2>2
      <3>2. (i + 3) - 3 = i /\ (i + 3) - 4 = i - 1 /\ (i + 3 > 3 <=> i > 0) BY <1>1
      <3>3. Whole(t[k]) BY <1>2, <3>1, <3>2 DEF Whole
      <3>. QED BY <1>1, <3>1, <3>3
    <2>. QED BY <1>1, <1>4, <2>1, <2>2
  <1>9. ASSUME NEW k \in 1..Len(t) - 1 PROVE Closed(t, k)
    <2>1. k \in 1..N BY <1>1, <1>4
    <2>2. CASE k # N
      <3>1. k \in 1..N - 1 /\ k + 1 \in 1..N BY <1>1, <2>1, <2>2
      <3>2. Closed(s, k) BY <3>1 DEF Before
      <3>. QED BY <1>6, <2>1, <2>2, <3>1, <3>2 DEF Closed
    <2>3. CASE k = N
      <3>. DEFINE p == s[k].payload_start_offset
      <3>1. p \in 3..i /\ Whole(s[k]) BY <2>1 DEF Before
      <3>2. p = i => ByteAt(i - 1) = 1
        <4>1. (i - 3) + 2 = i - 1 BY <1>1
        <4>. QED BY <3>1, <4>1 DEF Whole, CodeAt
      <3>3. p =< L BY <1>1, <1>2, <3>1, <3>2
      <3>4. t[k].payload_size = L - p /\ t[k].payload_start_offset = p /\ t[k + 1].start_offset = L
        BY <1>3, <1>4, <1>6, <2>1, <2>3
      <3>5. p \in Int /\ L \in Int BY <1>2, <3>1
      <3>. HIDE DEF p
      <3>. QED BY <3>3, <3>4, <3>5 DEF Closed
    <2>. QED BY <2>2, <2>3
  <1>. QED BY <1>4, <1>7, <1>8, <1>9 DEF Before

\* A start code extends the units.
LEMMA FindStep == ASSUME IInv, Find PROVE IInv'
  <1>1. pc = "scan" /\ i < End /\ CodeAt(i) /\ UNCHANGED <<buffer, pc>>
    BY DEF Find, Scanning, StartCode, CodeAt
  <1>2. PICK t : t = Append(CloseLast(nalu_indices, LongStart), NewUnit(LongStart))
    OBVIOUS
  <1>3. nalu_indices' = t /\ i' = i + 3 BY <1>2 DEF Find
  <1>4. Size >= Short /\ Before(nalu_indices, i) BY <1>1 DEF IInv, Scanned
  <1>5. t \in Seq(NaluIndex) /\ Before(t, i + 3)
    BY <1>1, <1>2, <1>4, FindOne DEF IInv, TypeOK
  <1>6. TypeOK' BY <1>1, <1>3, <1>5 DEF IInv, TypeOK
  <1>7. Scanned'
    BY <1>1, <1>3, <1>4, <1>5
    DEF Scanned, Before, Starts, Whole, Closed, CodeAt, ByteAt, Size, End, Short
  <1>8. (FindsAll /\ Tiled /\ WholeStartCodes)'
    BY <1>1 DEF FindsAll, Tiled, WholeStartCodes, Searched
  <1>. QED BY <1>6, <1>7, <1>8 DEF IInv

\* Past the end of the loop, the units before the position are all there are.
LEMMA ReturnStep == ASSUME IInv, Return PROVE IInv'
  <1>. DEFINE s == nalu_indices
              N == Len(s)
  <1>1. PICK t : t = CloseLast(s, Size) OBVIOUS
  <1>2. pc = "scan" /\ i >= End /\ pc' = "returned" /\ nalu_indices' = t /\ UNCHANGED <<buffer, i>>
    BY <1>1 DEF Return
  <1>3. Size >= Short /\ Before(s, i) BY <1>2 DEF IInv, Scanned
  <1>4. i \in Nat /\ Size \in Nat /\ End \in Int /\ s \in Seq(NaluIndex) /\ N \in Nat
    BY BufferType DEF IInv, TypeOK, End, Short
  <1>5. /\ t \in Seq(NaluIndex) /\ Len(t) = N
        /\ \A k \in 1..N : /\ t[k].start_offset = s[k].start_offset
                           /\ t[k].payload_start_offset = s[k].payload_start_offset
                           /\ t[k].payload_size = IF k = N THEN Size - s[k].payload_start_offset
                                                           ELSE s[k].payload_size
    BY <1>1, <1>4, CloseLastStep
  <1>6. TypeOK' BY <1>2, <1>5 DEF IInv, TypeOK
  <1>7. Scanned' BY <1>2 DEF Scanned
  <1>8. FindsAll'
    <2>1. Starts(t) = Starts(s) BY <1>5 DEF Starts
    <2>2. \A j \in 0..End - 1 : j < i BY <1>2, <1>4
    <2>3. Starts(t) = {j \in 0..End - 1 : CodeAt(j)} BY <1>3, <2>1, <2>2 DEF Before
    <2>. QED BY <1>2, <2>3 DEF FindsAll, Starts, CodeAt, ByteAt, End, Size, Short
  <1>9. Tiled'
    <2>1. ASSUME NEW k \in 1..Len(t)
          PROVE  /\ t[k].payload_size >= 0
                 /\ t[k].payload_start_offset + t[k].payload_size
                     = IF k = Len(t) THEN Size ELSE t[k + 1].start_offset
      <3>1. k \in 1..N BY <1>5
      <3>. DEFINE p == s[k].payload_start_offset
      <3>2. p \in Int /\ p < Size BY <1>3, <1>4, <3>1 DEF Before
      <3>3. CASE k = N
        <4>1. t[k].payload_size = Size - p /\ t[k].payload_start_offset = p BY <1>5, <3>1, <3>3
        <4>. HIDE DEF p
        <4>. QED BY <1>4, <1>5, <3>2, <3>3, <4>1
      <3>4. CASE k # N
        <4>1. k \in 1..N - 1 /\ k + 1 \in 1..N BY <1>4, <3>1, <3>4
        <4>2. Closed(s, k) BY <1>3, <4>1 DEF Before
        <4>. QED BY <1>5, <3>1, <3>4, <4>1, <4>2 DEF Closed
      <3>. QED BY <3>3, <3>4
    <2>. QED BY <1>2, <2>1 DEF Tiled, Size
  <1>10. WholeStartCodes'
    <2>1. ASSUME NEW k \in 1..Len(t) PROVE Whole(t[k])
      BY <1>3, <1>5 DEF Before, Whole
    <2>. QED BY <1>2, <2>1 DEF WholeStartCodes, Whole, CodeAt, ByteAt
  <1>. QED BY <1>6, <1>7, <1>8, <1>9, <1>10 DEF IInv

\* A fresh loop has found nothing.
LEMMA FreshLoop == ASSUME TypeOK PROVE Before(<<>>, 0)
  <1>1. End \in Int BY BufferType DEF End, Short
  <1>2. {j \in 0..End - 1 : j < 0 /\ CodeAt(j)} = {} BY <1>1
  <1>. QED BY <1>2 DEF Before, Starts

\* A call begins with the first byte of its buffer.
LEMMA CallStep == ASSUME IInv, NEW b \in Later, Call(b) PROVE IInv'
  <1>1. TypeOK'
    <2>1. b \in Buffers /\ buffer' = b /\ i' = 0 BY NaluAssumption DEF Call
    <2>2. nalu_indices' \in Seq(NaluIndex) /\ pc' \in {"scan", "returned"}
      <3>1. nalu_indices' = nalu_indices \/ nalu_indices' = <<>> BY DEF Call
      <3>2. <<>> \in Seq(NaluIndex) OBVIOUS
      <3>3. pc' = pc \/ pc' = "scan" BY DEF Call
      <3>. QED BY <3>1, <3>2, <3>3 DEF IInv, TypeOK
    <2>. QED BY <2>1, <2>2 DEF TypeOK
  <1>2. Len(b) \in Nat BY NaluAssumption
  <1>3. CASE Len(b) < Short
    <2>1. pc' = "returned" /\ ~(Size >= Short)' BY <1>2, <1>3 DEF Call, Size, Short
    <2>. QED BY <1>1, <2>1 DEF IInv, Scanned, FindsAll, Tiled, WholeStartCodes, Searched
  <1>4. CASE ~(Len(b) < Short)
    <2>1. nalu_indices' = <<>> /\ i' = 0 /\ pc' = "scan" /\ (Size >= Short)'
      BY <1>2, <1>4 DEF Call, Size, Short
    <2>2. Before(<<>>, 0)' BY <1>1, FreshLoop, PTL
    <2>3. Scanned' BY <2>1, <2>2 DEF Scanned, Before, Starts, Whole, Closed
    <2>. QED BY <1>1, <2>1, <2>3 DEF IInv, FindsAll, Tiled, WholeStartCodes, Searched
  <1>. QED BY <1>3, <1>4

\* Before the search nothing is searched and nothing found.
LEMMA InitInv == ASSUME Init PROVE IInv
  <1>1. TypeOK BY DEF Init, TypeOK
  <1>2. Size \in Nat BY <1>1, BufferType
  <1>3. Scanned BY <1>1, <1>2, FreshLoop DEF Init, Scanned, Short
  <1>4. FindsAll /\ Tiled /\ WholeStartCodes
    BY <1>2 DEF Init, FindsAll, Tiled, WholeStartCodes, Searched, Short
  <1>. QED BY <1>1, <1>3, <1>4 DEF IInv

\* The inductive invariant, for buffers of any content and length.
THEOREM Invariant == SafeSpec => []IInv
  <1>1. Init => IInv BY InitInv
  <1>2. IInv /\ [Next]_vars => IInv'
    <2>1. ASSUME IInv, UNCHANGED vars PROVE IInv'
      BY <2>1 DEF vars, IInv, TypeOK, Scanned, Before, Starts, Whole, Closed, FindsAll, Tiled,
                  WholeStartCodes, Searched, CodeAt, ByteAt, Size, End, Short
    <2>. QED BY <2>1, SkipSteps, FindStep, ReturnStep, CallStep DEF Next, Step
  <1>. QED BY <1>1, <1>2, PTL DEF SafeSpec

\* The variables keep their types: no offset is ever negative.
THEOREM TypeCorrect == SafeSpec => []TypeOK
  BY Invariant, PTL DEF IInv

\* The search finds every start code with a byte after it, and nothing else.
THEOREM SearchComplete == SafeSpec => []FindsAll
  BY Invariant, PTL DEF IInv

\* The units it returns tile the buffer from the first start code on.
THEOREM UnitsTile == SafeSpec => []Tiled
  BY Invariant, PTL DEF IInv

\* The units it returns begin with their whole start codes.
THEOREM StartCodesWhole == SafeSpec => []WholeStartCodes
  BY Invariant, PTL DEF IInv
=============================================================================
