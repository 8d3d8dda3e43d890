------------------------------- MODULE LogProofs -------------------------------
(***************************************************************************)
(* Proofs about the write-ahead log, for every log and every number of     *)
(* records.  What the loop of readAllRecords reads is a recursive function *)
(* of the file; the lemmas say what it reads of a file to which cells were *)
(* appended, by induction from the last position of the file to the first. *)
(* The invariant is about the stream, the file with the buffer behind it:  *)
(* a crash cuts the stream anywhere, and the file is what is left of it.   *)
(***************************************************************************)
EXTENDS LogManager, ListLemmas

-------------------------------------------------------------------------------
(* The loop of readAllRecords *)

\* What readAllRecords may return in one place: a record or garbage.
Read == LogRecord \cup {Garbage}

\* One turn of the loop of readAllRecords, given what it reads further on.
ReadStep(f, R, i) ==
  IF i > Len(f) THEN <<>>
  ELSE IF f[i].part # 0 THEN <<Garbage>>
  ELSE LET next == i + BodyLen(f[i].rec) + 1 IN
       IF next > Len(f) + 1 THEN <<>>
       ELSE <<deserializeRecord(SubSeq(f, i + 1, next - 1))>> \o R[next]

\* R is the recursive function of readFrom: what the loop reads from each cell on.
IsReading(f, R) == R = [i \in 1 .. Len(f) + 1 |-> ReadStep(f, R, i)]

\* R is what the loop reads from each position of f on.
Reads(f, R) == \A i \in 1 .. Len(f) + 1 : R[i] = ReadStep(f, R, i)

\* Where the loop goes after the record whose size is at position i.
after(f, i) == i + BodyLen(f[i].rec) + 1

\* The loop stops at position i because the file ends there.
Stops(f, i) == i = Len(f) + 1 \/ (f[i].part = 0 /\ after(f, i) > Len(f) + 1)

\* g is f with cells appended.
Longer(g, f) == Len(f) <= Len(g) /\ \A k \in 1 .. Len(f) : g[k] = f[k]

\* A record has one body cell or two: the loop always moves on.
LEMMA BodyLenType == \A rec : BodyLen(rec) \in {1, 2}
BY DEF BodyLen

\* The loop of readAllRecords ends on every file: by induction on the number of
\* cells that are left, there is a function that it computes.
LEMMA ReadingExists ==
  ASSUME NEW f \in Seq(Cell)
  PROVE  \E R : IsReading(f, R)
<1> DEFINE N == Len(f) + 1
           Good(R, k) == \A i \in 1 .. N : i > N - k => R[i] = ReadStep(f, R, i)
           K == {k \in Nat : \E R : R = [i \in 1 .. N |-> R[i]] /\ Good(R, k)}
<1>0. N \in Nat \ {0}
  OBVIOUS
<1>1. 0 \in K
  <2> DEFINE Z == [i \in 1 .. N |-> <<>>]
  <2>1. Z = [i \in 1 .. N |-> Z[i]] /\ Good(Z, 0)
    BY <1>0
  <2>2. QED BY <2>1
<1>2. ASSUME NEW k \in Nat, k \in K PROVE k + 1 \in K
  <2>1. PICK R : R = [i \in 1 .. N |-> R[i]] /\ Good(R, k)
    BY <1>2
  <2> DEFINE Q == [i \in 1 .. N |-> IF i = N - k THEN ReadStep(f, R, i) ELSE R[i]]
  <2>2. ASSUME NEW i \in 1 .. N, i > N - (k + 1) PROVE Q[i] = ReadStep(f, Q, i)
    <3>1. ReadStep(f, Q, i) = ReadStep(f, R, i)
      <4> DEFINE next == i + BodyLen(f[i].rec) + 1
      <4>1. next \in Nat /\ next > N - k /\ next > i
        BY <1>0, <2>2, BodyLenType
      <4>2. next \in 1 .. N => Q[next] = R[next]
        BY <4>1, <1>0
      <4>3. next <= Len(f) + 1 => next \in 1 .. N
        BY <4>1, <1>0
      <4> HIDE DEF Q
      <4>4. CASE next <= Len(f) + 1
        <5>1. Q[next] = R[next]
          BY <4>2, <4>3, <4>4
        <5> HIDE DEF next
        <5>2. QED BY <5>1 DEF ReadStep, next
      <4>5. CASE ~(next <= Len(f) + 1)
        <5>1. next > Len(f) + 1
          BY <4>1, <4>5
        <5>2. QED BY <5>1 DEF ReadStep
      <4>6. QED BY <4>4, <4>5
    <3>2. Q[i] = ReadStep(f, R, i)
      <4>1. CASE i = N - k BY <4>1
      <4>2. CASE i # N - k
        <5>1. i > N - k BY <1>0, <2>2, <4>2
        <5>2. QED BY <2>1, <4>2, <5>1
      <4>3. QED BY <4>1, <4>2
    <3>3. QED BY <3>1, <3>2
  <2>3. Q = [i \in 1 .. N |-> Q[i]]
    OBVIOUS
  <2> HIDE DEF Q
  <2>4. Good(Q, k + 1)
    BY <2>2
  <2>5. QED BY <2>3, <2>4
<1>3. Nat \subseteq K
  <2> HIDE DEF K
  <2>1. QED BY <1>1, <1>2, SetInduction
<1>4. PICK R : R = [i \in 1 .. N |-> R[i]] /\ Good(R, N)
  BY <1>0, <1>3
<1>5. \A i \in 1 .. N : R[i] = ReadStep(f, R, i)
  BY <1>0, <1>4
<1>6. R = [i \in 1 .. N |-> ReadStep(f, R, i)]
  BY <1>4, <1>5
<1>7. QED BY <1>6 DEF IsReading

\* readFrom is that function at the first cell.
LEMMA ReadFromEq ==
  ASSUME NEW f \in Seq(Cell)
  PROVE  \E R : /\ readFrom(f) = R[1]
                /\ Reads(f, R)
<1> DEFINE R == CHOOSE R : IsReading(f, R)
<1>1. IsReading(f, R)
  BY ReadingExists
<1>2. readFrom(f) = R[1]
  BY DEF readFrom, IsReading, ReadStep
<1> HIDE DEF R
<1>3. QED BY <1>1, <1>2 DEF IsReading, Reads

\* The turn of the loop at position i: the place of the next turn,
LEMMA AfterType ==
  ASSUME NEW f, NEW i \in Nat
  PROVE  after(f, i) \in Nat /\ after(f, i) > i + 1 /\ after(f, i) <= i + 3
BY BodyLenType DEF after

\* the end of the file, or a torn record there,
LEMMA ReadStops ==
  ASSUME NEW f \in Seq(Cell), NEW R, Reads(f, R), NEW i \in 1 .. Len(f) + 1, Stops(f, i)
  PROVE  R[i] = <<>>
<1>1. R[i] = ReadStep(f, R, i)
  BY DEF Reads
<1>2. after(f, i) \in Nat
  BY AfterType
<1>3. QED BY <1>1, <1>2 DEF Stops, after, ReadStep

\* a body cell in the place of a size,
LEMMA ReadStuck ==
  ASSUME NEW f \in Seq(Cell), NEW R, Reads(f, R), NEW i \in 1 .. Len(f), f[i].part # 0
  PROVE  R[i] = <<Garbage>>
<1>1. i \in 1 .. Len(f) + 1
  OBVIOUS
<1>2. R[i] = ReadStep(f, R, i)
  BY <1>1 DEF Reads
<1>3. ~(i > Len(f))
  OBVIOUS
<1>4. QED BY <1>2, <1>3 DEF ReadStep

\* and a record.
LEMMA ReadRecord ==
  ASSUME NEW f \in Seq(Cell), NEW R, Reads(f, R), NEW i \in 1 .. Len(f), f[i].part = 0,
         after(f, i) <= Len(f) + 1
  PROVE  R[i] = <<deserializeRecord(SubSeq(f, i + 1, after(f, i) - 1))>> \o R[after(f, i)]
<1> DEFINE next == after(f, i)
<1>1. i \in 1 .. Len(f) + 1 /\ next \in Nat
  BY AfterType
<1>2. R[i] = ReadStep(f, R, i)
  BY <1>1 DEF Reads
<1>3. ~(i > Len(f)) /\ ~(next > Len(f) + 1)
  BY <1>1
<1>4. QED BY <1>2, <1>3 DEF ReadStep, after

\* The cells of a record's body.
LEMMA BodyCells ==
  ASSUME NEW f \in Seq(Cell), NEW a \in Nat, NEW b \in Nat, 1 <= a, a <= b, b <= Len(f)
  PROVE  /\ SubSeq(f, a, b) \in Seq(Cell) /\ Len(SubSeq(f, a, b)) = b - a + 1
         /\ \A i \in 1 .. b - a + 1 : SubSeq(f, a, b)[i] = f[a + i - 1]
<1>1. \A i \in a .. b : f[i] \in Cell
  BY ElementOfSeq
<1>2. QED BY <1>1, SubSeqProperties, Z3

\* deserializeRecord makes a record or garbage of the cells that it is given.
LEMMA DeserializeType ==
  ASSUME NEW cells \in Seq(Cell), Len(cells) > 0
  PROVE  deserializeRecord(cells) \in Read
<1>1. cells[1] \in Cell
  BY ElementOfSeq
<1>2. QED BY <1>1 DEF deserializeRecord, Read, Cell

\* The record between two positions is read, as garbage perhaps.
LEMMA RecordType ==
  ASSUME NEW f \in Seq(Cell), NEW i \in 1 .. Len(f), NEW next \in Nat,
         next > i + 1, next <= Len(f) + 1
  PROVE  deserializeRecord(SubSeq(f, i + 1, next - 1)) \in Read
<1> DEFINE b == SubSeq(f, i + 1, next - 1)
<1>1. b \in Seq(Cell) /\ Len(b) > 0
  BY BodyCells
<1> HIDE DEF b
<1>2. deserializeRecord(b) \in Read
  BY <1>1, DeserializeType
<1>3. QED BY <1>2 DEF b

\* Every position is the end, or stuck, or torn, or begins a record.
LEMMA ReadCases ==
  ASSUME NEW f \in Seq(Cell), NEW i \in 1 .. Len(f) + 1
  PROVE  \/ Stops(f, i)
         \/ i \in 1 .. Len(f) /\ f[i].part # 0
         \/ i \in 1 .. Len(f) /\ f[i].part = 0 /\ after(f, i) <= Len(f) + 1
<1>1. after(f, i) \in Nat
  BY AfterType
<1>2. QED BY <1>1 DEF Stops

\* From every position on, the loop reads records and garbage.
LEMMA ReadingType ==
  ASSUME NEW f \in Seq(Cell), NEW R, Reads(f, R)
  PROVE  \A i \in 1 .. Len(f) + 1 : R[i] \in Seq(Read)
<1> DEFINE N == Len(f) + 1
           S == {i \in 1 .. N : R[i] \in Seq(Read)}
<1>0. N \in Nat
  OBVIOUS
<1>1. ASSUME NEW i \in 1 .. N, \A j \in i + 1 .. N : j \in S PROVE i \in S
  <2> DEFINE next == after(f, i)
  <2>1. next \in Nat /\ next > i + 1
    BY AfterType
  <2> HIDE DEF next
  <2> SUFFICES R[i] \in Seq(Read)
    OBVIOUS
  <2>2. CASE Stops(f, i)
    <3>1. R[i] = <<>> BY <2>2, ReadStops
    <3>2. QED BY <3>1
  <2>3. CASE i \in 1 .. Len(f) /\ f[i].part # 0
    <3>1. R[i] = <<Garbage>> BY <2>3, ReadStuck
    <3>2. QED BY <3>1 DEF Read
  <2>4. CASE i \in 1 .. Len(f) /\ f[i].part = 0 /\ next <= Len(f) + 1
    <3> DEFINE d == deserializeRecord(SubSeq(f, i + 1, next - 1))
               r == R[next]
    <3>1. R[i] = <<d>> \o r
      BY <2>4, ReadRecord DEF next
    <3>2. d \in Read
      BY <2>1, <2>4, RecordType
    <3>3. r \in Seq(Read)
      BY <1>1, <2>1, <2>4
    <3> HIDE DEF d, r
    <3>4. QED BY <3>1, <3>2, <3>3
  <2>5. QED BY <2>2, <2>3, <2>4, ReadCases DEF next
<1>2. 1 .. N \subseteq S
  <2> HIDE DEF S, N
  <2>1. QED BY <1>0, <1>1, DownInduction
<1>3. QED BY <1>2

\* Cells that are there stay where they are.
LEMMA SameCells ==
  ASSUME NEW f \in Seq(Cell), NEW g \in Seq(Cell), Longer(g, f),
         NEW a \in Nat, NEW b \in Nat, 1 <= a, a <= b, b <= Len(f)
  PROVE  SubSeq(g, a, b) = SubSeq(f, a, b)
<1> DEFINE x == SubSeq(g, a, b)
           y == SubSeq(f, a, b)
           m == b - a + 1
<1>1. b <= Len(g)
  BY DEF Longer
<1>2. y \in Seq(Cell) /\ Len(y) = m /\ \A k \in 1 .. m : y[k] = f[a + k - 1]
  BY BodyCells
<1>3. x \in Seq(Cell) /\ Len(x) = m /\ \A k \in 1 .. m : x[k] = g[a + k - 1]
  BY <1>1, BodyCells
<1>4. \A k \in 1 .. m : a + k - 1 \in 1 .. Len(f)
  OBVIOUS
<1> HIDE DEF x, y, m
<1>5. \A k \in 1 .. Len(x) : x[k] = y[k]
  BY <1>2, <1>3, <1>4 DEF Longer
<1>6. x = y
  BY <1>2, <1>3, <1>5, SeqEqual
<1>7. QED BY <1>6 DEF x, y

\* t is s with one of the sequences in U behind it.
Adds(t, s, U) == \E u \in U : t = s \o u

\* From where the loop stops in f, Q has one of the sequences in U.
Beyond(f, Q, U) == \A i \in 1 .. Len(f) + 1 : Stops(f, i) => Q[i] \in U

\* What the loop reads of a longer file: the same records, and then what it reads
\* from the place where it stopped in the shorter one.
LEMMA Extension ==
  ASSUME NEW f \in Seq(Cell), NEW g \in Seq(Cell), Longer(g, f),
         NEW R, Reads(f, R), NEW Q, Reads(g, Q),
         NEW U, U \subseteq Seq(Read), <<>> \in U,
         Beyond(f, Q, U)
  PROVE  Adds(Q[1], R[1], U)
<1> DEFINE N == Len(f) + 1
           S == {i \in 1 .. N : \E u \in U : Q[i] = R[i] \o u}
<1>0. N \in Nat /\ 1 \in 1 .. N /\ Len(g) \in Nat /\ Len(f) \in Nat /\ Len(f) <= Len(g)
  BY DEF Longer
<1>1. ASSUME NEW i \in 1 .. N, \A j \in i + 1 .. N : j \in S PROVE i \in S
  <2> DEFINE next == after(f, i)
             d == deserializeRecord(SubSeq(f, i + 1, next - 1))
  <2>1. next \in Nat /\ next > i + 1
    BY AfterType
  <2>2. i \in 1 .. Len(f) => i \in 1 .. Len(g) /\ g[i] = f[i] /\ after(g, i) = next
    BY <1>0 DEF Longer, after
  <2> HIDE DEF next, d
  <2> SUFFICES \E u \in U : Q[i] = R[i] \o u
    OBVIOUS
  <2>3. CASE Stops(f, i)
    <3>1. R[i] = <<>> /\ Q[i] \in U
      BY <2>3, ReadStops DEF Beyond
    <3> DEFINE q == Q[i]
    <3>2. q \in U /\ q \in Seq(Read)
      BY <3>1
    <3> HIDE DEF q
    <3>3. <<>> \o q = q
      BY <3>2
    <3>4. Q[i] = R[i] \o q
      BY <3>1, <3>3 DEF q
    <3>5. QED BY <3>2, <3>4
  <2>4. CASE i \in 1 .. Len(f) /\ f[i].part # 0
    <3>1. R[i] = <<Garbage>>
      BY <2>4, ReadStuck
    <3>2. Q[i] = <<Garbage>>
      <4>1. i \in 1 .. Len(g) /\ g[i].part # 0
        BY <2>2, <2>4
      <4>2. QED BY <4>1, ReadStuck
    <3>3. <<Garbage>> \o <<>> = <<Garbage>>
      OBVIOUS
    <3>4. QED BY <3>1, <3>2, <3>3
  <2>5. CASE i \in 1 .. Len(f) /\ f[i].part = 0 /\ next <= Len(f) + 1
    <3>1. R[i] = <<d>> \o R[next]
      BY <2>5, ReadRecord DEF next, d
    <3>2. next \in i + 1 .. N /\ next \in 1 .. N
      BY <2>1, <2>5
    <3>3. PICK u \in U : Q[next] = R[next] \o u
      BY <1>1, <3>2
    <3>4. SubSeq(g, i + 1, next - 1) = SubSeq(f, i + 1, next - 1)
      <4>1. i + 1 \in Nat /\ next - 1 \in Nat /\ 1 <= i + 1 /\ i + 1 <= next - 1
            /\ next - 1 <= Len(f)
        BY <1>0, <2>1, <2>5
      <4>2. QED BY <4>1, SameCells
    <3>5. Q[i] = <<d>> \o Q[next]
      <4>1. i \in 1 .. Len(g) /\ g[i].part = 0 /\ next = after(g, i) /\ next <= Len(g) + 1
        BY <1>0, <2>1, <2>2, <2>5
      <4>2. Q[i] = <<deserializeRecord(SubSeq(g, i + 1, after(g, i) - 1))>> \o Q[after(g, i)]
        BY <4>1, ReadRecord
      <4>3. QED BY <3>4, <4>1, <4>2 DEF d
    <3> DEFINE a == <<d>>
               b == R[next]
    <3>6. a \in Seq(Read) /\ b \in Seq(Read) /\ u \in Seq(Read)
      <4>1. b \in Seq(Read)
        BY <3>2, ReadingType
      <4>2. d \in Read
        BY <2>1, <2>5, RecordType DEF d
      <4>3. QED BY <4>1, <4>2
    <3>7. R[i] = a \o b /\ Q[i] = a \o Q[next] /\ Q[next] = b \o u
      BY <3>1, <3>3, <3>5
    <3> HIDE DEF a, b
    <3>8. (a \o b) \o u = a \o (b \o u)
      <4> DEFINE RR == Read
      <4>1. a \in Seq(RR) /\ b \in Seq(RR) /\ u \in Seq(RR) BY <3>6
      <4> HIDE DEF RR
      <4>2. QED BY ONLY <4>1, Assoc, SMTT(30)
    <3>9. QED BY <3>7, <3>8
  <2>6. QED BY <2>3, <2>4, <2>5, ReadCases DEF next
<1>2. 1 .. N \subseteq S
  <2> HIDE DEF S, N
  <2>1. QED BY <1>0, <1>1, DownInduction
<1>3. QED BY <1>0, <1>2 DEF Adds

\* A reader of a file to which cells were appended reads what it read before,
\* and perhaps more.
LEMMA ReadMore ==
  ASSUME NEW f \in Seq(Cell), NEW c \in Seq(Cell)
  PROVE  /\ readFrom(f) \in Seq(Read)
         /\ \E u \in Seq(Read) : readFrom(f \o c) = readFrom(f) \o u
<1> DEFINE g == f \o c
<1>1. g \in Seq(Cell) /\ Longer(g, f)
  BY DEF Longer
<1> HIDE DEF g
<1>2. PICK R : readFrom(f) = R[1] /\ Reads(f, R)
  BY ReadFromEq
<1>3. PICK Q : readFrom(g) = Q[1] /\ Reads(g, Q)
  BY <1>1, ReadFromEq
<1>4. \A i \in 1 .. Len(g) + 1 : Q[i] \in Seq(Read)
  BY <1>1, <1>3, ReadingType
<1>5. Beyond(f, Q, Seq(Read))
  BY <1>1, <1>4 DEF Longer, Beyond
<1>6. \A i \in 1 .. Len(f) + 1 : R[i] \in Seq(Read)
  BY <1>2, ReadingType
<1>7. <<>> \in Seq(Read)
  OBVIOUS
<1>8. \E u \in Seq(Read) : Q[1] = R[1] \o u
  <2> DEFINE U == Seq(Read)
  <2>1. f \in Seq(Cell) /\ U \subseteq Seq(Read) /\ <<>> \in U /\ Beyond(f, Q, U)
    BY <1>5, <1>7
  <2> HIDE DEF U
  <2>2. Reads(f, R) /\ Reads(g, Q) /\ g \in Seq(Cell) /\ Longer(g, f)
    BY <1>1, <1>2, <1>3
  <2>3. Adds(Q[1], R[1], U)
    BY <2>1, <2>2, Extension
  <2>4. QED BY <2>3 DEF U, Adds
<1>9. R[1] \in Seq(Read)
  BY <1>6
<1>10. QED BY <1>2, <1>3, <1>8, <1>9 DEF g

\* The cells that appendLog writes for a record.
encoded(rec) == sizeOf(rec) \o serializeRecord(rec)

\* The cells of serializeRecord, and those with the size in front.
LEMMA EncodedCells ==
  ASSUME NEW rec \in LogRecord
  PROVE  /\ encoded(rec) \in Seq(Cell)
         /\ Len(encoded(rec)) = BodyLen(rec) + 1
         /\ \A k \in 1 .. BodyLen(rec) + 1 : encoded(rec)[k] = [rec |-> rec, part |-> k - 1]
         /\ serializeRecord(rec) \in Seq(Cell) /\ Len(serializeRecord(rec)) = BodyLen(rec)
         /\ \A k \in 1 .. BodyLen(rec) : serializeRecord(rec)[k] = [rec |-> rec, part |-> k]
<1> DEFINE b == serializeRecord(rec)
           a == sizeOf(rec)
<1>1. BodyLen(rec) \in {1, 2}
  BY BodyLenType
<1>2. \A k \in 0 .. BodyLen(rec) : [rec |-> rec, part |-> k] \in Cell
  BY <1>1 DEF Cell
<1>3. b \in Seq(Cell) /\ Len(b) = BodyLen(rec)
      /\ \A k \in 1 .. BodyLen(rec) : b[k] = [rec |-> rec, part |-> k]
  BY <1>1, <1>2 DEF serializeRecord
<1>4. a \in Seq(Cell) /\ Len(a) = 1 /\ a[1] = [rec |-> rec, part |-> 0]
  BY <1>1, <1>2 DEF sizeOf
<1>5. encoded(rec) = a \o b
  BY DEF encoded
<1> HIDE DEF a, b
<1>6. /\ encoded(rec) \in Seq(Cell) /\ Len(encoded(rec)) = BodyLen(rec) + 1
      /\ encoded(rec)[1] = a[1]
      /\ \A k \in 1 .. BodyLen(rec) : encoded(rec)[k + 1] = b[k]
  <2>1. a \in Seq(Cell) /\ b \in Seq(Cell)
    BY <1>3, <1>4
  <2>2. /\ a \o b \in Seq(Cell) /\ Len(a \o b) = Len(a) + Len(b)
        /\ \A k \in 1 .. Len(a) : (a \o b)[k] = a[k]
        /\ \A k \in 1 .. Len(b) : (a \o b)[Len(a) + k] = b[k]
    BY <2>1, ConcatAt
  <2>3. Len(a \o b) = BodyLen(rec) + 1 /\ (a \o b)[1] = a[1]
    BY <1>1, <1>3, <1>4, <2>2
  <2>4. ASSUME NEW k \in 1 .. BodyLen(rec) PROVE (a \o b)[k + 1] = b[k]
    <3>1. 1 + k = k + 1 /\ k \in 1 .. Len(b) /\ Len(a) = 1
      BY <1>1, <1>3, <1>4
    <3>2. QED BY <2>2, <3>1
  <2>5. QED BY <1>5, <2>2, <2>3, <2>4
<1>7. ASSUME NEW k \in 1 .. BodyLen(rec) + 1
      PROVE  encoded(rec)[k] = [rec |-> rec, part |-> k - 1]
  <2>1. CASE k = 1
    BY <1>4, <1>6, <2>1
  <2>2. CASE k # 1
    <3>1. k - 1 \in 1 .. BodyLen(rec) /\ (k - 1) + 1 = k
      BY <1>1, <2>2
    <3>2. QED BY <1>3, <1>6, <3>1
  <2>3. QED BY <2>1, <2>2
<1>8. QED BY <1>3, <1>6, <1>7 DEF b

\* deserializeRecord undoes serializeRecord.
LEMMA RoundTrip ==
  ASSUME NEW rec \in LogRecord
  PROVE  deserializeRecord(serializeRecord(rec)) = rec
<1>1. BodyLen(rec) \in {1, 2}
  BY BodyLenType
<1>2. serializeRecord(rec)[1].rec = rec
  BY <1>1 DEF serializeRecord
<1>3. QED BY <1>2 DEF deserializeRecord

\* Cells among which is a size are not the body of a record.
LEMMA MixedIsGarbage ==
  ASSUME NEW cells \in Seq(Cell), NEW k \in 1 .. Len(cells), cells[k].part = 0
  PROVE  deserializeRecord(cells) = Garbage
<1> DEFINE r == cells[1].rec
<1>1. SUFFICES ASSUME cells = serializeRecord(r) PROVE FALSE
  BY DEF deserializeRecord
<1>2. r \in LogRecord
  <2>1. 1 \in 1 .. Len(cells) OBVIOUS
  <2>2. cells[1] \in Cell BY <2>1, ElementOfSeq
  <2>3. QED BY <2>2 DEF Cell
<1> HIDE DEF r
<1>3. Len(cells) = BodyLen(r) /\ \A j \in 1 .. BodyLen(r) : serializeRecord(r)[j] = [rec |-> r, part |-> j]
  BY <1>1, <1>2, EncodedCells
<1>4. cells[k] = [rec |-> r, part |-> k]
  BY <1>1, <1>3
<1>5. QED BY <1>4

\* What a reader of the log may see of a record that was appended: the record, or
\* garbage, or nothing.
Seen(rec) == {u \in Seq(Read) : u = <<rec>> \/ \A k \in DOMAIN u : u[k] = Garbage}

\* g is the file f with a record appended.
Appended(g, f, rec) == g = f \o encoded(rec)

\* The cells of such a file,
LEMMA AppendedCells ==
  ASSUME NEW f \in Seq(Cell), NEW rec \in LogRecord, NEW g, Appended(g, f, rec)
  PROVE  /\ g \in Seq(Cell) /\ Len(g) = Len(f) + BodyLen(rec) + 1
         /\ Longer(g, f)
         /\ \A k \in 1 .. BodyLen(rec) + 1 : g[Len(f) + k] = [rec |-> rec, part |-> k - 1]
         /\ \A k \in Len(f) + 2 .. Len(g) : g[k].part # 0
         /\ SubSeq(g, Len(f) + 1, Len(g)) = encoded(rec)
         /\ SubSeq(g, Len(f) + 2, Len(g)) = serializeRecord(rec)
<1> DEFINE e == encoded(rec)
           t == serializeRecord(rec)
           n == Len(f)
           B == BodyLen(rec)
<1>1. /\ e \in Seq(Cell) /\ Len(e) = B + 1 /\ B \in {1, 2} /\ n \in Nat
      /\ \A k \in 1 .. B + 1 : e[k] = [rec |-> rec, part |-> k - 1]
      /\ t \in Seq(Cell) /\ Len(t) = B
      /\ \A k \in 1 .. B : t[k] = [rec |-> rec, part |-> k]
  <2>1. B \in {1, 2} /\ n \in Nat
    BY BodyLenType
  <2>2. QED BY <2>1, EncodedCells
<1> HIDE DEF e, t
<1>2. /\ f \o e \in Seq(Cell) /\ Len(f \o e) = Len(f) + Len(e)
      /\ \A k \in 1 .. Len(f) : (f \o e)[k] = f[k]
      /\ \A k \in 1 .. Len(e) : (f \o e)[Len(f) + k] = e[k]
  BY <1>1, ConcatAt
<1>3. /\ g \in Seq(Cell) /\ Len(g) = n + B + 1
      /\ \A k \in 1 .. n : g[k] = f[k]
      /\ \A k \in 1 .. B + 1 : g[n + k] = e[k]
  <2>1. g = f \o e BY DEF e, Appended
  <2>2. Len(f) + Len(e) = n + B + 1 BY <1>1
  <2>3. QED BY <1>1, <1>2, <2>1, <2>2
<1>4. \A k \in 1 .. B + 1 : g[n + k] = [rec |-> rec, part |-> k - 1]
  BY <1>1, <1>3
<1>5. ASSUME NEW k \in n + 2 .. Len(g) PROVE g[k].part # 0
  <2>1. k - n \in 1 .. B + 1 /\ k - n > 1 /\ n + (k - n) = k
    BY <1>1, <1>3
  <2>2. g[k] = [rec |-> rec, part |-> (k - n) - 1]
    BY <1>4, <2>1
  <2>3. QED BY <1>1, <2>1, <2>2
<1>6. Longer(g, f)
  BY <1>1, <1>3 DEF Longer
<1>7. SubSeq(g, n + 1, Len(g)) = e
  <2> DEFINE b == SubSeq(g, n + 1, Len(g))
  <2>1. n + 1 \in Nat /\ Len(g) \in Nat /\ 1 <= n + 1 /\ n + 1 <= Len(g) /\ Len(g) <= Len(g)
        /\ Len(g) - (n + 1) + 1 = B + 1
    BY <1>1, <1>3
  <2>2. b \in Seq(Cell) /\ Len(b) = B + 1 /\ \A k \in 1 .. B + 1 : b[k] = g[(n + 1) + k - 1]
    BY <1>3, <2>1, BodyCells
  <2> HIDE DEF b
  <2>3. \A k \in 1 .. B + 1 : (n + 1) + k - 1 = n + k
    BY <1>1
  <2>4. \A k \in 1 .. B + 1 : b[k] = e[k]
    BY <1>3, <2>2, <2>3
  <2>5. b = e
    BY <1>1, <2>2, <2>4, SeqEqual
  <2>6. QED BY <2>5 DEF b
<1>8. SubSeq(g, n + 2, Len(g)) = t
  <2> DEFINE b == SubSeq(g, n + 2, Len(g))
  <2>1. n + 2 \in Nat /\ Len(g) \in Nat /\ 1 <= n + 2 /\ n + 2 <= Len(g) /\ Len(g) <= Len(g)
        /\ Len(g) - (n + 2) + 1 = B
    BY <1>1, <1>3
  <2>2. b \in Seq(Cell) /\ Len(b) = B /\ \A k \in 1 .. B : b[k] = g[(n + 2) + k - 1]
    BY <1>3, <2>1, BodyCells
  <2> HIDE DEF b
  <2>3. ASSUME NEW k \in 1 .. B PROVE b[k] = t[k]
    <3>1. (n + 2) + k - 1 = n + (k + 1) /\ k + 1 \in 1 .. B + 1 /\ (k + 1) - 1 = k
      BY <1>1
    <3>2. b[k] = g[n + (k + 1)]
      BY <2>2, <3>1
    <3>3. g[n + (k + 1)] = [rec |-> rec, part |-> k]
      BY <1>4, <3>1
    <3>4. QED BY <1>1, <3>2, <3>3
  <2>4. b = t
    BY <1>1, <2>2, <2>3, SeqEqual
  <2>5. QED BY <2>4 DEF b
<1>9. QED BY <1>3, <1>4, <1>5, <1>6, <1>7, <1>8 DEF e, t

\* and what the loop reads from the end of the older file on.
LEMMA ReadAtEnd ==
  ASSUME NEW f \in Seq(Cell), NEW rec \in LogRecord, NEW g, Appended(g, f, rec),
         NEW Q, Reads(g, Q)
  PROVE  /\ Q[Len(f) + 1] = <<rec>>
         /\ Q[Len(g) + 1] = <<>>
         /\ \A k \in Len(f) + 2 .. Len(g) : Q[k] = <<Garbage>>
<1> DEFINE n == Len(f)
           B == BodyLen(rec)
<1>1. /\ g \in Seq(Cell) /\ Len(g) = n + B + 1
      /\ \A k \in 1 .. B + 1 : g[n + k] = [rec |-> rec, part |-> k - 1]
      /\ \A k \in n + 2 .. Len(g) : g[k].part # 0
      /\ SubSeq(g, n + 2, Len(g)) = serializeRecord(rec)
  BY AppendedCells
<1>2. B \in {1, 2} /\ n \in Nat
  BY BodyLenType
<1>3. Q[Len(g) + 1] = <<>>
  <2>1. Len(g) + 1 \in 1 .. Len(g) + 1 /\ Stops(g, Len(g) + 1)
    BY <1>1, <1>2 DEF Stops
  <2>2. QED BY <1>1, <2>1, ReadStops
<1>4. ASSUME NEW k \in n + 2 .. Len(g) PROVE Q[k] = <<Garbage>>
  <2>1. Len(g) \in Nat
    BY <1>1
  <2>2. k \in 1 .. Len(g)
    BY <1>2, <2>1
  <2>3. g[k].part # 0
    BY <1>1
  <2>4. QED BY <1>1, <2>2, <2>3, ReadStuck
<1>5. Q[n + 1] = <<rec>>
  <2>1. g[n + 1] = [rec |-> rec, part |-> 0]
    <3>1. 1 \in 1 .. B + 1 /\ 1 - 1 = 0 BY <1>2
    <3>2. g[n + 1] = [rec |-> rec, part |-> 1 - 1] BY <1>1, <3>1
    <3>3. QED BY <3>1, <3>2
  <2>2. n + 1 \in 1 .. Len(g) /\ g[n + 1].part = 0 /\ after(g, n + 1) = Len(g) + 1
        /\ after(g, n + 1) <= Len(g) + 1 /\ (n + 1) + 1 = n + 2 /\ after(g, n + 1) - 1 = Len(g)
    <3>1. after(g, n + 1) = (n + 1) + B + 1
      BY <2>1 DEF after
    <3>2. Len(g) = n + B + 1 /\ g[n + 1].part = 0
      BY <1>1, <2>1
    <3>3. QED BY <1>2, <3>1, <3>2
  <2>3. Q[n + 1] = <<deserializeRecord(SubSeq(g, (n + 1) + 1, after(g, n + 1) - 1))>> \o Q[after(g, n + 1)]
    BY <1>1, <2>2, ReadRecord
  <2>4. deserializeRecord(serializeRecord(rec)) = rec
    BY RoundTrip
  <2>5. Q[n + 1] = <<rec>> \o <<>>
    BY <1>1, <1>3, <2>2, <2>3, <2>4
  <2>6. QED BY <2>5
<1>6. QED BY <1>3, <1>4, <1>5

\* A record that is appended is read after all that was read before, or it is
\* lost behind a torn record.
LEMMA ReadAppended ==
  ASSUME NEW f \in Seq(Cell), NEW rec \in LogRecord
  PROVE  \E u \in Seen(rec) : readFrom(f \o encoded(rec)) = readFrom(f) \o u
<1> DEFINE g == f \o encoded(rec)
           n == Len(f)
           B == BodyLen(rec)
<1>0. Appended(g, f, rec)
  BY DEF Appended
<1> HIDE DEF g
<1>1. n \in Nat /\ B \in {1, 2}
  BY BodyLenType
<1>2. /\ g \in Seq(Cell) /\ Len(g) = n + B + 1 /\ Longer(g, f)
      /\ \A k \in 1 .. B + 1 : g[n + k] = [rec |-> rec, part |-> k - 1]
  BY <1>0, AppendedCells
<1>3. g[n + 1].part = 0 /\ \A k \in 1 .. n : g[k] = f[k]
  <2>1. 1 \in 1 .. B + 1 /\ 1 - 1 = 0 BY <1>1
  <2>2. g[n + 1] = [rec |-> rec, part |-> 1 - 1] BY <1>2, <2>1
  <2>3. QED BY <1>2, <2>1, <2>2 DEF Longer
<1>4. PICK R : readFrom(f) = R[1] /\ Reads(f, R)
  BY ReadFromEq
<1>5. PICK Q : readFrom(g) = Q[1] /\ Reads(g, Q)
  BY <1>2, ReadFromEq
<1>6. /\ Q[n + 1] = <<rec>> /\ Q[Len(g) + 1] = <<>>
      /\ \A k \in n + 2 .. Len(g) : Q[k] = <<Garbage>>
  BY <1>0, <1>5, ReadAtEnd
<1>8. ASSUME NEW i \in 1 .. Len(f) + 1, Stops(f, i) PROVE Q[i] \in Seen(rec)
  <2>1. CASE i = n + 1
    <3>1. <<rec>> \in Seq(Read)
      BY DEF Read
    <3>2. QED BY <1>6, <2>1, <3>1 DEF Seen
  <2>2. CASE i # n + 1
    <3> DEFINE next == after(f, i)
               b == SubSeq(g, i + 1, next - 1)
               m == (next - 1) - (i + 1) + 1
    <3>1. next \in Nat /\ next <= i + 3 /\ next > i + 1
      BY AfterType
    <3>2. i \in 1 .. n /\ next > n + 1 /\ f[i].part = 0
      BY <1>1, <1>8, <2>2 DEF Stops
    <3>3. i \in 1 .. Len(g) /\ g[i].part = 0 /\ next = after(g, i)
      BY <1>1, <1>2, <1>3, <3>2 DEF after
    <3> HIDE DEF next
    <3>4. next <= Len(g) + 1 /\ next <= n + 3
      BY <1>1, <1>2, <3>1, <3>2
    <3>5. Q[i] = <<deserializeRecord(b)>> \o Q[next]
      <4>1. Q[i] = <<deserializeRecord(SubSeq(g, i + 1, after(g, i) - 1))>> \o Q[after(g, i)]
        BY <1>2, <1>5, <3>3, <3>4, ReadRecord
      <4>2. QED BY <3>3, <4>1
    <3>6. b \in Seq(Cell) /\ Len(b) = m /\ \A k \in 1 .. m : b[k] = g[(i + 1) + k - 1]
      BY <1>1, <1>2, <3>1, <3>4, BodyCells
    <3>7. n + 1 - i \in 1 .. m /\ (i + 1) + (n + 1 - i) - 1 = n + 1
      BY <1>1, <3>1, <3>2
    <3> HIDE DEF b
    <3>8. b[n + 1 - i].part = 0
      <4>1. b[n + 1 - i] = g[n + 1]
        BY <3>6, <3>7
      <4>2. QED BY <1>3, <4>1
    <3>9. deserializeRecord(b) = Garbage
      <4>1. QED BY <3>6, <3>7, <3>8, MixedIsGarbage
    <3>10. Q[next] = <<>> \/ Q[next] = <<Garbage>>
      <4>1. next = Len(g) + 1 \/ next \in n + 2 .. Len(g)
        BY <1>1, <1>2, <3>1, <3>2, <3>4
      <4>2. QED BY <1>6, <4>1
    <3>11. Q[i] = <<Garbage>> \/ Q[i] = <<Garbage, Garbage>>
      <4>1. Garbage \in Read
        BY DEF Read
      <4>2. <<Garbage>> \o <<>> = <<Garbage>> /\ <<Garbage>> \o <<Garbage>> = <<Garbage, Garbage>>
        BY <4>1, Pairs
      <4>3. QED BY <3>5, <3>9, <3>10, <4>2
    <3>12. <<Garbage>> \in Seen(rec) /\ <<Garbage, Garbage>> \in Seen(rec)
      BY DEF Seen, Read
    <3>13. QED BY <3>11, <3>12
  <2>3. QED BY <2>1, <2>2
<1>9. Seen(rec) \subseteq Seq(Read) /\ <<>> \in Seen(rec)
  BY DEF Seen
<1>10. \E u \in Seen(rec) : Q[1] = R[1] \o u
  <2>1. f \in Seq(Cell) /\ Beyond(f, Q, Seen(rec))
    BY <1>8 DEF Beyond
  <2>2. Adds(Q[1], R[1], Seen(rec))
    BY <1>2, <1>4, <1>5, <1>9, <2>1, Extension
  <2>3. QED BY <2>2 DEF Adds
<1>11. QED BY <1>4, <1>5, <1>10 DEF g

-------------------------------------------------------------------------------
(* Files of whole records *)

\* Where the whole records from position i on end, given where those further on do.
WholeStep(f, E, i) ==
  IF i > Len(f) THEN i
  ELSE IF after(f, i) > Len(f) + 1 THEN i
  ELSE IF SubSeq(f, i, after(f, i) - 1) # encoded(f[i].rec) THEN i
  ELSE E[after(f, i)]

\* E is where whole records end, from each position of f on.
Ends(f, E) == \A i \in 1 .. Len(f) + 1 : E[i] = WholeStep(f, E, i)

\* There is a function that says so, by the same induction,
LEMMA EndsExist ==
  ASSUME NEW f \in Seq(Cell)
  PROVE  \E E : E = [i \in 1 .. Len(f) + 1 |-> WholeStep(f, E, i)]
<1> DEFINE N == Len(f) + 1
           Good(R, k) == \A i \in 1 .. N : i > N - k => R[i] = WholeStep(f, R, i)
           K == {k \in Nat : \E R : R = [i \in 1 .. N |-> R[i]] /\ Good(R, k)}
<1>0. N \in Nat \ {0}
  OBVIOUS
<1>1. 0 \in K
  <2> DEFINE Z == [i \in 1 .. N |-> <<>>]
  <2>1. Z = [i \in 1 .. N |-> Z[i]] /\ Good(Z, 0)
    BY <1>0
  <2>2. QED BY <2>1
<1>2. ASSUME NEW k \in Nat, k \in K PROVE k + 1 \in K
  <2>1. PICK R : R = [i \in 1 .. N |-> R[i]] /\ Good(R, k)
    BY <1>2
  <2> DEFINE Q == [i \in 1 .. N |-> IF i = N - k THEN WholeStep(f, R, i) ELSE R[i]]
  <2>2. ASSUME NEW i \in 1 .. N, i > N - (k + 1) PROVE Q[i] = WholeStep(f, Q, i)
    <3>1. WholeStep(f, Q, i) = WholeStep(f, R, i)
      <4> DEFINE next == after(f, i)
      <4>1. next \in Nat /\ next > i + 1
        BY AfterType
      <4> HIDE DEF next
      <4>2. next <= Len(f) + 1 => Q[next] = R[next]
        BY <1>0, <2>2, <4>1
      <4> HIDE DEF Q
      <4>3. next > Len(f) + 1 \/ Q[next] = R[next]
        BY <4>1, <4>2
      <4>4. QED BY <4>3 DEF WholeStep, next
    <3>2. Q[i] = WholeStep(f, R, i)
      <4>1. CASE i = N - k BY <4>1
      <4>2. CASE i # N - k
        <5>1. i > N - k BY <1>0, <2>2, <4>2
        <5>2. QED BY <2>1, <4>2, <5>1
      <4>3. QED BY <4>1, <4>2
    <3>3. QED BY <3>1, <3>2
  <2>3. Q = [i \in 1 .. N |-> Q[i]]
    OBVIOUS
  <2> HIDE DEF Q
  <2>4. Good(Q, k + 1)
    BY <2>2
  <2>5. QED BY <2>3, <2>4
<1>3. Nat \subseteq K
  <2> HIDE DEF K
  <2>1. QED BY <1>1, <1>2, SetInduction
<1>4. PICK R : R = [i \in 1 .. N |-> R[i]] /\ Good(R, N)
  BY <1>0, <1>3
<1>5. \A i \in 1 .. N : R[i] = WholeStep(f, R, i)
  BY <1>0, <1>4
<1>6. R = [i \in 1 .. N |-> WholeStep(f, R, i)]
  BY <1>4, <1>5
<1>7. QED BY <1>6

\* and Whole asks whether it leads from the first cell to the end of the file.
LEMMA WholeEq ==
  ASSUME NEW f \in Seq(Cell)
  PROVE  \E E : (Whole(f) <=> E[1] = Len(f) + 1) /\ Ends(f, E)
<1> DEFINE E == CHOOSE E : E = [i \in 1 .. Len(f) + 1 |-> WholeStep(f, E, i)]
<1>1. E = [i \in 1 .. Len(f) + 1 |-> WholeStep(f, E, i)]
  BY EndsExist
<1>2. Whole(f) <=> E[1] = Len(f) + 1
  BY DEF Whole, WholeStep, encoded, after
<1> HIDE DEF E
<1>3. QED BY <1>1, <1>2 DEF Ends

\* Where whole records end, at one position: the position itself, or where they
\* end behind the whole record that begins there.
LEMMA EndsCases ==
  ASSUME NEW f \in Seq(Cell), NEW E, Ends(f, E), NEW i \in 1 .. Len(f), E[i] = Len(f) + 1
  PROVE  /\ after(f, i) <= Len(f) + 1
         /\ SubSeq(f, i, after(f, i) - 1) = encoded(f[i].rec)
         /\ E[after(f, i)] = Len(f) + 1
<1>1. i \in 1 .. Len(f) + 1 /\ Len(f) \in Nat
  OBVIOUS
<1>2. E[i] = WholeStep(f, E, i)
  BY <1>1 DEF Ends
<1>3. after(f, i) \in Nat
  BY AfterType
<1>4. i # Len(f) + 1 /\ ~(i > Len(f))
  OBVIOUS
<1>5. QED BY <1>1, <1>2, <1>3, <1>4 DEF WholeStep

\* A record appended to a file of whole records makes it a file of whole records,
\* and the reader gets to it.
LEMMA WholeAppended ==
  ASSUME NEW f \in Seq(Cell), NEW rec \in LogRecord, NEW g, Appended(g, f, rec), Whole(f)
  PROVE  Whole(g) /\ rec \in ToSet(readFrom(g))
<1> DEFINE n == Len(f)
           N == n + 1
           B == BodyLen(rec)
<1>1. n \in Nat /\ N \in Nat /\ 1 \in 1 .. N /\ B \in {1, 2}
  BY BodyLenType
<1>2. /\ g \in Seq(Cell) /\ Len(g) = n + B + 1 /\ Longer(g, f)
      /\ \A k \in 1 .. B + 1 : g[n + k] = [rec |-> rec, part |-> k - 1]
      /\ SubSeq(g, n + 1, Len(g)) = encoded(rec)
  BY AppendedCells
<1>3. PICK E : (Whole(f) <=> E[1] = n + 1) /\ Ends(f, E)
  BY WholeEq
<1>4. PICK F : (Whole(g) <=> F[1] = Len(g) + 1) /\ Ends(g, F)
  BY <1>2, WholeEq
<1>5. PICK Q : readFrom(g) = Q[1] /\ Reads(g, Q)
  BY <1>2, ReadFromEq
<1>6. \A i \in 1 .. Len(g) + 1 : Q[i] \in Seq(Read)
  BY <1>2, <1>5, ReadingType
<1> DEFINE P(i) == F[i] = Len(g) + 1 /\ \E k \in 1 .. Len(Q[i]) : Q[i][k] = rec
           S == {i \in 1 .. N : E[i] = n + 1 => P(i)}
<1>7. ASSUME NEW i \in 1 .. N, \A j \in i + 1 .. N : j \in S PROVE i \in S
  <2> SUFFICES ASSUME E[i] = n + 1 PROVE P(i)
    OBVIOUS
  <2>1. CASE i = n + 1
    <3>1. Q[n + 1] = <<rec>>
      BY <1>5, ReadAtEnd
    <3>2. g[n + 1] = [rec |-> rec, part |-> 0]
      <4>1. 1 \in 1 .. B + 1 /\ 1 - 1 = 0 BY <1>1
      <4>2. g[n + 1] = [rec |-> rec, part |-> 1 - 1] BY <1>2, <4>1
      <4>3. QED BY <4>1, <4>2
    <3>3. after(g, n + 1) = Len(g) + 1 /\ after(g, n + 1) - 1 = Len(g) /\ g[n + 1].rec = rec
      <4>1. after(g, n + 1) = (n + 1) + B + 1 /\ g[n + 1].rec = rec BY <3>2 DEF after
      <4>2. QED BY <1>1, <1>2, <4>1
    <3>4. Len(g) \in Nat /\ n + 1 \in 1 .. Len(g) + 1 /\ Len(g) + 1 \in 1 .. Len(g) + 1
          /\ n + 1 <= Len(g)
      BY <1>1, <1>2
    <3>5. F[Len(g) + 1] = Len(g) + 1
      <4>1. F[Len(g) + 1] = WholeStep(g, F, Len(g) + 1) BY <1>4, <3>4 DEF Ends
      <4>2. Len(g) + 1 > Len(g) BY <3>4
      <4>3. QED BY <4>1, <4>2 DEF WholeStep
    <3>6. F[n + 1] = F[Len(g) + 1]
      <4>1. F[n + 1] = WholeStep(g, F, n + 1) BY <1>4, <3>4 DEF Ends
      <4>2. ~(n + 1 > Len(g)) /\ ~(Len(g) + 1 > Len(g) + 1) BY <3>4
      <4>3. SubSeq(g, n + 1, after(g, n + 1) - 1) = encoded(g[n + 1].rec) BY <1>2, <3>3
      <4>4. QED BY <3>3, <4>1, <4>2, <4>3 DEF WholeStep
    <3>7. \E k \in 1 .. Len(Q[n + 1]) : Q[n + 1][k] = rec
      <4>1. Len(Q[n + 1]) = 1 /\ Q[n + 1][1] = rec BY <3>1
      <4>2. QED BY <4>1
    <3>8. QED BY <2>1, <3>5, <3>6, <3>7
  <2>2. CASE i # n + 1
    <3> DEFINE next == after(f, i)
               r == f[i].rec
    <3>1. i \in 1 .. n /\ next \in Nat /\ next > i + 1
      BY <1>1, <2>2, AfterType
    <3>2. next <= n + 1 /\ SubSeq(f, i, next - 1) = encoded(r) /\ E[next] = n + 1
      BY <1>3, <3>1, EndsCases
    <3>3. g[i] = f[i] /\ after(g, i) = next /\ i \in 1 .. Len(g) /\ next <= Len(g) + 1
          /\ Len(g) \in Nat /\ next \in 1 .. Len(g) + 1
      <4>1. g[i] = f[i]
        BY <1>2, <3>1 DEF Longer
      <4>2. Len(g) \in Nat /\ i \in 1 .. Len(g) /\ next <= Len(g) + 1 /\ next \in 1 .. Len(g) + 1
        BY <1>1, <1>2, <3>1, <3>2, SMTT(30)
      <4>3. QED BY <4>1, <4>2 DEF after
    <3>4. f[i] \in Cell /\ r \in LogRecord
      <4>1. f[i] \in Cell BY <3>1, ElementOfSeq
      <4>2. QED BY <4>1 DEF Cell
    <3>5. f[i].part = 0
      <4> DEFINE b == SubSeq(f, i, next - 1)
                 m == (next - 1) - i + 1
      <4>1. \A k \in 1 .. m : b[k] = f[i + k - 1]
        BY <1>1, <3>1, <3>2, BodyCells, SMTT(30)
      <4> HIDE DEF b
      <4>2. 1 \in 1 .. m /\ i + 1 - 1 = i
        BY <3>1
      <4>3. b[1] = f[i]
        BY <4>1, <4>2
      <4>4. encoded(r)[1] = [rec |-> r, part |-> 0]
        <5>1. \A k \in 1 .. BodyLen(r) + 1 : encoded(r)[k] = [rec |-> r, part |-> k - 1]
          BY <3>4, EncodedCells
        <5>2. 1 \in 1 .. BodyLen(r) + 1 /\ 1 - 1 = 0 BY BodyLenType
        <5>3. encoded(r)[1] = [rec |-> r, part |-> 1 - 1] BY <5>1, <5>2
        <5>4. QED BY <5>2, <5>3
      <4>5. f[i] = [rec |-> r, part |-> 0]
        BY <3>2, <4>3, <4>4 DEF b
      <4>6. QED BY <4>5
    <3> HIDE DEF next, r
    <3>6. P(next)
      <4>1. next \in i + 1 .. N BY <1>1, <3>1, <3>2
      <4>2. next \in S BY <1>7, <4>1
      <4>3. QED BY <3>2, <4>2
    <3>7. F[i] = Len(g) + 1
      <4>1. SubSeq(g, i, next - 1) = SubSeq(f, i, next - 1)
        <5>1. i \in Nat /\ next - 1 \in Nat /\ 1 <= i /\ i <= next - 1 /\ next - 1 <= Len(f)
          BY <1>1, <3>1, <3>2
        <5>2. QED BY <1>2, <5>1, SameCells
      <4>2. F[i] = WholeStep(g, F, i) BY <1>4, <3>3 DEF Ends
      <4>3. ~(i > Len(g)) /\ ~(next > Len(g) + 1) BY <3>1, <3>3
      <4>4. SubSeq(g, i, after(g, i) - 1) = encoded(g[i].rec) BY <3>2, <3>3, <4>1 DEF r
      <4>5. F[i] = F[next] BY <3>3, <4>2, <4>3, <4>4 DEF WholeStep
      <4>6. QED BY <3>6, <4>5
    <3>8. \E k \in 1 .. Len(Q[i]) : Q[i][k] = rec
      <4> DEFINE a == <<deserializeRecord(SubSeq(g, i + 1, after(g, i) - 1))>>
                 q == Q[next]
                 p == Q[i]
      <4>1. p = a \o q
        <5>1. g[i].part = 0 /\ after(g, i) <= Len(g) + 1 BY <3>3, <3>5
        <5>2. QED BY <1>2, <1>5, <3>3, <5>1, ReadRecord
      <4>2. a \in Seq(Read) /\ Len(a) = 1
        <5>1. deserializeRecord(SubSeq(g, i + 1, next - 1)) \in Read
          BY <1>2, <3>1, <3>3, RecordType
        <5>2. QED BY <3>3, <5>1
      <4>3. q \in Seq(Read) BY <1>6, <3>3
      <4>4. PICK k \in 1 .. Len(q) : q[k] = rec BY <3>6
      <4> HIDE DEF a, p, q
      <4>5. Len(p) = Len(a) + Len(q) /\ \A j \in 1 .. Len(q) : p[Len(a) + j] = q[j]
        <5>1. a \in Seq(Read) /\ q \in Seq(Read) BY <4>2, <4>3
        <5>2. Len(a \o q) = Len(a) + Len(q)
              /\ \A j \in 1 .. Len(q) : (a \o q)[Len(a) + j] = q[j]
          BY ONLY <5>1, ConcatAt
        <5>3. QED BY ONLY <4>1, <5>2
      <4>6. p[Len(a) + k] = rec BY <4>4, <4>5
      <4>7. Len(a) + k \in 1 .. Len(p) BY <4>2, <4>3, <4>5
      <4>8. QED BY <4>6, <4>7 DEF p
    <3>9. QED BY <3>7, <3>8
  <2>3. QED BY <2>1, <2>2
<1>8. 1 .. N \subseteq S
  <2> HIDE DEF S, N
  <2>1. QED BY <1>1, <1>7, DownInduction
<1>9. P(1)
  BY <1>1, <1>3, <1>8
<1>10. rec \in ToSet(readFrom(g))
  <2>1. Q[1] \in Seq(Read) BY <1>1, <1>2, <1>6
  <2>2. QED BY <1>5, <1>9, <2>1 DEF ToSet
<1>11. QED BY <1>4, <1>9, <1>10

-------------------------------------------------------------------------------
(* Log sequence numbers *)

\* A set of numbers up to N has a greatest.
LEMMA MaxExists ==
  ASSUME NEW N \in Nat, NEW T, T \subseteq 1 .. N, T # {}
  PROVE  Max(T) \in T /\ \A y \in T : Max(T) >= y
<1> DEFINE S == {i \in 1 .. N : i \notin T}
<1>1. SUFFICES \E x \in T : \A y \in T : x >= y
  BY DEF Max
<1>2. SUFFICES ASSUME ~(\E x \in T : \A y \in T : x >= y) PROVE FALSE
  OBVIOUS
<1>3. ASSUME NEW i \in 1 .. N, \A j \in i + 1 .. N : j \in S PROVE i \in S
  <2>1. SUFFICES ASSUME i \in T PROVE FALSE
    OBVIOUS
  <2>2. \A y \in T : ~(y \in i + 1 .. N)
    BY <1>3
  <2>3. \A y \in T : i >= y
    BY <2>2
  <2>4. QED BY <1>2, <2>1, <2>3
<1>4. 1 .. N \subseteq S
  <2> HIDE DEF S
  <2>1. QED BY <1>3, DownInduction
<1>5. QED BY <1>4

\* The log sequence numbers of recs increase.
Increasing(recs) ==
  \A i, j \in DOMAIN recs :
    i < j /\ recs[i] # Garbage /\ recs[j] # Garbage => recs[i].lsn < recs[j].lsn

\* None of them is n or greater.
Below(recs, n) == \A r \in Logged(recs) : r.lsn < n

\* The numbers of logged records are numbers.
LEMMA LoggedLsn ==
  ASSUME NEW recs \in Seq(Read)
  PROVE  \A r \in Logged(recs) : r \in LogRecord /\ r.lsn \in Nat
<1>1. \A i \in 1 .. Len(recs) : recs[i] \in Read
  BY ElementOfSeq
<1>2. Logged(recs) \subseteq LogRecord
  BY <1>1 DEF Logged, Read, ToSet
<1>3. QED BY <1>2, LogAssumption DEF LogRecord, LSN

\* open gives a number that no record of the file has.
LEMMA LsnAfter ==
  ASSUME NEW recs \in Seq(Read)
  PROVE  lsnAfter(recs) \in 1 .. MaxLSN + 1 /\ Below(recs, lsnAfter(recs))
<1> DEFINE L == Logged(recs)
           T == {1} \cup {rec.lsn + 1 : rec \in L}
<1>1. L \subseteq LogRecord
  BY LoggedLsn
<1>2. \A r \in L : r.lsn \in 1 .. MaxLSN
  BY <1>1 DEF LogRecord, LSN
<1>3. MaxLSN \in Nat /\ MaxLSN + 1 \in Nat
  BY LogAssumption
<1> HIDE DEF L
<1>4. T \subseteq 1 .. MaxLSN + 1 /\ T # {}
  BY <1>2, <1>3
<1> HIDE DEF T
<1>5. Max(T) \in T /\ \A y \in T : Max(T) >= y
  BY <1>3, <1>4, MaxExists
<1>6. lsnAfter(recs) = Max(T)
  BY DEF lsnAfter, T, L
<1>7. ASSUME NEW r \in L PROVE r.lsn < Max(T)
  <2>1. r.lsn + 1 \in T BY DEF T
  <2>2. Max(T) >= r.lsn + 1 BY <1>5, <2>1
  <2>3. Max(T) \in 1 .. MaxLSN + 1 /\ r.lsn \in 1 .. MaxLSN BY <1>2, <1>4, <1>5
  <2>4. QED BY <1>3, <2>2, <2>3
<1>8. QED BY <1>4, <1>5, <1>6, <1>7 DEF Below, L

\* A reader that has read less has read increasing numbers too,
LEMMA IncreasingPrefix ==
  ASSUME NEW s \in Seq(Read), NEW u \in Seq(Read), Increasing(s \o u)
  PROVE  Increasing(s)
<1>1. /\ s \o u \in Seq(Read) /\ Len(s \o u) = Len(s) + Len(u)
      /\ \A k \in 1 .. Len(s) : (s \o u)[k] = s[k]
  BY ConcatAt
<1> DEFINE t == s \o u
<1>2. DOMAIN s \subseteq DOMAIN t /\ \A k \in DOMAIN s : t[k] = s[k]
  BY <1>1
<1>3. Increasing(t)
  OBVIOUS
<1> HIDE DEF t
<1>4. QED BY <1>2, <1>3 DEF Increasing

\* and has met no record that the other has not.
LEMMA ReadPrefix ==
  ASSUME NEW s \in Seq(Read), NEW u \in Seq(Read)
  PROVE  /\ ToSet(s \o u) = ToSet(s) \cup ToSet(u)
         /\ Logged(s \o u) = Logged(s) \cup Logged(u)
<1> DEFINE t == s \o u
<1>1. /\ t \in Seq(Read) /\ Len(t) = Len(s) + Len(u)
      /\ \A k \in 1 .. Len(s) : t[k] = s[k]
      /\ \A k \in 1 .. Len(u) : t[Len(s) + k] = u[k]
  BY ConcatAt
<1> HIDE DEF t
<1>2. \A x : x \in ToSet(t) <=> \E k \in 1 .. Len(t) : t[k] = x
  <2>1. t \in Seq(Read) BY <1>1
  <2>2. QED BY ONLY <2>1 DEF ToSet
<1>3. \A x : x \in ToSet(s) <=> \E k \in 1 .. Len(s) : s[k] = x
  BY DEF ToSet
<1>4. \A x : x \in ToSet(u) <=> \E k \in 1 .. Len(u) : u[k] = x
  BY DEF ToSet
<1>5. ASSUME NEW x \in ToSet(s) PROVE x \in ToSet(t)
  <2>1. PICK k \in 1 .. Len(s) : s[k] = x BY <1>3
  <2>2. k \in 1 .. Len(t) /\ t[k] = x BY <1>1, <2>1
  <2>3. QED BY <1>2, <2>2
<1>6. ASSUME NEW x \in ToSet(u) PROVE x \in ToSet(t)
  <2>1. PICK k \in 1 .. Len(u) : u[k] = x BY <1>4
  <2>2. Len(s) + k \in 1 .. Len(t) /\ t[Len(s) + k] = x BY <1>1, <2>1
  <2>3. QED BY <1>2, <2>2
<1>7. ASSUME NEW x \in ToSet(t) PROVE x \in ToSet(s) \cup ToSet(u)
  <2>1. PICK k \in 1 .. Len(t) : t[k] = x BY <1>2
  <2>2. CASE k <= Len(s)
    <3>1. k \in 1 .. Len(s) BY <2>2
    <3>2. QED BY <1>1, <1>3, <2>1, <3>1
  <2>3. CASE ~(k <= Len(s))
    <3>1. k - Len(s) \in 1 .. Len(u) /\ Len(s) + (k - Len(s)) = k BY <1>1, <2>3
    <3>2. u[k - Len(s)] = x BY <1>1, <2>1, <3>1
    <3>3. QED BY <1>4, <3>1, <3>2
  <2>4. QED BY <2>2, <2>3
<1>8. ToSet(t) = ToSet(s) \cup ToSet(u)
  BY <1>5, <1>6, <1>7
<1>9. QED BY <1>8 DEF Logged, t

\* A record appended with a number above those before it keeps them increasing,
\* seen or not.
LEMMA IncreasingAppend ==
  ASSUME NEW s \in Seq(Read), NEW rec \in LogRecord, NEW u \in Seen(rec),
         Increasing(s), Below(s, rec.lsn)
  PROVE  Increasing(s \o u) /\ Below(s \o u, rec.lsn + 1)
<1> DEFINE t == s \o u
<1>0. u \in Seq(Read) /\ (u = <<rec>> \/ \A k \in DOMAIN u : u[k] = Garbage)
  BY DEF Seen
<1>1. /\ t \in Seq(Read) /\ Len(t) = Len(s) + Len(u)
      /\ \A k \in 1 .. Len(s) : t[k] = s[k]
      /\ \A k \in 1 .. Len(u) : t[Len(s) + k] = u[k]
  BY <1>0, ConcatAt
<1>2. Logged(t) = Logged(s) \cup Logged(u)
  BY <1>0, ReadPrefix
<1> HIDE DEF t
<1>3. rec \in LogRecord /\ rec.lsn \in Nat
  BY LogAssumption DEF LogRecord, LSN
<1>4. Logged(u) \subseteq {rec}
  BY <1>0 DEF Logged, ToSet
<1>6. \A r \in Logged(s) : r.lsn \in Nat
  BY LoggedLsn
<1>7. Below(t, rec.lsn + 1)
  BY <1>2, <1>3, <1>4, <1>6 DEF Below
<1>8. ASSUME NEW i \in 1 .. Len(t), NEW j \in 1 .. Len(t), i < j, t[i] # Garbage, t[j] # Garbage
      PROVE  t[i].lsn < t[j].lsn
  <2>1. CASE j <= Len(s)
    <3>1. i \in 1 .. Len(s) /\ j \in 1 .. Len(s) BY <1>8, <2>1
    <3>2. t[i] = s[i] /\ t[j] = s[j] /\ DOMAIN s = 1 .. Len(s) BY <1>1, <3>1
    <3>3. QED BY <1>8, <3>1, <3>2 DEF Increasing
  <2>2. CASE ~(j <= Len(s))
    <3>1. j - Len(s) \in 1 .. Len(u) /\ Len(s) + (j - Len(s)) = j BY <1>1, <2>2
    <3>2. t[j] = u[j - Len(s)] BY <1>1, <3>1
    <3>3. DOMAIN u = 1 .. Len(u) BY <1>0
    <3>4. u = <<rec>> BY <1>0, <1>8, <3>1, <3>2, <3>3
    <3>5. Len(u) = 1 /\ u[1] = rec BY <3>4
    <3>6. j = Len(s) + 1 /\ t[j] = rec BY <3>1, <3>2, <3>5
    <3>7. i \in 1 .. Len(s) BY <1>8, <3>6
    <3>8. t[i] \in Logged(s) BY <1>1, <1>8, <3>7 DEF Logged, ToSet
    <3>9. QED BY <3>6, <3>8 DEF Below
  <2>3. QED BY <2>1, <2>2
<1>9. Increasing(t)
  BY <1>1, <1>8 DEF Increasing
<1>10. QED BY <1>7, <1>9 DEF t

-------------------------------------------------------------------------------
(* The inductive invariant *)

\* All that was appended, in the file or on its way there.
stream == file \o buffer

\* No process, no buffer and no call.
Down == ~up => buffer = <<>> /\ committing = {}

\* The next number is above every number that a reader can meet.
NextIsNew == up => Below(readFrom(stream), nextLSN)

\* On a log that was whole when it was opened, no record is behind a torn one.
CleanIsWhole ==
  up /\ clean => Whole(stream) /\ committing \subseteq ToSet(readFrom(stream))

\* The inductive invariant.
LogInv ==
  /\ TypeOK /\ Down
  /\ Increasing(readFrom(stream)) /\ NextIsNew /\ CleanIsWhole
  /\ CleanCommitDurable

\* A file to which nothing was appended.
LEMMA NothingAppended ==
  ASSUME NEW f \in Seq(Cell)
  PROVE  f \o <<>> = f
OBVIOUS

\* The part of the buffer that gets to the file, and the part that is lost.
LEMMA SplitAt ==
  ASSUME NEW b \in Seq(Cell), NEW n \in 0 .. Len(b)
  PROVE  /\ SubSeq(b, 1, n) \in Seq(Cell)
         /\ SubSeq(b, n + 1, Len(b)) \in Seq(Cell)
         /\ b = SubSeq(b, 1, n) \o SubSeq(b, n + 1, Len(b))
<1> DEFINE c == SubSeq(b, 1, n)
           d == SubSeq(b, n + 1, Len(b))
<1>0. n \in Nat /\ Len(b) \in Nat /\ n <= Len(b) /\ \A i \in 1 .. Len(b) : b[i] \in Cell
  OBVIOUS
<1>1. c \in Seq(Cell) /\ Len(c) = n /\ \A i \in 1 .. n : c[i] = b[i]
  BY <1>0
<1>2. d \in Seq(Cell) /\ Len(d) = Len(b) - n /\ \A i \in 1 .. Len(b) - n : d[i] = b[n + i]
  BY <1>0
<1> HIDE DEF c, d
<1>3. /\ c \o d \in Seq(Cell) /\ Len(c \o d) = Len(c) + Len(d)
      /\ \A k \in 1 .. Len(c) : (c \o d)[k] = c[k]
      /\ \A k \in 1 .. Len(d) : (c \o d)[Len(c) + k] = d[k]
  BY <1>1, <1>2, ConcatAt
<1> DEFINE e == c \o d
<1>4. e \in Seq(Cell) /\ Len(e) = Len(b)
  BY <1>0, <1>1, <1>2, <1>3
<1>5. ASSUME NEW k \in 1 .. Len(b) PROVE e[k] = b[k]
  <2>1. CASE k <= n
    <3>1. k \in 1 .. n BY <1>0, <2>1
    <3>2. QED BY <1>1, <1>3, <3>1
  <2>2. CASE ~(k <= n)
    <3>1. k - n \in 1 .. Len(b) - n /\ n + (k - n) = k BY <1>0, <2>2
    <3>2. e[Len(c) + (k - n)] = d[k - n] BY <1>2, <1>3, <3>1
    <3>3. QED BY <1>1, <1>2, <3>1, <3>2
  <2>3. QED BY <2>1, <2>2
<1> HIDE DEF e
<1>6. b = e
  BY <1>4, <1>5, SeqEqual
<1>7. QED BY <1>1, <1>2, <1>6 DEF c, d, e

\* A log that was just created has no records.
LEMMA ReadEmpty == readFrom(<<>>) = <<>>
<1> DEFINE f == <<>>
<1>1. f \in Seq(Cell) /\ Len(f) = 0
  OBVIOUS
<1> HIDE DEF f
<1>2. PICK R : readFrom(f) = R[1] /\ Reads(f, R)
  BY <1>1, ReadFromEq
<1>3. 1 \in 1 .. Len(f) + 1 /\ Stops(f, 1)
  BY <1>1 DEF Stops
<1>4. R[1] = <<>>
  BY <1>1, <1>2, <1>3, ReadStops
<1>5. QED BY <1>2, <1>4 DEF f

\* A log that was never opened.
LEMMA InitInv == Init => LogInv
<1> SUFFICES ASSUME Init PROVE LogInv
  OBVIOUS
<1>1. TypeOK
  <2>1. nextLSN \in 1 .. MaxLSN + 1
    BY LogAssumption DEF Init
  <2>2. file \in Seq(Cell) /\ buffer \in Seq(Cell)
    BY DEF Init
  <2>3. up \in BOOLEAN /\ clean \in BOOLEAN /\ committing = {} /\ acked = {}
    BY DEF Init
  <2>4. QED BY <2>1, <2>2, <2>3 DEF TypeOK
<1>2. stream = <<>>
  BY NothingAppended DEF Init, stream
<1>3. Increasing(readFrom(stream))
  BY <1>2, ReadEmpty DEF Increasing
<1>4. QED BY <1>1, <1>3 DEF Init, LogInv, Down, NextIsNew, CleanIsWhole, CleanCommitDurable

\* The records that were readable are readable still, in their places.
Kept == Adds(readAllRecords', readAllRecords, Seq(Read))

\* Then the older records are a prefix of the later ones.
LEMMA KeptIsPrefix ==
  ASSUME TypeOK, Kept
  PROVE  /\ IsPrefix(readAllRecords, readAllRecords')
         /\ ToSet(readAllRecords) \subseteq ToSet(readAllRecords')
<1> DEFINE s == readAllRecords
           t == readAllRecords'
<1>1. s \in Seq(Read)
  BY ReadMore DEF TypeOK, readAllRecords
<1>2. PICK u \in Seq(Read) : t = s \o u
  BY DEF Kept, Adds
<1> HIDE DEF s, t
<1>3. ToSet(s) \subseteq ToSet(t)
  BY <1>1, <1>2, ReadPrefix
<1>4. IsPrefix(s, t)
  <2>1. /\ t \in Seq(Read) /\ Len(s) <= Len(t) /\ Len(s) \in Nat /\ Len(t) \in Nat
        /\ \A k \in 1 .. Len(s) : t[k] = s[k]
    BY <1>1, <1>2, ConcatAt
  <2>2. SubSeq(s, 1, Len(s)) = SubSeq(t, 1, Len(s))
    <3>1. SubSeq(s, 1, Len(s)) = [i \in 1 .. Len(s) |-> s[i]]
      BY <1>1
    <3>2. SubSeq(t, 1, Len(s)) = [i \in 1 .. Len(s) |-> t[i]]
      BY <2>1
    <3>3. QED BY <2>1, <3>1, <3>2
  <2>3. QED BY <2>1, <2>2 DEF IsPrefix
<1>5. QED BY <1>3, <1>4 DEF s, t

\* A step that leaves the file alone,
LEMMA FileSame ==
  ASSUME TypeOK, file' = file
  PROVE  Kept /\ readAllRecords' = readAllRecords
<1>1. readAllRecords' = readAllRecords
  BY DEF readAllRecords
<1>2. readAllRecords \in Seq(Read)
  BY ReadMore DEF TypeOK, readAllRecords
<1>3. readAllRecords = readAllRecords \o <<>> /\ <<>> \in Seq(Read)
  BY <1>2
<1>4. QED BY <1>1, <1>3 DEF Kept, Adds

\* and a step that appends cells to it, leave what was readable.
LEMMA FileGrows ==
  ASSUME TypeOK, NEW c \in Seq(Cell), file' = file \o c
  PROVE  Kept
<1>1. readAllRecords' = readFrom(file \o c) /\ file \in Seq(Cell)
  BY DEF readAllRecords, TypeOK
<1>2. \E u \in Seq(Read) : readFrom(file \o c) = readFrom(file) \o u
  BY <1>1, ReadMore
<1>3. QED BY <1>1, <1>2 DEF Kept, Adds, readAllRecords

\* So a commit that was readable is.
LEMMA DurableKept ==
  ASSUME TypeOK, CleanCommitDurable, Kept, acked' = acked
  PROVE  CleanCommitDurable'
BY KeptIsPrefix DEF CleanCommitDurable

-------------------------------------------------------------------------------
(* Every action keeps it *)

\* open finds the file as the last process left it, torn perhaps, and takes a
\* number above all that it can read there.
LEMMA OpenStep ==
  ASSUME LogInv, open
  PROVE  LogInv' /\ Kept
<1> USE DEF LogInv
<1>1. file' = file /\ buffer' = buffer /\ buffer = <<>> /\ committing' = {} /\ acked' = acked
  BY DEF open, appendMode, Down
<1>2. stream' = file /\ stream = file /\ file \in Seq(Cell)
  BY <1>1, NothingAppended DEF stream, TypeOK
<1>3. Kept /\ readAllRecords' = readAllRecords
  BY <1>1, FileSame
<1>4. readFrom(file) \in Seq(Read)
  BY <1>2, ReadMore
<1>5. /\ lsnAfter(readFrom(file)) \in 1 .. MaxLSN + 1
      /\ Below(readFrom(file), lsnAfter(readFrom(file)))
  BY <1>4, LsnAfter
<1>6. MaxLSN \in Nat
  BY LogAssumption
<1>7. nextLSN' \in lsnAfter(readFrom(file)) .. MaxLSN + 1
  BY <1>5, <1>6 DEF open, readAllRecords
<1>8. Whole(file) \in BOOLEAN
  BY DEF Whole
<1>9. TypeOK'
  <2>1. nextLSN' \in 1 .. MaxLSN + 1
    BY <1>5, <1>6, <1>7
  <2>2. QED BY <1>1, <1>8, <2>1 DEF TypeOK, open
<1>10. Below(readFrom(file), nextLSN')
  <2>1. \A r \in Logged(readFrom(file)) : r.lsn \in Nat
    BY <1>4, LoggedLsn
  <2>2. QED BY <1>5, <1>6, <1>7, <2>1 DEF Below
<1>11. Down' /\ NextIsNew'
  BY <1>1, <1>2, <1>10 DEF Down, NextIsNew, open
<1>12. CleanIsWhole'
  BY <1>1, <1>2 DEF CleanIsWhole, open
<1>13. Increasing(readFrom(stream))'
  BY <1>2
<1>14. CleanCommitDurable'
  BY <1>1, <1>3, DurableKept
<1>15. QED BY <1>3, <1>9, <1>11, <1>12, <1>13, <1>14

\* What appendLog does, whoever calls it.
LEMMA AppendStep ==
  ASSUME LogInv, NEW type \in LogRecordType, NEW x \in TxnId, NEW rec \in LogRecord,
         appendLog(type, x, rec),
         committing' \subseteq committing \cup {rec},
         UNCHANGED <<up, file, acked, clean>>
  PROVE  LogInv' /\ Kept
<1> USE DEF LogInv
<1> DEFINE s == readFrom(stream)
<1>1. /\ up /\ up' = up /\ file' = file /\ acked' = acked /\ clean' = clean
      /\ rec.lsn = nextLSN /\ nextLSN' = nextLSN + 1 /\ nextLSN <= MaxLSN
      /\ nextLSN \in 1 .. MaxLSN + 1 /\ MaxLSN \in Nat
  BY LogAssumption DEF appendLog, TypeOK
<1>2. /\ file \in Seq(Cell) /\ buffer \in Seq(Cell) /\ stream \in Seq(Cell)
      /\ sizeOf(rec) \in Seq(Cell) /\ serializeRecord(rec) \in Seq(Cell)
      /\ encoded(rec) \in Seq(Cell)
  <2>1. file \in Seq(Cell) /\ buffer \in Seq(Cell)
    BY DEF TypeOK
  <2>2. stream \in Seq(Cell)
    BY <2>1, ConcatAt DEF stream
  <2>3. sizeOf(rec) \in Seq(Cell)
    <3>1. [rec |-> rec, part |-> 0] \in Cell BY DEF Cell
    <3>2. QED BY <3>1 DEF sizeOf
  <2>4. QED BY <2>1, <2>2, <2>3, EncodedCells
<1>3. buffer' = buffer \o encoded(rec) /\ buffer' \in Seq(Cell)
  <2>1. buffer' = (buffer \o sizeOf(rec)) \o serializeRecord(rec)
    BY DEF appendLog
  <2> DEFINE a == sizeOf(rec)
             b == serializeRecord(rec)
  <2>2. a \in Seq(Cell) /\ b \in Seq(Cell) /\ buffer \in Seq(Cell)
    BY <1>2
  <2> HIDE DEF a, b
  <2>3. (buffer \o a) \o b = buffer \o (a \o b)
    BY ONLY <2>2, Assoc, SMTT(30)
  <2>4. buffer' = buffer \o encoded(rec)
    BY <2>1, <2>3 DEF encoded, a, b
  <2> DEFINE e == encoded(rec)
  <2>5. e \in Seq(Cell) BY <1>2
  <2> HIDE DEF e
  <2>6. buffer \o e \in Seq(Cell) BY <2>2, <2>5, ConcatAt
  <2>7. QED BY <2>4, <2>6 DEF e
<1>4. Appended(stream', stream, rec)
  <2> DEFINE e == encoded(rec)
             b == buffer
             f == file
  <2>1. e \in Seq(Cell) /\ b \in Seq(Cell) /\ f \in Seq(Cell) BY <1>2
  <2>2. stream' = f \o (b \o e) /\ stream = f \o b BY <1>1, <1>3 DEF stream
  <2> HIDE DEF e, b, f
  <2>3. (f \o b) \o e = f \o (b \o e) BY ONLY <2>1, Assoc, SMTT(30)
  <2>4. QED BY <2>2, <2>3 DEF Appended, e
<1>5. s \in Seq(Read)
  BY <1>2, ReadMore
<1>6. PICK u \in Seen(rec) : readFrom(stream') = s \o u
  <2>1. stream' = stream \o encoded(rec) BY <1>4 DEF Appended
  <2>2. \E u \in Seen(rec) : readFrom(stream \o encoded(rec)) = readFrom(stream) \o u
    BY <1>2, ReadAppended
  <2>3. QED BY <2>1, <2>2
<1>7. u \in Seq(Read)
  BY DEF Seen
<1>8. Below(s, rec.lsn) /\ Increasing(s)
  BY <1>1 DEF NextIsNew
<1> HIDE DEF s
<1>9. Increasing(s \o u) /\ Below(s \o u, rec.lsn + 1)
  BY <1>5, <1>8, IncreasingAppend
<1>10. Increasing(readFrom(stream))' /\ NextIsNew'
  <2>1. NextIsNew'
    BY <1>1, <1>6, <1>9 DEF NextIsNew
  <2>2. QED BY <1>6, <1>9, <2>1
<1>11. CleanIsWhole'
  <2> SUFFICES ASSUME clean PROVE (Whole(stream) /\ committing \subseteq ToSet(readFrom(stream)))'
    BY <1>1 DEF CleanIsWhole
  <2>1. Whole(stream) /\ committing \subseteq ToSet(s)
    BY <1>1 DEF CleanIsWhole, s
  <2>2. Whole(stream') /\ rec \in ToSet(readFrom(stream'))
    BY <1>2, <1>4, <2>1, WholeAppended
  <2>3. ToSet(s) \subseteq ToSet(readFrom(stream'))
    BY <1>5, <1>6, <1>7, ReadPrefix
  <2>4. QED BY <2>1, <2>2, <2>3
<1>12. TypeOK'
  <2>1. nextLSN' \in 1 .. MaxLSN + 1
    BY <1>1
  <2>2. committing' \subseteq LogRecord
    BY DEF TypeOK
  <2>3. QED BY <1>1, <1>3, <2>1, <2>2 DEF TypeOK
<1>13. Down'
  BY <1>1 DEF Down
<1>14. Kept
  BY <1>1, FileSame
<1>15. CleanCommitDurable'
  BY <1>1, <1>14, DurableKept
<1>16. QED BY <1>10, <1>11, <1>12, <1>13, <1>14, <1>15

\* flushLog, in the second half of logCommit, perhaps with the records of other
\* threads in the buffer: the stream is the same, all of it is in the file now.
LEMMA FlushStep ==
  ASSUME LogInv, NEW rec \in LogRecord, flushLog(rec)
  PROVE  LogInv' /\ Kept
<1> USE DEF LogInv
<1>1. /\ up /\ up' = up /\ clean' = clean /\ nextLSN' = nextLSN
      /\ file' = stream /\ buffer' = <<>> /\ committing' = committing \ {rec}
      /\ rec \in committing /\ acked' = acked \cup {[rec |-> rec, clean |-> clean]}
  BY DEF flushLog, flushed, stream
<1>2. file \in Seq(Cell) /\ buffer \in Seq(Cell) /\ stream \in Seq(Cell) /\ clean \in BOOLEAN
  <2>1. file \in Seq(Cell) /\ buffer \in Seq(Cell) /\ clean \in BOOLEAN
    BY DEF TypeOK
  <2>2. QED BY <2>1, ConcatAt DEF stream
<1>3. stream' = stream
  BY <1>1, <1>2, NothingAppended DEF stream
<1>4. Kept
  BY <1>1, <1>2, FileGrows DEF stream
<1>5. TypeOK'
  <2>1. [rec |-> rec, clean |-> clean] \in [rec : LogRecord, clean : BOOLEAN]
    BY <1>2
  <2>2. QED BY <1>1, <1>2, <2>1 DEF TypeOK
<1>6. Down' /\ NextIsNew' /\ CleanIsWhole' /\ Increasing(readFrom(stream))'
  <2>1. Down' BY <1>1 DEF Down
  <2>2. NextIsNew' BY <1>1, <1>3 DEF NextIsNew
  <2>3. CleanIsWhole' BY <1>1, <1>3 DEF CleanIsWhole
  <2>4. QED BY <1>3, <2>1, <2>2, <2>3
<1>7. CleanCommitDurable'
  <2>1. readAllRecords' = readFrom(stream)
    BY <1>1 DEF readAllRecords
  <2>2. ToSet(readAllRecords) \subseteq ToSet(readAllRecords')
    BY <1>4, KeptIsPrefix
  <2>3. clean => rec \in ToSet(readAllRecords')
    BY <1>1, <2>1 DEF CleanIsWhole
  <2>4. QED BY <1>1, <2>2, <2>3 DEF CleanCommitDurable
<1>8. QED BY <1>4, <1>5, <1>6, <1>7

\* The end of the process: some part of the buffer gets to the file.
LEMMA DownStep ==
  ASSUME LogInv, NEW c \in Seq(Cell), NEW d \in Seq(Cell), buffer = c \o d,
         file' = file \o c, up' = FALSE, buffer' = <<>>, nextLSN' = 1, committing' = {},
         UNCHANGED <<acked, clean>>
  PROVE  LogInv' /\ Kept
<1> USE DEF LogInv
<1>1. file \in Seq(Cell) /\ file' \in Seq(Cell)
  <2>1. file \in Seq(Cell) BY DEF TypeOK
  <2>2. file \o c \in Seq(Cell) BY <2>1, ConcatAt
  <2>3. QED BY <2>1, <2>2
<1>2. stream' = file' /\ stream = file' \o d
  <2>1. stream' = file' BY <1>1, NothingAppended DEF stream
  <2>2. (file \o c) \o d = file \o (c \o d)
    <3>1. file \in Seq(Cell) /\ c \in Seq(Cell) /\ d \in Seq(Cell) BY <1>1
    <3>2. QED BY ONLY <3>1, Assoc
  <2>3. QED BY <2>1, <2>2 DEF stream
<1>3. Kept
  BY FileGrows
<1>4. Increasing(readFrom(stream))'
  <2> DEFINE g == file'
  <2>1. g \in Seq(Cell) BY <1>1
  <2> HIDE DEF g
  <2>2. readFrom(g) \in Seq(Read) /\ \E u \in Seq(Read) : readFrom(g \o d) = readFrom(g) \o u
    BY <2>1, ReadMore
  <2>3. Increasing(readFrom(g \o d))
    BY <1>2 DEF g
  <2>4. Increasing(readFrom(g))
    BY <2>2, <2>3, IncreasingPrefix
  <2>5. QED BY <1>2, <2>4 DEF g
<1>5. TypeOK'
  <2>1. nextLSN' \in 1 .. MaxLSN + 1
    BY LogAssumption
  <2>2. buffer' \in Seq(Cell)
    OBVIOUS
  <2>3. up' \in BOOLEAN
    BY Zenon
  <2>4. clean' \in BOOLEAN
    BY Zenon DEF TypeOK
  <2>5. committing' \subseteq LogRecord /\ acked' \subseteq [rec : LogRecord, clean : BOOLEAN]
    BY DEF TypeOK
  <2>6. QED BY <1>1, <2>1, <2>2, <2>3, <2>4, <2>5 DEF TypeOK
<1>6. Down' /\ NextIsNew' /\ CleanIsWhole'
  BY DEF Down, NextIsNew, CleanIsWhole
<1>7. CleanCommitDurable'
  BY <1>3, DurableKept
<1>8. QED BY <1>3, <1>4, <1>5, <1>6, <1>7

\* crash cuts the buffer anywhere,
LEMMA CrashStep ==
  ASSUME LogInv, crash
  PROVE  LogInv' /\ Kept
<1>1. PICK n \in 0 .. Len(buffer) : file' = file \o SubSeq(buffer, 1, n)
  BY DEF crash
<1>2. buffer \in Seq(Cell) /\ file \in Seq(Cell)
  BY DEF LogInv, TypeOK
<1> DEFINE c == SubSeq(buffer, 1, n)
           d == SubSeq(buffer, n + 1, Len(buffer))
<1>3. c \in Seq(Cell) /\ d \in Seq(Cell) /\ buffer = c \o d
  BY <1>2, SplitAt
<1>4. file' = file \o c
  BY <1>1
<1> HIDE DEF c, d
<1>5. QED BY <1>3, <1>4, DownStep DEF crash

\* ~LogManager writes all of it.
LEMMA CloseStep ==
  ASSUME LogInv, close
  PROVE  LogInv' /\ Kept
<1>1. buffer \in Seq(Cell) /\ <<>> \in Seq(Cell)
  BY DEF LogInv, TypeOK
<1>2. buffer = buffer \o <<>>
  BY <1>1
<1>3. file' = file \o buffer /\ committing' = {}
  BY DEF close, flushed
<1>4. QED BY <1>1, <1>2, <1>3, DownStep DEF close

\* Every step keeps the invariant and the readable records.
LEMMA StepInv == LogInv /\ [Next]_vars => LogInv' /\ Kept
<1> SUFFICES ASSUME LogInv, [Next]_vars PROVE LogInv' /\ Kept
  OBVIOUS
<1>1. CASE open
  BY <1>1, OpenStep
<1>2. ASSUME NEW x \in TxnId, NEW type \in LogRecordType, log(type, x) PROVE LogInv' /\ Kept
  <2>1. PICK rec \in LogRecord : appendLog(type, x, rec)
    BY <1>2 DEF log
  <2>2. committing' \subseteq committing \cup {rec} /\ UNCHANGED <<up, file, acked, clean>>
    BY <1>2 DEF log
  <2>3. QED BY <2>1, <2>2, AppendStep
<1>3. ASSUME NEW x \in TxnId, logCommit(x) PROVE LogInv' /\ Kept
  <2>1. PICK rec \in LogRecord : appendLog("COMMIT_TXN", x, rec)
                                 /\ committing' = committing \cup {rec}
    BY <1>3 DEF logCommit
  <2>2. UNCHANGED <<up, file, acked, clean>> /\ "COMMIT_TXN" \in LogRecordType
    BY <1>3 DEF logCommit, LogRecordType
  <2>3. QED BY <2>1, <2>2, AppendStep
<1>4. ASSUME NEW rec \in LogRecord, flushLog(rec) PROVE LogInv' /\ Kept
  BY <1>4, FlushStep
<1>5. CASE crash
  BY <1>5, CrashStep
<1>6. CASE close
  BY <1>6, CloseStep
<1>7. CASE UNCHANGED vars
  <2>1. UNCHANGED <<up, file, buffer, nextLSN, committing, acked, clean>>
    BY <1>7 DEF vars
  <2>2. Kept /\ readAllRecords' = readAllRecords
    BY <2>1, FileSame DEF LogInv
  <2>3. QED BY <2>1, <2>2 DEF LogInv, TypeOK, Down, NextIsNew, CleanIsWhole, CleanCommitDurable, stream
<1>8. ASSUME NEW x \in TxnId,
             logBegin(x) \/ logAbort(x) \/ logInsert(x) \/ logDelete(x) \/ logCommit(x)
      PROVE  LogInv' /\ Kept
  <2>1. {"BEGIN_TXN", "ABORT_TXN", "INSERT", "DELETE"} \subseteq LogRecordType
    BY DEF LogRecordType
  <2>2. QED BY <1>2, <1>3, <1>8, <2>1 DEF logBegin, logAbort, logInsert, logDelete
<1>9. QED BY <1>1, <1>4, <1>5, <1>6, <1>7, <1>8 DEF Next

\* LogInv holds of the log that open, appendLog, flushLog and ~LogManager write,
\* with a crash at any moment.
THEOREM LogCorrect == Spec => []LogInv
<1>1. Init => LogInv
  BY InitInv
<1>2. LogInv /\ [Next]_vars => LogInv'
  BY StepInv
<1>3. QED BY <1>1, <1>2, PTL DEF Spec

\* Every variable of LogManager.cpp keeps its type: the next number is never
\* further than one above the greatest.
THEOREM LogTypeCorrect == Spec => []TypeOK
<1>1. LogInv => TypeOK
  BY DEF LogInv
<1>2. QED BY <1>1, LogCorrect, PTL

\* The numbers that readAllRecords meets increase, for any number of crashes and
\* torn records: open starts above all that can be read, and what a torn record
\* hides behind it is hidden for ever.
THEOREM LSNsIncreaseHolds == Spec => []LSNsIncrease
<1>1. LogInv => LSNsIncrease
  <2> SUFFICES ASSUME LogInv PROVE LSNsIncrease
    OBVIOUS
  <2>1. file \in Seq(Cell) /\ buffer \in Seq(Cell)
    BY DEF LogInv, TypeOK
  <2>2. readFrom(file) \in Seq(Read) /\ \E u \in Seq(Read) : readFrom(file \o buffer) = readFrom(file) \o u
    BY <2>1, ReadMore
  <2>3. Increasing(readFrom(file \o buffer))
    BY DEF LogInv, stream
  <2>4. Increasing(readFrom(file))
    BY <2>2, <2>3, IncreasingPrefix
  <2>5. QED BY <2>4 DEF LSNsIncrease, Increasing, readAllRecords
<1>2. QED BY <1>1, LogCorrect, PTL

\* logCommit on a log that was opened whole: the record is in the file when the
\* call returns, and every later reader meets it.
THEOREM CleanCommitDurableHolds == Spec => []CleanCommitDurable
<1>1. LogInv => CleanCommitDurable
  BY DEF LogInv
<1>2. QED BY <1>1, LogCorrect, PTL

\* readAllRecords returns what it returned before, and perhaps more, whatever the
\* process and its crashes do in between.
THEOREM ReadableKeptHolds == Spec => ReadableKept
<1>1. LogInv /\ [Next]_vars => [IsPrefix(readAllRecords, readAllRecords')]_vars
  <2> SUFFICES ASSUME LogInv, [Next]_vars PROVE IsPrefix(readAllRecords, readAllRecords')
    OBVIOUS
  <2>1. Kept
    BY StepInv
  <2>2. QED BY <2>1, KeptIsPrefix DEF LogInv
<1>2. QED BY <1>1, LogCorrect, PTL DEF Spec, ReadableKept
================================================================================
