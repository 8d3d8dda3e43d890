------------------------------ MODULE ListLemmas ------------------------------
(***************************************************************************)
(* Facts about std::list operations on lists without duplicates, used by   *)
(* the proofs about the LRU list, the free list and the request queues;    *)
(* induction, stated with sets, for the loops over a file, a list or a     *)
(* tree; parts of sequences and least numbers, for vectors.                *)
(***************************************************************************)
EXTENDS Integers, Sequences, SequencesExt, FiniteSetsExt, FiniteSetTheorems,
        SequenceTheorems, WellFoundedInduction, TLAPS

-------------------------------------------------------------------------------
(* Induction *)

\* Induction over the natural numbers: < is well-founded, so that the least
\* number outside S would follow one inside.
LEMMA SetInduction ==
  ASSUME NEW S, 0 \in S, \A n \in Nat : n \in S => n + 1 \in S
  PROVE  Nat \subseteq S
<1> DEFINE T == Nat \ S
           R == OpToRel(<, Nat)
<1>1. SUFFICES ASSUME T # {} PROVE FALSE
  OBVIOUS
<1>2. IsWellFoundedOn(R, Nat)
  BY NatLessThanWellFounded
<1>3. \A i, j \in Nat : <<i, j>> \in R <=> i < j
  BY DEF OpToRel
<1> HIDE DEF R
<1>4. PICK x \in T : \A y \in T : <<y, x>> \notin R
  <2>1. T \subseteq Nat OBVIOUS
  <2> HIDE DEF T
  <2>2. \E x \in T : \A y \in T : ~(<<y, x>> \in R)
    BY <1>1, <1>2, <2>1, WFMin
  <2>3. QED BY <2>2
<1>5. x \in Nat /\ x # 0 /\ x - 1 \in Nat /\ x - 1 < x /\ (x - 1) + 1 = x
  OBVIOUS
<1>6. x - 1 \notin T
  BY <1>3, <1>4, <1>5
<1>7. QED BY <1>5, <1>6

\* Induction from the last position of a file or a list to the first.
LEMMA DownInduction ==
  ASSUME NEW N \in Nat, NEW S,
         \A i \in 1 .. N : (\A j \in i + 1 .. N : j \in S) => i \in S
  PROVE  1 .. N \subseteq S
<1> DEFINE U == {k \in Nat : \A j \in 1 .. N : j > N - k => j \in S}
<1>1. 0 \in U
  OBVIOUS
<1>2. ASSUME NEW k \in Nat, k \in U PROVE k + 1 \in U
  <2>1. SUFFICES ASSUME NEW j \in 1 .. N, j > N - (k + 1) PROVE j \in S
    OBVIOUS
  <2>2. \A m \in j + 1 .. N : m \in 1 .. N /\ m > N - k
    BY <2>1
  <2>3. \A m \in j + 1 .. N : m \in S
    BY <1>2, <2>2
  <2>4. QED BY <2>3
<1>3. Nat \subseteq U
  <2> HIDE DEF U
  <2>1. QED BY <1>1, <1>2, SetInduction
<1>4. N \in U
  BY <1>3
<1>5. QED BY <1>4

\* A set of numbers has a least.
LEMMA MinExists ==
  ASSUME NEW T, T \subseteq Nat, T # {}
  PROVE  Min(T) \in T /\ \A y \in T : Min(T) <= y
<1> DEFINE S == {n \in Nat : \A m \in 0 .. n : m \notin T}
<1>1. SUFFICES \E x \in T : \A y \in T : x =< y
  BY DEF Min
<1>2. SUFFICES ASSUME ~(\E x \in T : \A y \in T : x =< y) PROVE FALSE
  OBVIOUS
<1>3. 0 \in S
  <2>1. SUFFICES ASSUME 0 \in T PROVE FALSE
    OBVIOUS
  <2>2. \A y \in T : 0 =< y
    OBVIOUS
  <2>3. QED BY <1>2, <2>1, <2>2
<1>4. ASSUME NEW n \in Nat, n \in S PROVE n + 1 \in S
  <2>1. SUFFICES ASSUME n + 1 \in T PROVE FALSE
    BY <1>4
  <2>2. \A y \in T : ~(y \in 0 .. n)
    BY <1>4
  <2>3. \A y \in T : n + 1 =< y
    BY <2>2
  <2>4. QED BY <1>2, <2>1, <2>3
<1>5. Nat \subseteq S
  <2> HIDE DEF S
  <2>1. QED BY <1>3, <1>4, SetInduction
<1>6. PICK x \in T : TRUE
  OBVIOUS
<1>7. x \in Nat /\ x \in 0 .. x
  OBVIOUS
<1>8. x \in S
  BY <1>5, <1>7
<1>9. QED BY <1>7, <1>8

-------------------------------------------------------------------------------
(* Concatenation *)

\* Appending to a file that was appended to: how the parts are grouped does not matter.
LEMMA Assoc ==
  ASSUME NEW S, NEW s \in Seq(S), NEW t \in Seq(S), NEW u \in Seq(S)
  PROVE  (s \o t) \o u = s \o (t \o u)
OBVIOUS

\* What is where after bytes were appended.
LEMMA ConcatAt ==
  ASSUME NEW S, NEW s \in Seq(S), NEW t \in Seq(S)
  PROVE  /\ s \o t \in Seq(S) /\ Len(s \o t) = Len(s) + Len(t)
         /\ \A k \in 1 .. Len(s) : (s \o t)[k] = s[k]
         /\ \A k \in 1 .. Len(t) : (s \o t)[Len(s) + k] = t[k]
OBVIOUS

\* Two entries appended one after the other.
LEMMA Pairs ==
  ASSUME NEW S, NEW x \in S, NEW y \in S
  PROVE  <<x>> \o <<>> = <<x>> /\ <<x>> \o <<y>> = <<x, y>>
<1> DEFINE l == <<x>> \o <<y>>
           r == <<x, y>>
<1>1. l \in Seq(S) /\ r \in Seq(S) /\ Len(l) = 2 /\ Len(r) = 2
  OBVIOUS
<1>2. l[1] = r[1] /\ l[2] = r[2]
  OBVIOUS
<1>3. \A i \in 1 .. Len(l) : l[i] = r[i]
  BY <1>1, <1>2
<1> HIDE DEF l, r
<1>4. l = r
  BY <1>1, <1>3, SeqEqual
<1>5. <<x>> \o <<>> = <<x>>
  OBVIOUS
<1>6. QED BY <1>4, <1>5 DEF l, r

\* A part of a text or of a list.
LEMMA PartOf ==
  ASSUME NEW S, NEW s \in Seq(S), NEW a \in Nat, NEW b \in Nat,
         1 <= a, a <= b + 1, b <= Len(s)
  PROVE  /\ SubSeq(s, a, b) \in Seq(S) /\ Len(SubSeq(s, a, b)) = b - a + 1
         /\ \A i \in 1 .. b - a + 1 : SubSeq(s, a, b)[i] = s[a + i - 1]
<1> DEFINE n == b - a + 1
           f == [i \in 1 .. n |-> s[a + i - 1]]
<1>1. \A i \in 1 .. Len(s) : s[i] \in S
  BY ElementOfSeq
<1>2. SubSeq(s, a, b) = f
  OBVIOUS
<1>3. n \in Nat /\ \A i \in 1 .. n : a + i - 1 \in 1 .. Len(s)
  OBVIOUS
<1>4. f \in [1 .. n -> S]
  BY <1>1, <1>3
<1>5. f \in Seq(S) /\ Len(f) = n
  BY <1>3, <1>4
<1>6. \A i \in 1 .. n : f[i] = s[a + i - 1]
  OBVIOUS
<1> HIDE DEF f
<1>7. QED BY <1>2, <1>5, <1>6

-------------------------------------------------------------------------------
(* Lists without duplicates *)

\* list::pop_front (the free list of findVictimFrame) removes exactly the head.
LEMMA HeadTail ==
  ASSUME NEW S, NEW s \in Seq(S), s # <<>>, IsInjective(s)
  PROVE  /\ Head(s) \in ToSet(s)
         /\ Tail(s) \in Seq(S)
         /\ IsInjective(Tail(s))
         /\ ToSet(Tail(s)) = ToSet(s) \ {Head(s)}
<1>1. Len(s) \in Nat \ {0} /\ DOMAIN s = 1 .. Len(s) /\ Head(s) = s[1]
  OBVIOUS
<1>2. Tail(s) \in Seq(S) /\ DOMAIN Tail(s) = 1 .. Len(s) - 1
      /\ \A i \in 1 .. Len(s) - 1 : Tail(s)[i] = s[i + 1]
  OBVIOUS
<1>3. IsInjective(Tail(s))
  BY <1>1, <1>2 DEF IsInjective
<1>4. ASSUME NEW x PROVE x \in ToSet(Tail(s)) <=> x \in ToSet(s) \ {Head(s)}
  <2>1. ASSUME x \in ToSet(Tail(s)) PROVE x \in ToSet(s) \ {Head(s)}
    BY <1>1, <1>2, <2>1 DEF ToSet, IsInjective
  <2>2. ASSUME x \in ToSet(s) \ {Head(s)} PROVE x \in ToSet(Tail(s))
    <3>1. PICK i \in 1 .. Len(s) : x = s[i]
      BY <1>1, <2>2 DEF ToSet
    <3>2. i - 1 \in 1 .. Len(s) - 1 /\ Tail(s)[i - 1] = x
      BY <1>1, <1>2, <2>2, <3>1
    <3>3. QED BY <1>2, <3>2 DEF ToSet
  <2>3. QED BY <2>1, <2>2
<1>5. ToSet(Tail(s)) = ToSet(s) \ {Head(s)}
  BY <1>4
<1>6. Head(s) \in ToSet(s)
  BY <1>1 DEF ToSet
<1>7. QED BY <1>2, <1>3, <1>5, <1>6

\* list::pop_back (the LRU victim) removes exactly the last element.
LEMMA FrontLast ==
  ASSUME NEW S, NEW s \in Seq(S), s # <<>>, IsInjective(s)
  PROVE  /\ Last(s) \in ToSet(s)
         /\ Front(s) \in Seq(S)
         /\ IsInjective(Front(s))
         /\ ToSet(Front(s)) = ToSet(s) \ {Last(s)}
<1>1. Len(s) \in Nat \ {0} /\ DOMAIN s = 1 .. Len(s) /\ Last(s) = s[Len(s)]
  BY DEF Last
<1>2. Front(s) \in Seq(S) /\ DOMAIN Front(s) = 1 .. Len(s) - 1
      /\ \A i \in 1 .. Len(s) - 1 : Front(s)[i] = s[i]
  BY <1>1 DEF Front
<1>3. IsInjective(Front(s))
  BY <1>1, <1>2 DEF IsInjective
<1>4. ToSet(Front(s)) = ToSet(s) \ {Last(s)}
  BY <1>1, <1>2 DEF ToSet, IsInjective
<1>5. Last(s) \in ToSet(s)
  BY <1>1 DEF ToSet
<1>6. QED BY <1>2, <1>3, <1>4, <1>5

\* list::push_front of an element that is not in the list adds exactly it.
LEMMA ConsFresh ==
  ASSUME NEW S, NEW s \in Seq(S), NEW e \in S, IsInjective(s), e \notin ToSet(s)
  PROVE  /\ Cons(e, s) \in Seq(S)
         /\ IsInjective(Cons(e, s))
         /\ ToSet(Cons(e, s)) = ToSet(s) \cup {e}
<1> DEFINE t == Cons(e, s)
<1>1. t \in Seq(S) /\ Len(t) = Len(s) + 1 /\ t[1] = e
      /\ \A i \in 1 .. Len(s) : t[i + 1] = s[i]
  BY DEF Cons
<1>2. Len(s) \in Nat /\ DOMAIN t = 1 .. Len(s) + 1 /\ DOMAIN s = 1 .. Len(s)
  BY <1>1
<1>3. \A i \in 2 .. Len(s) + 1 : i - 1 \in 1 .. Len(s) /\ t[i] = s[i - 1]
  <2>1. TAKE i \in 2 .. Len(s) + 1
  <2>2. i - 1 \in 1 .. Len(s) /\ (i - 1) + 1 = i BY <1>2
  <2>3. QED BY <1>1, <2>2
<1>4. ASSUME NEW a \in 1 .. Len(s) + 1, NEW b \in 1 .. Len(s) + 1, t[a] = t[b]
      PROVE  a = b
  <2>1. \A i \in 2 .. Len(s) + 1 : t[i] # e
    BY <1>2, <1>3 DEF ToSet
  <2>2. CASE a = 1 \/ b = 1
    BY <1>1, <1>2, <1>4, <2>1, <2>2
  <2>3. CASE a # 1 /\ b # 1
    <3>1. a \in 2 .. Len(s) + 1 /\ b \in 2 .. Len(s) + 1
      BY <1>2, <2>3
    <3>2. a - 1 = b - 1
      BY <1>2, <1>3, <1>4, <3>1 DEF IsInjective
    <3>3. QED BY <3>1, <3>2
  <2>4. QED BY <2>2, <2>3
<1>5. ToSet(t) \subseteq ToSet(s) \cup {e}
  <2>1. SUFFICES ASSUME NEW i \in 1 .. Len(s) + 1, t[i] # e PROVE t[i] \in ToSet(s)
    BY <1>2 DEF ToSet
  <2>2. i \in 2 .. Len(s) + 1
    BY <1>1, <1>2, <2>1
  <2>3. QED BY <1>2, <1>3, <2>2 DEF ToSet
<1>6. ToSet(s) \cup {e} \subseteq ToSet(t)
  <2>1. e \in ToSet(t) BY <1>1, <1>2 DEF ToSet
  <2>2. \A i \in 1 .. Len(s) : i + 1 \in DOMAIN t BY <1>2
  <2>3. QED BY <2>1, <2>2, <1>1, <1>2 DEF ToSet
<1>7. IsInjective(t)
  BY <1>2, <1>4 DEF IsInjective
<1>8. QED BY <1>1, <1>5, <1>6, <1>7

\* list::erase of an element removes exactly it, and keeps the others.
LEMMA RemoveFirstInjective ==
  ASSUME NEW S, NEW s \in Seq(S), NEW e, IsInjective(s)
  PROVE  /\ RemoveFirst(s, e) \in Seq(S)
         /\ IsInjective(RemoveFirst(s, e))
         /\ ToSet(RemoveFirst(s, e)) = ToSet(s) \ {e}
<1>0. Len(s) \in Nat /\ DOMAIN s = 1 .. Len(s)
  OBVIOUS
<1>1. CASE ~\E i \in 1 .. Len(s) : s[i] = e
  BY <1>0, <1>1 DEF RemoveFirst, ToSet
<1>2. CASE \E i \in 1 .. Len(s) : s[i] = e
  <2> DEFINE I == {i \in 1 .. Len(s) : s[i] = e}
             j == SelectInSeq(s, LAMBDA v : v = e)
             t == RemoveFirst(s, e)
  <2>1. PICK p \in 1 .. Len(s) : s[p] = e
    BY <1>2
  <2>2. I = {p}
    BY <1>0, <2>1 DEF IsInjective
  <2>3. j = p
    <3>1. j = Min(I)
      BY <1>2 DEF SelectInSeq
    <3>2. Min({p}) = p
      BY <1>0, <2>1 DEF Min
    <3>3. QED BY <2>2, <3>1, <3>2
  <2>4. t = SubSeq(s, 1, p - 1) \o SubSeq(s, p + 1, Len(s))
    BY <1>2, <2>3 DEF RemoveFirst, RemoveAt
  <2> HIDE DEF t, j, I
  <2> DEFINE u == SubSeq(s, 1, p - 1)
             v == SubSeq(s, p + 1, Len(s))
  <2>5. u \in Seq(S) /\ Len(u) = p - 1 /\ \A i \in 1 .. p - 1 : u[i] = s[i]
    <3>1. \A i \in 1 .. p - 1 : s[i] \in S
      BY <1>0, <2>1, ElementOfSeq
    <3>2. /\ u \in Seq(S)
          /\ Len(u) = IF 1 <= p - 1 THEN (p - 1) - 1 + 1 ELSE 0
          /\ \A i \in 1 .. (p - 1) - 1 + 1 : u[i] = s[1 + i - 1]
      BY <2>1, <3>1, SubSeqProperties, Z3
    <3> HIDE DEF u
    <3>3. \A i \in 1 .. p - 1 : 1 + i - 1 = i /\ i \in 1 .. (p - 1) - 1 + 1
      BY <2>1
    <3>4. QED BY <2>1, <3>2, <3>3
  <2>6. v \in Seq(S) /\ Len(v) = Len(s) - p
        /\ \A i \in 1 .. Len(s) - p : v[i] = s[p + i]
    <3>1. \A i \in p + 1 .. Len(s) : s[i] \in S
      BY <1>0, <2>1, ElementOfSeq
    <3>2. /\ v \in Seq(S)
          /\ Len(v) = IF p + 1 <= Len(s) THEN Len(s) - (p + 1) + 1 ELSE 0
          /\ \A i \in 1 .. Len(s) - (p + 1) + 1 : v[i] = s[(p + 1) + i - 1]
      BY <1>0, <2>1, <3>1, SubSeqProperties, Z3
    <3> HIDE DEF v
    <3>3. \A i \in 1 .. Len(s) - p :
            (p + 1) + i - 1 = p + i /\ i \in 1 .. Len(s) - (p + 1) + 1
      BY <1>0, <2>1
    <3>4. Len(v) = Len(s) - p
      <4>1. Len(v) = IF p + 1 <= Len(s) THEN Len(s) - (p + 1) + 1 ELSE 0
        BY <3>2
      <4>2. Len(s) \in Nat /\ p \in Nat /\ p <= Len(s)
        BY <1>0, <2>1
      <4>3. QED BY <4>1, <4>2
    <3>5. \A i \in 1 .. Len(s) - p : v[i] = s[p + i]
      BY <3>2, <3>3
    <3>6. QED BY <3>2, <3>4, <3>5
  <2> HIDE DEF u, v
  <2>7. /\ t \in Seq(S) /\ Len(t) = Len(s) - 1 /\ DOMAIN t = 1 .. Len(s) - 1
        /\ \A i \in 1 .. Len(s) - 1 : t[i] = IF i <= p - 1 THEN u[i] ELSE v[i - (p - 1)]
    <3>1. t = u \o v
      BY <2>4 DEF u, v
    <3>2. /\ t \in Seq(S) /\ Len(t) = Len(u) + Len(v)
          /\ \A i \in 1 .. Len(u) + Len(v) :
               t[i] = IF i <= Len(u) THEN u[i] ELSE v[i - Len(u)]
      BY <2>5, <2>6, <3>1, ConcatProperties
    <3>3. Len(u) + Len(v) = Len(s) - 1 /\ Len(u) = p - 1
      BY <1>0, <2>1, <2>5, <2>6
    <3>4. DOMAIN t = 1 .. Len(t)
      BY <3>2, LenProperties
    <3>5. QED BY <3>2, <3>3, <3>4
  <2>8. \A i \in 1 .. p - 1 : i \in DOMAIN t /\ t[i] = s[i]
    BY <1>0, <2>1, <2>5, <2>7, SMTT(30)
  <2>9. \A i \in p .. Len(s) - 1 : i \in DOMAIN t /\ t[i] = s[i + 1]
    <3>1. TAKE i \in p .. Len(s) - 1
    <3>2. i - (p - 1) \in 1 .. Len(s) - p /\ p + (i - (p - 1)) = i + 1
      BY <1>0, <2>1
    <3>3. i \in 1 .. Len(s) - 1 /\ ~(i <= p - 1)
      BY <1>0, <2>1
    <3>4. t[i] = v[i - (p - 1)]
      BY <2>7, <3>3
    <3>5. v[i - (p - 1)] = s[i + 1]
      BY <2>6, <3>2
    <3>6. QED BY <2>7, <3>3, <3>4, <3>5
  <2>10. IsInjective(t)
    <3>1. SUFFICES ASSUME NEW a \in 1 .. Len(s) - 1, NEW b \in 1 .. Len(s) - 1,
                          t[a] = t[b]
                   PROVE  a = b
      BY <2>7 DEF IsInjective
    <3> DEFINE up(i) == IF i < p THEN i ELSE i + 1
    <3>2. ASSUME NEW i \in 1 .. Len(s) - 1
          PROVE  up(i) \in 1 .. Len(s) /\ t[i] = s[up(i)]
      <4>1. CASE i < p BY <1>0, <2>1, <2>8, <4>1
      <4>2. CASE ~(i < p) BY <1>0, <2>1, <2>9, <4>2
      <4>3. QED BY <4>1, <4>2
    <3>3. up(a) = up(b)
      <4> HIDE DEF up
      <4>1. up(a) \in DOMAIN s /\ up(b) \in DOMAIN s /\ s[up(a)] = s[up(b)]
        BY <1>0, <3>1, <3>2
      <4>2. QED BY <4>1 DEF IsInjective
    <3>4. QED BY <1>0, <2>1, <3>3
  <2>11. ToSet(t) \subseteq ToSet(s) \ {e}
    <3>1. SUFFICES ASSUME NEW i \in 1 .. Len(s) - 1 PROVE t[i] \in ToSet(s) /\ t[i] # e
      BY <2>7 DEF ToSet
    <3>2. PICK m \in 1 .. Len(s) : m # p /\ t[i] = s[m]
      <4>1. CASE i < p BY <1>0, <2>1, <2>8, <4>1
      <4>2. CASE ~(i < p) BY <1>0, <2>1, <2>9, <4>2
      <4>3. QED BY <4>1, <4>2
    <3>3. QED BY <1>0, <2>1, <3>2 DEF ToSet, IsInjective
  <2>12. ASSUME NEW x \in ToSet(s), x # e PROVE x \in ToSet(t)
    <3>1. PICK i \in 1 .. Len(s) : s[i] = x
      BY <1>0 DEF ToSet
    <3>2. CASE i < p
      BY <1>0, <2>1, <2>7, <2>8, <3>1, <3>2 DEF ToSet
    <3>3. CASE i > p
      <4>1. i - 1 \in p .. Len(s) - 1 /\ (i - 1) + 1 = i
        BY <1>0, <2>1, <3>3
      <4>2. t[i - 1] = x /\ i - 1 \in DOMAIN t
        BY <1>0, <2>1, <2>7, <2>9, <3>1, <4>1
      <4>3. QED BY <4>2 DEF ToSet
    <3>4. QED BY <1>0, <2>1, <2>12, <3>1, <3>2, <3>3
  <2>13. QED
    <3>1. ToSet(t) = ToSet(s) \ {e} BY <2>11, <2>12
    <3>2. QED BY <2>7, <2>10, <3>1 DEF t
<1>3. QED BY <1>1, <1>2
-------------------------------------------------------------------------------
(* Counting *)

\* A finite set of numbers.
Numbers(S) == S \subseteq Int /\ IsFiniteSet(S)

\* Where x stands among the numbers of S.
UpTo(S, x) == {y \in S : y <= x}

\* How many numbers of S are not above x.
rank(S, x) == Cardinality(UpTo(S, x))

\* A number of S stands somewhere between the first and the last.
LEMMA RankIs ==
  ASSUME NEW S, Numbers(S), NEW x \in S
  PROVE  /\ IsFiniteSet(UpTo(S, x)) /\ Cardinality(S) \in Nat
         /\ rank(S, x) \in 1 .. Cardinality(S)
<1>1. IsFiniteSet(S) /\ x \in Int /\ UpTo(S, x) \in SUBSET S /\ x \in UpTo(S, x)
  BY DEF Numbers, UpTo
<1>2. IsFiniteSet(UpTo(S, x)) /\ Cardinality(UpTo(S, x)) <= Cardinality(S)
  BY <1>1, FS_Subset
<1>3. Cardinality(UpTo(S, x)) \in Nat /\ Cardinality(S) \in Nat
  BY <1>1, <1>2, FS_CardinalityType
<1>4. Cardinality(UpTo(S, x)) # 0
  BY <1>1, <1>2, FS_EmptySet
<1>5. QED BY <1>2, <1>3, <1>4 DEF rank

\* A larger number stands further behind.
LEMMA RankRises ==
  ASSUME NEW S, Numbers(S), NEW x \in S, NEW y \in S, x < y
  PROVE  rank(S, x) < rank(S, y)
<1>1. x \in Int /\ y \in Int /\ \A z \in S : z \in Int
  BY DEF Numbers
<1>2. UpTo(S, x) \in SUBSET UpTo(S, y) /\ y \in UpTo(S, y) /\ y \notin UpTo(S, x)
  <2>1. \A z \in S : z <= x => z <= y BY <1>1
  <2>2. y <= y /\ ~(y <= x) BY <1>1
  <2>3. QED BY <2>1, <2>2 DEF UpTo
<1>3. IsFiniteSet(UpTo(S, y)) /\ rank(S, x) \in Int /\ rank(S, y) \in Int
  <2>1. rank(S, x) \in 1 .. Cardinality(S) /\ rank(S, y) \in 1 .. Cardinality(S) BY RankIs
  <2>2. QED BY <2>1, RankIs
<1>4. /\ Cardinality(UpTo(S, x)) <= Cardinality(UpTo(S, y))
      /\ Cardinality(UpTo(S, x)) # Cardinality(UpTo(S, y))
  BY <1>2, <1>3, FS_Subset
<1>5. QED BY <1>3, <1>4 DEF rank

\* Two numbers do not stand at one place.
LEMMA RankOnce ==
  ASSUME NEW S, Numbers(S), NEW x \in S, NEW y \in S, rank(S, x) = rank(S, y)
  PROVE  x = y
<1>1. x \in Int /\ y \in Int /\ rank(S, x) \in Int /\ rank(S, y) \in Int
  <2>1. rank(S, x) \in 1 .. Cardinality(S) /\ rank(S, y) \in 1 .. Cardinality(S) BY RankIs
  <2>2. QED BY <2>1 DEF Numbers
<1>2. ~(x < y) /\ ~(y < x)
  BY <1>1, RankRises
<1>3. QED BY <1>1, <1>2

\* There is a number at every place.
LEMMA RankTaken ==
  ASSUME NEW S, Numbers(S), NEW i \in 1 .. Cardinality(S)
  PROVE  \E x \in S : rank(S, x) = i
<1> DEFINE N == Cardinality(S)
           f == [x \in S |-> rank(S, x)]
<1>1. IsFiniteSet(S) /\ N \in Nat
  BY FS_CardinalityType DEF Numbers
<1>2. f \in [S -> 1 .. N]
  BY RankIs
<1>3. f \in Injection(S, 1 .. N)
  BY <1>2, RankOnce DEF Injection, IsInjective
<1>4. IsFiniteSet(1 .. N) /\ Cardinality(1 .. N) = N
  <2>1. 1 \in Int /\ N \in Int /\ (1 > N => N = 0) BY <1>1
  <2> HIDE DEF N
  <2>2. IsFiniteSet(1 .. N) /\ Cardinality(1 .. N) = IF 1 > N THEN 0 ELSE N - 1 + 1
    BY <2>1, FS_Interval
  <2>3. QED BY <2>1, <2>2
<1>5. f \in Surjection(S, 1 .. N)
  BY <1>3, <1>4, FS_Injection
<1>6. QED BY <1>5 DEF Surjection

====
