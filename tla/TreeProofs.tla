------------------------------ MODULE TreeProofs ------------------------------
(***************************************************************************)
(* The B+ tree is right: search and rangeScan find what was inserted and   *)
(* not removed, and leaves stay filled.                                    *)
(*                                                                         *)
(* The invariant describes the tree with functions that the program does   *)
(* not have: lev gives the height of every node in use, low and high its   *)
(* bounds, as sets of numbers closed downwards, so that an absent bound is *)
(* {} or Int.  Each operation is shown to leave such a tree in three       *)
(* layers: what it does to vectors, what it does to the tree, and that the *)
(* model's action does this.                                               *)
(***************************************************************************)
EXTENDS BPlusTree, ListLemmas, FiniteSetTheorems

-------------------------------------------------------------------------------
(* vector::insert, vector::erase, vector::assign *)

\* t is s with e at position i.
Inserted(t, s, i, e) ==
  /\ Len(t) = Len(s) + 1 /\ t[i] = e
  /\ \A j \in 1 .. i - 1 : t[j] = s[j]
  /\ \A j \in i + 1 .. Len(s) + 1 : t[j] = s[j - 1]

\* t is s without its position i.
Removed(t, s, i) ==
  /\ Len(t) = Len(s) - 1
  /\ \A j \in 1 .. i - 1 : t[j] = s[j]
  /\ \A j \in i .. Len(s) - 1 : t[j] = s[j + 1]

\* t is the part of s from position a to position b.
Part(t, s, a, b) ==
  Len(t) = b - a + 1 /\ \A j \in 1 .. b - a + 1 : t[j] = s[a + j - 1]

\* t is s with u behind it.
Joined(t, s, u) ==
  /\ Len(t) = Len(s) + Len(u)
  /\ \A j \in 1 .. Len(s) : t[j] = s[j]
  /\ \A j \in 1 .. Len(u) : t[Len(s) + j] = u[j]

\* push_back in a loop, as \o.
LEMMA JoinIs ==
  ASSUME NEW S, NEW s \in Seq(S), NEW u \in Seq(S)
  PROVE  s \o u \in Seq(S) /\ Joined(s \o u, s, u)
BY ConcatAt DEF Joined

\* assign and resize of a vector, as SubSeq.
LEMMA PartIs ==
  ASSUME NEW S, NEW s \in Seq(S), NEW a \in Nat, NEW b \in Nat,
         1 <= a, a <= b + 1, b <= Len(s)
  PROVE  SubSeq(s, a, b) \in Seq(S) /\ Part(SubSeq(s, a, b), s, a, b)
<1>1. /\ SubSeq(s, a, b) \in Seq(S) /\ Len(SubSeq(s, a, b)) = b - a + 1
      /\ \A i \in 1 .. b - a + 1 : SubSeq(s, a, b)[i] = s[a + i - 1]
  BY PartOf
<1>2. QED BY <1>1 DEF Part

\* insert of a vector, as InsertAt.
LEMMA InsertAtIs ==
  ASSUME NEW S, NEW s \in Seq(S), NEW i \in 1 .. Len(s) + 1, NEW e \in S
  PROVE  InsertAt(s, i, e) \in Seq(S) /\ Inserted(InsertAt(s, i, e), s, i, e)
<1> DEFINE a == SubSeq(s, 1, i - 1)
           b == SubSeq(s, i, Len(s))
           m == <<e>>
           am == a \o m
           t == am \o b
<1>0. Len(s) \in Nat /\ i \in Nat /\ i - 1 \in Nat /\ i >= 1 /\ i <= Len(s) + 1
  OBVIOUS
<1>1. a \in Seq(S) /\ Part(a, s, 1, i - 1)
  BY <1>0, PartIs
<1>2. b \in Seq(S) /\ Part(b, s, i, Len(s))
  BY <1>0, PartIs
<1>3. m \in Seq(S) /\ Len(m) = 1 /\ m[1] = e
  OBVIOUS
<1> HIDE DEF a, b, m
<1>4. Len(a) = i - 1 /\ \A j \in 1 .. i - 1 : a[j] = s[j]
  BY <1>0, <1>1 DEF Part
<1>5. Len(b) = Len(s) - i + 1 /\ \A j \in 1 .. Len(s) - i + 1 : b[j] = s[i + j - 1]
  BY <1>0, <1>2 DEF Part
<1>6. /\ am \in Seq(S) /\ Len(am) = i
      /\ \A j \in 1 .. Len(a) : am[j] = a[j]
      /\ \A j \in 1 .. Len(m) : am[Len(a) + j] = m[j]
  <2>1. am \in Seq(S) /\ Joined(am, a, m) BY <1>1, <1>3, JoinIs
  <2>2. QED BY <1>0, <1>3, <1>4, <2>1 DEF Joined
<1>7. am[i] = e /\ \A j \in 1 .. i - 1 : am[j] = s[j]
  <2>1. 1 \in 1 .. Len(m) /\ Len(a) + 1 = i BY <1>0, <1>3, <1>4
  <2>2. QED BY <1>3, <1>4, <1>6, <2>1
<1> HIDE DEF am
<1>8. /\ t \in Seq(S) /\ Len(t) = Len(am) + Len(b)
      /\ \A j \in 1 .. Len(am) : t[j] = am[j]
      /\ \A j \in 1 .. Len(b) : t[Len(am) + j] = b[j]
  <2>1. t \in Seq(S) /\ Joined(t, am, b) BY <1>2, <1>6, JoinIs
  <2>2. QED BY <2>1 DEF Joined
<1> HIDE DEF t
<1>9. Len(t) = Len(s) + 1
  BY <1>0, <1>5, <1>6, <1>8
<1>10. t[i] = e /\ \A j \in 1 .. i - 1 : t[j] = s[j]
  <2>1. i \in 1 .. Len(am) /\ \A j \in 1 .. i - 1 : j \in 1 .. Len(am)
    BY <1>0, <1>6
  <2>2. QED BY <1>7, <1>8, <2>1
<1>11. ASSUME NEW j \in i + 1 .. Len(s) + 1 PROVE t[j] = s[j - 1]
  <2>1. j - i \in 1 .. Len(b) /\ Len(am) + (j - i) = j /\ i + (j - i) - 1 = j - 1
        /\ j - i \in 1 .. Len(s) - i + 1
    BY <1>0, <1>5, <1>6
  <2>2. t[Len(am) + (j - i)] = b[j - i] /\ b[j - i] = s[i + (j - i) - 1]
    BY <1>5, <1>8, <2>1
  <2>3. QED BY <2>1, <2>2
<1>12. InsertAt(s, i, e) = t
  BY DEF InsertAt, t, am, a, b, m
<1>13. QED BY <1>8, <1>9, <1>10, <1>11, <1>12 DEF Inserted

\* erase of a vector, as RemoveAt.
LEMMA RemoveAtIs ==
  ASSUME NEW S, NEW s \in Seq(S), NEW i \in 1 .. Len(s)
  PROVE  RemoveAt(s, i) \in Seq(S) /\ Removed(RemoveAt(s, i), s, i)
<1> DEFINE a == SubSeq(s, 1, i - 1)
           b == SubSeq(s, i + 1, Len(s))
           t == a \o b
<1>0. Len(s) \in Nat /\ i \in Nat /\ i - 1 \in Nat /\ i + 1 \in Nat /\ i >= 1 /\ i <= Len(s)
  OBVIOUS
<1>1. a \in Seq(S) /\ Part(a, s, 1, i - 1)
  BY <1>0, PartIs
<1>2. b \in Seq(S) /\ Part(b, s, i + 1, Len(s))
  BY <1>0, PartIs
<1> HIDE DEF a, b
<1>4. Len(a) = i - 1 /\ \A j \in 1 .. i - 1 : a[j] = s[j]
  BY <1>0, <1>1 DEF Part
<1>5. Len(b) = Len(s) - i /\ \A j \in 1 .. Len(s) - i : b[j] = s[i + j]
  BY <1>0, <1>2 DEF Part
<1>8. /\ t \in Seq(S) /\ Len(t) = Len(a) + Len(b)
      /\ \A j \in 1 .. Len(a) : t[j] = a[j]
      /\ \A j \in 1 .. Len(b) : t[Len(a) + j] = b[j]
  <2>1. t \in Seq(S) /\ Joined(t, a, b) BY <1>1, <1>2, JoinIs
  <2>2. QED BY <2>1 DEF Joined
<1> HIDE DEF t
<1>9. Len(t) = Len(s) - 1 /\ \A j \in 1 .. i - 1 : t[j] = s[j]
  BY <1>0, <1>4, <1>5, <1>8
<1>11. ASSUME NEW j \in i .. Len(s) - 1 PROVE t[j] = s[j + 1]
  <2>1. j - i + 1 \in 1 .. Len(b) /\ Len(a) + (j - i + 1) = j /\ i + (j - i + 1) = j + 1
        /\ j - i + 1 \in 1 .. Len(s) - i
    BY <1>0, <1>4, <1>5
  <2>2. t[Len(a) + (j - i + 1)] = b[j - i + 1] /\ b[j - i + 1] = s[i + (j - i + 1)]
    BY <1>5, <1>8, <2>1
  <2>3. QED BY <2>1, <2>2
<1>12. RemoveAt(s, i) = t
  BY DEF RemoveAt, t, a, b
<1>13. QED BY <1>8, <1>9, <1>11, <1>12 DEF Removed

-------------------------------------------------------------------------------
(* The tree *)

\* The numbers below s.  A bound of a node is such a set, or {} or Int.
Cut(s) == {x \in Int : x < s}

\* S has with a number all smaller ones.
Down(S) == S \subseteq Int /\ \A x \in S : \A y \in Int : y < x => y \in S

\* A node is responsible for the keys below hi and not below lo.
Span(lo, hi) == Down(lo) /\ Down(hi) /\ \E x \in hi : x \notin lo

\* The keys of a node increase, and it is responsible for them.
Ordered(ks, lo, hi) ==
  /\ \A i, j \in 1 .. Len(ks) : i < j => ks[i] < ks[j]
  /\ \A i \in 1 .. Len(ks) : ks[i] \in hi /\ ks[i] \notin lo

\* The bounds of child c of a node with the keys ks and the bounds lo and hi.
lowCut(ks, c, lo) == IF c = 1 THEN lo ELSE Cut(ks[c - 1])
highCut(ks, c, hi) == IF c = Len(ks) + 1 THEN hi ELSE Cut(ks[c])

\* The next leaf begins where leaf i ends.
NextOK(ns, i, lev, low, high) ==
  LET j == ns[i].nextLeafIdx
  IN  \/ j = NoNode /\ high[i] = Int
      \/ j \in DOMAIN lev /\ lev[j] = 0 /\ low[j] = high[i]

\* Node i is a leaf with a value for every key, and is chained to the next leaf.
LeafOK(ns, i, lev, low, high) ==
  /\ ns[i].type = "LEAF" /\ Len(ns[i].values) = Len(ns[i].keys)
  /\ NextOK(ns, i, lev, low, high)

\* Child c of node i is one level below it and has the bounds that i gives it.
\* top is the upper bound of a node as its parent knows it.
ChildOK(ns, i, c, lev, low, high, top, right) ==
  LET ch == ns[i].childIndices[c]
  IN  /\ ch \in DOMAIN lev /\ ch # right
      /\ lev[ch] + 1 = lev[i] /\ ns[ch].parentIdx = i
      /\ low[ch] = lowCut(ns[i].keys, c, low[i])
      /\ top[ch] = highCut(ns[i].keys, c, high[i])

\* Node i is internal, has a child more than keys, and no child twice.
InnerOK(ns, i, lev, low, high, top, right) ==
  /\ ns[i].type = "INTERNAL" /\ Len(ns[i].childIndices) = Len(ns[i].keys) + 1
  /\ \A c \in 1 .. Len(ns[i].keys) + 1 : ChildOK(ns, i, c, lev, low, high, top, right)
  /\ \A c, d \in 1 .. Len(ns[i].keys) + 1 :
       ns[i].childIndices[c] = ns[i].childIndices[d] => c = d

\* Node i is a child of its parent.
Hangs(ns, i, lev) ==
  LET p == ns[i].parentIdx
  IN  /\ p \in DOMAIN lev /\ lev[p] # 0
      /\ \E c \in 1 .. Len(ns[p].keys) + 1 : ns[p].childIndices[c] = i

\* Two nodes are responsible for different keys.
Apart(i, j, low, high) == high[i] \subseteq low[j] \/ high[j] \subseteq low[i]

\* The functions that describe the tree have the nodes in use as their domain.
Ghosts(ns, lev, low, high, top) ==
  /\ DOMAIN lev \subseteq 1 .. Len(ns) /\ \A i \in DOMAIN lev : lev[i] \in Nat
  /\ DOMAIN low = DOMAIN lev /\ DOMAIN high = DOMAIN lev /\ DOMAIN top = DOMAIN lev

\* The keys of node i are in order and within its bounds, and only the root says that it is one.
NodeOK(ns, i, root, low, high) ==
  /\ Span(low[i], high[i])
  /\ Ordered(ns[i].keys, low[i], high[i])
  /\ ns[i].isRoot <=> i = root

\* The root is responsible for all keys.  Its height is below the number of nodes, so that
\* findLeaf arrives.
RootOK(ns, root, lev, low, top) ==
  /\ root \in DOMAIN lev /\ lev[root] < Len(ns)
  /\ low[root] = {} /\ top[root] = Int /\ ns[root].parentIdx = NoNode

\* The nodes in use are the domain of lev, which gives their height above the
\* leaves, low and high, which give their bounds, and top.  The node right is
\* not yet known to its parent.
Tree(ns, root, lev, low, high, top, right) ==
  /\ Ghosts(ns, lev, low, high, top)
  /\ RootOK(ns, root, lev, low, top)
  /\ \A i \in DOMAIN lev : NodeOK(ns, i, root, low, high)
  /\ \A i \in DOMAIN lev : lev[i] = 0 => LeafOK(ns, i, lev, low, high)
  /\ \A i \in DOMAIN lev : lev[i] # 0 => InnerOK(ns, i, lev, low, high, top, right)
  /\ \A i \in DOMAIN lev : i = root \/ i = right \/ Hangs(ns, i, lev)
  /\ \A i, j \in DOMAIN lev : lev[i] = 0 /\ lev[j] = 0 => i = j \/ Apart(i, j, low, high)

\* insertIntoParent is still to tell the parent of left that right follows it.
Pending(root, lev, low, high, top, left, key, right) ==
  /\ left \in DOMAIN lev /\ right \in DOMAIN lev /\ left # right /\ right # root
  /\ lev[left] = lev[right]
  /\ key \in Key /\ key \in high[right]
  /\ high[left] = Cut(key) /\ low[right] = Cut(key)
  /\ \E x \in Cut(key) : x \notin low[left]
  /\ top[left] = high[right]
  /\ \A i \in DOMAIN lev : i # left => top[i] = high[i]

\* Keys are numbers.
LEMMA KeysAreInts == \A k \in Key : k \in Int
BY TreeAssumption DEF Key

\* An inserted RID is told apart from no RID.
LEMMA RidsAreRids == \A v \in RID : v # NoRID
BY TreeAssumption DEF RID

\* The fields of a node.
LEMMA NodeFields ==
  ASSUME NEW n \in Node
  PROVE  /\ n.keys \in Seq(Key) /\ n.values \in Seq(RID) /\ n.childIndices \in Seq(Nat)
         /\ n.isRoot \in BOOLEAN /\ n.parentIdx \in Nat /\ n.nextLeafIdx \in Nat
         /\ n.type \in {"LEAF", "INTERNAL"}
         /\ Len(n.keys) \in Nat /\ DOMAIN n.keys = 1 .. Len(n.keys)
         /\ \A j \in 1 .. Len(n.keys) : n.keys[j] \in Key /\ n.keys[j] \in Int
<1>1. /\ n.keys \in Seq(Key) /\ n.values \in Seq(RID) /\ n.childIndices \in Seq(Nat)
      /\ n.isRoot \in BOOLEAN /\ n.parentIdx \in Nat /\ n.nextLeafIdx \in Nat
      /\ n.type \in {"LEAF", "INTERNAL"}
  BY DEF Node
<1>2. \A j \in 1 .. Len(n.keys) : n.keys[j] \in Key
  BY <1>1, ElementOfSeq
<1>3. QED BY <1>1, <1>2, KeysAreInts

\* The numbers below s, as a bound.
LEMMA CutIs ==
  ASSUME NEW s \in Int
  PROVE  Down(Cut(s)) /\ s \notin Cut(s) /\ \A x \in Int : x \in Cut(s) <=> x < s
BY DEF Cut, Down

\* What is in the lower bound is below what is not.
LEMMA Below ==
  ASSUME NEW S, Down(S), NEW x \in S, NEW y \in Int, y \notin S
  PROVE  x \in Int /\ x < y
BY DEF Down

\* The lower bound of a node is inside its upper bound.
LEMMA SpanNested ==
  ASSUME NEW lo, NEW hi, Span(lo, hi)
  PROVE  lo \subseteq hi
<1>1. PICK x \in hi : x \notin lo
  BY DEF Span
<1>2. SUFFICES ASSUME NEW y \in lo PROVE y \in hi
  OBVIOUS
<1>3. x \in Int /\ y \in Int /\ Down(lo) /\ Down(hi)
  BY <1>1 DEF Span, Down
<1>4. y < x
  BY <1>1, <1>3, Below
<1>5. QED BY <1>1, <1>3, <1>4 DEF Down

\* Two leaves that begin, or that end, at the same place are one.
LEMMA SameBound ==
  ASSUME NEW i, NEW j, NEW low, NEW high, Span(low[i], high[i]), Span(low[j], high[j]),
         i = j \/ Apart(i, j, low, high), low[i] = low[j] \/ high[i] = high[j]
  PROVE  i = j
<1>1. low[i] \subseteq high[i] /\ low[j] \subseteq high[j]
  BY SpanNested
<1>2. ~(high[i] \subseteq low[i]) /\ ~(high[j] \subseteq low[j])
  BY DEF Span
<1>3. QED BY <1>1, <1>2 DEF Apart

-------------------------------------------------------------------------------
(* findLeaf *)

\* The first position behind which findLeaf does not go on.
Follow(ks, k) == Min({i \in DOMAIN ks : k < ks[i]} \cup {Len(ks) + 1})

\* The child that findLeaf follows is responsible for the key.
LEMMA FollowIs ==
  ASSUME NEW ks \in Seq(Key), NEW k \in Int, NEW lo, NEW hi, k \in hi, k \notin lo
  PROVE  /\ Follow(ks, k) \in 1 .. Len(ks) + 1
         /\ k \notin lowCut(ks, Follow(ks, k), lo) /\ k \in highCut(ks, Follow(ks, k), hi)
<1> DEFINE A == {i \in DOMAIN ks : k < ks[i]}
           T == A \cup {Len(ks) + 1}
           c == Min(T)
<1>1. Len(ks) \in Nat /\ DOMAIN ks = 1 .. Len(ks)
  OBVIOUS
<1>2. \A i \in 1 .. Len(ks) : ks[i] \in Int
  BY KeysAreInts, ElementOfSeq
<1>3. T \subseteq Nat /\ T # {}
  BY <1>1
<1>4. c \in T /\ \A y \in T : c <= y
  <2> HIDE DEF T
  <2>1. QED BY <1>3, MinExists
<1>5. Follow(ks, k) = c
  BY DEF Follow
<1>6. c \in 1 .. Len(ks) + 1 /\ (c = Len(ks) + 1 \/ (c \in 1 .. Len(ks) /\ k < ks[c]))
  BY <1>1, <1>4
<1>7. ASSUME c # 1 PROVE c - 1 \in 1 .. Len(ks) /\ ~(k < ks[c - 1])
  <2>1. c - 1 \in 1 .. Len(ks) /\ ~(c <= c - 1)
    BY <1>1, <1>6, <1>7
  <2>2. c - 1 \notin T
    BY <1>4, <2>1
  <2>3. QED BY <1>1, <2>1, <2>2
<1> HIDE DEF c
<1>8. k \notin lowCut(ks, c, lo)
  BY <1>7 DEF lowCut, Cut
<1>9. k \in highCut(ks, c, hi)
  BY <1>1, <1>6 DEF highCut, Cut
<1>10. QED BY <1>5, <1>6, <1>8, <1>9

\* One turn of the loop of findLeaf.
DownStep(D, d, k) ==
  IF d = 0 THEN rootIdx
  ELSE LET cur == D[d - 1] IN
       IF cur = NoNode \/ nodes[cur].type = "LEAF" THEN cur
       ELSE childFor(nodes[cur], k)

\* The recursive function of findLeaf exists.
LEMMA DownExists ==
  ASSUME NEW k, NEW N \in Nat
  PROVE  \E D : D = [d \in 0 .. N |-> DownStep(D, d, k)]
<1> DEFINE M == {n \in Nat : \E D : D = [d \in 0 .. n |-> DownStep(D, d, k)]}
<1>1. 0 \in M
  <2> DEFINE D == [d \in 0 .. 0 |-> rootIdx]
  <2>1. D = [d \in 0 .. 0 |-> DownStep(D, d, k)]
    BY DEF DownStep
  <2>2. QED BY <2>1
<1>2. ASSUME NEW n \in Nat, n \in M PROVE n + 1 \in M
  <2>1. PICK D : D = [d \in 0 .. n |-> DownStep(D, d, k)]
    BY <1>2
  <2> DEFINE E == [d \in 0 .. n + 1 |-> IF d = n + 1 THEN DownStep(D, d, k) ELSE D[d]]
  <2>2. ASSUME NEW d \in 0 .. n + 1 PROVE E[d] = DownStep(E, d, k)
    <3>1. DownStep(E, d, k) = DownStep(D, d, k)
      <4>1. CASE d = 0 BY <4>1 DEF DownStep
      <4>2. CASE d # 0
        <5>1. d - 1 \in 0 .. n + 1 /\ d - 1 # n + 1 BY <4>2
        <5>2. E[d - 1] = D[d - 1] BY <5>1
        <5> HIDE DEF E
        <5>3. QED BY <4>2, <5>2 DEF DownStep
      <4>3. QED BY <4>1, <4>2
    <3>2. E[d] = DownStep(D, d, k)
      <4>1. CASE d = n + 1 BY <4>1
      <4>2. CASE d # n + 1
        <5>1. d \in 0 .. n BY <4>2
        <5>2. D[d] = DownStep(D, d, k) BY <2>1, <5>1
        <5>3. QED BY <4>2, <5>2
      <4>3. QED BY <4>1, <4>2
    <3>3. QED BY <3>1, <3>2
  <2>3. E = [d \in 0 .. n + 1 |-> E[d]]
    OBVIOUS
  <2> HIDE DEF E
  <2>4. E = [d \in 0 .. n + 1 |-> DownStep(E, d, k)]
    BY <2>2, <2>3
  <2>5. QED BY <2>4
<1>3. Nat \subseteq M
  <2> HIDE DEF M
  <2>1. QED BY <1>1, <1>2, SetInduction
<1>4. QED BY <1>3

\* findLeaf ends at a leaf, and at the one that is responsible for the key: it
\* goes down one level with every turn.
LEMMA FindLeaf ==
  ASSUME TypeOK, NEW lev, NEW low, NEW high,
         Tree(nodes, rootIdx, lev, low, high, high, NoNode), NEW k \in Int
  PROVE  /\ findLeaf(k) \in DOMAIN lev /\ lev[findLeaf(k)] = 0
         /\ k \in high[findLeaf(k)] /\ k \notin low[findLeaf(k)]
<1> DEFINE N == Len(nodes)
<1>0. nodes \in Seq(Node) /\ N \in Nat
  BY DEF TypeOK
<1>1. PICK D : D = [d \in 0 .. N |-> DownStep(D, d, k)]
  BY <1>0, DownExists
<1> DEFINE C == CHOOSE f : f = [d \in 0 .. N |-> DownStep(f, d, k)]
<1>2. C = [d \in 0 .. N |-> DownStep(C, d, k)]
  BY <1>1
<1>3. findLeaf(k) = C[N]
  BY DEF findLeaf, DownStep
<1> HIDE DEF C
<1> DEFINE H == lev[rootIdx]
           At(d) == /\ C[d] \in DOMAIN lev
                    /\ lev[C[d]] = IF d < H THEN H - d ELSE 0
                    /\ k \in high[C[d]] /\ k \notin low[C[d]]
           S == {d \in Nat : d <= N => At(d)}
<1>4. /\ Ghosts(nodes, lev, low, high, high) /\ RootOK(nodes, rootIdx, lev, low, high)
      /\ \A i \in DOMAIN lev : lev[i] = 0 => LeafOK(nodes, i, lev, low, high)
      /\ \A i \in DOMAIN lev : lev[i] # 0 => InnerOK(nodes, i, lev, low, high, high, NoNode)
  BY DEF Tree
<1>5. /\ DOMAIN lev \subseteq 1 .. N /\ \A i \in DOMAIN lev : lev[i] \in Nat
      /\ rootIdx \in DOMAIN lev /\ H \in Nat /\ H < N /\ low[rootIdx] = {} /\ high[rootIdx] = Int
  BY <1>4 DEF Ghosts, RootOK
<1>6. 0 \in S
  <2>1. C[0] = rootIdx
    BY <1>0, <1>2 DEF DownStep
  <2>2. At(0)
    BY <1>5, <2>1
  <2>3. QED BY <2>2
<1>7. ASSUME NEW d \in Nat, d \in S PROVE d + 1 \in S
  <2> SUFFICES ASSUME d + 1 <= N PROVE At(d + 1)
    OBVIOUS
  <2> DEFINE cur == C[d]
  <2>1. At(d)
    BY <1>0, <1>7
  <2>2. C[d + 1] = IF cur = NoNode \/ nodes[cur].type = "LEAF" THEN cur
                   ELSE childFor(nodes[cur], k)
    <3>1. d + 1 \in 0 .. N /\ d + 1 # 0 /\ (d + 1) - 1 = d BY <1>0
    <3>2. C[d + 1] = DownStep(C, d + 1, k) BY <1>2, <3>1
    <3>3. QED BY <3>1, <3>2 DEF DownStep
  <2>3. cur \in 1 .. N /\ cur # NoNode /\ nodes[cur] \in Node
    BY <1>0, <1>5, <2>1, ElementOfSeq DEF NoNode
  <2>4. CASE lev[cur] = 0
    <3>1. nodes[cur].type = "LEAF" BY <1>4, <2>1, <2>4 DEF LeafOK
    <3>2. C[d + 1] = cur BY <2>2, <3>1
    <3>3. ~(d < H) /\ ~(d + 1 < H) BY <1>5, <2>1, <2>4
    <3>4. QED BY <2>1, <2>4, <3>2, <3>3
  <2>5. CASE lev[cur] # 0
    <3> DEFINE ks == nodes[cur].keys
               c == Follow(ks, k)
    <3>1. InnerOK(nodes, cur, lev, low, high, high, NoNode) BY <1>4, <2>1, <2>5
    <3>2. nodes[cur].type # "LEAF" BY <3>1 DEF InnerOK
    <3>3. ks \in Seq(Key) BY <2>3, NodeFields
    <3>4. k \in high[cur] /\ k \notin low[cur] BY <2>1
    <3>5. /\ c \in 1 .. Len(ks) + 1
          /\ k \notin lowCut(ks, c, low[cur]) /\ k \in highCut(ks, c, high[cur])
      <4> HIDE DEF ks
      <4>1. QED BY <3>3, <3>4, FollowIs
    <3>6. C[d + 1] = nodes[cur].childIndices[c]
      BY <2>2, <2>3, <3>2 DEF childFor, Follow
    <3> HIDE DEF c
    <3>7. ChildOK(nodes, cur, c, lev, low, high, high, NoNode)
      BY <3>1, <3>5 DEF InnerOK
    <3> DEFINE ch == nodes[cur].childIndices[c]
    <3>8. /\ ch \in DOMAIN lev /\ lev[ch] + 1 = lev[cur]
          /\ low[ch] = lowCut(ks, c, low[cur]) /\ high[ch] = highCut(ks, c, high[cur])
      BY <3>7 DEF ChildOK
    <3>9. d < H /\ lev[cur] = H - d
      BY <2>1, <2>5
    <3>10. lev[ch] = IF d + 1 < H THEN H - (d + 1) ELSE 0
      <4> HIDE DEF ch, H
      <4>1. lev[ch] \in Nat BY <1>5, <3>8
      <4>2. lev[ch] + 1 = H - d BY <3>8, <3>9
      <4>3. lev[ch] = H - (d + 1) BY <1>5, <4>1, <4>2
      <4>4. ~(d + 1 < H) => H - (d + 1) = 0 BY <1>5, <3>9
      <4>5. QED BY <4>3, <4>4
    <3>11. QED BY <3>5, <3>6, <3>8, <3>10
  <2>6. QED BY <2>4, <2>5
<1>8. Nat \subseteq S
  <2> HIDE DEF S
  <2>1. QED BY <1>6, <1>7, SetInduction
<1>9. At(N)
  BY <1>0, <1>8
<1>10. QED BY <1>3, <1>5, <1>9

-------------------------------------------------------------------------------
(* What a change elsewhere leaves alone *)

\* The nodes S are the same.
SameOn(ns2, ns, S) == \A i \in S : ns2[i] = ns[i]

\* The children of node i have kept their bounds and their parent.
SameChildren(ns2, ns, i, lev2, lev, low2, low, top2, top, right2) ==
  \A c \in 1 .. Len(ns[i].keys) + 1 :
    LET ch == ns[i].childIndices[c]
    IN  /\ ch \in DOMAIN lev2 /\ ch # right2 /\ lev2[ch] = lev[ch]
        /\ low2[ch] = low[ch] /\ top2[ch] = top[ch]
        /\ ns2[ch].parentIdx = ns[ch].parentIdx

\* n2 has the keys and the children of n.
SameInner(n2, n) == n2.type = n.type /\ n2.keys = n.keys /\ n2.childIndices = n.childIndices

\* A node whose keys, children and bounds are the same, and whose children are, is still a good
\* internal node.
LEMMA InnerSame ==
  ASSUME NEW ns, NEW ns2, NEW i, NEW lev, NEW lev2, NEW low, NEW low2, NEW high, NEW high2,
         NEW top, NEW top2, NEW right, NEW right2,
         InnerOK(ns, i, lev, low, high, top, right), SameInner(ns2[i], ns[i]),
         lev2[i] = lev[i], low2[i] = low[i], high2[i] = high[i],
         SameChildren(ns2, ns, i, lev2, lev, low2, low, top2, top, right2)
  PROVE  InnerOK(ns2, i, lev2, low2, high2, top2, right2)
<1> DEFINE ks == ns[i].keys
           cs == ns[i].childIndices
<1>1. ns2[i].type = ns[i].type /\ ns2[i].keys = ks /\ ns2[i].childIndices = cs
  BY DEF SameInner
<1>2. ASSUME NEW c \in 1 .. Len(ks) + 1
      PROVE  ChildOK(ns2, i, c, lev2, low2, high2, top2, right2)
  <2> DEFINE ch == cs[c]
  <2>1. ChildOK(ns, i, c, lev, low, high, top, right)
    BY <1>2 DEF InnerOK
  <2>2. /\ lev[ch] + 1 = lev[i] /\ ns[ch].parentIdx = i
        /\ low[ch] = lowCut(ks, c, low[i]) /\ top[ch] = highCut(ks, c, high[i])
    BY <2>1 DEF ChildOK
  <2>3. /\ ch \in DOMAIN lev2 /\ ch # right2 /\ lev2[ch] = lev[ch]
        /\ low2[ch] = low[ch] /\ top2[ch] = top[ch]
        /\ ns2[ch].parentIdx = ns[ch].parentIdx
    BY <1>2 DEF SameChildren
  <2>4. QED BY <1>1, <2>2, <2>3 DEF ChildOK
<1>3. QED BY <1>1, <1>2 DEF InnerOK

\* The parent of a node has the node among its children, and there only.
LEMMA ParentOf ==
  ASSUME NEW ns, NEW root, NEW lev, NEW low, NEW high, NEW top, NEW right,
         Tree(ns, root, lev, low, high, top, right), NEW i \in DOMAIN lev,
         lev[i] # 0, NEW c \in 1 .. Len(ns[i].keys) + 1
  PROVE  /\ ns[i].childIndices[c] \in DOMAIN lev /\ ns[i].childIndices[c] # right
         /\ ns[ns[i].childIndices[c]].parentIdx = i
         /\ lev[ns[i].childIndices[c]] + 1 = lev[i]
         /\ low[ns[i].childIndices[c]] = lowCut(ns[i].keys, c, low[i])
         /\ top[ns[i].childIndices[c]] = highCut(ns[i].keys, c, high[i])
<1>1. InnerOK(ns, i, lev, low, high, top, right)
  BY DEF Tree
<1>2. ChildOK(ns, i, c, lev, low, high, top, right)
  BY <1>1 DEF InnerOK
<1>3. QED BY <1>2 DEF ChildOK

-------------------------------------------------------------------------------
(* The entries of one leaf change *)

\* n2 differs from n in its entries only.
SameLinks(n2, n) ==
  /\ n2.type = n.type /\ n2.isRoot = n.isRoot /\ n2.parentIdx = n.parentIdx
  /\ n2.childIndices = n.childIndices /\ n2.nextLeafIdx = n.nextLeafIdx

\* A leaf whose entries change within its bounds leaves the rest of the tree as it was.
LEMMA LeafChange ==
  ASSUME NEW ns, NEW ns2, NEW root, NEW lev, NEW low, NEW high, NEW top, NEW right,
         Tree(ns, root, lev, low, high, top, right),
         Len(ns) \in Nat, Len(ns2) \in Nat, Len(ns2) >= Len(ns),
         NEW l \in DOMAIN lev, lev[l] = 0,
         SameOn(ns2, ns, DOMAIN lev \ {l}), SameLinks(ns2[l], ns[l]),
         Len(ns2[l].values) = Len(ns2[l].keys), Ordered(ns2[l].keys, low[l], high[l])
  PROVE  Tree(ns2, root, lev, low, high, top, right)
<1>1. \A i \in DOMAIN lev : i # l => ns2[i] = ns[i]
  BY DEF SameOn
<1>2. \A i \in DOMAIN lev : ns2[i].parentIdx = ns[i].parentIdx
  BY <1>1 DEF SameLinks
<1>3. Ghosts(ns2, lev, low, high, top)
  <2>1. DOMAIN lev \subseteq 1 .. Len(ns) BY DEF Tree, Ghosts
  <2>2. 1 .. Len(ns) \subseteq 1 .. Len(ns2) OBVIOUS
  <2>3. QED BY <2>1, <2>2 DEF Tree, Ghosts
<1>4. RootOK(ns2, root, lev, low, top)
  <2>1. RootOK(ns, root, lev, low, top) /\ lev[root] \in Nat BY DEF Tree, Ghosts, RootOK
  <2>2. lev[root] < Len(ns2) BY <2>1 DEF RootOK
  <2>3. QED BY <1>2, <2>1, <2>2 DEF RootOK
<1>5. \A i \in DOMAIN lev : NodeOK(ns2, i, root, low, high)
  <2> TAKE i \in DOMAIN lev
  <2>1. NodeOK(ns, i, root, low, high) BY DEF Tree
  <2>2. CASE i = l BY <2>1, <2>2 DEF NodeOK, SameLinks
  <2>3. CASE i # l BY <1>1, <2>1, <2>3 DEF NodeOK
  <2>4. QED BY <2>2, <2>3
<1>6. \A i \in DOMAIN lev : lev[i] = 0 => LeafOK(ns2, i, lev, low, high)
  <2> SUFFICES ASSUME NEW i \in DOMAIN lev, lev[i] = 0 PROVE LeafOK(ns2, i, lev, low, high)
    OBVIOUS
  <2>1. LeafOK(ns, i, lev, low, high) BY DEF Tree
  <2>2. CASE i = l BY <2>1, <2>2 DEF LeafOK, NextOK, SameLinks
  <2>3. CASE i # l BY <1>1, <2>1, <2>3 DEF LeafOK, NextOK
  <2>4. QED BY <2>2, <2>3
<1>7. \A i \in DOMAIN lev : lev[i] # 0 => InnerOK(ns2, i, lev, low, high, top, right)
  <2> SUFFICES ASSUME NEW i \in DOMAIN lev, lev[i] # 0
               PROVE  InnerOK(ns2, i, lev, low, high, top, right)
    OBVIOUS
  <2>1. InnerOK(ns, i, lev, low, high, top, right) BY DEF Tree
  <2>2. ns2[i] = ns[i] BY <1>1
  <2>3. SameInner(ns2[i], ns[i]) BY <2>2 DEF SameInner
  <2>4. SameChildren(ns2, ns, i, lev, lev, low, low, top, top, right)
    BY <1>2, ParentOf DEF SameChildren
  <2>5. QED BY <2>1, <2>3, <2>4, InnerSame
<1>8. \A i \in DOMAIN lev : i = root \/ i = right \/ Hangs(ns2, i, lev)
  <2> SUFFICES ASSUME NEW i \in DOMAIN lev, i # root, i # right PROVE Hangs(ns2, i, lev)
    OBVIOUS
  <2>1. Hangs(ns, i, lev) BY DEF Tree
  <2> DEFINE p == ns[i].parentIdx
  <2>2. p \in DOMAIN lev /\ lev[p] # 0 BY <2>1 DEF Hangs
  <2>3. ns2[p] = ns[p] /\ ns2[i].parentIdx = p BY <1>1, <1>2, <2>2
  <2>4. QED BY <2>1, <2>3 DEF Hangs
<1>9. QED BY <1>3, <1>4, <1>5, <1>6, <1>7, <1>8 DEF Tree

-------------------------------------------------------------------------------
(* lower_bound, and a key more in a node *)

\* Key k comes between the keys before position c and those from c on.
Between(ks, c, k) ==
  /\ \A j \in 1 .. c - 1 : ks[j] < k
  /\ \A j \in c .. Len(ks) : k < ks[j]

\* std::lower_bound finds the first position whose key is not below k.
LEMMA LowerBoundIs ==
  ASSUME NEW ks \in Seq(Key), NEW k \in Int, NEW c \in 1 .. Len(ks) + 1, Between(ks, c, k)
  PROVE  lowerBound(ks, k) = c
<1> DEFINE T == {i \in DOMAIN ks : ks[i] >= k} \cup {Len(ks) + 1}
<1>1. Len(ks) \in Nat /\ DOMAIN ks = 1 .. Len(ks) /\ \A i \in 1 .. Len(ks) : ks[i] \in Int
  BY KeysAreInts, ElementOfSeq
<1>2. T \subseteq Nat /\ T # {}
  BY <1>1
<1>3. Min(T) \in T /\ \A y \in T : Min(T) <= y
  <2> HIDE DEF T
  <2>1. QED BY <1>2, MinExists
<1>4. c \in T
  <2>1. CASE c = Len(ks) + 1 BY <2>1
  <2>2. CASE c # Len(ks) + 1
    <3>1. c \in 1 .. Len(ks) /\ c \in c .. Len(ks) BY <1>1, <2>2
    <3>2. k < ks[c] BY <3>1 DEF Between
    <3>3. QED BY <1>1, <3>1, <3>2
  <2>3. QED BY <2>1, <2>2
<1>5. \A y \in T : c <= y
  <2> SUFFICES ASSUME NEW y \in T, ~(c <= y) PROVE FALSE
    OBVIOUS
  <2>1. y \in 1 .. c - 1 /\ y \in 1 .. Len(ks) BY <1>1
  <2>2. ks[y] < k /\ ks[y] \in Int BY <1>1, <2>1 DEF Between
  <2>3. ks[y] >= k BY <1>1, <2>1
  <2>4. QED BY <2>2, <2>3
<1>6. Min(T) = c
  <2> DEFINE m == Min(T)
  <2>1. m \in Nat /\ m <= c /\ c <= m BY <1>2, <1>3, <1>4, <1>5
  <2> HIDE DEF m
  <2>2. m = c BY <2>1
  <2>3. QED BY <2>2 DEF m
<1>7. QED BY <1>6 DEF lowerBound

\* A key that a leaf does not have belongs somewhere between its keys.
LEMMA LowerBoundBetween ==
  ASSUME NEW ks \in Seq(Key), NEW lo, NEW hi, Ordered(ks, lo, hi),
         NEW k \in Int, k \notin ToSet(ks)
  PROVE  lowerBound(ks, k) \in 1 .. Len(ks) + 1 /\ Between(ks, lowerBound(ks, k), k)
<1> DEFINE T == {i \in DOMAIN ks : ks[i] >= k} \cup {Len(ks) + 1}
           c == Min(T)
<1>1. Len(ks) \in Nat /\ DOMAIN ks = 1 .. Len(ks) /\ \A i \in 1 .. Len(ks) : ks[i] \in Int
  BY KeysAreInts, ElementOfSeq
<1>2. T \subseteq Nat /\ T # {}
  BY <1>1
<1>3. c \in T /\ \A y \in T : c <= y
  <2> HIDE DEF T
  <2>1. QED BY <1>2, MinExists
<1>4. c \in 1 .. Len(ks) + 1 /\ (c # Len(ks) + 1 => ks[c] >= k)
  BY <1>1, <1>3
<1>5. \A j \in 1 .. Len(ks) : ks[j] # k
  BY <1>1 DEF ToSet
<1>6. ASSUME NEW j \in 1 .. c - 1 PROVE ks[j] < k
  <2>1. j \in 1 .. Len(ks) /\ ~(c <= j) BY <1>1, <1>4
  <2>2. j \notin T BY <1>3, <2>1
  <2>3. ~(ks[j] >= k) BY <1>1, <2>1, <2>2
  <2>4. QED BY <1>1, <2>1, <2>3
<1> HIDE DEF c
<1>7. ASSUME NEW j \in c .. Len(ks) PROVE k < ks[j]
  <2>1. c \in 1 .. Len(ks) /\ j \in 1 .. Len(ks) BY <1>1, <1>4
  <2>2. k < ks[c] BY <1>1, <1>4, <1>5, <2>1
  <2>3. c = j \/ c < j BY <1>1, <2>1
  <2>4. c < j => ks[c] < ks[j] BY <2>1 DEF Ordered
  <2>5. ks[c] \in Int /\ ks[j] \in Int BY <1>1, <2>1
  <2>6. QED BY <2>2, <2>3, <2>4, <2>5
<1>8. lowerBound(ks, k) = c
  BY DEF lowerBound, c
<1>9. QED BY <1>4, <1>6, <1>7, <1>8 DEF Between

\* Keys with one more at the position of lower_bound are in order.
LEMMA InsertedOrdered ==
  ASSUME NEW ks \in Seq(Key), NEW t, NEW lo, NEW hi, Ordered(ks, lo, hi),
         NEW c \in 1 .. Len(ks) + 1, NEW k \in Int, Between(ks, c, k), Inserted(t, ks, c, k),
         k \in hi, k \notin lo
  PROVE  Ordered(t, lo, hi)
<1>1. Len(ks) \in Nat /\ \A i \in 1 .. Len(ks) : ks[i] \in Int
  BY KeysAreInts, ElementOfSeq
<1>2. Len(t) = Len(ks) + 1 /\ t[c] = k
  BY DEF Inserted
<1>3. ASSUME NEW j \in 1 .. Len(t)
      PROVE  \/ j < c /\ j \in 1 .. Len(ks) /\ t[j] = ks[j] /\ ks[j] < k
             \/ j = c /\ t[j] = k
             \/ j > c /\ j - 1 \in 1 .. Len(ks) /\ j - 1 >= c /\ t[j] = ks[j - 1] /\ k < ks[j - 1]
  <2>1. CASE j < c
    <3>1. j \in 1 .. c - 1 /\ j \in 1 .. Len(ks) BY <1>1, <2>1
    <3>2. QED BY <2>1, <3>1 DEF Inserted, Between
  <2>2. CASE j > c
    <3>1. j \in c + 1 .. Len(ks) + 1 /\ j - 1 \in c .. Len(ks) /\ j - 1 \in 1 .. Len(ks)
      BY <1>1, <1>2, <2>2
    <3>2. t[j] = ks[j - 1] BY <3>1 DEF Inserted
    <3>3. k < ks[j - 1] BY <3>1 DEF Between
    <3>4. QED BY <2>2, <3>1, <3>2, <3>3
  <2>3. j < c \/ j = c \/ j > c BY <1>1, <1>2
  <2>4. QED BY <1>2, <2>1, <2>2, <2>3
<1>4. \A i, j \in 1 .. Len(ks) : i < j => ks[i] < ks[j]
  BY DEF Ordered
<1>5. ASSUME NEW i \in 1 .. Len(t), NEW j \in 1 .. Len(t), i < j PROVE t[i] < t[j]
  <2>1. CASE j < c
    <3>1. i < c BY <1>1, <1>2, <1>5, <2>1
    <3>2. QED BY <1>3, <1>4, <1>5, <2>1, <3>1
  <2>2. CASE j = c
    <3>1. i < c BY <1>1, <1>2, <1>5, <2>2
    <3>2. QED BY <1>3, <1>2, <2>2, <3>1
  <2>3. CASE j > c /\ i < c
    <3>1. t[i] = ks[i] /\ ks[i] < k /\ ks[i] \in Int BY <1>1, <1>3, <2>3
    <3>2. t[j] = ks[j - 1] /\ k < ks[j - 1] /\ ks[j - 1] \in Int BY <1>1, <1>3, <2>3
    <3>3. QED BY <3>1, <3>2
  <2>4. CASE j > c /\ i = c
    BY <1>2, <1>3, <2>4
  <2>5. CASE i > c
    <3>1. j > c BY <1>1, <1>2, <1>5, <2>5
    <3>2. /\ i - 1 \in 1 .. Len(ks) /\ t[i] = ks[i - 1]
          /\ j - 1 \in 1 .. Len(ks) /\ t[j] = ks[j - 1] BY <1>3, <2>5, <3>1
    <3>3. i - 1 < j - 1 BY <1>1, <1>2, <1>5
    <3>4. QED BY <1>4, <3>2, <3>3
  <2>6. j < c \/ j = c \/ (j > c /\ i < c) \/ (j > c /\ i = c) \/ i > c
    BY <1>1, <1>2, <1>5
  <2>7. QED BY <2>1, <2>2, <2>3, <2>4, <2>5, <2>6
<1>6. ASSUME NEW j \in 1 .. Len(t) PROVE t[j] \in hi /\ t[j] \notin lo
  BY <1>3 DEF Ordered
<1>7. QED BY <1>5, <1>6 DEF Ordered

\* A child with the bounds of position c reaches below k and its upper bound beyond it:
\* k is a separator for position c.
LEMMA BetweenSeparators ==
  ASSUME NEW ks \in Seq(Key), NEW lo, NEW hi, Ordered(ks, lo, hi), Span(lo, hi),
         NEW c \in 1 .. Len(ks) + 1, NEW k \in Int, NEW x \in Int, x < k,
         x \notin lowCut(ks, c, lo), k \in highCut(ks, c, hi)
  PROVE  Between(ks, c, k) /\ k \in hi /\ k \notin lo
<1>1. Len(ks) \in Nat /\ \A i \in 1 .. Len(ks) : ks[i] \in Int
  BY KeysAreInts, ElementOfSeq
<1>2. /\ \A i, j \in 1 .. Len(ks) : i < j => ks[i] < ks[j]
      /\ \A i \in 1 .. Len(ks) : ks[i] \in hi /\ ks[i] \notin lo
  BY DEF Ordered
<1>3. Down(lo) /\ Down(hi)
  BY DEF Span
<1>4. c = 1 \/ (c - 1 \in 1 .. Len(ks) /\ ks[c - 1] < k)
  <2> SUFFICES ASSUME c # 1 PROVE c - 1 \in 1 .. Len(ks) /\ ks[c - 1] < k
    OBVIOUS
  <2>1. c - 1 \in 1 .. Len(ks) BY <1>1
  <2>2. ~(x < ks[c - 1]) BY DEF lowCut, Cut
  <2>3. ks[c - 1] \in Int BY <1>1, <2>1
  <2>4. QED BY <2>1, <2>2, <2>3
<1>5. c = Len(ks) + 1 \/ (c \in 1 .. Len(ks) /\ k < ks[c])
  BY <1>1 DEF highCut, Cut
<1>6. ASSUME NEW j \in 1 .. c - 1 PROVE ks[j] < k
  <2>1. c - 1 \in 1 .. Len(ks) /\ j \in 1 .. Len(ks) /\ (j = c - 1 \/ j < c - 1)
    BY <1>1, <1>4
  <2>2. ks[c - 1] \in Int /\ ks[j] \in Int /\ ks[c - 1] < k BY <1>1, <1>4, <2>1
  <2>3. j < c - 1 => ks[j] < ks[c - 1] BY <1>2, <2>1
  <2>4. QED BY <2>1, <2>2, <2>3
<1>7. ASSUME NEW j \in c .. Len(ks) PROVE k < ks[j]
  <2>1. c \in 1 .. Len(ks) /\ j \in 1 .. Len(ks) /\ (j = c \/ c < j)
    BY <1>1, <1>5
  <2>2. ks[c] \in Int /\ ks[j] \in Int /\ k < ks[c] BY <1>1, <1>5, <2>1
  <2>3. c < j => ks[c] < ks[j] BY <1>2, <2>1
  <2>4. QED BY <2>1, <2>2, <2>3
<1>8. k \in hi
  <2>1. CASE c = Len(ks) + 1 BY <2>1 DEF highCut
  <2>2. CASE c \in 1 .. Len(ks) /\ k < ks[c] BY <1>2, <1>3, <2>2 DEF Down
  <2>3. QED BY <1>5, <2>1, <2>2
<1>9. k \notin lo
  <2>1. CASE c = 1
    <3>1. x \notin lo BY <2>1 DEF lowCut
    <3>2. QED BY <1>3, <3>1 DEF Down
  <2>2. CASE c - 1 \in 1 .. Len(ks) /\ ks[c - 1] < k
    <3>1. ks[c - 1] \notin lo /\ ks[c - 1] \in Int BY <1>1, <1>2, <2>2
    <3>2. QED BY <1>3, <2>2, <3>1 DEF Down
  <2>3. QED BY <1>4, <2>1, <2>2
<1>10. QED BY <1>6, <1>7, <1>8, <1>9 DEF Between

\* The bounds of the children after the separator k came to position c.
CutsInserted(t, ks, c, k, lo, hi) ==
  /\ \A d \in 1 .. c : lowCut(t, d, lo) = lowCut(ks, d, lo)
  /\ \A d \in 1 .. c - 1 : highCut(t, d, hi) = highCut(ks, d, hi)
  /\ highCut(t, c, hi) = Cut(k) /\ lowCut(t, c + 1, lo) = Cut(k)
  /\ \A d \in c + 1 .. Len(ks) + 1 : lowCut(t, d + 1, lo) = lowCut(ks, d, lo)
  /\ \A d \in c .. Len(ks) + 1 : highCut(t, d + 1, hi) = highCut(ks, d, hi)

\* Only the child that was split gets another upper bound, and the new child begins at the key.
LEMMA InsertedCuts ==
  ASSUME NEW ks, NEW t, Len(ks) \in Nat, NEW c \in 1 .. Len(ks) + 1, NEW k, NEW lo, NEW hi,
         Inserted(t, ks, c, k)
  PROVE  CutsInserted(t, ks, c, k, lo, hi)
<1>1. /\ Len(t) = Len(ks) + 1 /\ t[c] = k
      /\ \A j \in 1 .. c - 1 : t[j] = ks[j]
      /\ \A j \in c + 1 .. Len(ks) + 1 : t[j] = ks[j - 1]
  BY DEF Inserted
<1>2. ASSUME NEW d \in 1 .. c PROVE lowCut(t, d, lo) = lowCut(ks, d, lo)
  <2>1. d # 1 => d - 1 \in 1 .. c - 1 OBVIOUS
  <2>2. QED BY <1>1, <2>1 DEF lowCut
<1>3. ASSUME NEW d \in 1 .. c - 1 PROVE highCut(t, d, hi) = highCut(ks, d, hi)
  <2>1. d # Len(t) + 1 /\ d # Len(ks) + 1 BY <1>1
  <2>2. QED BY <1>1, <2>1 DEF highCut
<1>4. highCut(t, c, hi) = Cut(k) /\ lowCut(t, c + 1, lo) = Cut(k)
  <2>1. c # Len(t) + 1 /\ c + 1 # 1 /\ (c + 1) - 1 = c BY <1>1
  <2>2. QED BY <1>1, <2>1 DEF highCut, lowCut
<1>5. ASSUME NEW d \in c + 1 .. Len(ks) + 1 PROVE lowCut(t, d + 1, lo) = lowCut(ks, d, lo)
  <2>1. d + 1 # 1 /\ d # 1 /\ (d + 1) - 1 = d BY <1>1
  <2>2. t[d] = ks[d - 1] BY <1>1
  <2>3. QED BY <2>1, <2>2 DEF lowCut
<1>6. ASSUME NEW d \in c .. Len(ks) + 1 PROVE highCut(t, d + 1, hi) = highCut(ks, d, hi)
  <2>1. CASE d = Len(ks) + 1
    BY <1>1, <2>1 DEF highCut
  <2>2. CASE d # Len(ks) + 1
    <3>1. d + 1 # Len(t) + 1 /\ d + 1 \in c + 1 .. Len(ks) + 1 /\ (d + 1) - 1 = d BY <1>1, <2>2
    <3>2. t[d + 1] = ks[d] BY <1>1, <3>1
    <3>3. QED BY <2>2, <3>1, <3>2 DEF highCut
  <2>3. QED BY <2>1, <2>2
<1>7. QED BY <1>2, <1>3, <1>4, <1>5, <1>6 DEF CutsInserted

-------------------------------------------------------------------------------
(* insertIntoParent: the parent learns of the right half *)

\* n2 is n with another parent.
SameButParent(n2, n) ==
  /\ n2.type = n.type /\ n2.isRoot = n.isRoot /\ n2.keys = n.keys /\ n2.values = n.values
  /\ n2.childIndices = n.childIndices /\ n2.nextLeafIdx = n.nextLeafIdx

\* n2 is n with the separator k at position c and the child r behind it.
WithChild(n2, n, c, k, r) ==
  /\ n2.type = n.type /\ n2.isRoot = n.isRoot /\ n2.parentIdx = n.parentIdx
  /\ Inserted(n2.keys, n.keys, c, k) /\ Inserted(n2.childIndices, n.childIndices, c + 1, r)

\* The nodes S have kept their parent.
ParentsKept(ns2, ns, S) == \A i \in S : ns2[i].parentIdx = ns[i].parentIdx

\* Where the children are afterwards.
ChildrenMoved(t, cs, m, c, r) ==
  /\ Len(t) = m + 2 /\ t[c + 1] = r
  /\ \A d \in 1 .. c : t[d] = cs[d]
  /\ \A d \in c + 1 .. m + 1 : t[d + 1] = cs[d]

\* The children before the new one keep their position, those behind it move by one.
LEMMA ChildrenInserted ==
  ASSUME NEW cs, NEW t, NEW m \in Nat, Len(cs) = m + 1, NEW c \in 1 .. m + 1, NEW r,
         Inserted(t, cs, c + 1, r)
  PROVE  ChildrenMoved(t, cs, m, c, r)
<1>1. /\ Len(t) = m + 2 /\ t[c + 1] = r
      /\ \A j \in 1 .. (c + 1) - 1 : t[j] = cs[j]
      /\ \A j \in (c + 1) + 1 .. (m + 1) + 1 : t[j] = cs[j - 1]
  BY DEF Inserted
<1>2. \A d \in 1 .. c : d \in 1 .. (c + 1) - 1
  OBVIOUS
<1>3. \A d \in c + 1 .. m + 1 : d + 1 \in (c + 1) + 1 .. (m + 1) + 1 /\ (d + 1) - 1 = d
  OBVIOUS
<1>4. QED BY <1>1, <1>2, <1>3 DEF ChildrenMoved

\* The new parent node, by itself.
LEMMA ParentWithChild ==
  ASSUME NEW ns, NEW ns2, NEW root, NEW lev, NEW low, NEW high, NEW top,
         NEW left, NEW key, NEW right,
         Tree(ns, root, lev, low, high, top, right),
         Pending(root, lev, low, high, top, left, key, right),
         NEW p \in DOMAIN lev, lev[p] # 0, ns[p].keys \in Seq(Key),
         NEW c \in 1 .. Len(ns[p].keys) + 1, ns[p].childIndices[c] = left,
         WithChild(ns2[p], ns[p], c, key, right),
         ParentsKept(ns2, ns, DOMAIN lev \ {right}),
         ns2[right].parentIdx = p
  PROVE  InnerOK(ns2, p, lev, low, high, high, NoNode)
<1> DEFINE ks == ns[p].keys
           m == Len(ks)
           cs == ns[p].childIndices
           kt == ns2[p].keys
           ct == ns2[p].childIndices
<1>1. m \in Nat /\ Len(cs) = m + 1
  BY DEF Tree, InnerOK
<1>2. CutsInserted(kt, ks, c, key, low[p], high[p]) /\ Len(kt) = m + 1
  BY <1>1, InsertedCuts DEF WithChild, Inserted
<1>3. /\ Len(ct) = m + 2 /\ ct[c + 1] = right
      /\ \A d \in 1 .. c : ct[d] = cs[d]
      /\ \A d \in c + 1 .. m + 1 : ct[d + 1] = cs[d]
  <2>1. Inserted(ct, cs, c + 1, right) BY DEF WithChild
  <2>2. c \in 1 .. m + 1 OBVIOUS
  <2> HIDE DEF m, cs, ct
  <2>3. ChildrenMoved(ct, cs, m, c, right) BY <1>1, <2>1, <2>2, ChildrenInserted
  <2>4. QED BY <2>3 DEF ChildrenMoved
<1>4. ASSUME NEW d \in 1 .. m + 1
      PROVE  /\ cs[d] \in DOMAIN lev /\ cs[d] # right /\ cs[d] # NoNode
             /\ ns2[cs[d]].parentIdx = p /\ lev[cs[d]] + 1 = lev[p]
             /\ low[cs[d]] = lowCut(ks, d, low[p]) /\ top[cs[d]] = highCut(ks, d, high[p])
             /\ (d # c => cs[d] # left /\ high[cs[d]] = top[cs[d]])
  <2>1. /\ cs[d] \in DOMAIN lev /\ cs[d] # right
        /\ ns[cs[d]].parentIdx = p /\ lev[cs[d]] + 1 = lev[p]
        /\ low[cs[d]] = lowCut(ks, d, low[p]) /\ top[cs[d]] = highCut(ks, d, high[p])
    BY ParentOf
  <2>2. cs[d] # NoNode
    BY <2>1 DEF Tree, Ghosts, NoNode
  <2>3. d # c => cs[d] # left
    BY <1>1 DEF Tree, InnerOK
  <2>4. d # c => high[cs[d]] = top[cs[d]]
    BY <2>1, <2>3 DEF Pending
  <2>5. QED BY <2>1, <2>2, <2>3, <2>4 DEF ParentsKept
<1>5. /\ left \in DOMAIN lev /\ right \in DOMAIN lev /\ lev[left] = lev[right]
      /\ high[left] = Cut(key) /\ low[right] = Cut(key) /\ top[left] = high[right]
      /\ right # NoNode
  BY DEF Pending, Tree, Ghosts, NoNode
<1>6. ASSUME NEW d \in 1 .. m + 2
      PROVE  /\ ct[d] \in DOMAIN lev /\ ct[d] # NoNode /\ lev[ct[d]] + 1 = lev[p]
             /\ ns2[ct[d]].parentIdx = p
             /\ low[ct[d]] = lowCut(kt, d, low[p]) /\ high[ct[d]] = highCut(kt, d, high[p])
  <2>1. CASE d < c
    <3>1. d \in 1 .. c /\ d \in 1 .. c - 1 /\ d \in 1 .. m + 1 /\ d # c BY <1>1, <2>1
    <3>2. ct[d] = cs[d] BY <1>3, <3>1
    <3>3. /\ lowCut(kt, d, low[p]) = lowCut(ks, d, low[p])
          /\ highCut(kt, d, high[p]) = highCut(ks, d, high[p])
      BY <1>2, <3>1 DEF CutsInserted
    <3> HIDE DEF ks, cs, kt, ct
    <3>4. QED BY <1>4, <3>1, <3>2, <3>3
  <2>2. CASE d = c
    <3>0. c \in 1 .. c /\ c \in 1 .. m + 1 BY <1>1
    <3>1. ct[d] = left /\ c \in 1 .. c /\ c \in 1 .. m + 1
      <4>1. cs[c] = left OBVIOUS
      <4> HIDE DEF ks, cs, ct, m
      <4>2. QED BY <1>3, <2>2, <3>0, <4>1
    <3>2. /\ lowCut(kt, c, low[p]) = lowCut(ks, c, low[p])
          /\ highCut(kt, c, high[p]) = Cut(key)
      BY <1>2, <3>1 DEF CutsInserted
    <3>3. cs[c] = left OBVIOUS
    <3> HIDE DEF ks, cs, kt, ct
    <3>4. QED BY <1>4, <1>5, <2>2, <3>1, <3>2, <3>3
  <2>3. CASE d = c + 1
    <3>1. ct[d] = right /\ c \in c .. m + 1 /\ c \in 1 .. m + 1 BY <1>1, <1>3, <2>3
    <3>2. /\ lowCut(kt, c + 1, low[p]) = Cut(key)
          /\ highCut(kt, c + 1, high[p]) = highCut(ks, c, high[p])
      BY <1>2, <3>1 DEF CutsInserted
    <3>3. cs[c] = left OBVIOUS
    <3> HIDE DEF ks, cs, kt, ct
    <3>4. high[right] = highCut(ks, c, high[p]) /\ lev[right] + 1 = lev[p]
      BY <1>4, <1>5, <3>1, <3>3
    <3>5. QED BY <1>5, <2>3, <3>1, <3>2, <3>4
  <2>4. CASE d > c + 1
    <3> DEFINE e == d - 1
    <3>1. e \in c + 1 .. m + 1 /\ e \in c .. m + 1 /\ e \in 1 .. m + 1 /\ e # c /\ e + 1 = d
      BY <1>1, <2>4
    <3> HIDE DEF e
    <3>2. ct[e + 1] = cs[e] BY <1>3, <3>1
    <3>3. /\ lowCut(kt, e + 1, low[p]) = lowCut(ks, e, low[p])
          /\ highCut(kt, e + 1, high[p]) = highCut(ks, e, high[p])
      BY <1>2, <3>1 DEF CutsInserted
    <3> HIDE DEF ks, cs, kt, ct
    <3>4. QED BY <1>4, <3>1, <3>2, <3>3, ZenonT(30)
  <2>5. d < c \/ d = c \/ d = c + 1 \/ d > c + 1 BY <1>1
  <2>6. QED BY <2>1, <2>2, <2>3, <2>4, <2>5
<1>7. ASSUME NEW d \in 1 .. m + 2
      PROVE  \/ d \in 1 .. c /\ d \in 1 .. m + 1 /\ ct[d] = cs[d]
             \/ d = c + 1 /\ ct[d] = right
             \/ d > c + 1 /\ d - 1 \in 1 .. m + 1 /\ ct[d] = cs[d - 1]
  <2>1. d \in 1 .. c => d \in 1 .. m + 1 BY <1>1
  <2>2. d > c + 1 => d - 1 \in c + 1 .. m + 1 /\ d - 1 \in 1 .. m + 1 /\ (d - 1) + 1 = d BY <1>1
  <2>3. d \in 1 .. c \/ d = c + 1 \/ d > c + 1 BY <1>1
  <2> HIDE DEF ks, cs, kt, ct
  <2>4. QED BY <1>3, <2>1, <2>2, <2>3
<1>8. \A d, e \in 1 .. m + 1 : cs[d] = cs[e] => d = e
  BY DEF Tree, InnerOK
<1>9. \A d \in 1 .. m + 1 : cs[d] # right
  BY <1>4
<1>10. ASSUME NEW d \in 1 .. m + 2, NEW e \in 1 .. m + 2, ct[d] = ct[e] PROVE d = e
  <2> HIDE DEF ks, cs, kt, ct
  <2>1. CASE ct[d] = right
    <3>1. d = c + 1 BY <1>7, <1>9, <2>1
    <3>2. e = c + 1 BY <1>7, <1>9, <1>10, <2>1
    <3>3. QED BY <3>1, <3>2
  <2>2. CASE ct[d] # right
    <3>1. \/ d <= c /\ d \in 1 .. m + 1 /\ ct[d] = cs[d]
          \/ d > c + 1 /\ d - 1 \in 1 .. m + 1 /\ ct[d] = cs[d - 1]
      BY <1>7, <2>2
    <3>2. \/ e <= c /\ e \in 1 .. m + 1 /\ ct[e] = cs[e]
          \/ e > c + 1 /\ e - 1 \in 1 .. m + 1 /\ ct[e] = cs[e - 1]
      BY <1>7, <1>10, <2>2
    <3>3. CASE d <= c /\ e <= c BY <1>1, <1>8, <1>10, <3>1, <3>2, <3>3
    <3>4. CASE d <= c /\ e > c + 1
      <4>1. d = e - 1 BY <1>1, <1>8, <1>10, <3>1, <3>2, <3>4
      <4>2. QED BY <1>1, <3>4, <4>1
    <3>5. CASE d > c + 1 /\ e <= c
      <4>1. d - 1 = e BY <1>1, <1>8, <1>10, <3>1, <3>2, <3>5
      <4>2. QED BY <1>1, <3>5, <4>1
    <3>6. CASE d > c + 1 /\ e > c + 1
      <4>1. d - 1 = e - 1 BY <1>1, <1>8, <1>10, <3>1, <3>2, <3>6
      <4>2. QED BY <1>1, <4>1
    <3>7. QED BY <3>1, <3>2, <3>3, <3>4, <3>5, <3>6
  <2>3. QED BY <2>1, <2>2
<1>11. ns2[p].type = "INTERNAL"
  BY DEF WithChild, Tree, InnerOK
<1>12. \A d \in 1 .. m + 2 : ChildOK(ns2, p, d, lev, low, high, high, NoNode)
  BY <1>6 DEF ChildOK
<1>13. Len(kt) + 1 = m + 2 /\ Len(ct) = Len(kt) + 1
  BY <1>1, <1>2, <1>3
<1>14. QED BY <1>10, <1>11, <1>12, <1>13 DEF InnerOK

\* The tree of which the parent knows both halves.
LEMMA AddChild ==
  ASSUME NEW ns, NEW ns2, NEW root, NEW lev, NEW low, NEW high, NEW top,
         NEW left, NEW key, NEW right,
         Tree(ns, root, lev, low, high, top, right),
         Pending(root, lev, low, high, top, left, key, right),
         left # root, Len(ns) \in Nat, Len(ns2) \in Nat, Len(ns2) >= Len(ns),
         NEW p \in DOMAIN lev, lev[p] # 0, ns[p].keys \in Seq(Key),
         NEW c \in 1 .. Len(ns[p].keys) + 1, ns[p].childIndices[c] = left,
         WithChild(ns2[p], ns[p], c, key, right),
         SameOn(ns2, ns, DOMAIN lev \ {p, right}),
         SameButParent(ns2[right], ns[right]), ns2[right].parentIdx = p
  PROVE  Tree(ns2, root, lev, low, high, high, NoNode)
<1>0. \A i \in DOMAIN lev : lev[i] \in Nat
  BY DEF Tree, Ghosts
<1>1. left \in DOMAIN lev /\ right \in DOMAIN lev /\ left # right /\ right # root
      /\ lev[left] = lev[right] /\ key \in Key /\ key \in Int
  BY KeysAreInts DEF Pending
<1>2. /\ ns[left].parentIdx = p /\ lev[left] + 1 = lev[p]
      /\ low[left] = lowCut(ns[p].keys, c, low[p]) /\ top[left] = highCut(ns[p].keys, c, high[p])
  BY ParentOf
<1>3. p # right /\ p # left
  BY <1>0, <1>1, <1>2
<1>4. \A i \in DOMAIN lev : i # p /\ i # right => ns2[i] = ns[i]
  BY DEF SameOn
<1>5. \A i \in DOMAIN lev : i # right => ns2[i].parentIdx = ns[i].parentIdx
  BY <1>4 DEF WithChild
<1>6. \A i \in DOMAIN lev : i # p => SameButParent(ns2[i], ns[i])
  BY <1>4 DEF SameButParent
<1>7. \A i \in DOMAIN lev : i # left => high[i] = top[i]
  BY DEF Pending
<1>8. Ghosts(ns2, lev, low, high, high)
  <2>1. DOMAIN lev \subseteq 1 .. Len(ns) BY DEF Tree, Ghosts
  <2>2. 1 .. Len(ns) \subseteq 1 .. Len(ns2) OBVIOUS
  <2>3. QED BY <2>1, <2>2 DEF Tree, Ghosts
<1>9. RootOK(ns2, root, lev, low, high)
  <2>1. RootOK(ns, root, lev, low, top) /\ lev[root] \in Nat BY DEF Tree, Ghosts, RootOK
  <2>2. lev[root] < Len(ns2) BY <2>1 DEF RootOK
  <2>4. high[root] = Int BY <1>7, <2>1 DEF RootOK
  <2>5. ns2[root].parentIdx = ns[root].parentIdx BY <1>1, <1>5, <2>1 DEF RootOK
  <2>6. QED BY <2>1, <2>2, <2>4, <2>5 DEF RootOK
<1>10. Ordered(ns2[p].keys, low[p], high[p])
  <2> DEFINE ks == ns[p].keys
  <2>1. NodeOK(ns, p, root, low, high) BY DEF Tree
  <2>2. Ordered(ks, low[p], high[p]) /\ Span(low[p], high[p]) BY <2>1 DEF NodeOK
  <2>3. PICK x \in Cut(key) : x \notin low[left] BY DEF Pending
  <2>4. x \in Int /\ x < key BY <2>3 DEF Cut
  <2>5. key \in highCut(ks, c, high[p]) BY <1>2 DEF Pending
  <2>6. x \notin lowCut(ks, c, low[p]) BY <1>2, <2>3
  <2>7. Between(ks, c, key) /\ key \in high[p] /\ key \notin low[p]
    <3> HIDE DEF ks
    <3>1. ks \in Seq(Key) /\ c \in 1 .. Len(ks) + 1 BY DEF ks
    <3>2. QED BY <1>1, <2>2, <2>4, <2>5, <2>6, <3>1, BetweenSeparators
  <2>8. Inserted(ns2[p].keys, ks, c, key) BY DEF WithChild
  <2>9. QED BY <1>1, <2>2, <2>7, <2>8, InsertedOrdered
<1>11. \A i \in DOMAIN lev : NodeOK(ns2, i, root, low, high)
  <2> TAKE i \in DOMAIN lev
  <2>1. NodeOK(ns, i, root, low, high) BY DEF Tree
  <2>2. CASE i = p BY <1>10, <2>1, <2>2 DEF NodeOK, WithChild
  <2>3. CASE i # p BY <1>6, <2>1, <2>3 DEF NodeOK, SameButParent
  <2>4. QED BY <2>2, <2>3
<1>12. \A i \in DOMAIN lev : lev[i] = 0 => LeafOK(ns2, i, lev, low, high)
  <2> SUFFICES ASSUME NEW i \in DOMAIN lev, lev[i] = 0 PROVE LeafOK(ns2, i, lev, low, high)
    OBVIOUS
  <2>1. LeafOK(ns, i, lev, low, high) BY DEF Tree
  <2>2. i # p OBVIOUS
  <2>3. QED BY <1>6, <2>1, <2>2 DEF LeafOK, NextOK, SameButParent
<1>13. \A i \in DOMAIN lev : lev[i] # 0 => InnerOK(ns2, i, lev, low, high, high, NoNode)
  <2> SUFFICES ASSUME NEW i \in DOMAIN lev, lev[i] # 0
               PROVE  InnerOK(ns2, i, lev, low, high, high, NoNode)
    OBVIOUS
  <2>1. CASE i = p
    <3>1. ParentsKept(ns2, ns, DOMAIN lev \ {right}) BY <1>5 DEF ParentsKept
    <3>2. QED BY <2>1, <3>1, ParentWithChild
  <2>2. CASE i # p
    <3>1. InnerOK(ns, i, lev, low, high, top, right) BY DEF Tree
    <3>2. SameInner(ns2[i], ns[i]) BY <1>6, <2>2 DEF SameInner, SameButParent
    <3>3. SameChildren(ns2, ns, i, lev, lev, low, low, high, top, NoNode)
      <4> SUFFICES ASSUME NEW d \in 1 .. Len(ns[i].keys) + 1, NEW ch, ch = ns[i].childIndices[d]
                   PROVE  /\ ch \in DOMAIN lev /\ ch # NoNode /\ high[ch] = top[ch]
                          /\ ns2[ch].parentIdx = ns[ch].parentIdx
        BY DEF SameChildren
      <4>1. ch \in DOMAIN lev /\ ch # right /\ ns[ch].parentIdx = i
        BY ParentOf
      <4>2. ch # NoNode BY <4>1, SMTT(30) DEF Tree, Ghosts, NoNode
      <4>3. ch # left BY <1>2, <2>2, <4>1
      <4>4. QED BY <1>5, <1>7, <4>1, <4>2, <4>3
    <3>4. QED BY <3>1, <3>2, <3>3, InnerSame
  <2>3. QED BY <2>1, <2>2
<1>14. \A i \in DOMAIN lev : i = root \/ i = NoNode \/ Hangs(ns2, i, lev)
  <2> SUFFICES ASSUME NEW i \in DOMAIN lev, i # root PROVE Hangs(ns2, i, lev)
    OBVIOUS
  <2>0. /\ Len(ns[p].keys) \in Nat /\ Len(ns[p].childIndices) = Len(ns[p].keys) + 1
        /\ Len(ns2[p].keys) = Len(ns[p].keys) + 1
        /\ ChildrenMoved(ns2[p].childIndices, ns[p].childIndices, Len(ns[p].keys), c, right)
    <3>1. Len(ns[p].keys) \in Nat /\ Len(ns[p].childIndices) = Len(ns[p].keys) + 1
      BY DEF Tree, InnerOK
    <3>2. Inserted(ns2[p].childIndices, ns[p].childIndices, c + 1, right)
      BY DEF WithChild
    <3>3. ChildrenMoved(ns2[p].childIndices, ns[p].childIndices, Len(ns[p].keys), c, right)
      BY <3>1, <3>2, ChildrenInserted
    <3>4. Len(ns2[p].keys) = Len(ns[p].keys) + 1
      BY DEF WithChild, Inserted
    <3>5. QED BY <3>1, <3>3, <3>4
  <2>1. CASE i = right
    <3>1. c + 1 \in 1 .. Len(ns2[p].keys) + 1 /\ ns2[p].childIndices[c + 1] = right
      BY <2>0 DEF ChildrenMoved
    <3>2. QED BY <2>1, <3>1 DEF Hangs
  <2>2. CASE i # right
    <3> DEFINE q == ns[i].parentIdx
    <3>1. Hangs(ns, i, lev) BY <2>2 DEF Tree
    <3>2. PICK d \in 1 .. Len(ns[q].keys) + 1 : ns[q].childIndices[d] = i
      BY <3>1 DEF Hangs
    <3>3. q \in DOMAIN lev /\ lev[q] # 0 /\ ns2[i].parentIdx = q
      BY <1>5, <2>2, <3>1 DEF Hangs
    <3>4. CASE q # p
      <4>1. ns2[q].keys = ns[q].keys /\ ns2[q].childIndices = ns[q].childIndices
        BY <1>6, <3>3, <3>4 DEF SameButParent
      <4>2. QED BY <3>2, <3>3, <4>1 DEF Hangs
    <3>5. CASE q = p
      <4>1. CASE d <= c
        <5>1. d \in 1 .. c /\ d \in 1 .. Len(ns2[p].keys) + 1 BY <2>0, <3>5, <4>1
        <5>2. ns2[p].childIndices[d] = i BY <2>0, <3>2, <3>5, <5>1 DEF ChildrenMoved
        <5>3. QED BY <3>3, <3>5, <5>1, <5>2 DEF Hangs
      <4>2. CASE ~(d <= c)
        <5>1. d \in c + 1 .. Len(ns[p].keys) + 1 /\ d + 1 \in 1 .. Len(ns2[p].keys) + 1
          BY <2>0, <3>5, <4>2
        <5>2. ns2[p].childIndices[d + 1] = i BY <2>0, <3>2, <3>5, <5>1 DEF ChildrenMoved
        <5>3. QED BY <3>3, <3>5, <5>1, <5>2 DEF Hangs
      <4>3. QED BY <4>1, <4>2
    <3>6. QED BY <3>4, <3>5
  <2>3. QED BY <2>1, <2>2
<1>15. QED BY <1>8, <1>9, <1>11, <1>12, <1>13, <1>14 DEF Tree

-------------------------------------------------------------------------------
(* A node is split: the new node N takes over what p had from the key k on *)

\* The bounds after a split.
SplitBounds(lev2, low2, high2, top2, lev, low, high, p, k, N) ==
  /\ DOMAIN lev2 = DOMAIN lev \cup {N} /\ DOMAIN low2 = DOMAIN lev2
  /\ DOMAIN high2 = DOMAIN lev2 /\ DOMAIN top2 = DOMAIN lev2
  /\ lev2[N] = lev[p] /\ low2[N] = Cut(k) /\ high2[N] = high[p] /\ top2[N] = high[p]
  /\ high2[p] = Cut(k)
  /\ \A i \in DOMAIN lev : lev2[i] = lev[i] /\ low2[i] = low[i] /\ top2[i] = high[i]
  /\ \A i \in DOMAIN lev : i # p => high2[i] = high[i]

\* There are such bounds.
LEMMA SplitBoundsExist ==
  ASSUME NEW lev, NEW low, NEW high, NEW p \in DOMAIN lev, NEW k, NEW N, N \notin DOMAIN lev
  PROVE  \E lev2, low2, high2, top2 :
           SplitBounds(lev2, low2, high2, top2, lev, low, high, p, k, N)
<1> DEFINE D == DOMAIN lev \cup {N}
           lev2 == [i \in D |-> IF i = N THEN lev[p] ELSE lev[i]]
           low2 == [i \in D |-> IF i = N THEN Cut(k) ELSE low[i]]
           high2 == [i \in D |-> IF i = N THEN high[p] ELSE IF i = p THEN Cut(k) ELSE high[i]]
           top2 == [i \in D |-> IF i = N THEN high[p] ELSE high[i]]
<1>1. SplitBounds(lev2, low2, high2, top2, lev, low, high, p, k, N)
  BY DEF SplitBounds
<1> HIDE DEF lev2, low2, high2, top2
<1>2. QED BY <1>1

\* k is inside the bounds of p, with room to its left.
Inside(k, lo, hi) == k \in Key /\ k \in hi /\ \E x \in Cut(k) : x \notin lo

\* Every node in use is responsible for something.
AllSpan(lev, low, high) == \A i \in DOMAIN lev : Span(low[i], high[i])

\* What holds of the bounds whatever is split.
LEMMA SplitCommon ==
  ASSUME NEW ns, NEW ns2, NEW root, NEW lev, NEW low, NEW high,
         NEW lev2, NEW low2, NEW high2, NEW top2,
         Tree(ns, root, lev, low, high, high, NoNode), NEW p \in DOMAIN lev, NEW k, NEW N,
         Len(ns) \in Nat, N = Len(ns) + 1, Len(ns2) = Len(ns) + 1,
         SplitBounds(lev2, low2, high2, top2, lev, low, high, p, k, N),
         Inside(k, low[p], high[p]), ns2[root].parentIdx = ns[root].parentIdx
  PROVE  /\ N \notin DOMAIN lev /\ N # root /\ N # p /\ k \in Int
         /\ Ghosts(ns2, lev2, low2, high2, top2)
         /\ RootOK(ns2, root, lev2, low2, top2)
         /\ AllSpan(lev2, low2, high2)
         /\ Pending(root, lev2, low2, high2, top2, p, k, N)
<1>1. /\ DOMAIN lev \subseteq 1 .. Len(ns) /\ \A i \in DOMAIN lev : lev[i] \in Nat
      /\ root \in DOMAIN lev /\ lev[root] < Len(ns) /\ low[root] = {} /\ high[root] = Int
      /\ ns[root].parentIdx = NoNode
  BY DEF Tree, Ghosts, RootOK
<1>2. N \notin DOMAIN lev /\ N # root /\ N # p /\ N \in Nat
  BY <1>1
<1>3. k \in Key /\ k \in Int /\ k \in high[p]
  BY KeysAreInts DEF Inside
<1>4. PICK x \in Cut(k) : x \notin low[p]
  BY DEF Inside
<1>5. Ghosts(ns2, lev2, low2, high2, top2)
  <2>1. DOMAIN lev2 \subseteq 1 .. Len(ns2)
    BY <1>1 DEF SplitBounds
  <2>2. \A i \in DOMAIN lev2 : lev2[i] \in Nat
    BY <1>1 DEF SplitBounds
  <2>3. QED BY <2>1, <2>2 DEF Ghosts, SplitBounds
<1>6. RootOK(ns2, root, lev2, low2, top2)
  <2>1. lev2[root] = lev[root] /\ low2[root] = low[root] /\ top2[root] = high[root]
        /\ root \in DOMAIN lev2
    BY <1>1 DEF SplitBounds
  <2>2. lev2[root] < Len(ns2)
    BY <1>1, <2>1
  <2>3. QED BY <1>1, <2>1, <2>2 DEF RootOK
<1>7. ASSUME NEW i \in DOMAIN lev2 PROVE Span(low2[i], high2[i])
  <2>0. Span(low[p], high[p]) BY DEF Tree, NodeOK
  <2>1. CASE i = N
    <3>1. low2[i] = Cut(k) /\ high2[i] = high[p] BY <2>1 DEF SplitBounds
    <3>2. QED BY <1>3, <2>0, <3>1, CutIs DEF Span
  <2>2. CASE i = p
    <3>1. low2[i] = low[p] /\ high2[i] = Cut(k) BY <2>2 DEF SplitBounds
    <3>2. QED BY <1>3, <1>4, <2>0, <3>1, CutIs DEF Span
  <2>3. CASE i # N /\ i # p
    <3>1. i \in DOMAIN lev /\ low2[i] = low[i] /\ high2[i] = high[i]
      BY <2>3 DEF SplitBounds
    <3>2. QED BY <3>1 DEF Tree, NodeOK
  <2>4. QED BY <2>1, <2>2, <2>3
<1>8. Pending(root, lev2, low2, high2, top2, p, k, N)
  <2>1. p \in DOMAIN lev2 /\ N \in DOMAIN lev2 /\ lev2[p] = lev2[N] /\ low2[p] = low[p]
    BY DEF SplitBounds
  <2>2. \A i \in DOMAIN lev2 : i # p => top2[i] = high2[i]
    BY DEF SplitBounds
  <2>3. top2[p] = high2[N] /\ high2[N] = high[p] /\ high2[p] = Cut(k) /\ low2[N] = Cut(k)
    BY DEF SplitBounds
  <2>4. QED BY <1>2, <1>3, <1>4, <2>1, <2>2, <2>3 DEF Pending
<1>9. QED BY <1>2, <1>3, <1>5, <1>6, <1>7, <1>8 DEF AllSpan

\* The halves of a node's keys are in order and inside their bounds.
LEMMA LeftKeys ==
  ASSUME NEW ks \in Seq(Key), NEW lo, NEW hi, Ordered(ks, lo, hi), NEW t, NEW e \in 0 .. Len(ks),
         Part(t, ks, 1, e), NEW k \in Int, \A j \in 1 .. e : ks[j] < k
  PROVE  Ordered(t, lo, Cut(k))
<1>1. Len(t) = e /\ \A j \in 1 .. e : t[j] = ks[j] /\ j \in 1 .. Len(ks)
  <2>1. e - 1 + 1 = e /\ \A j \in 1 .. e : 1 + j - 1 = j /\ j \in 1 .. e - 1 + 1 OBVIOUS
  <2>2. QED BY <2>1 DEF Part
<1>2. \A j \in 1 .. Len(ks) : ks[j] \in Int
  BY KeysAreInts, ElementOfSeq
<1>3. QED BY <1>1, <1>2 DEF Ordered, Cut

\* The same for the right half, which does not have the key that goes up.
LEMMA RightKeys ==
  ASSUME NEW ks \in Seq(Key), NEW lo, NEW hi, Ordered(ks, lo, hi), NEW t,
         NEW a \in 1 .. Len(ks) + 1, Part(t, ks, a, Len(ks)), NEW k \in Int,
         \A j \in a .. Len(ks) : k <= ks[j]
  PROVE  Ordered(t, Cut(k), hi)
<1>1. Len(t) = Len(ks) - a + 1 /\ Len(ks) \in Nat
  BY DEF Part
<1>2. \A j \in 1 .. Len(t) : t[j] = ks[a + j - 1] /\ a + j - 1 \in a .. Len(ks)
                            /\ a + j - 1 \in 1 .. Len(ks)
  BY <1>1 DEF Part
<1>3. \A j \in 1 .. Len(ks) : ks[j] \in Int
  BY KeysAreInts, ElementOfSeq
<1>4. \A i, j \in 1 .. Len(t) : i < j => a + i - 1 < a + j - 1
  BY <1>1
<1>5. \A i, j \in 1 .. Len(t) : i < j => t[i] < t[j]
  BY <1>2, <1>4 DEF Ordered
<1>6. \A j \in 1 .. Len(t) : t[j] \in hi /\ t[j] \notin Cut(k)
  <2> TAKE j \in 1 .. Len(t)
  <2>1. k <= ks[a + j - 1] /\ ks[a + j - 1] \in Int /\ ks[a + j - 1] \in hi
    BY <1>2, <1>3 DEF Ordered
  <2>2. QED BY <1>2, <2>1 DEF Cut
<1>7. QED BY <1>5, <1>6 DEF Ordered

-------------------------------------------------------------------------------
(* splitInternal *)

\* n2 is n with its first mid keys.
LeftHalf(n2, n, mid) ==
  /\ n2.type = n.type /\ n2.isRoot = n.isRoot /\ n2.parentIdx = n.parentIdx
  /\ Part(n2.keys, n.keys, 1, mid) /\ Part(n2.childIndices, n.childIndices, 1, mid + 1)

\* n2 has the keys of n behind position mid + 1.
RightHalf(n2, n, mid) ==
  /\ n2.type = "INTERNAL" /\ n2.isRoot = FALSE
  /\ Part(n2.keys, n.keys, mid + 2, Len(n.keys))
  /\ Part(n2.childIndices, n.childIndices, mid + 2, Len(n.keys) + 1)

\* The nodes that got the parent N.
Adopted(ns2, ns, S, moved, N) ==
  \A i \in S : /\ SameButParent(ns2[i], ns[i])
               /\ ns2[i].parentIdx = IF i \in moved THEN N ELSE ns[i].parentIdx

\* The children that go to the right half.
MovedChildren(n, mid) == {n.childIndices[d] : d \in mid + 2 .. Len(n.keys) + 1}

\* Child d of the right half was child mid + 1 + d.
LEMMA RightPositions ==
  ASSUME NEW m \in Nat, NEW mid \in Nat, mid + 1 <= m, NEW d \in 1 .. m - mid
  PROVE  /\ mid + 1 + d \in 1 .. m + 1 /\ mid + 1 + d \in mid + 2 .. m + 1 /\ mid + 1 + d # 1
         /\ d # 1 => d - 1 \in 1 .. m - mid - 1 /\ mid + 1 + (d - 1) = (mid + 1 + d) - 1
         /\ d = m - mid => mid + 1 + d = m + 1 /\ d = (m - mid - 1) + 1
         /\ d # m - mid => /\ d \in 1 .. m - mid - 1 /\ mid + 1 + d # m + 1
                          /\ d # (m - mid - 1) + 1
OBVIOUS

\* splitInternal: a node becomes two, and its parent knows the left one.
LEMMA SplitInner ==
  ASSUME NEW ns, NEW ns2, NEW root, NEW lev, NEW low, NEW high,
         NEW lev2, NEW low2, NEW high2, NEW top2,
         Tree(ns, root, lev, low, high, high, NoNode), NEW p \in DOMAIN lev, lev[p] # 0,
         ns[p].keys \in Seq(Key), NEW mid \in 1 .. Len(ns[p].keys) - 1,
         NEW k, k = ns[p].keys[mid + 1], NEW N,
         Len(ns) \in Nat, N = Len(ns) + 1, Len(ns2) = Len(ns) + 1,
         SplitBounds(lev2, low2, high2, top2, lev, low, high, p, k, N),
         LeftHalf(ns2[p], ns[p], mid), RightHalf(ns2[N], ns[p], mid),
         Adopted(ns2, ns, DOMAIN lev \ {p}, MovedChildren(ns[p], mid), N)
  PROVE  /\ Tree(ns2, root, lev2, low2, high2, top2, N)
         /\ Pending(root, lev2, low2, high2, top2, p, k, N)
<1> DEFINE ks == ns[p].keys
           m == Len(ks)
           cs == ns[p].childIndices
           moved == MovedChildren(ns[p], mid)
<1>1. /\ m \in Nat /\ Len(cs) = m + 1 /\ \A d, e \in 1 .. m + 1 : cs[d] = cs[e] => d = e
  BY DEF Tree, InnerOK
<1>2. /\ Ordered(ks, low[p], high[p]) /\ Span(low[p], high[p])
      /\ \A j \in 1 .. m : ks[j] \in Key /\ ks[j] \in Int
      /\ \A i, j \in 1 .. m : i < j => ks[i] < ks[j]
      /\ \A i \in 1 .. m : ks[i] \in high[p] /\ ks[i] \notin low[p]
  BY KeysAreInts, ElementOfSeq DEF Tree, NodeOK, Ordered
<1>3. mid \in Nat /\ mid >= 1 /\ mid + 1 <= m /\ 1 \in 1 .. m /\ mid + 1 \in 1 .. m
  BY <1>1, SMTT(30)
<1>4. Inside(k, low[p], high[p])
  <2>1. ks[1] < ks[mid + 1] BY <1>2, <1>3
  <2>2. ks[1] \in Cut(k) /\ ks[1] \notin low[p] BY <1>2, <1>3, <2>1 DEF Cut
  <2>3. k \in Key /\ k \in high[p] BY <1>2, <1>3
  <2>4. QED BY <2>2, <2>3 DEF Inside
<1>6. \A i \in DOMAIN lev : i # p => SameButParent(ns2[i], ns[i])
  BY DEF Adopted
<1>7. ASSUME NEW i \in DOMAIN lev, i \notin moved PROVE ns2[i].parentIdx = ns[i].parentIdx
  BY <1>7 DEF Adopted, LeftHalf
<1>8. ASSUME NEW d \in 1 .. m + 1
      PROVE  /\ cs[d] \in DOMAIN lev /\ ns[cs[d]].parentIdx = p /\ lev[cs[d]] + 1 = lev[p]
             /\ low[cs[d]] = lowCut(ks, d, low[p]) /\ high[cs[d]] = highCut(ks, d, high[p])
             /\ cs[d] # p
  <2>1. /\ cs[d] \in DOMAIN lev /\ ns[cs[d]].parentIdx = p /\ lev[cs[d]] + 1 = lev[p]
        /\ low[cs[d]] = lowCut(ks, d, low[p]) /\ high[cs[d]] = highCut(ks, d, high[p])
    BY ParentOf
  <2>2. lev[cs[d]] \in Nat BY <2>1 DEF Tree, Ghosts
  <2>3. QED BY <2>1, <2>2
<1>9. \A i \in moved : i \in DOMAIN lev /\ i # p /\ ns[i].parentIdx = p /\ ns2[i].parentIdx = N
  <2> TAKE i \in moved
  <2>1. PICK d \in mid + 2 .. m + 1 : i = cs[d] BY DEF MovedChildren
  <2>2. d \in 1 .. m + 1 BY <1>3, <2>1
  <2>3. i \in DOMAIN lev /\ i # p /\ ns[i].parentIdx = p BY <1>8, <2>1, <2>2
  <2>4. QED BY <2>3 DEF Adopted
<1>5. /\ N \notin DOMAIN lev /\ N # root /\ N # p /\ k \in Int
      /\ Ghosts(ns2, lev2, low2, high2, top2)
      /\ RootOK(ns2, root, lev2, low2, top2)
      /\ AllSpan(lev2, low2, high2)
      /\ Pending(root, lev2, low2, high2, top2, p, k, N)
  <2>1. ns2[root].parentIdx = ns[root].parentIdx
    <3>1. root \in DOMAIN lev /\ ns[root].parentIdx # p
      BY DEF Tree, RootOK, Ghosts, NoNode
    <3>2. QED BY <1>7, <1>9, <3>1
  <2> HIDE DEF ks, m, cs, moved
  <2>2. QED BY <1>4, <2>1, SplitCommon
<1>10. \A d \in 1 .. mid + 1 : d \in 1 .. m + 1 /\ cs[d] \notin moved
  <2> TAKE d \in 1 .. mid + 1
  <2>1. d \in 1 .. m + 1 BY <1>1, <1>3
  <2>2. \A e \in mid + 2 .. m + 1 : e \in 1 .. m + 1 /\ e # d BY <1>1, <1>3
  <2>3. QED BY <1>1, <2>1, <2>2 DEF MovedChildren
<1> DEFINE kl == ns2[p].keys
           cl == ns2[p].childIndices
           kr == ns2[N].keys
           cr == ns2[N].childIndices
<1>11. /\ Len(kl) = mid /\ Len(cl) = mid + 1
       /\ \A j \in 1 .. mid : kl[j] = ks[j]
       /\ \A j \in 1 .. mid + 1 : cl[j] = cs[j]
  <2>1. /\ Len(kl) = mid - 1 + 1 /\ Len(cl) = mid + 1 - 1 + 1
        /\ \A j \in 1 .. mid - 1 + 1 : kl[j] = ks[1 + j - 1]
        /\ \A j \in 1 .. mid + 1 - 1 + 1 : cl[j] = cs[1 + j - 1]
    BY DEF LeftHalf, Part
  <2>2. /\ mid - 1 + 1 = mid /\ mid + 1 - 1 + 1 = mid + 1
        /\ \A j \in 1 .. mid + 1 : 1 + j - 1 = j
        /\ \A j \in 1 .. mid : 1 + j - 1 = j
    BY <1>3
  <2> HIDE DEF ks, cs, kl, cl
  <2>3. QED BY <2>1, <2>2
<1>12. /\ Len(kr) = m - mid - 1 /\ Len(cr) = m - mid
       /\ \A j \in 1 .. m - mid - 1 : kr[j] = ks[mid + 1 + j]
       /\ \A j \in 1 .. m - mid : cr[j] = cs[mid + 1 + j]
  <2>1. /\ Len(kr) = m - (mid + 2) + 1 /\ Len(cr) = m + 1 - (mid + 2) + 1
        /\ \A j \in 1 .. m - (mid + 2) + 1 : kr[j] = ks[mid + 2 + j - 1]
        /\ \A j \in 1 .. m + 1 - (mid + 2) + 1 : cr[j] = cs[mid + 2 + j - 1]
    BY DEF RightHalf, Part
  <2>2. /\ m - (mid + 2) + 1 = m - mid - 1 /\ m + 1 - (mid + 2) + 1 = m - mid
        /\ \A j \in 1 .. m - mid - 1 : mid + 2 + j - 1 = mid + 1 + j
        /\ \A j \in 1 .. m - mid : mid + 2 + j - 1 = mid + 1 + j
    BY <1>1, <1>3
  <2> HIDE DEF ks, cs, kr, cr, m
  <2>3. QED BY <2>1, <2>2
<1>13. \A i \in DOMAIN lev : /\ lev2[i] = lev[i] /\ low2[i] = low[i] /\ top2[i] = high[i]
                            /\ (i # p => high2[i] = high[i])
  BY DEF SplitBounds
<1>14. /\ DOMAIN lev2 = DOMAIN lev \cup {N} /\ lev2[N] = lev[p]
       /\ low2[N] = Cut(k) /\ high2[N] = high[p] /\ high2[p] = Cut(k)
  BY DEF SplitBounds
<1>15. \A i \in DOMAIN lev2 : NodeOK(ns2, i, root, low2, high2)
  <2> TAKE i \in DOMAIN lev2
  <2>1. CASE i = N
    <3>1. Part(kr, ks, mid + 2, m) /\ ns2[N].isRoot = FALSE BY DEF RightHalf
    <3>2. \A j \in mid + 2 .. m : k <= ks[j]
      <4> TAKE j \in mid + 2 .. m
      <4>1. j \in 1 .. m /\ mid + 1 < j BY <1>1, <1>3
      <4>2. ks[mid + 1] < ks[j] /\ ks[j] \in Int BY <1>2, <1>3, <4>1
      <4>3. k = ks[mid + 1] /\ k \in Int BY <1>5
      <4> HIDE DEF ks
      <4>4. QED BY <4>2, <4>3
    <3>3. mid + 2 \in 1 .. m + 1 BY <1>1, <1>3
    <3>4. Ordered(kr, Cut(k), high[p])
      <4> HIDE DEF kr, ks, m
      <4>1. ks \in Seq(Key) /\ Len(ks) = m BY DEF ks, m
      <4>2. QED BY <1>2, <1>5, <3>1, <3>2, <3>3, <4>1, RightKeys
    <3>5. QED BY <1>5, <1>14, <2>1, <3>1, <3>4 DEF NodeOK, AllSpan
  <2>2. CASE i = p
    <3>1. Part(kl, ks, 1, mid) /\ ns2[p].isRoot = ns[p].isRoot BY DEF LeftHalf
    <3>2. \A j \in 1 .. mid : ks[j] < k
      <4> TAKE j \in 1 .. mid
      <4>1. j \in 1 .. m /\ j < mid + 1 BY <1>1, <1>3
      <4>2. QED BY <1>2, <1>3, <4>1
    <3>3. mid \in 0 .. m BY <1>1, <1>3
    <3>4. Ordered(kl, low[p], Cut(k))
      <4> HIDE DEF kl, ks, m
      <4>1. ks \in Seq(Key) /\ Len(ks) = m BY DEF ks, m
      <4>2. QED BY <1>2, <1>5, <3>1, <3>2, <3>3, <4>1, LeftKeys
    <3>5. NodeOK(ns, p, root, low, high) BY DEF Tree
    <3>6. QED BY <1>5, <1>13, <1>14, <2>2, <3>1, <3>4, <3>5 DEF NodeOK, AllSpan
  <2>3. CASE i # N /\ i # p
    <3>1. i \in DOMAIN lev BY <1>14, <2>3
    <3>2. NodeOK(ns, i, root, low, high) BY <3>1 DEF Tree
    <3>3. QED BY <1>6, <1>13, <2>3, <3>1, <3>2 DEF NodeOK, SameButParent
  <2>4. QED BY <2>1, <2>2, <2>3
<1>16. \A i \in DOMAIN lev2 : lev2[i] = 0 => LeafOK(ns2, i, lev2, low2, high2)
  <2> SUFFICES ASSUME NEW i \in DOMAIN lev2, lev2[i] = 0 PROVE LeafOK(ns2, i, lev2, low2, high2)
    OBVIOUS
  <2>1. i # N /\ i # p /\ i \in DOMAIN lev /\ lev[i] = 0 BY <1>13, <1>14
  <2>2. LeafOK(ns, i, lev, low, high) BY <2>1 DEF Tree
  <2>3. NextOK(ns2, i, lev2, low2, high2)
    BY <1>6, <1>13, <1>14, <2>1, <2>2 DEF LeafOK, NextOK, SameButParent
  <2>4. QED BY <1>6, <2>1, <2>2, <2>3 DEF LeafOK, SameButParent
<1>17. ASSUME NEW d \in 1 .. mid + 1
       PROVE  /\ ChildOK(ns2, p, d, lev2, low2, high2, top2, N)
              /\ cl[d] = cs[d] /\ d \in 1 .. m + 1
  <2>1. d \in 1 .. m + 1 /\ cs[d] \notin moved /\ cl[d] = cs[d] BY <1>10, <1>11
  <2> DEFINE ch == cs[d]
  <2>2. /\ ch \in DOMAIN lev /\ ns[ch].parentIdx = p /\ lev[ch] + 1 = lev[p]
        /\ low[ch] = lowCut(ks, d, low[p]) /\ high[ch] = highCut(ks, d, high[p])
    BY <1>8, <2>1
  <2>3. ns2[ch].parentIdx = p BY <1>7, <2>1, <2>2
  <2>4. lowCut(kl, d, low[p]) = lowCut(ks, d, low[p])
    <3>1. d # 1 => d - 1 \in 1 .. mid BY <1>3
    <3>2. QED BY <1>11, <3>1 DEF lowCut
  <2>5. highCut(kl, d, Cut(k)) = highCut(ks, d, high[p])
    <3>1. d # m + 1 BY <1>1, <1>3
    <3>2. d # mid + 1 => d \in 1 .. mid BY <1>3
    <3>3. CASE d = mid + 1 BY <1>11, <3>1, <3>3 DEF highCut
    <3>4. CASE d # mid + 1 BY <1>11, <3>1, <3>2, <3>4 DEF highCut
    <3>5. QED BY <3>3, <3>4
  <2>6. /\ lev2[ch] = lev[ch] /\ low2[ch] = low[ch] /\ top2[ch] = high[ch]
        /\ lev2[p] = lev[p] /\ low2[p] = low[p] /\ ch # N /\ ch \in DOMAIN lev2
    BY <1>5, <1>13, <1>14, <2>2
  <2> HIDE DEF ch
  <2>7. ns2[p].childIndices[d] = ch BY <2>1 DEF ch
  <2>8. QED BY <1>14, <2>1, <2>2, <2>3, <2>4, <2>5, <2>6, <2>7 DEF ChildOK
<1>18. ASSUME NEW d \in 1 .. m - mid
       PROVE  /\ ChildOK(ns2, N, d, lev2, low2, high2, top2, N)
              /\ cr[d] = cs[mid + 1 + d] /\ mid + 1 + d \in 1 .. m + 1
  <2> DEFINE e == mid + 1 + d
             ch == cs[e]
  <2>0. /\ e \in 1 .. m + 1 /\ e \in mid + 2 .. m + 1 /\ e # 1
        /\ d # 1 => d - 1 \in 1 .. m - mid - 1 /\ mid + 1 + (d - 1) = e - 1
        /\ d = m - mid => e = m + 1 /\ d = (m - mid - 1) + 1
        /\ d # m - mid => d \in 1 .. m - mid - 1 /\ e # m + 1 /\ d # (m - mid - 1) + 1
    <3> HIDE DEF m
    <3>1. QED BY <1>1, <1>3, RightPositions
  <2>1. e \in 1 .. m + 1 /\ e \in mid + 2 .. m + 1 /\ e # 1 /\ cr[d] = ch BY <2>0, <1>12
  <2>2. /\ ch \in DOMAIN lev /\ lev[ch] + 1 = lev[p]
        /\ low[ch] = lowCut(ks, e, low[p]) /\ high[ch] = highCut(ks, e, high[p])
    BY <1>8, <2>1
  <2>3. ch \in moved BY <2>1 DEF MovedChildren
  <2>4. ns2[ch].parentIdx = N BY <1>9, <2>3
  <2>5. lowCut(kr, d, Cut(k)) = lowCut(ks, e, low[p])
    <3>1. CASE d = 1
      <4>1. e - 1 = mid + 1 BY <1>3, <3>1
      <4>2. QED BY <2>1, <3>1, <4>1 DEF lowCut
    <3>2. CASE d # 1
      <4>1. d - 1 \in 1 .. m - mid - 1 /\ mid + 1 + (d - 1) = e - 1
        BY <2>0, <3>2
      <4>2. kr[d - 1] = ks[e - 1] BY <1>12, <4>1
      <4>3. QED BY <2>1, <3>2, <4>2 DEF lowCut
    <3>3. QED BY <3>1, <3>2
  <2>6. highCut(kr, d, high[p]) = highCut(ks, e, high[p])
    <3>1. CASE d = m - mid
      <4> HIDE DEF ks, kr, cs, cr, m
      <4>0. Len(ks) = m BY DEF m
      <4>1. e = m + 1 /\ d = Len(kr) + 1 BY <2>0, <1>12, <3>1
      <4>2. QED BY <4>0, <4>1 DEF highCut
    <3>2. CASE d # m - mid
      <4> HIDE DEF ks, kr, cs, cr, m
      <4>0. Len(ks) = m BY DEF m
      <4>1. d \in 1 .. m - mid - 1 /\ e # m + 1 /\ d # Len(kr) + 1
        BY <2>0, <1>12, <3>2
      <4>2. kr[d] = ks[e] BY <1>12, <4>1
      <4>3. QED BY <4>0, <4>1, <4>2 DEF highCut
    <3>3. QED BY <3>1, <3>2
  <2>7. /\ lev2[ch] = lev[ch] /\ low2[ch] = low[ch] /\ top2[ch] = high[ch]
        /\ ch # N /\ ch \in DOMAIN lev2
    BY <1>5, <1>13, <1>14, <2>2
  <2> HIDE DEF ch, e
  <2>8. ns2[N].childIndices[d] = ch BY <2>1
  <2>9. ChildOK(ns2, N, d, lev2, low2, high2, top2, N)
    BY <1>14, <2>2, <2>4, <2>5, <2>6, <2>7, <2>8 DEF ChildOK
  <2>10. QED BY <2>1, <2>9 DEF ch, e
<1>19. InnerOK(ns2, p, lev2, low2, high2, top2, N)
  <2>1. ns2[p].type = "INTERNAL" BY DEF LeftHalf, Tree, InnerOK
  <2>2. \A d, e \in 1 .. mid + 1 : cl[d] = cl[e] => d = e
    BY <1>1, <1>17
  <2>3. Len(kl) + 1 = mid + 1 /\ Len(cl) = Len(kl) + 1 BY <1>3, <1>11
  <2>4. QED BY <1>17, <2>1, <2>2, <2>3 DEF InnerOK
<1>20. InnerOK(ns2, N, lev2, low2, high2, top2, N)
  <2>1. ns2[N].type = "INTERNAL" BY DEF RightHalf
  <2>2. \A d, e \in 1 .. m - mid : cr[d] = cr[e] => d = e
    <3> TAKE d, e \in 1 .. m - mid
    <3>1. cr[d] = cr[e] => mid + 1 + d = mid + 1 + e BY <1>1, <1>18
    <3>2. QED BY <1>1, <1>3, <3>1
  <2>3. Len(kr) + 1 = m - mid /\ Len(cr) = Len(kr) + 1 BY <1>1, <1>3, <1>12
  <2>4. QED BY <1>18, <2>1, <2>2, <2>3 DEF InnerOK
<1>21. \A i \in DOMAIN lev2 : lev2[i] # 0 => InnerOK(ns2, i, lev2, low2, high2, top2, N)
  <2> SUFFICES ASSUME NEW i \in DOMAIN lev2, lev2[i] # 0, i # p, i # N
               PROVE  InnerOK(ns2, i, lev2, low2, high2, top2, N)
    BY <1>19, <1>20
  <2>1. i \in DOMAIN lev /\ lev[i] # 0 BY <1>13, <1>14
  <2>2. InnerOK(ns, i, lev, low, high, high, NoNode) BY <2>1 DEF Tree
  <2>3. SameInner(ns2[i], ns[i]) BY <1>6, <2>1 DEF SameInner, SameButParent
  <2>4. SameChildren(ns2, ns, i, lev2, lev, low2, low, top2, high, N)
    <3> SUFFICES ASSUME NEW d \in 1 .. Len(ns[i].keys) + 1, NEW ch, ch = ns[i].childIndices[d]
                 PROVE  /\ ch \in DOMAIN lev2 /\ ch # N /\ lev2[ch] = lev[ch]
                        /\ low2[ch] = low[ch] /\ top2[ch] = high[ch]
                        /\ ns2[ch].parentIdx = ns[ch].parentIdx
      BY DEF SameChildren
    <3>1. ch \in DOMAIN lev /\ ns[ch].parentIdx = i BY <2>1, ParentOf
    <3>2. ch \notin moved BY <1>9, <3>1
    <3>3. QED BY <1>5, <1>7, <1>13, <1>14, <3>1, <3>2
  <2>5. lev2[i] = lev[i] /\ low2[i] = low[i] /\ high2[i] = high[i] BY <1>13, <2>1
  <2>6. QED BY <2>2, <2>3, <2>4, <2>5, InnerSame
<1>22. \A i \in DOMAIN lev2 : i = root \/ i = N \/ Hangs(ns2, i, lev2)
  <2> SUFFICES ASSUME NEW i \in DOMAIN lev, i # root PROVE Hangs(ns2, i, lev2)
    BY <1>14
  <2> DEFINE q == ns[i].parentIdx
  <2>1. Hangs(ns, i, lev) BY DEF Tree, Ghosts, NoNode
  <2>2. PICK d \in 1 .. Len(ns[q].keys) + 1 : ns[q].childIndices[d] = i
    BY <2>1 DEF Hangs
  <2>3. q \in DOMAIN lev /\ lev[q] # 0 BY <2>1 DEF Hangs
  <2>4. CASE i \in moved
    <3>1. PICK e \in mid + 2 .. m + 1 : i = cs[e] BY <2>4 DEF MovedChildren
    <3>2. e - mid - 1 \in 1 .. m - mid /\ mid + 1 + (e - mid - 1) = e BY <1>1, <1>3
    <3>3. cr[e - mid - 1] = i BY <1>12, <3>1, <3>2
    <3>4. ns2[i].parentIdx = N /\ Len(kr) + 1 = m - mid BY <1>1, <1>3, <1>9, <1>12, <2>4
    <3>5. QED BY <1>14, <3>2, <3>3, <3>4 DEF Hangs
  <2>5. CASE i \notin moved /\ q = p
    <3>1. d \in 1 .. m + 1 /\ cs[d] = i BY <2>2, <2>5
    <3>2. d \notin mid + 2 .. m + 1 BY <2>5, <3>1 DEF MovedChildren
    <3>3. d \in 1 .. mid + 1 BY <1>1, <1>3, <3>1, <3>2
    <3>4. cl[d] = i /\ Len(kl) + 1 = mid + 1 BY <1>3, <1>11, <3>1, <3>3
    <3>5. ns2[i].parentIdx = p BY <1>7, <2>5
    <3>6. QED BY <1>13, <1>14, <3>3, <3>4, <3>5 DEF Hangs
  <2>6. CASE i \notin moved /\ q # p
    <3>1. ns2[i].parentIdx = q BY <1>7, <2>6
    <3>2. ns2[q].keys = ns[q].keys /\ ns2[q].childIndices = ns[q].childIndices
      BY <1>6, <2>3, <2>6 DEF SameButParent
    <3>3. q \in DOMAIN lev2 /\ lev2[q] # 0 BY <1>13, <1>14, <2>3
    <3>4. QED BY <2>2, <3>1, <3>2, <3>3 DEF Hangs
  <2>7. QED BY <2>4, <2>5, <2>6
<1>23. \A i, j \in DOMAIN lev2 : lev2[i] = 0 /\ lev2[j] = 0 => i = j \/ Apart(i, j, low2, high2)
  <2> SUFFICES ASSUME NEW i \in DOMAIN lev2, NEW j \in DOMAIN lev2, lev2[i] = 0, lev2[j] = 0
               PROVE  i = j \/ Apart(i, j, low2, high2)
    OBVIOUS
  <2>1. /\ i # N /\ i # p /\ i \in DOMAIN lev /\ lev[i] = 0
        /\ j # N /\ j # p /\ j \in DOMAIN lev /\ lev[j] = 0 BY <1>13, <1>14
  <2>2. i = j \/ Apart(i, j, low, high) BY <2>1 DEF Tree
  <2>3. QED BY <1>13, <2>1, <2>2 DEF Apart
<1>24. QED BY <1>5, <1>15, <1>16, <1>21, <1>22, <1>23 DEF Tree

-------------------------------------------------------------------------------
(* splitLeafAndInsert *)

\* n2 has the keys of leaf n from position a to position b, and the leaf next behind it.
LeafPart(n2, n, a, b, next) ==
  /\ n2.type = "LEAF" /\ Part(n2.keys, n.keys, a, b) /\ Len(n2.values) = Len(n2.keys)
  /\ n2.nextLeafIdx = next

\* A leaf of at least two keys becomes two leaves, of which the parent knows the left.
LEMMA SplitLeaf ==
  ASSUME NEW ns, NEW ns2, NEW root, NEW lev, NEW low, NEW high,
         NEW lev2, NEW low2, NEW high2, NEW top2,
         Tree(ns, root, lev, low, high, high, NoNode), NEW l \in DOMAIN lev, lev[l] = 0,
         ns[l].keys \in Seq(Key), NEW sp \in 1 .. Len(ns[l].keys) - 1,
         NEW k, k = ns[l].keys[sp + 1], NEW N,
         Len(ns) \in Nat, N = Len(ns) + 1, Len(ns2) = Len(ns) + 1,
         SplitBounds(lev2, low2, high2, top2, lev, low, high, l, k, N),
         LeafPart(ns2[l], ns[l], 1, sp, N),
         LeafPart(ns2[N], ns[l], sp + 1, Len(ns[l].keys), ns[l].nextLeafIdx),
         ns2[l].isRoot = ns[l].isRoot, ns2[l].parentIdx = ns[l].parentIdx, ns2[N].isRoot = FALSE,
         SameOn(ns2, ns, DOMAIN lev \ {l})
  PROVE  /\ Tree(ns2, root, lev2, low2, high2, top2, N)
         /\ Pending(root, lev2, low2, high2, top2, l, k, N)
<1> DEFINE ks == ns[l].keys
           m == Len(ks)
<1>1. m \in Nat /\ sp \in Nat /\ sp >= 1 /\ sp + 1 <= m /\ 1 \in 1 .. m /\ sp + 1 \in 1 .. m
  OBVIOUS
<1>2. /\ Ordered(ks, low[l], high[l]) /\ Span(low[l], high[l])
      /\ \A j \in 1 .. m : ks[j] \in Key /\ ks[j] \in Int
      /\ \A i, j \in 1 .. m : i < j => ks[i] < ks[j]
      /\ \A i \in 1 .. m : ks[i] \in high[l] /\ ks[i] \notin low[l]
  BY KeysAreInts, ElementOfSeq DEF Tree, NodeOK, Ordered
<1>3. Inside(k, low[l], high[l])
  <2>1. ks[1] < ks[sp + 1] BY <1>1, <1>2
  <2>2. ks[1] \in Cut(k) /\ ks[1] \notin low[l] BY <1>1, <1>2, <2>1 DEF Cut
  <2>3. k \in Key /\ k \in high[l] BY <1>1, <1>2
  <2>4. QED BY <2>2, <2>3 DEF Inside
<1>4. \A i \in DOMAIN lev : i # l => ns2[i] = ns[i]
  BY DEF SameOn
<1>5. \A i \in DOMAIN lev : ns2[i].parentIdx = ns[i].parentIdx
  BY <1>4
<1>6. /\ N \notin DOMAIN lev /\ N # root /\ N # l /\ k \in Int
      /\ Ghosts(ns2, lev2, low2, high2, top2)
      /\ RootOK(ns2, root, lev2, low2, top2)
      /\ AllSpan(lev2, low2, high2)
      /\ Pending(root, lev2, low2, high2, top2, l, k, N)
  <2>1. ns2[root].parentIdx = ns[root].parentIdx BY <1>5 DEF Tree, RootOK
  <2> HIDE DEF ks, m
  <2>2. QED BY <1>3, <2>1, SplitCommon, ZenonT(30)
<1>7. \A i \in DOMAIN lev : /\ lev2[i] = lev[i] /\ low2[i] = low[i] /\ top2[i] = high[i]
                            /\ (i # l => high2[i] = high[i])
  BY DEF SplitBounds
<1>8. /\ DOMAIN lev2 = DOMAIN lev \cup {N} /\ lev2[N] = 0
      /\ low2[N] = Cut(k) /\ high2[N] = high[l] /\ high2[l] = Cut(k)
  BY DEF SplitBounds
<1>9. \A i \in DOMAIN lev2 : NodeOK(ns2, i, root, low2, high2)
  <2> TAKE i \in DOMAIN lev2
  <2>1. CASE i = N
    <3> DEFINE kr == ns2[N].keys
    <3>1. Part(kr, ks, sp + 1, m) BY DEF LeafPart
    <3>2. \A j \in sp + 1 .. m : k <= ks[j]
      <4> TAKE j \in sp + 1 .. m
      <4>1. j \in 1 .. m /\ (j = sp + 1 \/ sp + 1 < j) BY <1>1
      <4>2. (j = sp + 1 \/ ks[sp + 1] < ks[j]) /\ ks[j] \in Int BY <1>1, <1>2, <4>1
      <4>3. k = ks[sp + 1] /\ k \in Int BY <1>6
      <4> HIDE DEF ks
      <4>4. QED BY <4>2, <4>3
    <3>3. sp + 1 \in 1 .. m + 1 BY <1>1
    <3>4. Ordered(kr, Cut(k), high[l])
      <4> HIDE DEF kr, ks, m
      <4>1. ks \in Seq(Key) /\ Len(ks) = m BY DEF ks, m
      <4>2. QED BY <1>2, <1>6, <3>1, <3>2, <3>3, <4>1, RightKeys
    <3>5. QED BY <1>6, <1>8, <2>1, <3>4 DEF NodeOK, AllSpan
  <2>2. CASE i = l
    <3> DEFINE kl == ns2[l].keys
    <3>1. Part(kl, ks, 1, sp) BY DEF LeafPart
    <3>2. \A j \in 1 .. sp : ks[j] < k
      <4> TAKE j \in 1 .. sp
      <4>1. j \in 1 .. m /\ j < sp + 1 BY <1>1
      <4>2. QED BY <1>1, <1>2, <4>1
    <3>3. sp \in 0 .. m BY <1>1
    <3>4. Ordered(kl, low[l], Cut(k))
      <4> HIDE DEF kl, ks, m
      <4>1. ks \in Seq(Key) /\ Len(ks) = m BY DEF ks, m
      <4>2. QED BY <1>2, <1>6, <3>1, <3>2, <3>3, <4>1, LeftKeys
    <3>5. NodeOK(ns, l, root, low, high) BY DEF Tree
    <3>6. QED BY <1>6, <1>7, <1>8, <2>2, <3>4, <3>5 DEF NodeOK, AllSpan
  <2>3. CASE i # N /\ i # l
    <3>1. i \in DOMAIN lev BY <1>8, <2>3
    <3>2. NodeOK(ns, i, root, low, high) BY <3>1 DEF Tree
    <3>3. QED BY <1>4, <1>7, <2>3, <3>1, <3>2 DEF NodeOK
  <2>4. QED BY <2>1, <2>2, <2>3
<1>10. \A i \in DOMAIN lev2 : lev2[i] = 0 => LeafOK(ns2, i, lev2, low2, high2)
  <2> SUFFICES ASSUME NEW i \in DOMAIN lev2, lev2[i] = 0 PROVE LeafOK(ns2, i, lev2, low2, high2)
    OBVIOUS
  <2>1. CASE i = N
    <3>1. LeafOK(ns, l, lev, low, high) BY DEF Tree
    <3>2. NextOK(ns2, i, lev2, low2, high2)
      BY <1>7, <1>8, <2>1, <3>1 DEF LeafOK, NextOK, LeafPart
    <3>3. QED BY <2>1, <3>2 DEF LeafOK, LeafPart
  <2>2. CASE i = l
    <3>1. NextOK(ns2, i, lev2, low2, high2)
      BY <1>8, <2>2 DEF NextOK, LeafPart
    <3>2. QED BY <2>2, <3>1 DEF LeafOK, LeafPart
  <2>3. CASE i # N /\ i # l
    <3>1. i \in DOMAIN lev /\ lev[i] = 0 BY <1>7, <1>8, <2>3
    <3>2. LeafOK(ns, i, lev, low, high) BY <3>1 DEF Tree
    <3>3. NextOK(ns2, i, lev2, low2, high2)
      BY <1>4, <1>7, <1>8, <2>3, <3>1, <3>2 DEF LeafOK, NextOK
    <3>4. QED BY <1>4, <2>3, <3>1, <3>2, <3>3 DEF LeafOK
  <2>4. QED BY <2>1, <2>2, <2>3
<1>11. \A i \in DOMAIN lev2 : lev2[i] # 0 => InnerOK(ns2, i, lev2, low2, high2, top2, N)
  <2> SUFFICES ASSUME NEW i \in DOMAIN lev2, lev2[i] # 0
               PROVE  InnerOK(ns2, i, lev2, low2, high2, top2, N)
    OBVIOUS
  <2>1. i \in DOMAIN lev /\ lev[i] # 0 /\ i # l BY <1>7, <1>8
  <2>2. InnerOK(ns, i, lev, low, high, high, NoNode) BY <2>1 DEF Tree
  <2>3. SameInner(ns2[i], ns[i]) BY <1>4, <2>1 DEF SameInner
  <2>4. SameChildren(ns2, ns, i, lev2, lev, low2, low, top2, high, N)
    <3> SUFFICES ASSUME NEW d \in 1 .. Len(ns[i].keys) + 1, NEW ch, ch = ns[i].childIndices[d]
                 PROVE  /\ ch \in DOMAIN lev2 /\ ch # N /\ lev2[ch] = lev[ch]
                        /\ low2[ch] = low[ch] /\ top2[ch] = high[ch]
                        /\ ns2[ch].parentIdx = ns[ch].parentIdx
      BY DEF SameChildren
    <3>1. ch \in DOMAIN lev BY <2>1, ParentOf
    <3>2. QED BY <1>5, <1>6, <1>7, <1>8, <3>1
  <2>5. lev2[i] = lev[i] /\ low2[i] = low[i] /\ high2[i] = high[i] BY <1>7, <2>1
  <2>6. QED BY <2>2, <2>3, <2>4, <2>5, InnerSame
<1>12. \A i \in DOMAIN lev2 : i = root \/ i = N \/ Hangs(ns2, i, lev2)
  <2> SUFFICES ASSUME NEW i \in DOMAIN lev, i # root PROVE Hangs(ns2, i, lev2)
    BY <1>8
  <2> DEFINE q == ns[i].parentIdx
  <2>1. Hangs(ns, i, lev) BY DEF Tree, Ghosts, NoNode
  <2>2. PICK d \in 1 .. Len(ns[q].keys) + 1 : ns[q].childIndices[d] = i
    BY <2>1 DEF Hangs
  <2>3. q \in DOMAIN lev /\ lev[q] # 0 BY <2>1 DEF Hangs
  <2>4. ns2[i].parentIdx = q /\ ns2[q] = ns[q] BY <1>4, <1>5, <2>3
  <2>5. q \in DOMAIN lev2 /\ lev2[q] # 0 BY <1>7, <1>8, <2>3
  <2>6. QED BY <2>2, <2>4, <2>5 DEF Hangs
<1>13. Cut(k) \subseteq high[l] /\ low[l] \subseteq Cut(k)
  <2>1. l \in DOMAIN lev2 /\ N \in DOMAIN lev2 /\ low2[l] = low[l] BY <1>7, <1>8
  <2>2. Span(low2[l], high2[l]) /\ Span(low2[N], high2[N]) BY <1>6, <2>1 DEF AllSpan
  <2>3. QED BY <1>8, <2>1, <2>2, SpanNested
<1>14. ASSUME NEW j \in DOMAIN lev, lev[j] = 0, j # l
       PROVE  Apart(l, j, low2, high2) /\ Apart(N, j, low2, high2)
  <2>1. high[l] \subseteq low[j] \/ high[j] \subseteq low[l] BY <1>14 DEF Tree, Apart
  <2>2. low2[j] = low[j] /\ high2[j] = high[j] /\ low2[l] = low[l] BY <1>7, <1>14
  <2>3. QED BY <1>8, <1>13, <2>1, <2>2 DEF Apart
<1>15. ASSUME NEW i \in DOMAIN lev, NEW j \in DOMAIN lev, lev[i] = 0, lev[j] = 0,
              i # l, j # l
       PROVE  i = j \/ Apart(i, j, low2, high2)
  <2>1. i = j \/ Apart(i, j, low, high) BY <1>15 DEF Tree
  <2>2. QED BY <1>7, <1>15, <2>1 DEF Apart
<1>16. Apart(l, N, low2, high2)
  BY <1>8 DEF Apart
<1>17. \A i, j : Apart(i, j, low2, high2) => Apart(j, i, low2, high2)
  BY DEF Apart
<1>18. \A i, j \in DOMAIN lev2 : lev2[i] = 0 /\ lev2[j] = 0 => i = j \/ Apart(i, j, low2, high2)
  <2> SUFFICES ASSUME NEW i \in DOMAIN lev2, NEW j \in DOMAIN lev2, lev2[i] = 0, lev2[j] = 0
               PROVE  i = j \/ Apart(i, j, low2, high2)
    OBVIOUS
  <2>1. (i \in DOMAIN lev /\ lev[i] = 0) \/ i = N BY <1>7, <1>8
  <2>2. (j \in DOMAIN lev /\ lev[j] = 0) \/ j = N BY <1>7, <1>8
  <2>3. QED BY <1>14, <1>15, <1>16, <1>17, <2>1, <2>2
<1>19. QED BY <1>6, <1>9, <1>10, <1>11, <1>12, <1>18 DEF Tree

-------------------------------------------------------------------------------
(* newRoot *)

\* The bounds after the root was split: the new root N has all keys.
RootBounds(lev2, low2, high2, lev, low, high, root, N) ==
  /\ DOMAIN lev2 = DOMAIN lev \cup {N} /\ DOMAIN low2 = DOMAIN lev2 /\ DOMAIN high2 = DOMAIN lev2
  /\ lev2[N] = lev[root] + 1 /\ low2[N] = {} /\ high2[N] = Int
  /\ \A i \in DOMAIN lev : lev2[i] = lev[i] /\ low2[i] = low[i] /\ high2[i] = high[i]

\* There are such bounds.
LEMMA RootBoundsExist ==
  ASSUME NEW lev, NEW low, NEW high, NEW root, NEW N, N \notin DOMAIN lev
  PROVE  \E lev2, low2, high2 : RootBounds(lev2, low2, high2, lev, low, high, root, N)
<1> DEFINE D == DOMAIN lev \cup {N}
           lev2 == [i \in D |-> IF i = N THEN lev[root] + 1 ELSE lev[i]]
           low2 == [i \in D |-> IF i = N THEN {} ELSE low[i]]
           high2 == [i \in D |-> IF i = N THEN Int ELSE high[i]]
<1>1. RootBounds(lev2, low2, high2, lev, low, high, root, N)
  BY DEF RootBounds
<1> HIDE DEF lev2, low2, high2
<1>2. QED BY <1>1

\* The halves of the old root are the children of the new one.
LEMMA NewRoot ==
  ASSUME NEW ns, NEW ns2, NEW root, NEW lev, NEW low, NEW high, NEW top,
         NEW key, NEW right, NEW lev2, NEW low2, NEW high2, NEW N,
         Tree(ns, root, lev, low, high, top, right),
         Pending(root, lev, low, high, top, root, key, right),
         Len(ns) \in Nat, N = Len(ns) + 1, Len(ns2) = Len(ns) + 1,
         RootBounds(lev2, low2, high2, lev, low, high, root, N),
         SameOn(ns2, ns, DOMAIN lev \ {root, right}),
         SameButParent(ns2[right], ns[right]), ns2[right].parentIdx = N,
         SameInner(ns2[root], ns[root]), ns2[root].values = ns[root].values,
         ns2[root].nextLeafIdx = ns[root].nextLeafIdx,
         ns2[root].isRoot = FALSE, ns2[root].parentIdx = N,
         ns2[N].type = "INTERNAL", ns2[N].isRoot = TRUE, ns2[N].parentIdx = NoNode,
         ns2[N].keys = <<key>>, ns2[N].childIndices = <<root, right>>
  PROVE  Tree(ns2, N, lev2, low2, high2, high2, NoNode)
<1>1. /\ DOMAIN lev \subseteq 1 .. Len(ns) /\ \A i \in DOMAIN lev : lev[i] \in Nat
      /\ root \in DOMAIN lev /\ lev[root] < Len(ns) /\ low[root] = {} /\ top[root] = Int
      /\ ns[root].parentIdx = NoNode
  BY DEF Tree, Ghosts, RootOK
<1>2. N \notin DOMAIN lev /\ N # root /\ N # right /\ N \in Nat /\ N # NoNode
  BY <1>1 DEF Pending, NoNode
<1>3. /\ right \in DOMAIN lev /\ right # root /\ lev[right] = lev[root] /\ key \in Key
      /\ key \in Int /\ high[root] = Cut(key) /\ low[right] = Cut(key) /\ high[right] = Int
      /\ \A i \in DOMAIN lev : i # root => high[i] = top[i]
  BY <1>1, KeysAreInts DEF Pending
<1>4. \A i \in DOMAIN lev : i # root /\ i # right => ns2[i] = ns[i]
  BY DEF SameOn
<1>5. \A i \in DOMAIN lev :
        /\ SameInner(ns2[i], ns[i]) /\ ns2[i].values = ns[i].values
        /\ ns2[i].nextLeafIdx = ns[i].nextLeafIdx
  BY <1>4 DEF SameButParent, SameInner
<1>6. /\ DOMAIN lev2 = DOMAIN lev \cup {N} /\ DOMAIN low2 = DOMAIN lev2
      /\ DOMAIN high2 = DOMAIN lev2
      /\ lev2[N] = lev[root] + 1 /\ low2[N] = {} /\ high2[N] = Int
  BY DEF RootBounds
<1>7. \A i \in DOMAIN lev : lev2[i] = lev[i] /\ low2[i] = low[i] /\ high2[i] = high[i]
  BY DEF RootBounds
<1>8. Ghosts(ns2, lev2, low2, high2, high2)
  <2>1. DOMAIN lev2 \subseteq 1 .. Len(ns2) BY <1>1, <1>6
  <2>2. \A i \in DOMAIN lev2 : lev2[i] \in Nat BY <1>1, <1>6, <1>7
  <2>3. QED BY <1>6, <2>1, <2>2 DEF Ghosts
<1>9. RootOK(ns2, N, lev2, low2, high2)
  <2>1. lev2[N] < Len(ns2) BY <1>1, <1>6
  <2>2. QED BY <1>6, <2>1 DEF RootOK
<1>10. \A i \in DOMAIN lev2 : NodeOK(ns2, i, N, low2, high2)
  <2> TAKE i \in DOMAIN lev2
  <2>1. CASE i = N
    <3>1. Span({}, Int) BY DEF Span, Down
    <3>2. Ordered(ns2[N].keys, {}, Int)
      <4>1. Len(<<key>>) = 1 /\ <<key>>[1] = key /\ \A j \in 1 .. 1 : j = 1 OBVIOUS
      <4>2. Ordered(<<key>>, {}, Int) BY <1>3, <4>1 DEF Ordered
      <4>3. QED BY <4>2
    <3>3. QED BY <1>6, <2>1, <3>1, <3>2 DEF NodeOK
  <2>2. CASE i # N
    <3>1. i \in DOMAIN lev BY <1>6, <2>2
    <3>2. NodeOK(ns, i, root, low, high) BY <3>1 DEF Tree
    <3>3. ns2[i].isRoot = FALSE
      <4>1. CASE i = root BY <4>1
      <4>2. CASE i = right BY <1>3, <3>2, <4>2 DEF NodeOK, SameButParent, Tree
      <4>3. CASE i # root /\ i # right
        <5>1. ns2[i].isRoot = ns[i].isRoot BY <1>4, <3>1, <4>3
        <5>2. QED BY <3>2, <4>3, <5>1 DEF NodeOK
      <4>4. QED BY <4>1, <4>2, <4>3
    <3>4. ns2[i].keys = ns[i].keys BY <1>5, <3>1 DEF SameInner
    <3>5. QED BY <1>7, <2>2, <3>1, <3>2, <3>3, <3>4 DEF NodeOK
  <2>3. QED BY <2>1, <2>2
<1>11. \A i \in DOMAIN lev2 : lev2[i] = 0 => LeafOK(ns2, i, lev2, low2, high2)
  <2> SUFFICES ASSUME NEW i \in DOMAIN lev2, lev2[i] = 0 PROVE LeafOK(ns2, i, lev2, low2, high2)
    OBVIOUS
  <2>1. i \in DOMAIN lev /\ lev[i] = 0
    <3>1. lev2[N] # 0 BY <1>1, <1>6
    <3>2. QED BY <1>6, <1>7, <3>1
  <2>2. LeafOK(ns, i, lev, low, high) BY <2>1 DEF Tree
  <2>3. NextOK(ns2, i, lev2, low2, high2)
    BY <1>5, <1>6, <1>7, <2>1, <2>2 DEF LeafOK, NextOK
  <2>4. QED BY <1>5, <2>1, <2>2, <2>3 DEF LeafOK, SameInner
<1>12. InnerOK(ns2, N, lev2, low2, high2, high2, NoNode)
  <2> DEFINE kn == ns2[N].keys
             cn == ns2[N].childIndices
  <2>1. Len(kn) = 1 /\ kn[1] = key /\ Len(cn) = 2 /\ cn[1] = root /\ cn[2] = right
    OBVIOUS
  <2>2. root # NoNode /\ right # NoNode BY <1>1, <1>3 DEF NoNode
  <2>3. ChildOK(ns2, N, 1, lev2, low2, high2, high2, NoNode)
    <3>1. lowCut(kn, 1, low2[N]) = {} BY <1>6 DEF lowCut
    <3>2. highCut(kn, 1, high2[N]) = Cut(key) BY <2>1 DEF highCut
    <3> HIDE DEF kn, cn
    <3>3. ns2[N].childIndices[1] = root /\ ns2[N].keys = kn BY <2>1 DEF kn, cn
    <3>4. /\ root \in DOMAIN lev2 /\ lev2[root] + 1 = lev2[N]
          /\ low2[root] = {} /\ high2[root] = Cut(key) BY <1>1, <1>3, <1>6, <1>7
    <3>5. QED BY <2>2, <3>1, <3>2, <3>3, <3>4 DEF ChildOK
  <2>4. ChildOK(ns2, N, 2, lev2, low2, high2, high2, NoNode)
    <3>1. lowCut(kn, 2, low2[N]) = Cut(key) BY <2>1 DEF lowCut
    <3>2. highCut(kn, 2, high2[N]) = Int BY <1>6, <2>1 DEF highCut
    <3> HIDE DEF kn, cn
    <3>3. ns2[N].childIndices[2] = right /\ ns2[N].keys = kn BY <2>1 DEF kn, cn
    <3>4. /\ right \in DOMAIN lev2 /\ lev2[right] + 1 = lev2[N]
          /\ low2[right] = Cut(key) /\ high2[right] = Int BY <1>1, <1>3, <1>6, <1>7
    <3>5. QED BY <2>2, <3>1, <3>2, <3>3, <3>4 DEF ChildOK
  <2> HIDE DEF kn, cn
  <2>5. \A c \in 1 .. Len(kn) + 1 : c = 1 \/ c = 2 BY <2>1
  <2>6. \A c, d \in 1 .. Len(kn) + 1 : cn[c] = cn[d] => c = d BY <1>3, <2>1, <2>5
  <2>7. Len(cn) = Len(kn) + 1 BY <2>1
  <2>8. QED BY <2>3, <2>4, <2>5, <2>6, <2>7 DEF InnerOK, kn, cn
<1>13. \A i \in DOMAIN lev2 : lev2[i] # 0 => InnerOK(ns2, i, lev2, low2, high2, high2, NoNode)
  <2> SUFFICES ASSUME NEW i \in DOMAIN lev2, lev2[i] # 0, i # N
               PROVE  InnerOK(ns2, i, lev2, low2, high2, high2, NoNode)
    BY <1>12
  <2>1. i \in DOMAIN lev /\ lev[i] # 0 BY <1>6, <1>7
  <2>2. InnerOK(ns, i, lev, low, high, top, right) BY <2>1 DEF Tree
  <2>3. SameInner(ns2[i], ns[i]) BY <1>5, <2>1
  <2>4. SameChildren(ns2, ns, i, lev2, lev, low2, low, high2, top, NoNode)
    <3> SUFFICES ASSUME NEW d \in 1 .. Len(ns[i].keys) + 1, NEW ch, ch = ns[i].childIndices[d]
                 PROVE  /\ ch \in DOMAIN lev2 /\ ch # NoNode /\ lev2[ch] = lev[ch]
                        /\ low2[ch] = low[ch] /\ high2[ch] = top[ch]
                        /\ ns2[ch].parentIdx = ns[ch].parentIdx
      BY DEF SameChildren
    <3>1. ch \in DOMAIN lev /\ ch # right /\ ns[ch].parentIdx = i BY <2>1, ParentOf
    <3>2. ch # NoNode /\ i # NoNode BY <1>1, <2>1, <3>1 DEF NoNode
    <3>3. ch # root BY <1>1, <3>1, <3>2
    <3>4. QED BY <1>3, <1>4, <1>6, <1>7, <3>1, <3>2, <3>3
  <2>5. lev2[i] = lev[i] /\ low2[i] = low[i] /\ high2[i] = high[i] BY <1>7, <2>1
  <2>6. QED BY <2>2, <2>3, <2>4, <2>5, InnerSame
<1>14. \A i \in DOMAIN lev2 : i = N \/ i = NoNode \/ Hangs(ns2, i, lev2)
  <2> SUFFICES ASSUME NEW i \in DOMAIN lev PROVE Hangs(ns2, i, lev2)
    BY <1>6
  <2>1. CASE i = root \/ i = right
    <3> DEFINE kn == ns2[N].keys
               cn == ns2[N].childIndices
    <3>1. Len(kn) = 1 /\ cn[1] = root /\ cn[2] = right OBVIOUS
    <3>2. 1 \in 1 .. Len(kn) + 1 /\ 2 \in 1 .. Len(kn) + 1 BY <3>1
    <3>3. N \in DOMAIN lev2 /\ lev2[N] # 0 /\ ns2[i].parentIdx = N BY <1>1, <1>6, <2>1
    <3> HIDE DEF kn, cn
    <3>4. \E c \in 1 .. Len(kn) + 1 : cn[c] = i BY <2>1, <3>1, <3>2
    <3>5. QED BY <3>3, <3>4 DEF Hangs, kn, cn
  <2>2. CASE i # root /\ i # right
    <3> DEFINE q == ns[i].parentIdx
    <3>1. Hangs(ns, i, lev) BY <2>2 DEF Tree
    <3>2. PICK d \in 1 .. Len(ns[q].keys) + 1 : ns[q].childIndices[d] = i
      BY <3>1 DEF Hangs
    <3>3. q \in DOMAIN lev /\ lev[q] # 0 BY <3>1 DEF Hangs
    <3>4. ns2[i].parentIdx = q BY <1>4, <2>2
    <3>5. ns2[q].keys = ns[q].keys /\ ns2[q].childIndices = ns[q].childIndices
      BY <1>5, <3>3 DEF SameInner
    <3>6. q \in DOMAIN lev2 /\ lev2[q] # 0 BY <1>6, <1>7, <3>3
    <3>7. QED BY <3>2, <3>4, <3>5, <3>6 DEF Hangs
  <2>3. QED BY <2>1, <2>2
<1>15. \A i, j \in DOMAIN lev2 : lev2[i] = 0 /\ lev2[j] = 0 => i = j \/ Apart(i, j, low2, high2)
  <2> SUFFICES ASSUME NEW i \in DOMAIN lev2, NEW j \in DOMAIN lev2, lev2[i] = 0, lev2[j] = 0
               PROVE  i = j \/ Apart(i, j, low2, high2)
    OBVIOUS
  <2>0. lev2[N] # 0 BY <1>1, <1>6
  <2>1. i \in DOMAIN lev /\ lev[i] = 0 /\ j \in DOMAIN lev /\ lev[j] = 0 BY <1>6, <1>7, <2>0
  <2>2. i = j \/ Apart(i, j, low, high) BY <2>1 DEF Tree
  <2>3. QED BY <1>7, <2>1, <2>2 DEF Apart
<1>16. QED BY <1>8, <1>9, <1>10, <1>11, <1>13, <1>14, <1>15 DEF Tree

-------------------------------------------------------------------------------
(* Two leaves next to each other, the children q and q + 1 of p *)

\* The leaves a and b are the children q and q + 1 of p.
Neighbours(ns, lev, p, q, a, b) ==
  /\ p \in DOMAIN lev /\ lev[p] # 0 /\ ns[p].keys \in Seq(Key) /\ q \in 1 .. Len(ns[p].keys)
  /\ a = ns[p].childIndices[q] /\ b = ns[p].childIndices[q + 1] /\ lev[a] = 0

\* What holds of them: the separator is between them, no leaf is, and the left
\* one is linked to the right one.
LEMMA NeighboursAre ==
  ASSUME NEW ns, NEW root, NEW lev, NEW low, NEW high,
         Tree(ns, root, lev, low, high, high, NoNode),
         NEW p, NEW q, NEW a, NEW b, Neighbours(ns, lev, p, q, a, b)
  PROVE  /\ a \in DOMAIN lev /\ b \in DOMAIN lev /\ lev[a] = 0 /\ lev[b] = 0 /\ lev[p] = 1
         /\ a # b /\ a # p /\ b # p /\ a # root /\ b # root
         /\ ns[a].parentIdx = p /\ ns[b].parentIdx = p
         /\ ns[p].keys[q] \in Key /\ ns[p].keys[q] \in Int
         /\ low[a] = lowCut(ns[p].keys, q, low[p]) /\ high[a] = Cut(ns[p].keys[q])
         /\ low[b] = high[a] /\ high[b] = highCut(ns[p].keys, q + 1, high[p])
         /\ Span(low[a], high[a]) /\ Span(low[b], high[b])
         /\ ns[a].nextLeafIdx = b
<1> DEFINE ks == ns[p].keys
           m == Len(ks)
           cs == ns[p].childIndices
<1>1. /\ p \in DOMAIN lev /\ lev[p] # 0 /\ ks \in Seq(Key) /\ q \in 1 .. m
      /\ a = cs[q] /\ b = cs[q + 1] /\ lev[a] = 0 /\ m \in Nat
  BY DEF Neighbours
<1>2. q \in 1 .. m + 1 /\ q + 1 \in 1 .. m + 1 /\ q # q + 1 /\ q # m + 1 /\ q + 1 # 1
      /\ (q + 1) - 1 = q
  BY <1>1
<1>3. /\ a \in DOMAIN lev /\ ns[a].parentIdx = p /\ lev[a] + 1 = lev[p]
      /\ low[a] = lowCut(ks, q, low[p]) /\ high[a] = highCut(ks, q, high[p])
  BY <1>1, <1>2, ParentOf
<1>4. /\ b \in DOMAIN lev /\ ns[b].parentIdx = p /\ lev[b] + 1 = lev[p]
      /\ low[b] = lowCut(ks, q + 1, low[p]) /\ high[b] = highCut(ks, q + 1, high[p])
  BY <1>1, <1>2, ParentOf
<1>5. ks[q] \in Key /\ ks[q] \in Int
  BY <1>1, KeysAreInts, ElementOfSeq
<1>6. high[a] = Cut(ks[q]) /\ low[b] = Cut(ks[q])
  BY <1>2, <1>3, <1>4 DEF lowCut, highCut
<1>7. a # b
  <2>1. \A c, d \in 1 .. m + 1 : cs[c] = cs[d] => c = d BY <1>1 DEF Tree, InnerOK
  <2>2. QED BY <1>1, <1>2, <2>1
<1>8. lev[p] = 1 /\ lev[b] = 0
  <2>1. lev[b] \in Nat BY <1>4 DEF Tree, Ghosts
  <2>2. QED BY <1>1, <1>3, <1>4, <2>1
<1>9. a # root /\ b # root
  <2>1. ns[root].parentIdx = NoNode /\ p # NoNode BY <1>1 DEF Tree, RootOK, Ghosts, NoNode
  <2>2. QED BY <1>3, <1>4, <2>1
<1>10. Span(low[a], high[a]) /\ Span(low[b], high[b])
  BY <1>3, <1>4 DEF Tree, NodeOK
<1>11. ns[a].nextLeafIdx = b
  <2> DEFINE j == ns[a].nextLeafIdx
  <2>1. NextOK(ns, a, lev, low, high) BY <1>1, <1>3 DEF Tree, LeafOK
  <2>2. high[a] # Int BY <1>5, <1>6, CutIs
  <2>3. j \in DOMAIN lev /\ lev[j] = 0 /\ low[j] = high[a] BY <2>1, <2>2 DEF NextOK
  <2>4. Span(low[j], high[j]) BY <2>3 DEF Tree, NodeOK
  <2>5. j = b \/ Apart(j, b, low, high) BY <1>4, <1>8, <2>3 DEF Tree
  <2> HIDE DEF j
  <2>6. j = b BY <1>6, <1>10, <2>3, <2>4, <2>5, SameBound
  <2>7. QED BY <2>6 DEF j
<1>12. QED BY <1>1, <1>3, <1>4, <1>5, <1>6, <1>7, <1>8, <1>9, <1>10, <1>11

\* Another leaf is left of both or right of both, and not linked to the right one.
LEMMA OtherLeaf ==
  ASSUME NEW ns, NEW root, NEW lev, NEW low, NEW high,
         Tree(ns, root, lev, low, high, high, NoNode),
         NEW p, NEW q, NEW a, NEW b, Neighbours(ns, lev, p, q, a, b),
         NEW j \in DOMAIN lev, lev[j] = 0, j # a, j # b
  PROVE  /\ high[b] \subseteq low[j] \/ high[j] \subseteq low[a]
         /\ ns[j].nextLeafIdx # b
<1>1. /\ a \in DOMAIN lev /\ b \in DOMAIN lev /\ lev[a] = 0 /\ lev[b] = 0 /\ low[b] = high[a]
      /\ Span(low[a], high[a]) /\ Span(low[b], high[b])
  BY NeighboursAre
<1>2. Apart(a, j, low, high) /\ Apart(b, j, low, high)
  BY <1>1 DEF Tree
<1>3. Span(low[j], high[j])
  BY DEF Tree, NodeOK
<1>4. ~(high[j] \subseteq low[j])
  BY <1>3 DEF Span
<1>5. high[b] \subseteq low[j] \/ high[j] \subseteq low[a]
  BY <1>1, <1>2, <1>4 DEF Apart
<1>6. ns[j].nextLeafIdx # b
  <2> SUFFICES ASSUME ns[j].nextLeafIdx = b PROVE FALSE
    OBVIOUS
  <2>1. NextOK(ns, j, lev, low, high) BY DEF Tree, LeafOK
  <2>2. b # NoNode BY <1>1 DEF Tree, Ghosts, NoNode
  <2>3. low[b] = high[j] BY <2>1, <2>2 DEF NextOK
  <2>4. j = a BY <1>1, <1>2, <1>3, <2>3, SameBound DEF Apart
  <2>5. QED BY <2>4
<1>7. QED BY <1>5, <1>6

\* The right neighbour is not its own next leaf.
LEMMA NextOfRight ==
  ASSUME NEW ns, NEW root, NEW lev, NEW low, NEW high,
         Tree(ns, root, lev, low, high, high, NoNode), NEW b \in DOMAIN lev, lev[b] = 0
  PROVE  ns[b].nextLeafIdx # b
<1> SUFFICES ASSUME ns[b].nextLeafIdx = b PROVE FALSE
  OBVIOUS
<1>1. NextOK(ns, b, lev, low, high) /\ Span(low[b], high[b])
  BY DEF Tree, LeafOK, NodeOK
<1>2. b # NoNode
  BY DEF Tree, Ghosts, NoNode
<1>3. low[b] = high[b]
  BY <1>1, <1>2 DEF NextOK
<1>4. QED BY <1>1, <1>3 DEF Span

-------------------------------------------------------------------------------
(* borrowLeft, borrowRight *)

\* t is s with e at position q.
Replaced(t, s, q, e) ==
  Len(t) = Len(s) /\ t[q] = e /\ \A j \in 1 .. Len(s) : j # q => t[j] = s[j]

\* The bounds of the children after the separator at position q became s.
CutsReplaced(t, ks, q, s, lo, hi) ==
  /\ \A d \in 1 .. Len(ks) + 1 : d # q + 1 => lowCut(t, d, lo) = lowCut(ks, d, lo)
  /\ \A d \in 1 .. Len(ks) + 1 : d # q => highCut(t, d, hi) = highCut(ks, d, hi)
  /\ lowCut(t, q + 1, lo) = Cut(s) /\ highCut(t, q, hi) = Cut(s)

\* Only the children q and q + 1 get another bound.
LEMMA ReplacedCuts ==
  ASSUME NEW ks, NEW t, Len(ks) \in Nat, NEW q \in 1 .. Len(ks), NEW s, NEW lo, NEW hi,
         Replaced(t, ks, q, s)
  PROVE  CutsReplaced(t, ks, q, s, lo, hi)
<1>1. Len(t) = Len(ks) /\ t[q] = s /\ \A j \in 1 .. Len(ks) : j # q => t[j] = ks[j]
  BY DEF Replaced
<1>2. ASSUME NEW d \in 1 .. Len(ks) + 1, d # q + 1 PROVE lowCut(t, d, lo) = lowCut(ks, d, lo)
  <2>1. d # 1 => d - 1 \in 1 .. Len(ks) /\ d - 1 # q BY <1>2
  <2>2. QED BY <1>1, <2>1 DEF lowCut
<1>3. ASSUME NEW d \in 1 .. Len(ks) + 1, d # q PROVE highCut(t, d, hi) = highCut(ks, d, hi)
  <2>1. d # Len(ks) + 1 => d \in 1 .. Len(ks) BY <1>3
  <2>2. QED BY <1>1, <1>3, <2>1 DEF highCut
<1>4. lowCut(t, q + 1, lo) = Cut(s) /\ highCut(t, q, hi) = Cut(s)
  <2>1. q + 1 # 1 /\ (q + 1) - 1 = q /\ q # Len(t) + 1 BY <1>1
  <2>2. QED BY <1>1, <2>1 DEF lowCut, highCut
<1>5. QED BY <1>2, <1>3, <1>4 DEF CutsReplaced

\* The separator may move as far as the bounds of its two children reach.
LEMMA ReplacedOrdered ==
  ASSUME NEW ks \in Seq(Key), NEW lo, NEW hi, Ordered(ks, lo, hi), Span(lo, hi), NEW t,
         NEW q \in 1 .. Len(ks), NEW s \in Int, Replaced(t, ks, q, s),
         Span(lowCut(ks, q, lo), Cut(s)), Span(Cut(s), highCut(ks, q + 1, hi))
  PROVE  Ordered(t, lo, hi)
<1>1. Len(ks) \in Nat /\ \A i \in 1 .. Len(ks) : ks[i] \in Int
  BY KeysAreInts, ElementOfSeq
<1>2. /\ \A i, j \in 1 .. Len(ks) : i < j => ks[i] < ks[j]
      /\ \A i \in 1 .. Len(ks) : ks[i] \in hi /\ ks[i] \notin lo
  BY DEF Ordered
<1>3. Down(lo) /\ Down(hi)
  BY DEF Span
<1>4. PICK x \in Cut(s) : x \notin lowCut(ks, q, lo)
  BY DEF Span
<1>5. x \in Int /\ x < s
  BY <1>4 DEF Cut
<1>6. PICK y \in highCut(ks, q + 1, hi) : y \notin Cut(s)
  BY DEF Span
<1>7. y \in Int /\ s <= y
  <2>1. Down(highCut(ks, q + 1, hi)) BY DEF Span
  <2>2. y \in Int BY <1>6, <2>1 DEF Down
  <2>3. QED BY <1>6, <2>2 DEF Cut
<1>8. q = 1 \/ (q - 1 \in 1 .. Len(ks) /\ ks[q - 1] < s)
  <2> SUFFICES ASSUME q # 1 PROVE q - 1 \in 1 .. Len(ks) /\ ks[q - 1] < s
    OBVIOUS
  <2>1. q - 1 \in 1 .. Len(ks) BY <1>1
  <2>2. ~(x < ks[q - 1]) BY <1>4, <1>5 DEF lowCut, Cut
  <2>3. ks[q - 1] \in Int BY <1>1, <2>1
  <2>4. QED BY <1>5, <2>1, <2>2, <2>3
<1>9. q = Len(ks) \/ (q + 1 \in 1 .. Len(ks) /\ s < ks[q + 1])
  <2> SUFFICES ASSUME q # Len(ks) PROVE q + 1 \in 1 .. Len(ks) /\ s < ks[q + 1]
    OBVIOUS
  <2>1. q + 1 \in 1 .. Len(ks) /\ q + 1 # Len(ks) + 1 BY <1>1
  <2>2. y < ks[q + 1] BY <1>6, <2>1 DEF highCut, Cut
  <2>3. ks[q + 1] \in Int BY <1>1, <2>1
  <2>4. QED BY <1>7, <2>1, <2>2, <2>3
<1>10. ASSUME NEW j \in 1 .. Len(ks), j < q PROVE ks[j] < s
  <2>1. q - 1 \in 1 .. Len(ks) /\ ks[q - 1] < s /\ (j = q - 1 \/ j < q - 1) BY <1>1, <1>8, <1>10
  <2>2. ks[q - 1] \in Int /\ ks[j] \in Int BY <1>1, <2>1
  <2>3. j < q - 1 => ks[j] < ks[q - 1] BY <1>2, <2>1
  <2>4. QED BY <2>1, <2>2, <2>3
<1>11. ASSUME NEW j \in 1 .. Len(ks), q < j PROVE s < ks[j]
  <2>1. q + 1 \in 1 .. Len(ks) /\ s < ks[q + 1] /\ (j = q + 1 \/ q + 1 < j) BY <1>1, <1>9, <1>11
  <2>2. ks[q + 1] \in Int /\ ks[j] \in Int BY <1>1, <2>1
  <2>3. q + 1 < j => ks[q + 1] < ks[j] BY <1>2, <2>1
  <2>4. QED BY <2>1, <2>2, <2>3
<1>12. s \in hi
  <2>1. CASE q = Len(ks)
    <3>1. y \in hi BY <1>6, <2>1 DEF highCut
    <3>2. QED BY <1>3, <1>7, <3>1 DEF Down
  <2>2. CASE q + 1 \in 1 .. Len(ks) /\ s < ks[q + 1] BY <1>2, <1>3, <2>2 DEF Down
  <2>3. QED BY <1>9, <2>1, <2>2
<1>13. s \notin lo
  <2>1. CASE q = 1
    <3>1. x \notin lo BY <1>4, <2>1 DEF lowCut
    <3>2. QED BY <1>3, <1>5, <3>1 DEF Down
  <2>2. CASE q - 1 \in 1 .. Len(ks) /\ ks[q - 1] < s
    <3>1. ks[q - 1] \notin lo /\ ks[q - 1] \in Int BY <1>1, <1>2, <2>2
    <3>2. QED BY <1>3, <2>2, <3>1 DEF Down
  <2>3. QED BY <1>8, <2>1, <2>2
<1>14. Len(t) = Len(ks) /\ t[q] = s /\ \A j \in 1 .. Len(ks) : j # q => t[j] = ks[j]
  BY DEF Replaced
<1>15. ASSUME NEW i \in 1 .. Len(ks), NEW j \in 1 .. Len(ks), i < j PROVE t[i] < t[j]
  <2>1. CASE i = q
    <3>1. j # q /\ q < j BY <1>1, <1>15, <2>1
    <3>2. QED BY <1>11, <1>14, <2>1, <3>1
  <2>2. CASE j = q
    <3>1. i # q /\ i < q BY <1>1, <1>15, <2>2
    <3>2. QED BY <1>10, <1>14, <2>2, <3>1
  <2>3. CASE i # q /\ j # q BY <1>2, <1>14, <1>15, <2>3
  <2>4. QED BY <2>1, <2>2, <2>3
<1>16. ASSUME NEW j \in 1 .. Len(ks) PROVE t[j] \in hi /\ t[j] \notin lo
  BY <1>2, <1>12, <1>13, <1>14
<1>17. QED BY <1>14, <1>15, <1>16 DEF Ordered

\* The bounds after the separator of a and b moved to s.
MovedBounds(low2, high2, lev, low, high, a, b, s) ==
  /\ DOMAIN low2 = DOMAIN lev /\ DOMAIN high2 = DOMAIN lev
  /\ low2[b] = Cut(s) /\ high2[a] = Cut(s)
  /\ \A i \in DOMAIN lev : i # b => low2[i] = low[i]
  /\ \A i \in DOMAIN lev : i # a => high2[i] = high[i]

\* There are such bounds.
LEMMA MovedBoundsExist ==
  ASSUME NEW lev, NEW low, NEW high, NEW a \in DOMAIN lev, NEW b \in DOMAIN lev, NEW s
  PROVE  \E low2, high2 : MovedBounds(low2, high2, lev, low, high, a, b, s)
<1> DEFINE low2 == [i \in DOMAIN lev |-> IF i = b THEN Cut(s) ELSE low[i]]
           high2 == [i \in DOMAIN lev |-> IF i = a THEN Cut(s) ELSE high[i]]
<1>1. MovedBounds(low2, high2, lev, low, high, a, b, s)
  BY DEF MovedBounds
<1> HIDE DEF low2, high2
<1>2. QED BY <1>1

\* The entries of the leaf n2 are in order, and there are some.
GoodLeaf(n2, lo, hi) ==
  Len(n2.values) = Len(n2.keys) /\ 1 \in 1 .. Len(n2.keys) /\ Ordered(n2.keys, lo, hi)

\* n2 is n with the separator s at position q.
WithSeparator(n2, n, q, s) ==
  /\ n2.type = n.type /\ n2.isRoot = n.isRoot /\ n2.parentIdx = n.parentIdx
  /\ n2.childIndices = n.childIndices /\ Replaced(n2.keys, n.keys, q, s)

\* Entries moved between two neighbours and their separator with them: the tree
\* is one again.
LEMMA Borrow ==
  ASSUME NEW ns, NEW ns2, NEW root, NEW lev, NEW low, NEW high, NEW low2, NEW high2,
         Tree(ns, root, lev, low, high, high, NoNode), Len(ns2) = Len(ns),
         NEW p, NEW q, NEW a, NEW b, Neighbours(ns, lev, p, q, a, b), NEW s \in Key,
         MovedBounds(low2, high2, lev, low, high, a, b, s),
         SameLinks(ns2[a], ns[a]), SameLinks(ns2[b], ns[b]),
         GoodLeaf(ns2[a], low[a], Cut(s)), GoodLeaf(ns2[b], Cut(s), high[b]),
         WithSeparator(ns2[p], ns[p], q, s), SameOn(ns2, ns, DOMAIN lev \ {a, b, p})
  PROVE  Tree(ns2, root, lev, low2, high2, high2, NoNode)
<1> DEFINE ks == ns[p].keys
           m == Len(ks)
           cs == ns[p].childIndices
           kt == ns2[p].keys
<1>1. /\ a \in DOMAIN lev /\ b \in DOMAIN lev /\ lev[a] = 0 /\ lev[b] = 0 /\ lev[p] = 1
      /\ a # b /\ a # p /\ b # p /\ a # root /\ b # root
      /\ ns[a].parentIdx = p /\ ns[b].parentIdx = p
      /\ low[a] = lowCut(ks, q, low[p]) /\ low[b] = high[a]
      /\ high[b] = highCut(ks, q + 1, high[p])
      /\ Span(low[a], high[a]) /\ Span(low[b], high[b]) /\ ns[a].nextLeafIdx = b
  <2> HIDE DEF cs, kt, m
  <2>1. QED BY NeighboursAre
<1>2. /\ p \in DOMAIN lev /\ lev[p] # 0 /\ ks \in Seq(Key) /\ m \in Nat /\ q \in 1 .. m
      /\ a = cs[q] /\ b = cs[q + 1]
  BY ONLY Neighbours(ns, lev, p, q, a, b) DEF Neighbours
<1>3. s \in Int
  BY KeysAreInts
<1>4. \A i \in DOMAIN lev : i # a /\ i # b /\ i # p => ns2[i] = ns[i]
  BY DEF SameOn
<1>5. \A i \in DOMAIN lev :
        /\ ns2[i].type = ns[i].type /\ ns2[i].isRoot = ns[i].isRoot
        /\ ns2[i].parentIdx = ns[i].parentIdx /\ ns2[i].childIndices = ns[i].childIndices
  BY <1>4 DEF SameLinks, WithSeparator
<1>6. /\ DOMAIN low2 = DOMAIN lev /\ DOMAIN high2 = DOMAIN lev
      /\ low2[b] = Cut(s) /\ high2[a] = Cut(s)
      /\ \A i \in DOMAIN lev : i # b => low2[i] = low[i]
      /\ \A i \in DOMAIN lev : i # a => high2[i] = high[i]
  BY DEF MovedBounds
<1>7. Span(low[a], Cut(s)) /\ Span(Cut(s), high[b])
  <2>1. ns2[a].keys[1] \in Cut(s) /\ ns2[a].keys[1] \notin low[a] BY DEF GoodLeaf, Ordered
  <2>2. ns2[b].keys[1] \in high[b] /\ ns2[b].keys[1] \notin Cut(s) BY DEF GoodLeaf, Ordered
  <2>3. Down(Cut(s)) /\ Down(low[a]) /\ Down(high[b]) BY <1>1, <1>3, CutIs DEF Span
  <2>4. QED BY <2>1, <2>2, <2>3 DEF Span
<1>8. Ghosts(ns2, lev, low2, high2, high2)
  BY <1>6 DEF Tree, Ghosts
<1>9. RootOK(ns2, root, lev, low2, high2)
  BY <1>1, <1>5, <1>6 DEF Tree, RootOK
<1>10. \A i \in DOMAIN lev : NodeOK(ns2, i, root, low2, high2)
  <2> TAKE i \in DOMAIN lev
  <2>1. NodeOK(ns, i, root, low, high) BY DEF Tree
  <2>2. ns2[i].isRoot <=> i = root
    <3>1. ns2[i].isRoot = ns[i].isRoot BY <1>5
    <3>2. QED BY <2>1, <3>1 DEF NodeOK
  <2>3. CASE i = a
    <3>1. low2[a] = low[a] /\ high2[a] = Cut(s) BY <1>1, <1>6
    <3>2. Ordered(ns2[a].keys, low[a], Cut(s)) BY DEF GoodLeaf
    <3>3. QED BY <1>7, <2>2, <2>3, <3>1, <3>2 DEF NodeOK
  <2>4. CASE i = b
    <3>1. low2[b] = Cut(s) /\ high2[b] = high[b] BY <1>1, <1>6
    <3>2. Ordered(ns2[b].keys, Cut(s), high[b]) BY DEF GoodLeaf
    <3>3. QED BY <1>7, <2>2, <2>4, <3>1, <3>2 DEF NodeOK
  <2>5. CASE i = p
    <3>1. low2[p] = low[p] /\ high2[p] = high[p] BY <1>1, <1>2, <1>6
    <3>2. Span(low[p], high[p]) /\ Ordered(ks, low[p], high[p]) BY <2>1, <2>5 DEF NodeOK
    <3>3. Replaced(kt, ks, q, s) BY DEF WithSeparator
    <3>4. Span(lowCut(ks, q, low[p]), Cut(s)) /\ Span(Cut(s), highCut(ks, q + 1, high[p]))
      BY <1>1, <1>7
    <3>5. Ordered(kt, low[p], high[p])
      <4>1. m = Len(ks) OBVIOUS
      <4> HIDE DEF ks, kt, m
      <4>2. QED BY <1>2, <1>3, <3>2, <3>3, <3>4, <4>1, ReplacedOrdered
    <3>6. QED BY <2>2, <2>5, <3>1, <3>2, <3>5 DEF NodeOK
  <2>6. CASE i # a /\ i # b /\ i # p
    BY <1>4, <1>6, <2>1, <2>6 DEF NodeOK
  <2>7. QED BY <2>3, <2>4, <2>5, <2>6
<1>11. \A i \in DOMAIN lev : lev[i] = 0 => LeafOK(ns2, i, lev, low2, high2)
  <2> SUFFICES ASSUME NEW i \in DOMAIN lev, lev[i] = 0 PROVE LeafOK(ns2, i, lev, low2, high2)
    OBVIOUS
  <2>1. LeafOK(ns, i, lev, low, high) BY DEF Tree
  <2>2. Len(ns2[i].values) = Len(ns2[i].keys) /\ ns2[i].nextLeafIdx = ns[i].nextLeafIdx
    <3>1. i # p BY <1>2
    <3>2. CASE i = a BY <3>2 DEF GoodLeaf, SameLinks
    <3>3. CASE i = b BY <3>3 DEF GoodLeaf, SameLinks
    <3>4. CASE i # a /\ i # b BY <1>4, <2>1, <3>1, <3>4 DEF LeafOK
    <3>5. QED BY <3>2, <3>3, <3>4
  <2>3. NextOK(ns2, i, lev, low2, high2)
    <3>1. CASE i = a BY <1>1, <1>6, <2>2, <3>1 DEF NextOK
    <3>2. CASE i # a
      <4>1. ns[i].nextLeafIdx # b
        <5>1. CASE i = b BY <5>1, NextOfRight
        <5>2. CASE i # b BY <3>2, <5>2, OtherLeaf
        <5>3. QED BY <5>1, <5>2
      <4>2. NextOK(ns, i, lev, low, high) BY <2>1 DEF LeafOK
      <4>3. high2[i] = high[i] BY <1>6, <3>2
      <4>4. QED BY <1>6, <2>2, <4>1, <4>2, <4>3 DEF NextOK
    <3>3. QED BY <3>1, <3>2
  <2>4. QED BY <1>5, <2>1, <2>2, <2>3 DEF LeafOK
<1>12. InnerOK(ns2, p, lev, low2, high2, high2, NoNode)
  <2>1. InnerOK(ns, p, lev, low, high, high, NoNode) BY <1>2 DEF Tree
  <2>2. Len(kt) = m /\ Replaced(kt, ks, q, s) BY DEF WithSeparator, Replaced
  <2>3. /\ \A d \in 1 .. m + 1 : d # q + 1 => lowCut(kt, d, low[p]) = lowCut(ks, d, low[p])
        /\ \A d \in 1 .. m + 1 : d # q => highCut(kt, d, high[p]) = highCut(ks, d, high[p])
        /\ lowCut(kt, q + 1, low[p]) = Cut(s) /\ highCut(kt, q, high[p]) = Cut(s)
    <3>1. m = Len(ks) OBVIOUS
    <3>2. CutsReplaced(kt, ks, q, s, low[p], high[p])
      <4> HIDE DEF ks, kt, m
      <4>1. QED BY <1>2, <2>2, <3>1, ReplacedCuts
    <3>3. QED BY <3>2 DEF CutsReplaced
  <2>4. \A c, d \in 1 .. m + 1 : cs[c] = cs[d] => c = d BY ONLY <2>1 DEF InnerOK
  <2>5. q \in 1 .. m + 1 /\ q + 1 \in 1 .. m + 1
    <3>1. m \in Nat /\ q \in 1 .. m BY <1>2
    <3> HIDE DEF m
    <3>2. QED BY ONLY <3>1
  <2>6. ASSUME NEW d \in 1 .. m + 1
        PROVE  ChildOK(ns2, p, d, lev, low2, high2, high2, NoNode)
    <3> DEFINE ch == cs[d]
    <3>1. /\ ch \in DOMAIN lev /\ ch # NoNode /\ ns[ch].parentIdx = p /\ lev[ch] + 1 = lev[p]
          /\ low[ch] = lowCut(ks, d, low[p]) /\ high[ch] = highCut(ks, d, high[p])
      <4>1. ChildOK(ns, p, d, lev, low, high, high, NoNode) BY ONLY <2>1, d \in 1 .. m + 1 DEF InnerOK
      <4>2. QED BY ONLY <4>1 DEF ChildOK
    <3>2. ns2[p].childIndices[d] = ch /\ ns2[ch].parentIdx = p BY <1>2, <1>5, <3>1
    <3>3. low2[p] = low[p] /\ high2[p] = high[p] BY <1>1, <1>2, <1>6
    <3>4. low2[ch] = lowCut(kt, d, low[p])
      <4>1. CASE d = q + 1 BY <1>2, <1>6, <2>3, <4>1
      <4>2. CASE d # q + 1
        <5>1. ch # b BY <1>2, <2>4, <2>5, <4>2
        <5>2. QED BY <1>6, <2>3, <3>1, <4>2, <5>1
      <4>3. QED BY <4>1, <4>2
    <3>5. high2[ch] = highCut(kt, d, high[p])
      <4>1. CASE d = q BY <1>2, <1>6, <2>3, <4>1
      <4>2. CASE d # q
        <5>1. ch # a BY <1>2, <2>4, <2>5, <4>2
        <5>2. QED BY <1>6, <2>3, <3>1, <4>2, <5>1
      <4>3. QED BY <4>1, <4>2
    <3> HIDE DEF ch
    <3>6. QED BY <3>1, <3>2, <3>3, <3>4, <3>5 DEF ChildOK
  <2>7. ns2[p].childIndices = cs /\ ns2[p].type = "INTERNAL" /\ Len(cs) = m + 1
    BY <2>1 DEF WithSeparator, InnerOK
  <2>8. QED BY <2>2, <2>4, <2>6, <2>7 DEF InnerOK
<1>13. \A i \in DOMAIN lev : lev[i] # 0 => InnerOK(ns2, i, lev, low2, high2, high2, NoNode)
  <2> SUFFICES ASSUME NEW i \in DOMAIN lev, lev[i] # 0, i # p
               PROVE  InnerOK(ns2, i, lev, low2, high2, high2, NoNode)
    BY <1>12
  <2>1. InnerOK(ns, i, lev, low, high, high, NoNode) BY DEF Tree
  <2>2. ns2[i] = ns[i] /\ i # a /\ i # b BY <1>1, <1>4
  <2>3. SameInner(ns2[i], ns[i]) BY <2>2 DEF SameInner
  <2>4. SameChildren(ns2, ns, i, lev, lev, low2, low, high2, high, NoNode)
    <3> SUFFICES ASSUME NEW d \in 1 .. Len(ns[i].keys) + 1, NEW ch, ch = ns[i].childIndices[d]
                 PROVE  /\ ch \in DOMAIN lev /\ ch # NoNode
                        /\ low2[ch] = low[ch] /\ high2[ch] = high[ch]
                        /\ ns2[ch].parentIdx = ns[ch].parentIdx
      BY DEF SameChildren
    <3>1. ch \in DOMAIN lev /\ ch # NoNode /\ ns[ch].parentIdx = i BY ParentOf
    <3>2. ch # a /\ ch # b BY <1>1, <3>1
    <3>3. QED BY <1>5, <1>6, <3>1, <3>2
  <2>5. low2[i] = low[i] /\ high2[i] = high[i] BY <1>6, <2>2
  <2>6. QED BY <2>1, <2>3, <2>4, <2>5, InnerSame
<1>14. \A i \in DOMAIN lev : i = root \/ i = NoNode \/ Hangs(ns2, i, lev)
  <2> SUFFICES ASSUME NEW i \in DOMAIN lev, i # root, i # NoNode PROVE Hangs(ns2, i, lev)
    OBVIOUS
  <2> DEFINE r == ns[i].parentIdx
  <2>1. Hangs(ns, i, lev) BY DEF Tree
  <2>2. PICK d \in 1 .. Len(ns[r].keys) + 1 : ns[r].childIndices[d] = i BY <2>1 DEF Hangs
  <2>3. r \in DOMAIN lev /\ lev[r] # 0 BY <2>1 DEF Hangs
  <2>4. ns2[i].parentIdx = r /\ ns2[r].childIndices = ns[r].childIndices BY <1>5, <2>3
  <2>5. Len(ns2[r].keys) = Len(ns[r].keys)
    <3>1. CASE r = p BY <3>1 DEF WithSeparator, Replaced
    <3>2. CASE r # p BY <1>1, <1>4, <2>3, <3>2
    <3>3. QED BY <3>1, <3>2
  <2>6. QED BY <2>2, <2>3, <2>4, <2>5 DEF Hangs
<1>15. low[a] \subseteq Cut(s) /\ Cut(s) \subseteq high[b]
  BY <1>7, SpanNested
<1>16. ASSUME NEW j \in DOMAIN lev, lev[j] = 0, j # a, j # b
       PROVE  Apart(a, j, low2, high2) /\ Apart(b, j, low2, high2)
  <2>1. high[b] \subseteq low[j] \/ high[j] \subseteq low[a] BY <1>16, OtherLeaf
  <2>2. low2[j] = low[j] /\ high2[j] = high[j] /\ low2[a] = low[a] /\ high2[b] = high[b]
    BY <1>1, <1>6, <1>16
  <2>3. QED BY <1>6, <1>15, <2>1, <2>2 DEF Apart
<1>17. Apart(a, b, low2, high2)
  BY <1>6 DEF Apart
<1>18. \A i, j : Apart(i, j, low2, high2) => Apart(j, i, low2, high2)
  BY DEF Apart
<1>19. ASSUME NEW i \in DOMAIN lev, NEW j \in DOMAIN lev, lev[i] = 0, lev[j] = 0,
              i # a, i # b, j # a, j # b
       PROVE  i = j \/ Apart(i, j, low2, high2)
  <2>1. i = j \/ Apart(i, j, low, high) BY <1>19 DEF Tree
  <2>2. QED BY <1>6, <1>19, <2>1 DEF Apart
<1>20. \A i, j \in DOMAIN lev : lev[i] = 0 /\ lev[j] = 0 => i = j \/ Apart(i, j, low2, high2)
  BY <1>16, <1>17, <1>18, <1>19
<1>21. QED BY <1>8, <1>9, <1>10, <1>11, <1>13, <1>14, <1>20 DEF Tree

-------------------------------------------------------------------------------
(* merge *)

\* The bounds after leaf a took over what b had.
MergedBounds(lev2, low2, high2, lev, low, high, a, b) ==
  /\ DOMAIN lev2 = DOMAIN lev \ {b} /\ DOMAIN low2 = DOMAIN lev2 /\ DOMAIN high2 = DOMAIN lev2
  /\ high2[a] = high[b]
  /\ \A i \in DOMAIN lev : i # b => lev2[i] = lev[i] /\ low2[i] = low[i]
  /\ \A i \in DOMAIN lev : i # b /\ i # a => high2[i] = high[i]

\* There are such bounds.
LEMMA MergedBoundsExist ==
  ASSUME NEW lev, NEW low, NEW high, NEW a \in DOMAIN lev, NEW b \in DOMAIN lev, a # b
  PROVE  \E lev2, low2, high2 : MergedBounds(lev2, low2, high2, lev, low, high, a, b)
<1> DEFINE D == DOMAIN lev \ {b}
           lev2 == [i \in D |-> lev[i]]
           low2 == [i \in D |-> low[i]]
           high2 == [i \in D |-> IF i = a THEN high[b] ELSE high[i]]
<1>1. MergedBounds(lev2, low2, high2, lev, low, high, a, b)
  BY DEF MergedBounds
<1> HIDE DEF lev2, low2, high2
<1>2. QED BY <1>1

\* n2 is n without the separator at position q and the child behind it.
WithoutChild(n2, n, q) ==
  /\ n2.type = n.type /\ n2.isRoot = n.isRoot /\ n2.parentIdx = n.parentIdx
  /\ Removed(n2.keys, n.keys, q) /\ Removed(n2.childIndices, n.childIndices, q + 1)

\* The entries of the leaf n2 are those of n and then those of r, and it has the
\* next leaf of r.
MergedLeaf(n2, n, r) ==
  /\ n2.type = n.type /\ n2.isRoot = n.isRoot /\ n2.parentIdx = n.parentIdx
  /\ n2.nextLeafIdx = r.nextLeafIdx
  /\ Joined(n2.keys, n.keys, r.keys) /\ Joined(n2.values, n.values, r.values)

\* The keys of two neighbours, one behind the other.
LEMMA JoinedOrdered ==
  ASSUME NEW s \in Seq(Key), NEW u \in Seq(Key), NEW t, Joined(t, s, u),
         NEW lo, NEW mid, NEW hi, Span(lo, mid), Span(mid, hi),
         Ordered(s, lo, mid), Ordered(u, mid, hi)
  PROVE  Ordered(t, lo, hi)
<1>1. /\ Len(s) \in Nat /\ Len(u) \in Nat /\ Len(t) = Len(s) + Len(u)
      /\ \A j \in 1 .. Len(s) : t[j] = s[j]
      /\ \A j \in 1 .. Len(u) : t[Len(s) + j] = u[j]
  BY DEF Joined
<1>2. /\ \A i, j \in 1 .. Len(s) : i < j => s[i] < s[j]
      /\ \A i \in 1 .. Len(s) : s[i] \in mid /\ s[i] \notin lo
      /\ \A i, j \in 1 .. Len(u) : i < j => u[i] < u[j]
      /\ \A i \in 1 .. Len(u) : u[i] \in hi /\ u[i] \notin mid
  BY DEF Ordered
<1>3. lo \subseteq mid /\ mid \subseteq hi /\ Down(mid)
  BY SpanNested DEF Span
<1>4. \A j \in 1 .. Len(u) : u[j] \in Int
  BY KeysAreInts, ElementOfSeq
<1>5. ASSUME NEW j \in 1 .. Len(t)
      PROVE  \/ j \in 1 .. Len(s) /\ t[j] = s[j]
             \/ ~(j <= Len(s)) /\ j - Len(s) \in 1 .. Len(u) /\ t[j] = u[j - Len(s)]
  <2>1. CASE j <= Len(s) BY <1>1, <2>1
  <2>2. CASE ~(j <= Len(s))
    <3>1. j - Len(s) \in 1 .. Len(u) /\ Len(s) + (j - Len(s)) = j BY <1>1, <2>2
    <3>2. t[Len(s) + (j - Len(s))] = u[j - Len(s)] BY <1>1, <3>1
    <3>3. QED BY <2>2, <3>1, <3>2
  <2>3. QED BY <2>1, <2>2
<1>6. ASSUME NEW j \in 1 .. Len(t) PROVE t[j] \in hi /\ t[j] \notin lo
  BY <1>2, <1>3, <1>5
<1>7. ASSUME NEW i \in 1 .. Len(t), NEW j \in 1 .. Len(t), i < j PROVE t[i] < t[j]
  <2>1. CASE j \in 1 .. Len(s)
    <3>1. i \in 1 .. Len(s) BY <1>1, <1>7, <2>1
    <3>2. QED BY <1>1, <1>2, <1>7, <2>1, <3>1
  <2>2. CASE i \in 1 .. Len(s) /\ ~(j \in 1 .. Len(s))
    <3>1. t[i] = s[i] /\ s[i] \in mid BY <1>1, <1>2, <2>2
    <3>2. j - Len(s) \in 1 .. Len(u) /\ t[j] = u[j - Len(s)] BY <1>5, <2>2
    <3>3. u[j - Len(s)] \in Int /\ u[j - Len(s)] \notin mid BY <1>2, <1>4, <3>2
    <3>4. QED BY <1>3, <3>1, <3>2, <3>3, Below
  <2>3. CASE ~(i \in 1 .. Len(s)) /\ ~(j \in 1 .. Len(s))
    <3>1. i - Len(s) \in 1 .. Len(u) /\ t[i] = u[i - Len(s)] BY <1>5, <2>3
    <3>2. j - Len(s) \in 1 .. Len(u) /\ t[j] = u[j - Len(s)] BY <1>5, <2>3
    <3>3. i - Len(s) < j - Len(s) BY <1>1, <1>7
    <3>4. QED BY <1>2, <3>1, <3>2, <3>3
  <2>4. QED BY <2>1, <2>2, <2>3
<1>8. QED BY <1>6, <1>7 DEF Ordered

\* What is left of a node's keys is in order.
LEMMA RemovedOrdered ==
  ASSUME NEW ks \in Seq(Key), NEW lo, NEW hi, Ordered(ks, lo, hi), NEW t,
         NEW q \in 1 .. Len(ks), Removed(t, ks, q)
  PROVE  Ordered(t, lo, hi)
<1>1. /\ Len(ks) \in Nat /\ Len(t) = Len(ks) - 1
      /\ \A j \in 1 .. q - 1 : t[j] = ks[j]
      /\ \A j \in q .. Len(ks) - 1 : t[j] = ks[j + 1]
  BY DEF Removed
<1>2. /\ \A i, j \in 1 .. Len(ks) : i < j => ks[i] < ks[j]
      /\ \A i \in 1 .. Len(ks) : ks[i] \in hi /\ ks[i] \notin lo
  BY DEF Ordered
<1>3. ASSUME NEW j \in 1 .. Len(t)
      PROVE  \/ j < q /\ j \in 1 .. Len(ks) /\ t[j] = ks[j]
             \/ ~(j < q) /\ j + 1 \in 1 .. Len(ks) /\ t[j] = ks[j + 1]
  BY <1>1
<1>4. ASSUME NEW i \in 1 .. Len(t), NEW j \in 1 .. Len(t), i < j PROVE t[i] < t[j]
  <2>1. CASE j < q
    <3>1. i < q BY <1>1, <1>4, <2>1
    <3>2. QED BY <1>2, <1>3, <1>4, <2>1, <3>1
  <2>2. CASE i < q /\ ~(j < q)
    <3>1. i < j + 1 BY <1>1, <1>4
    <3>2. QED BY <1>2, <1>3, <2>2, <3>1
  <2>3. CASE ~(i < q) /\ ~(j < q)
    <3>1. i + 1 < j + 1 BY <1>1, <1>4
    <3>2. QED BY <1>2, <1>3, <2>3, <3>1
  <2>4. QED BY <1>1, <2>1, <2>2, <2>3
<1>5. ASSUME NEW j \in 1 .. Len(t) PROVE t[j] \in hi /\ t[j] \notin lo
  BY <1>2, <1>3
<1>6. QED BY <1>4, <1>5 DEF Ordered

\* To take out what stands at q and to put it there again.
LEMMA RemovedInserted ==
  ASSUME NEW ks, NEW t, Len(ks) \in Nat, NEW q \in 1 .. Len(ks), Removed(t, ks, q)
  PROVE  Len(t) \in Nat /\ Len(t) + 1 = Len(ks) /\ Inserted(ks, t, q, ks[q])
<1>1. /\ Len(t) = Len(ks) - 1
      /\ \A j \in 1 .. q - 1 : t[j] = ks[j]
      /\ \A j \in q .. Len(ks) - 1 : t[j] = ks[j + 1]
  BY DEF Removed
<1>2. Len(t) \in Nat /\ Len(ks) = Len(t) + 1
  BY <1>1
<1>3. ASSUME NEW j \in q + 1 .. Len(t) + 1 PROVE ks[j] = t[j - 1]
  <2>1. j - 1 \in q .. Len(ks) - 1 /\ (j - 1) + 1 = j BY <1>1
  <2>2. t[j - 1] = ks[(j - 1) + 1] BY <1>1, <2>1
  <2>3. QED BY <2>1, <2>2
<1>4. QED BY <1>1, <1>2, <1>3 DEF Inserted

\* The parent after the merge, by itself.
LEMMA ParentWithoutChild ==
  ASSUME NEW ns, NEW ns2, NEW root, NEW lev, NEW low, NEW high, NEW lev2, NEW low2, NEW high2,
         Tree(ns, root, lev, low, high, high, NoNode),
         NEW p, NEW q, NEW a, NEW b, Neighbours(ns, lev, p, q, a, b),
         MergedBounds(lev2, low2, high2, lev, low, high, a, b),
         WithoutChild(ns2[p], ns[p], q), ParentsKept(ns2, ns, DOMAIN lev2)
  PROVE  InnerOK(ns2, p, lev2, low2, high2, high2, NoNode)
<1> DEFINE ks == ns[p].keys
           m == Len(ks)
           cs == ns[p].childIndices
           kt == ns2[p].keys
           ct == ns2[p].childIndices
<1>1. /\ a \in DOMAIN lev /\ b \in DOMAIN lev /\ a # b /\ a # p /\ b # p
      /\ high[b] = highCut(ks, q + 1, high[p])
  <2> HIDE DEF cs, kt, ct, m
  <2>1. QED BY NeighboursAre
<1>2. /\ p \in DOMAIN lev /\ lev[p] # 0 /\ ks \in Seq(Key) /\ m \in Nat /\ q \in 1 .. m
      /\ a = cs[q] /\ b = cs[q + 1]
  BY DEF Neighbours
<1>3. /\ DOMAIN lev2 = DOMAIN lev \ {b} /\ high2[a] = high[b]
      /\ \A i \in DOMAIN lev : i # b => lev2[i] = lev[i] /\ low2[i] = low[i]
      /\ \A i \in DOMAIN lev : i # b /\ i # a => high2[i] = high[i]
  BY DEF MergedBounds
<1>4. InnerOK(ns, p, lev, low, high, high, NoNode)
  BY <1>2 DEF Tree
<1>5. Len(cs) = m + 1 /\ \A c, d \in 1 .. m + 1 : cs[c] = cs[d] => c = d
  BY <1>4 DEF InnerOK
<1>6. /\ Len(kt) \in Nat /\ Len(kt) + 1 = m /\ Inserted(ks, kt, q, ks[q])
  <2>1. Removed(kt, ks, q) BY DEF WithoutChild
  <2>2. Len(ks) = m OBVIOUS
  <2> HIDE DEF kt, ks, m
  <2>3. QED BY <1>2, <2>1, <2>2, RemovedInserted
<1>7. CutsInserted(ks, kt, q, ks[q], low[p], high[p])
  <2>1. q \in 1 .. Len(kt) + 1 BY <1>2, <1>6
  <2> HIDE DEF ks, kt
  <2>2. QED BY <1>6, <2>1, InsertedCuts
<1>8. /\ \A d \in 1 .. q : lowCut(kt, d, low[p]) = lowCut(ks, d, low[p])
      /\ \A d \in 1 .. q - 1 : highCut(kt, d, high[p]) = highCut(ks, d, high[p])
      /\ \A d \in q + 1 .. m : lowCut(kt, d, low[p]) = lowCut(ks, d + 1, low[p])
      /\ \A d \in q .. m : highCut(kt, d, high[p]) = highCut(ks, d + 1, high[p])
  <2> HIDE DEF ks, kt, m
  <2>1. QED BY <1>6, <1>7 DEF CutsInserted
<1>9. /\ Len(ct) = m /\ \A d \in 1 .. q : ct[d] = cs[d]
      /\ \A d \in q + 1 .. m : ct[d] = cs[d + 1]
  <2>1. Removed(ct, cs, q + 1) BY DEF WithoutChild
  <2>2. (q + 1) - 1 = q /\ Len(cs) - 1 = m BY <1>2, <1>5
  <2> HIDE DEF cs, ct, m
  <2>3. QED BY <2>1, <2>2 DEF Removed
<1>10. ASSUME NEW d \in 1 .. m + 1
       PROVE  /\ cs[d] \in DOMAIN lev /\ cs[d] # NoNode
              /\ ns[cs[d]].parentIdx = p /\ lev[cs[d]] + 1 = lev[p]
              /\ low[cs[d]] = lowCut(ks, d, low[p]) /\ high[cs[d]] = highCut(ks, d, high[p])
              /\ (d # q => cs[d] # a) /\ (d # q + 1 => cs[d] # b)
  <2>1. /\ cs[d] \in DOMAIN lev /\ cs[d] # NoNode
        /\ ns[cs[d]].parentIdx = p /\ lev[cs[d]] + 1 = lev[p]
        /\ low[cs[d]] = lowCut(ks, d, low[p]) /\ high[cs[d]] = highCut(ks, d, high[p])
    BY <1>2, ParentOf
  <2>2. q \in 1 .. m + 1 /\ q + 1 \in 1 .. m + 1 BY <1>2
  <2>3. QED BY <1>2, <1>5, <2>1, <2>2
<1>11. lev2[p] = lev[p] /\ low2[p] = low[p] /\ high2[p] = high[p]
  BY <1>1, <1>2, <1>3
\* Child d is now what was child e.
<1>12. ASSUME NEW d \in 1 .. m, NEW e \in 1 .. m + 1, e # q + 1, ct[d] = cs[e],
              lowCut(kt, d, low[p]) = lowCut(ks, e, low[p]),
              e # q => highCut(kt, d, high[p]) = highCut(ks, e, high[p]),
              e = q => highCut(kt, d, high[p]) = high[b]
       PROVE  ChildOK(ns2, p, d, lev2, low2, high2, high2, NoNode)
  <2> DEFINE ch == cs[e]
  <2>1. /\ ch \in DOMAIN lev /\ ch # NoNode /\ ns[ch].parentIdx = p /\ lev[ch] + 1 = lev[p]
        /\ low[ch] = lowCut(ks, e, low[p]) /\ high[ch] = highCut(ks, e, high[p])
        /\ (e # q => ch # a) /\ ch # b
    BY <1>10, <1>12
  <2>2. /\ ch \in DOMAIN lev2 /\ lev2[ch] = lev[ch] /\ low2[ch] = low[ch]
        /\ ns2[ch].parentIdx = p
    BY <1>3, <2>1 DEF ParentsKept
  <2>3. high2[ch] = highCut(kt, d, high[p])
    <3>1. CASE e = q BY <1>2, <1>3, <1>12, <3>1
    <3>2. CASE e # q BY <1>3, <1>12, <2>1, <3>2
    <3>3. QED BY <3>1, <3>2
  <2>4. ns2[p].childIndices[d] = ch BY <1>12
  <2> HIDE DEF ch
  <2>5. QED BY <1>11, <1>12, <2>1, <2>2, <2>3, <2>4 DEF ChildOK
<1>13. ASSUME NEW d \in 1 .. m PROVE ChildOK(ns2, p, d, lev2, low2, high2, high2, NoNode)
  <2>1. CASE d < q
    <3>1. d \in 1 .. q /\ d \in 1 .. q - 1 /\ d \in 1 .. m + 1 /\ d # q /\ d # q + 1
      BY <1>2, <2>1
    <3>2. ct[d] = cs[d] BY <1>9, <3>1
    <3>3. /\ lowCut(kt, d, low[p]) = lowCut(ks, d, low[p])
          /\ highCut(kt, d, high[p]) = highCut(ks, d, high[p]) BY <1>8, <3>1
    <3> HIDE DEF ks, cs, kt, ct
    <3>4. QED BY <1>12, <3>1, <3>2, <3>3
  <2>2. CASE d = q
    <3>1. d \in 1 .. q /\ d \in q .. m /\ d \in 1 .. m + 1 /\ d # q + 1 BY <1>2, <2>2
    <3>2. ct[d] = cs[d] BY <1>9, <3>1
    <3>3. /\ lowCut(kt, d, low[p]) = lowCut(ks, d, low[p])
          /\ highCut(kt, d, high[p]) = high[b] BY <1>1, <1>8, <2>2, <3>1
    <3> HIDE DEF ks, cs, kt, ct
    <3>4. QED BY <1>12, <2>2, <3>1, <3>2, <3>3
  <2>3. CASE d > q
    <3>1. /\ d \in q + 1 .. m /\ d \in q .. m /\ d + 1 \in 1 .. m + 1
          /\ d + 1 # q /\ d + 1 # q + 1 BY <1>2, <2>3
    <3>2. ct[d] = cs[d + 1] BY <1>9, <3>1
    <3>3. /\ lowCut(kt, d, low[p]) = lowCut(ks, d + 1, low[p])
          /\ highCut(kt, d, high[p]) = highCut(ks, d + 1, high[p]) BY <1>8, <3>1
    <3> HIDE DEF ks, cs, kt, ct
    <3>4. QED BY <1>12, <3>1, <3>2, <3>3
  <2>4. QED BY <1>2, <2>1, <2>2, <2>3
<1>14. ASSUME NEW c \in 1 .. m, NEW d \in 1 .. m, ct[c] = ct[d] PROVE c = d
  <2> DEFINE E(x) == IF x <= q THEN x ELSE x + 1
  <2>1. ASSUME NEW x \in 1 .. m PROVE E(x) \in 1 .. m + 1 /\ ct[x] = cs[E(x)]
    <3>1. CASE x <= q
      <4>1. x \in 1 .. q /\ x \in 1 .. m + 1 BY <1>2, <3>1
      <4>2. QED BY <1>9, <3>1, <4>1
    <3>2. CASE ~(x <= q)
      <4>1. x \in q + 1 .. m /\ x + 1 \in 1 .. m + 1 BY <1>2, <3>2
      <4>2. QED BY <1>9, <3>2, <4>1
    <3>3. QED BY <3>1, <3>2
  <2>2. E(c) = E(d) BY <1>5, <1>14, <2>1
  <2>3. QED BY <1>2, <2>2
<1>15. ns2[p].type = "INTERNAL"
  BY <1>4 DEF WithoutChild, InnerOK
<1>16. Len(ct) = Len(kt) + 1 /\ Len(kt) + 1 = m
  BY <1>6, <1>9
<1>17. QED BY <1>13, <1>14, <1>15, <1>16 DEF InnerOK

\* Leaf b of two neighbours is no longer in use: the tree is one again.
LEMMA Merge ==
  ASSUME NEW ns, NEW ns2, NEW root, NEW lev, NEW low, NEW high, NEW lev2, NEW low2, NEW high2,
         Tree(ns, root, lev, low, high, high, NoNode), Len(ns2) = Len(ns),
         NEW p, NEW q, NEW a, NEW b, Neighbours(ns, lev, p, q, a, b),
         ns[a].keys \in Seq(Key), ns[b].keys \in Seq(Key),
         MergedBounds(lev2, low2, high2, lev, low, high, a, b),
         MergedLeaf(ns2[a], ns[a], ns[b]),
         WithoutChild(ns2[p], ns[p], q), SameOn(ns2, ns, DOMAIN lev \ {a, b, p})
  PROVE  Tree(ns2, root, lev2, low2, high2, high2, NoNode)
<1>1. /\ a \in DOMAIN lev /\ b \in DOMAIN lev /\ lev[a] = 0 /\ lev[b] = 0 /\ lev[p] = 1
      /\ a # b /\ a # p /\ b # p /\ a # root /\ b # root
      /\ ns[a].parentIdx = p /\ ns[b].parentIdx = p /\ low[b] = high[a]
      /\ Span(low[a], high[a]) /\ Span(low[b], high[b])
  BY NeighboursAre
<1>2. /\ p \in DOMAIN lev /\ lev[p] # 0 /\ ns[p].keys \in Seq(Key)
      /\ q \in 1 .. Len(ns[p].keys) /\ Len(ns[p].keys) \in Nat
      /\ a = ns[p].childIndices[q] /\ b = ns[p].childIndices[q + 1]
  BY DEF Neighbours
<1>3. /\ DOMAIN lev2 = DOMAIN lev \ {b} /\ DOMAIN low2 = DOMAIN lev2 /\ DOMAIN high2 = DOMAIN lev2
      /\ high2[a] = high[b]
      /\ \A i \in DOMAIN lev : i # b => lev2[i] = lev[i] /\ low2[i] = low[i]
      /\ \A i \in DOMAIN lev : i # b /\ i # a => high2[i] = high[i]
  BY DEF MergedBounds
<1>4. \A i \in DOMAIN lev : i # a /\ i # b /\ i # p => ns2[i] = ns[i]
  BY DEF SameOn
<1>5. \A i \in DOMAIN lev2 :
        /\ i \in DOMAIN lev /\ i # b /\ ns2[i].type = ns[i].type /\ ns2[i].isRoot = ns[i].isRoot
        /\ ns2[i].parentIdx = ns[i].parentIdx
  BY <1>3, <1>4 DEF MergedLeaf, WithoutChild
<1>6. Ghosts(ns2, lev2, low2, high2, high2)
  <2>1. DOMAIN lev \subseteq 1 .. Len(ns) /\ \A i \in DOMAIN lev : lev[i] \in Nat
    BY DEF Tree, Ghosts
  <2>2. DOMAIN lev2 \subseteq 1 .. Len(ns2) /\ \A i \in DOMAIN lev2 : lev2[i] \in Nat
    BY <1>3, <2>1
  <2>3. QED BY <1>3, <2>2 DEF Ghosts
<1>7. RootOK(ns2, root, lev2, low2, high2)
  <2>1. RootOK(ns, root, lev, low, high) BY DEF Tree
  <2>2. root \in DOMAIN lev2 /\ lev2[root] = lev[root] /\ low2[root] = low[root]
        /\ high2[root] = high[root] BY <1>1, <1>3, <2>1 DEF RootOK
  <2>3. QED BY <1>5, <2>1, <2>2 DEF RootOK
<1>8. Span(low[a], high[b]) /\ low[a] \subseteq high[b]
  <2>1. low[a] \subseteq high[a] /\ low[b] \subseteq high[b] BY <1>1, SpanNested
  <2>2. PICK x \in high[b] : x \notin low[b] BY <1>1 DEF Span
  <2>3. x \notin low[a] BY <1>1, <2>1, <2>2
  <2>4. QED BY <1>1, <2>1, <2>2, <2>3 DEF Span
<1>9. \A i \in DOMAIN lev2 : NodeOK(ns2, i, root, low2, high2)
  <2> TAKE i \in DOMAIN lev2
  <2>1. NodeOK(ns, i, root, low, high) BY <1>5 DEF Tree
  <2>2. ns2[i].isRoot <=> i = root
    <3>1. ns2[i].isRoot = ns[i].isRoot BY <1>5
    <3>2. QED BY <2>1, <3>1 DEF NodeOK
  <2>3. CASE i = a
    <3>1. low2[a] = low[a] /\ high2[a] = high[b] BY <1>1, <1>3
    <3>2. Ordered(ns[a].keys, low[a], high[a]) /\ Ordered(ns[b].keys, high[a], high[b])
      BY <1>1 DEF Tree, NodeOK
    <3>3. Joined(ns2[a].keys, ns[a].keys, ns[b].keys) BY DEF MergedLeaf
    <3>4. Span(high[a], high[b]) BY <1>1
    <3>5. Ordered(ns2[a].keys, low[a], high[b])
      BY <1>1, <3>2, <3>3, <3>4, JoinedOrdered
    <3>6. QED BY <1>8, <2>2, <2>3, <3>1, <3>5 DEF NodeOK
  <2>4. CASE i = p
    <3>1. low2[p] = low[p] /\ high2[p] = high[p] BY <1>1, <1>2, <1>3
    <3>2. Span(low[p], high[p]) /\ Ordered(ns[p].keys, low[p], high[p]) BY <2>1, <2>4 DEF NodeOK
    <3>3. Removed(ns2[p].keys, ns[p].keys, q) BY DEF WithoutChild
    <3>4. Ordered(ns2[p].keys, low[p], high[p]) BY <1>2, <3>2, <3>3, RemovedOrdered
    <3>5. QED BY <2>2, <2>4, <3>1, <3>2, <3>4 DEF NodeOK
  <2>5. CASE i # a /\ i # p
    BY <1>3, <1>4, <1>5, <2>1, <2>5 DEF NodeOK
  <2>6. QED BY <2>3, <2>4, <2>5
<1>10. \A i \in DOMAIN lev2 : lev2[i] = 0 => LeafOK(ns2, i, lev2, low2, high2)
  <2> SUFFICES ASSUME NEW i \in DOMAIN lev2, lev2[i] = 0 PROVE LeafOK(ns2, i, lev2, low2, high2)
    OBVIOUS
  <2>1. i \in DOMAIN lev /\ i # b /\ lev[i] = 0 /\ i # p BY <1>1, <1>3, <1>5
  <2>2. LeafOK(ns, i, lev, low, high) /\ LeafOK(ns, b, lev, low, high) BY <1>1, <2>1 DEF Tree
  <2>3. CASE i = a
    <3>1. ns2[a].nextLeafIdx = ns[b].nextLeafIdx BY DEF MergedLeaf
    <3>2. ns[b].nextLeafIdx # b BY <1>1, NextOfRight
    <3>3. NextOK(ns, b, lev, low, high) BY <2>2 DEF LeafOK
    <3>4. NextOK(ns2, a, lev2, low2, high2) BY <1>3, <3>1, <3>2, <3>3 DEF NextOK
    <3>5. Len(ns2[a].values) = Len(ns2[a].keys)
      <4>1. /\ Len(ns2[a].values) = Len(ns[a].values) + Len(ns[b].values)
            /\ Len(ns2[a].keys) = Len(ns[a].keys) + Len(ns[b].keys)
        BY DEF MergedLeaf, Joined
      <4>2. Len(ns[a].values) = Len(ns[a].keys) /\ Len(ns[b].values) = Len(ns[b].keys)
        BY <2>2, <2>3 DEF LeafOK
      <4>3. QED BY <4>1, <4>2
    <3>6. QED BY <1>5, <2>2, <2>3, <3>4, <3>5 DEF LeafOK
  <2>4. CASE i # a
    <3>1. ns2[i] = ns[i] BY <1>4, <2>1, <2>4
    <3>2. ns[i].nextLeafIdx # b BY <2>1, <2>4, OtherLeaf
    <3>3. NextOK(ns, i, lev, low, high) BY <2>2 DEF LeafOK
    <3>4. high2[i] = high[i] BY <1>3, <2>1, <2>4
    <3>5. NextOK(ns2, i, lev2, low2, high2) BY <1>3, <3>1, <3>2, <3>3, <3>4 DEF NextOK
    <3>6. QED BY <2>2, <3>1, <3>5 DEF LeafOK
  <2>5. QED BY <2>3, <2>4
<1>11. \A i \in DOMAIN lev2 : lev2[i] # 0 => InnerOK(ns2, i, lev2, low2, high2, high2, NoNode)
  <2> SUFFICES ASSUME NEW i \in DOMAIN lev2, lev2[i] # 0
               PROVE  InnerOK(ns2, i, lev2, low2, high2, high2, NoNode)
    OBVIOUS
  <2>1. CASE i = p
    <3>1. ParentsKept(ns2, ns, DOMAIN lev2) BY <1>5 DEF ParentsKept
    <3>2. QED BY <2>1, <3>1, ParentWithoutChild
  <2>2. CASE i # p
    <3>1. i \in DOMAIN lev /\ lev[i] # 0 /\ i # a /\ i # b BY <1>1, <1>3, <1>5
    <3>2. InnerOK(ns, i, lev, low, high, high, NoNode) BY <3>1 DEF Tree
    <3>3. ns2[i] = ns[i] BY <1>4, <2>2, <3>1
    <3>4. SameInner(ns2[i], ns[i]) BY <3>3 DEF SameInner
    <3>5. SameChildren(ns2, ns, i, lev2, lev, low2, low, high2, high, NoNode)
      <4> SUFFICES ASSUME NEW d \in 1 .. Len(ns[i].keys) + 1, NEW ch, ch = ns[i].childIndices[d]
                   PROVE  /\ ch \in DOMAIN lev2 /\ ch # NoNode /\ lev2[ch] = lev[ch]
                          /\ low2[ch] = low[ch] /\ high2[ch] = high[ch]
                          /\ ns2[ch].parentIdx = ns[ch].parentIdx
        BY DEF SameChildren
      <4>1. ch \in DOMAIN lev /\ ch # NoNode /\ ns[ch].parentIdx = i BY <3>1, ParentOf
      <4>2. ch # a /\ ch # b BY <1>1, <2>2, <4>1
      <4>3. QED BY <1>3, <1>5, <4>1, <4>2
    <3>6. lev2[i] = lev[i] /\ low2[i] = low[i] /\ high2[i] = high[i] BY <1>3, <3>1
    <3>7. QED BY <3>2, <3>4, <3>5, <3>6, InnerSame
  <2>3. QED BY <2>1, <2>2
<1>12. \A i \in DOMAIN lev2 : i = root \/ i = NoNode \/ Hangs(ns2, i, lev2)
  <2> SUFFICES ASSUME NEW i \in DOMAIN lev2, i # root, i # NoNode PROVE Hangs(ns2, i, lev2)
    OBVIOUS
  <2> DEFINE r == ns[i].parentIdx
  <2>1. Hangs(ns, i, lev) /\ i # b BY <1>5 DEF Tree
  <2>2. PICK d \in 1 .. Len(ns[r].keys) + 1 : ns[r].childIndices[d] = i BY <2>1 DEF Hangs
  <2>3. r \in DOMAIN lev /\ lev[r] # 0 /\ r # a /\ r # b BY <1>1, <2>1 DEF Hangs
  <2>4. ns2[i].parentIdx = r /\ r \in DOMAIN lev2 /\ lev2[r] # 0 BY <1>3, <1>5, <2>3
  <2>5. CASE r # p
    <3>1. ns2[r] = ns[r] BY <1>4, <2>3, <2>5
    <3>2. QED BY <2>2, <2>4, <3>1 DEF Hangs
  <2>6. CASE r = p
    <3> DEFINE cs == ns[p].childIndices
               ct == ns2[p].childIndices
               m == Len(ns[p].keys)
    <3>1. Len(cs) = m + 1 BY <1>2 DEF Tree, InnerOK
    <3>2. Removed(ct, cs, q + 1) /\ Len(ns2[p].keys) = m - 1 BY DEF WithoutChild, Removed
    <3>3. /\ \A e \in 1 .. (q + 1) - 1 : ct[e] = cs[e]
          /\ \A e \in q + 1 .. Len(cs) - 1 : ct[e] = cs[e + 1]
      BY <3>2 DEF Removed
    <3>4. d \in 1 .. m + 1 /\ cs[d] = i /\ d # q + 1 BY <1>2, <2>1, <2>2, <2>6
    <3>5. m - 1 + 1 = m /\ m \in Nat /\ q \in 1 .. m BY <1>2
    <3> HIDE DEF cs, ct, m
    <3>6. CASE d <= q
      <4>1. d \in 1 .. (q + 1) - 1 /\ d \in 1 .. m BY <3>4, <3>5, <3>6
      <4>2. ct[d] = i BY <3>3, <3>4, <4>1
      <4>3. QED BY <2>4, <2>6, <3>2, <3>5, <4>1, <4>2 DEF Hangs, ct
    <3>7. CASE ~(d <= q)
      <4>1. d - 1 \in q + 1 .. Len(cs) - 1 /\ d - 1 \in 1 .. m /\ (d - 1) + 1 = d
        BY <3>1, <3>4, <3>5, <3>7, SMTT(30)
      <4>2. ct[d - 1] = i BY <3>3, <3>4, <4>1
      <4>3. QED BY <2>4, <2>6, <3>2, <3>5, <4>1, <4>2 DEF Hangs, ct
    <3>8. QED BY <3>6, <3>7
  <2>7. QED BY <2>5, <2>6
<1>13. ASSUME NEW j \in DOMAIN lev, lev[j] = 0, j # a, j # b PROVE Apart(a, j, low2, high2)
  <2>1. high[b] \subseteq low[j] \/ high[j] \subseteq low[a] BY <1>13, OtherLeaf
  <2>2. low2[j] = low[j] /\ high2[j] = high[j] /\ low2[a] = low[a] /\ high2[a] = high[b]
    BY <1>1, <1>3, <1>13
  <2>3. QED BY <2>1, <2>2 DEF Apart
<1>14. ASSUME NEW i \in DOMAIN lev, NEW j \in DOMAIN lev, lev[i] = 0, lev[j] = 0,
              i # a, i # b, j # a, j # b
       PROVE  i = j \/ Apart(i, j, low2, high2)
  <2>1. i = j \/ Apart(i, j, low, high) BY <1>14 DEF Tree
  <2>2. QED BY <1>3, <1>14, <2>1 DEF Apart
<1>15. \A i, j : Apart(i, j, low2, high2) => Apart(j, i, low2, high2)
  BY DEF Apart
<1>16. \A i, j \in DOMAIN lev2 : lev2[i] = 0 /\ lev2[j] = 0 => i = j \/ Apart(i, j, low2, high2)
  <2> SUFFICES ASSUME NEW i \in DOMAIN lev2, NEW j \in DOMAIN lev2, lev2[i] = 0, lev2[j] = 0
               PROVE  i = j \/ Apart(i, j, low2, high2)
    OBVIOUS
  <2>1. /\ i \in DOMAIN lev /\ i # b /\ lev[i] = 0 /\ j \in DOMAIN lev /\ j # b /\ lev[j] = 0
    BY <1>3, <1>5
  <2>2. QED BY <1>13, <1>14, <1>15, <2>1
<1>17. QED BY <1>6, <1>7, <1>9, <1>10, <1>11, <1>12, <1>16 DEF Tree

-------------------------------------------------------------------------------
(* The end of remove *)

\* The bounds without those of node r.
FewerBounds(lev2, low2, high2, lev, low, high, r) ==
  /\ DOMAIN lev2 = DOMAIN lev \ {r} /\ DOMAIN low2 = DOMAIN lev2 /\ DOMAIN high2 = DOMAIN lev2
  /\ \A i \in DOMAIN lev : i # r => lev2[i] = lev[i] /\ low2[i] = low[i] /\ high2[i] = high[i]

\* There are such bounds.
LEMMA FewerBoundsExist ==
  ASSUME NEW lev, NEW low, NEW high, NEW r
  PROVE  \E lev2, low2, high2 : FewerBounds(lev2, low2, high2, lev, low, high, r)
<1> DEFINE D == DOMAIN lev \ {r}
           lev2 == [i \in D |-> lev[i]]
           low2 == [i \in D |-> low[i]]
           high2 == [i \in D |-> high[i]]
<1>1. FewerBounds(lev2, low2, high2, lev, low, high, r)
  BY DEF FewerBounds
<1> HIDE DEF lev2, low2, high2
<1>2. QED BY <1>1

\* The only child c of a root without keys becomes the root.
LEMMA Shrink ==
  ASSUME NEW ns, NEW ns2, NEW root, NEW lev, NEW low, NEW high, NEW lev2, NEW low2, NEW high2,
         Tree(ns, root, lev, low, high, high, NoNode), Len(ns2) = Len(ns), Len(ns) \in Nat,
         lev[root] # 0, Len(ns[root].keys) = 0, NEW c, c = ns[root].childIndices[1],
         FewerBounds(lev2, low2, high2, lev, low, high, root),
         SameOn(ns2, ns, DOMAIN lev \ {c}), SameInner(ns2[c], ns[c]),
         ns2[c].values = ns[c].values, ns2[c].nextLeafIdx = ns[c].nextLeafIdx,
         ns2[c].isRoot = TRUE, ns2[c].parentIdx = NoNode
  PROVE  Tree(ns2, c, lev2, low2, high2, high2, NoNode)
<1>1. RootOK(ns, root, lev, low, high) /\ root \in DOMAIN lev
  BY DEF Tree, RootOK
<1>2. /\ c \in DOMAIN lev /\ c # NoNode /\ ns[c].parentIdx = root /\ lev[c] + 1 = lev[root]
      /\ low[c] = lowCut(ns[root].keys, 1, low[root])
      /\ high[c] = highCut(ns[root].keys, 1, high[root])
  <2>1. InnerOK(ns, root, lev, low, high, high, NoNode) BY <1>1 DEF Tree
  <2>2. ChildOK(ns, root, 1, lev, low, high, high, NoNode)
    BY ONLY <2>1, Len(ns[root].keys) = 0 DEF InnerOK
  <2>3. QED BY ONLY <2>2, c = ns[root].childIndices[1] DEF ChildOK
<1>3. low[c] = {} /\ high[c] = Int
  BY <1>1, <1>2 DEF lowCut, highCut, RootOK
<1>4. DOMAIN lev \subseteq 1 .. Len(ns) /\ \A i \in DOMAIN lev : lev[i] \in Nat
  BY DEF Tree, Ghosts
<1>5. c # root /\ root # NoNode /\ lev[c] < Len(ns)
  BY <1>1, <1>2, <1>4 DEF RootOK, NoNode
<1>6. /\ DOMAIN lev2 = DOMAIN lev \ {root} /\ DOMAIN low2 = DOMAIN lev2
      /\ DOMAIN high2 = DOMAIN lev2
      /\ \A i \in DOMAIN lev :
           i # root => lev2[i] = lev[i] /\ low2[i] = low[i] /\ high2[i] = high[i]
  BY DEF FewerBounds
<1>7. \A i \in DOMAIN lev : i # c => ns2[i] = ns[i]
  BY DEF SameOn
<1>8. \A i \in DOMAIN lev :
        /\ SameInner(ns2[i], ns[i]) /\ ns2[i].values = ns[i].values
        /\ ns2[i].nextLeafIdx = ns[i].nextLeafIdx
  BY <1>7 DEF SameInner
<1>9. \A i \in DOMAIN lev2 : i \in DOMAIN lev /\ i # root
  BY <1>6
<1>10. Ghosts(ns2, lev2, low2, high2, high2)
  BY <1>4, <1>6, <1>9 DEF Ghosts
<1>11. RootOK(ns2, c, lev2, low2, high2)
  BY <1>2, <1>3, <1>5, <1>6 DEF RootOK
<1>12. \A i \in DOMAIN lev2 : NodeOK(ns2, i, c, low2, high2)
  <2> TAKE i \in DOMAIN lev2
  <2>1. NodeOK(ns, i, root, low, high) BY <1>9 DEF Tree
  <2>2. ns2[i].isRoot <=> i = c
    <3>1. CASE i = c BY <3>1
    <3>2. CASE i # c
      <4>1. ns2[i].isRoot = ns[i].isRoot BY <1>7, <1>9, <3>2
      <4>2. QED BY <1>9, <2>1, <3>2, <4>1 DEF NodeOK
    <3>3. QED BY <3>1, <3>2
  <2>3. ns2[i].keys = ns[i].keys BY <1>8, <1>9 DEF SameInner
  <2>4. QED BY <1>6, <1>9, <2>1, <2>2, <2>3 DEF NodeOK
<1>13. \A i \in DOMAIN lev2 : lev2[i] = 0 => LeafOK(ns2, i, lev2, low2, high2)
  <2> SUFFICES ASSUME NEW i \in DOMAIN lev2, lev2[i] = 0 PROVE LeafOK(ns2, i, lev2, low2, high2)
    OBVIOUS
  <2>1. i \in DOMAIN lev /\ i # root /\ lev[i] = 0 BY <1>6, <1>9
  <2>2. LeafOK(ns, i, lev, low, high) BY <2>1 DEF Tree
  <2>3. NextOK(ns2, i, lev2, low2, high2)
    BY <1>6, <1>8, <2>1, <2>2 DEF LeafOK, NextOK
  <2>4. QED BY <1>8, <2>1, <2>2, <2>3 DEF LeafOK, SameInner
<1>14. \A i \in DOMAIN lev2 : lev2[i] # 0 => InnerOK(ns2, i, lev2, low2, high2, high2, NoNode)
  <2> SUFFICES ASSUME NEW i \in DOMAIN lev2, lev2[i] # 0
               PROVE  InnerOK(ns2, i, lev2, low2, high2, high2, NoNode)
    OBVIOUS
  <2>1. i \in DOMAIN lev /\ i # root /\ lev[i] # 0 BY <1>6, <1>9
  <2>2. InnerOK(ns, i, lev, low, high, high, NoNode) BY <2>1 DEF Tree
  <2>3. SameInner(ns2[i], ns[i]) BY <1>8, <2>1
  <2>4. SameChildren(ns2, ns, i, lev2, lev, low2, low, high2, high, NoNode)
    <3>1. ASSUME NEW d \in 1 .. Len(ns[i].keys) + 1
          PROVE  LET ch == ns[i].childIndices[d]
                 IN  /\ ch \in DOMAIN lev2 /\ ch # NoNode /\ lev2[ch] = lev[ch]
                     /\ low2[ch] = low[ch] /\ high2[ch] = high[ch]
                     /\ ns2[ch].parentIdx = ns[ch].parentIdx
      <4> DEFINE ch == ns[i].childIndices[d]
      <4>1. ch \in DOMAIN lev /\ ch # NoNode /\ ns[ch].parentIdx = i
        <5>1. ChildOK(ns, i, d, lev, low, high, high, NoNode)
          BY ONLY <2>2, d \in 1 .. Len(ns[i].keys) + 1 DEF InnerOK
        <5>2. QED BY ONLY <5>1 DEF ChildOK
      <4> HIDE DEF ch
      <4>2. ch # c BY <1>2, <2>1, <4>1
      <4>3. ch # root
        <5>1. i # NoNode BY <1>4, <2>1 DEF NoNode
        <5>2. QED BY <1>1, <4>1, <5>1 DEF RootOK
      <4>4. /\ ch \in DOMAIN lev2 /\ ch # NoNode /\ lev2[ch] = lev[ch]
            /\ low2[ch] = low[ch] /\ high2[ch] = high[ch]
            /\ ns2[ch].parentIdx = ns[ch].parentIdx
        BY <1>6, <1>7, <4>1, <4>2, <4>3
      <4>5. QED BY ONLY <4>4 DEF ch
    <3>2. QED BY ONLY <3>1 DEF SameChildren
  <2>5. lev2[i] = lev[i] /\ low2[i] = low[i] /\ high2[i] = high[i] BY <1>6, <2>1
  <2>6. QED BY <2>2, <2>3, <2>4, <2>5, InnerSame
<1>15. \A i \in DOMAIN lev2 : i = c \/ i = NoNode \/ Hangs(ns2, i, lev2)
  <2> SUFFICES ASSUME NEW i \in DOMAIN lev2, i # c, i # NoNode PROVE Hangs(ns2, i, lev2)
    OBVIOUS
  <2> DEFINE r == ns[i].parentIdx
  <2>1. Hangs(ns, i, lev) /\ i \in DOMAIN lev BY <1>9 DEF Tree
  <2>2. PICK d \in 1 .. Len(ns[r].keys) + 1 : ns[r].childIndices[d] = i BY <2>1 DEF Hangs
  <2>3. r \in DOMAIN lev /\ lev[r] # 0 BY <2>1 DEF Hangs
  <2>4. r # root
    <3> SUFFICES ASSUME r = root PROVE FALSE
      OBVIOUS
    <3>1. d = 1 BY <2>2
    <3>2. QED BY <2>2, <3>1
  <2>5. ns2[i].parentIdx = r /\ r \in DOMAIN lev2 /\ lev2[r] # 0
    BY <1>6, <1>7, <2>1, <2>3, <2>4
  <2>6. ns2[r].keys = ns[r].keys /\ ns2[r].childIndices = ns[r].childIndices
    BY <1>8, <2>3 DEF SameInner
  <2>7. QED BY <2>2, <2>5, <2>6, ZenonT(30) DEF Hangs
<1>16. \A i, j \in DOMAIN lev2 : lev2[i] = 0 /\ lev2[j] = 0 => i = j \/ Apart(i, j, low2, high2)
  <2> SUFFICES ASSUME NEW i \in DOMAIN lev2, NEW j \in DOMAIN lev2, lev2[i] = 0, lev2[j] = 0
               PROVE  i = j \/ Apart(i, j, low2, high2)
    OBVIOUS
  <2>1. /\ i \in DOMAIN lev /\ i # root /\ lev[i] = 0 /\ j \in DOMAIN lev /\ j # root /\ lev[j] = 0
    BY <1>6, <1>9
  <2>2. i = j \/ Apart(i, j, low, high) BY <2>1 DEF Tree
  <2>3. QED BY <1>6, <2>1, <2>2 DEF Apart
<1>17. QED BY <1>10, <1>11, <1>12, <1>13, <1>14, <1>15, <1>16 DEF Tree

\* A root that is a leaf is the only leaf.
LEMMA OnlyLeaf ==
  ASSUME NEW ns, NEW root, NEW lev, NEW low, NEW high,
         Tree(ns, root, lev, low, high, high, NoNode), lev[root] = 0,
         NEW i \in DOMAIN lev, lev[i] = 0
  PROVE  i = root
<1>1. root \in DOMAIN lev /\ low[root] = {} /\ high[root] = Int
  BY DEF Tree, RootOK
<1>2. i = root \/ Apart(i, root, low, high)
  BY <1>1 DEF Tree
<1>3. Span(low[i], high[i])
  BY DEF Tree, NodeOK
<1>4. high[i] \subseteq Int /\ ~(high[i] \subseteq low[i]) /\ high[i] # {}
  BY <1>3 DEF Span, Down
<1>5. QED BY <1>1, <1>2, <1>4 DEF Apart

-------------------------------------------------------------------------------
(* What the leaves hold *)

\* The leaf n has the entry of x and v.
Has(n, x, v) == \E j \in 1 .. Len(n.keys) : n.keys[j] = x /\ n.values[j] = v

\* The leaves in use.
Leaves(lev) == {i \in DOMAIN lev : lev[i] = 0}

\* A caller expects exactly the entries of the leaves.
Holds(ns, lev, cont) ==
  \A x \in Key : \A v \in RID : cont[x] = v <=> \E i \in Leaves(lev) : Has(ns[i], x, v)

\* Every leaf but thin, and a root that is the only leaf, has minLeafKeys_ keys.
Filled(ns, root, lev, high, thin) ==
  \A i \in Leaves(lev) :
    i = thin \/ Len(ns[i].keys) >= minLeafKeys \/ (i = root /\ high[i] = Int)

\* Entry and size of the leaves in S are the same.
SameEntries(ns2, ns, S) == \A i \in S : ns2[i].keys = ns[i].keys /\ ns2[i].values = ns[i].values

\* The leaves B have the entries that the leaves A had.
Traded(ns2, B, ns, A) ==
  \A x, v : (\E i \in A : Has(ns[i], x, v)) <=> (\E i \in B : Has(ns2[i], x, v))

\* Entries that move between leaves, and leaves that come and go, change nothing for a caller.
LEMMA HoldsTraded ==
  ASSUME NEW ns, NEW ns2, NEW lev, NEW lev2, NEW cont, Holds(ns, lev, cont),
         NEW A, A \subseteq Leaves(lev), NEW B, B \subseteq Leaves(lev2),
         Leaves(lev) \ A = Leaves(lev2) \ B, SameEntries(ns2, ns, Leaves(lev) \ A),
         Traded(ns2, B, ns, A)
  PROVE  Holds(ns2, lev2, cont)
<1>1. ASSUME NEW x, NEW v
      PROVE  (\E i \in Leaves(lev) : Has(ns[i], x, v)) <=> \E i \in Leaves(lev2) : Has(ns2[i], x, v)
  <2>1. \A i \in Leaves(lev) \ A : Has(ns[i], x, v) <=> Has(ns2[i], x, v)
    BY DEF SameEntries, Has
  <2>2. (\E i \in A : Has(ns[i], x, v)) <=> (\E i \in B : Has(ns2[i], x, v))
    BY DEF Traded
  <2>3. QED BY <2>1, <2>2
<1>2. QED BY <1>1 DEF Holds

\* The leaves and their entries are the same.
LEMMA HoldsSame ==
  ASSUME NEW ns, NEW ns2, NEW lev, NEW lev2, NEW cont, Holds(ns, lev, cont),
         Leaves(lev2) = Leaves(lev), SameEntries(ns2, ns, Leaves(lev))
  PROVE  Holds(ns2, lev2, cont)
<1>1. Traded(ns2, {}, ns, {})
  BY DEF Traded
<1>2. SameEntries(ns2, ns, Leaves(lev) \ {})
  BY DEF SameEntries
<1>3. QED BY <1>1, <1>2, HoldsTraded

\* n2 has one entry more than n, at position c.
OneMore(n2, n, c, k, v) ==
  /\ Len(n.keys) \in Nat /\ Len(n.values) = Len(n.keys) /\ c \in 1 .. Len(n.keys) + 1
  /\ Inserted(n2.keys, n.keys, c, k) /\ Inserted(n2.values, n.values, c, v)

\* n2 lacks the entry of n at position c.
OneLess(n2, n, c) ==
  /\ Len(n.keys) \in Nat /\ Len(n.values) = Len(n.keys) /\ c \in 1 .. Len(n.keys)
  /\ Removed(n2.keys, n.keys, c) /\ Removed(n2.values, n.values, c)

\* An entry more.
LEMMA HasInserted ==
  ASSUME NEW n, NEW n2, NEW k, NEW v, NEW c, OneMore(n2, n, c, k, v), NEW x, NEW w
  PROVE  Has(n2, x, w) <=> Has(n, x, w) \/ (x = k /\ w = v)
<1> DEFINE ks == n.keys
           vs == n.values
           kt == n2.keys
           vt == n2.values
           m == Len(ks)
<1>1. /\ m \in Nat /\ Len(vs) = m /\ Len(kt) = m + 1 /\ c \in 1 .. m + 1
      /\ kt[c] = k /\ vt[c] = v
      /\ \A j \in 1 .. c - 1 : kt[j] = ks[j] /\ vt[j] = vs[j]
      /\ \A j \in c + 1 .. m + 1 : kt[j] = ks[j - 1] /\ vt[j] = vs[j - 1]
  BY DEF OneMore, Inserted
<1>2. Has(n, x, w) <=> \E j \in 1 .. m : ks[j] = x /\ vs[j] = w
  BY DEF Has
<1>3. Has(n2, x, w) <=> \E j \in 1 .. m + 1 : kt[j] = x /\ vt[j] = w
  BY <1>1 DEF Has
<1> HIDE DEF ks, vs, kt, vt, m
<1>4. ASSUME NEW j \in 1 .. m + 1, kt[j] = x, vt[j] = w
      PROVE  Has(n, x, w) \/ (x = k /\ w = v)
  <2>1. CASE j < c
    <3>1. j \in 1 .. c - 1 /\ j \in 1 .. m BY <1>1, <2>1
    <3>2. QED BY <1>1, <1>2, <1>4, <3>1
  <2>2. CASE j = c BY <1>1, <1>4, <2>2
  <2>3. CASE j > c
    <3>1. j \in c + 1 .. m + 1 /\ j - 1 \in 1 .. m BY <1>1, <2>3
    <3>2. ks[j - 1] = x /\ vs[j - 1] = w BY <1>1, <1>4, <3>1
    <3>3. QED BY <1>2, <3>1, <3>2
  <2>4. QED BY <1>1, <2>1, <2>2, <2>3
<1>5. ASSUME NEW j \in 1 .. m, ks[j] = x, vs[j] = w PROVE Has(n2, x, w)
  <2>1. CASE j < c
    <3>1. j \in 1 .. c - 1 /\ j \in 1 .. m + 1 BY <1>1, <2>1
    <3>2. QED BY <1>1, <1>3, <1>5, <3>1
  <2>2. CASE ~(j < c)
    <3>1. j + 1 \in c + 1 .. m + 1 /\ j + 1 \in 1 .. m + 1 /\ (j + 1) - 1 = j BY <1>1, <2>2
    <3>2. kt[j + 1] = x /\ vt[j + 1] = w BY <1>1, <1>5, <3>1
    <3>3. QED BY <1>3, <3>1, <3>2
  <2>3. QED BY <2>1, <2>2
<1>6. x = k /\ w = v => Has(n2, x, w)
  BY <1>1, <1>3
<1>7. QED BY <1>2, <1>3, <1>4, <1>5, <1>6

\* An entry less.
LEMMA HasRemoved ==
  ASSUME NEW n, NEW n2, NEW c, OneLess(n2, n, c), NEW x, NEW w
  PROVE  Has(n, x, w) <=> Has(n2, x, w) \/ (x = n.keys[c] /\ w = n.values[c])
<1> DEFINE ks == n.keys
           vs == n.values
           kt == n2.keys
           vt == n2.values
<1>0. Len(ks) \in Nat /\ Len(vs) = Len(ks) /\ c \in 1 .. Len(ks) /\ c \in 1 .. Len(vs)
  BY DEF OneLess
<1>1. Len(kt) \in Nat /\ Len(kt) + 1 = Len(ks) /\ Inserted(ks, kt, c, ks[c])
  <2>1. Removed(kt, ks, c) BY DEF OneLess
  <2> HIDE DEF ks, kt, vs, vt
  <2>2. QED BY <1>0, <2>1, RemovedInserted
<1>2. Len(vt) \in Nat /\ Len(vt) + 1 = Len(vs) /\ Inserted(vs, vt, c, vs[c])
  <2>1. Removed(vt, vs, c) BY DEF OneLess
  <2> HIDE DEF ks, kt, vs, vt
  <2>2. QED BY <1>0, <2>1, RemovedInserted
<1>3. Len(vt) = Len(kt) /\ c \in 1 .. Len(kt) + 1
  BY <1>0, <1>1, <1>2
<1>4. OneMore(n, n2, c, ks[c], vs[c])
  BY <1>1, <1>2, <1>3 DEF OneMore
<1>5. QED BY <1>4, HasInserted

\* The entries of two leaves in one.
LEMMA HasJoined ==
  ASSUME NEW n, NEW r, NEW n2, Len(n.keys) \in Nat, Len(n.values) = Len(n.keys),
         Len(r.keys) \in Nat, Len(r.values) = Len(r.keys),
         Joined(n2.keys, n.keys, r.keys), Joined(n2.values, n.values, r.values), NEW x, NEW w
  PROVE  Has(n2, x, w) <=> Has(n, x, w) \/ Has(r, x, w)
<1> DEFINE a == Len(n.keys)
           b == Len(r.keys)
           kt == n2.keys
           vt == n2.values
<1>1. /\ a \in Nat /\ b \in Nat /\ Len(kt) = a + b
      /\ \A j \in 1 .. a : kt[j] = n.keys[j] /\ vt[j] = n.values[j]
      /\ \A j \in 1 .. b : kt[a + j] = r.keys[j] /\ vt[a + j] = r.values[j]
  BY DEF Joined
<1>2. /\ Has(n, x, w) <=> \E j \in 1 .. a : n.keys[j] = x /\ n.values[j] = w
      /\ Has(r, x, w) <=> \E j \in 1 .. b : r.keys[j] = x /\ r.values[j] = w
  BY DEF Has
<1>3. Has(n2, x, w) <=> \E j \in 1 .. a + b : kt[j] = x /\ vt[j] = w
  BY <1>1 DEF Has
<1> HIDE DEF a, b, kt, vt
<1>4. \A j \in 1 .. a : j \in 1 .. a + b
  BY <1>1
<1>5. \A j \in 1 .. b : a + j \in 1 .. a + b
  BY <1>1
<1>6. ASSUME NEW j \in 1 .. a + b PROVE j \in 1 .. a \/ (j - a \in 1 .. b /\ a + (j - a) = j)
  BY <1>1
<1>7. Has(n, x, w) => Has(n2, x, w)
  BY <1>1, <1>2, <1>3, <1>4
<1>8. Has(r, x, w) => Has(n2, x, w)
  BY <1>1, <1>2, <1>3, <1>5
<1>9. ASSUME NEW j \in 1 .. a + b, kt[j] = x, vt[j] = w PROVE Has(n, x, w) \/ Has(r, x, w)
  <2>1. CASE j \in 1 .. a BY <1>1, <1>2, <1>9, <2>1
  <2>2. CASE j - a \in 1 .. b /\ a + (j - a) = j
    <3>1. r.keys[j - a] = x /\ r.values[j - a] = w
      <4>1. kt[a + (j - a)] = r.keys[j - a] /\ vt[a + (j - a)] = r.values[j - a] BY <1>1, <2>2
      <4>2. QED BY <1>9, <2>2, <4>1
    <3>2. QED BY <1>2, <2>2, <3>1
  <2>3. QED BY <1>6, <2>1, <2>2
<1>10. QED BY <1>3, <1>7, <1>8, <1>9

\* u is what s has behind position c.
Behind(u, s, c) == Part(u, s, c + 1, Len(s))

\* The two parts of a vector, behind each other, are the vector.
LEMMA PartsJoined ==
  ASSUME NEW s, NEW t, NEW u, Len(s) \in Nat, NEW c \in 0 .. Len(s),
         Part(t, s, 1, c), Behind(u, s, c)
  PROVE  Joined(s, t, u) /\ Len(t) = c /\ Len(u) = Len(s) - c
<1>1. /\ Len(t) = c - 1 + 1 /\ Len(u) = Len(s) - (c + 1) + 1
      /\ \A j \in 1 .. c - 1 + 1 : t[j] = s[1 + j - 1]
      /\ \A j \in 1 .. Len(s) - (c + 1) + 1 : u[j] = s[c + 1 + j - 1]
  BY DEF Part, Behind
<1>2. /\ c - 1 + 1 = c /\ Len(s) - (c + 1) + 1 = Len(s) - c
      /\ \A j \in 1 .. c : 1 + j - 1 = j
      /\ \A j \in 1 .. Len(s) - c : c + 1 + j - 1 = c + j
  OBVIOUS
<1>3. Len(t) = c /\ Len(u) = Len(s) - c /\ Len(s) = Len(t) + Len(u)
  BY <1>1, <1>2
<1>4. (\A j \in 1 .. c : t[j] = s[j]) /\ \A j \in 1 .. Len(s) - c : u[j] = s[c + j]
  BY <1>1, <1>2
<1>5. QED BY <1>3, <1>4 DEF Joined

\* Only the leaf that is responsible for a key has it.
LEMMA Owner ==
  ASSUME NEW ns, NEW root, NEW lev, NEW low, NEW high, NEW top, NEW right,
         Tree(ns, root, lev, low, high, top, right), NEW l \in Leaves(lev), NEW k \in Int,
         k \in high[l], k \notin low[l], NEW i \in Leaves(lev), NEW w, Has(ns[i], k, w)
  PROVE  i = l
<1>1. i \in DOMAIN lev /\ lev[i] = 0 /\ l \in DOMAIN lev /\ lev[l] = 0
  BY DEF Leaves
<1>2. Ordered(ns[i].keys, low[i], high[i])
  BY <1>1 DEF Tree, NodeOK
<1>3. k \in high[i] /\ k \notin low[i]
  BY <1>2 DEF Has, Ordered
<1>4. i = l \/ Apart(i, l, low, high)
  BY <1>1 DEF Tree
<1>5. QED BY <1>3, <1>4 DEF Apart

\* The same, for all leaves.
OnlyThere(ns, lev, l, k) == \A i \in Leaves(lev) : \A w : Has(ns[i], k, w) => i = l

\* The leaf that is responsible for a key is the only one that can have it.
LEMMA OwnerOnly ==
  ASSUME NEW ns, NEW root, NEW lev, NEW low, NEW high,
         Tree(ns, root, lev, low, high, high, NoNode), NEW l \in Leaves(lev), NEW k \in Key,
         k \in high[l], k \notin low[l]
  PROVE  OnlyThere(ns, lev, l, k)
BY Owner, KeysAreInts DEF OnlyThere

\* After an insertion the caller expects the new entry.
LEMMA InsertHolds ==
  ASSUME NEW ns, NEW ns2, NEW root, NEW lev, NEW low, NEW high, NEW cont,
         Tree(ns, root, lev, low, high, high, NoNode), Holds(ns, lev, cont),
         cont \in [Key -> RID \cup {NoRID}], NEW l \in Leaves(lev), NEW k \in Key, NEW v \in RID,
         k \in high[l], k \notin low[l], ns[l].keys \in Seq(Key), k \notin ToSet(ns[l].keys),
         NEW c, OneMore(ns2[l], ns[l], c, k, v), SameEntries(ns2, ns, Leaves(lev) \ {l})
  PROVE  Holds(ns2, lev, [cont EXCEPT ![k] = v])
<1> DEFINE cont2 == [cont EXCEPT ![k] = v]
<1>0. cont2[k] = v /\ \A x \in Key : x # k => cont2[x] = cont[x]
  OBVIOUS
<1>1. \A w : ~Has(ns[l], k, w)
  BY DEF Has, ToSet
<1>2. \A i \in Leaves(lev) : \A w : ~Has(ns[i], k, w)
  <2>1. OnlyThere(ns, lev, l, k)
    BY OwnerOnly
  <2>2. QED BY ONLY <1>1, <2>1 DEF OnlyThere
<1>3. ASSUME NEW x, NEW w, NEW i \in Leaves(lev)
      PROVE  Has(ns2[i], x, w) <=> Has(ns[i], x, w) \/ (i = l /\ x = k /\ w = v)
  <2>1. CASE i = l BY <2>1, HasInserted
  <2>2. CASE i # l BY <2>2 DEF SameEntries, Has
  <2>3. QED BY <2>1, <2>2
<1> HIDE DEF cont2
<1>4. ASSUME NEW x \in Key, NEW w \in RID
      PROVE  cont2[x] = w <=> \E i \in Leaves(lev) : Has(ns2[i], x, w)
  <2>1. CASE x = k
    <3>1. (\E i \in Leaves(lev) : Has(ns2[i], k, w)) <=> w = v BY <1>2, <1>3
    <3>2. QED BY <1>0, <2>1, <3>1
  <2>2. CASE x # k
    <3>1. \A i \in Leaves(lev) : Has(ns2[i], x, w) <=> Has(ns[i], x, w) BY <1>3, <2>2
    <3>2. cont[x] = w <=> \E i \in Leaves(lev) : Has(ns[i], x, w) BY DEF Holds
    <3>3. QED BY <1>0, <2>2, <3>1, <3>2
  <2>3. QED BY <2>1, <2>2
<1>5. Holds(ns2, lev, cont2)
  BY <1>4 DEF Holds
<1>6. QED BY <1>5 DEF cont2

\* A key that was removed is in the leaf no more.
LEMMA Gone ==
  ASSUME NEW n, NEW n2, NEW lo, NEW hi, n.keys \in Seq(Key), Ordered(n.keys, lo, hi),
         NEW c, OneLess(n2, n, c), NEW w
  PROVE  ~Has(n2, n.keys[c], w)
<1> DEFINE ks == n.keys
           kt == n2.keys
           m == Len(ks)
<1>1. /\ m \in Nat /\ c \in 1 .. m /\ Len(kt) = m - 1
      /\ \A j \in 1 .. c - 1 : kt[j] = ks[j]
      /\ \A j \in c .. m - 1 : kt[j] = ks[j + 1]
  BY DEF OneLess, Removed
<1>2. \A i, j \in 1 .. m : i < j => ks[i] < ks[j]
  BY DEF Ordered
<1>3. \A j \in 1 .. m : ks[j] \in Int
  BY KeysAreInts, ElementOfSeq
<1>4. \A i, j \in 1 .. m : ks[i] = ks[j] => i = j
  <2> SUFFICES ASSUME NEW i \in 1 .. m, NEW j \in 1 .. m, ks[i] = ks[j], i # j PROVE FALSE
    OBVIOUS
  <2>1. i < j \/ j < i BY <1>1
  <2>2. ks[i] < ks[j] \/ ks[j] < ks[i] BY <1>2, <2>1
  <2>3. QED BY <1>3, <2>2
<1> HIDE DEF ks, kt, m
<1>5. ASSUME NEW j \in 1 .. m - 1 PROVE kt[j] # ks[c]
  <2>1. CASE j < c
    <3>1. j \in 1 .. c - 1 /\ j \in 1 .. m /\ j # c BY <1>1, <2>1
    <3>2. QED BY <1>1, <1>4, <3>1
  <2>2. CASE ~(j < c)
    <3>1. j \in c .. m - 1 /\ j + 1 \in 1 .. m /\ j + 1 # c BY <1>1, <2>2
    <3>2. QED BY <1>1, <1>4, <3>1
  <2>3. QED BY <2>1, <2>2
<1>6. QED BY <1>1, <1>5 DEF Has, ks, kt

\* After a removal the caller expects nothing at the key.
LEMMA RemoveHolds ==
  ASSUME NEW ns, NEW ns2, NEW root, NEW lev, NEW low, NEW high, NEW cont,
         Tree(ns, root, lev, low, high, high, NoNode), Holds(ns, lev, cont),
         cont \in [Key -> RID \cup {NoRID}], NEW l \in Leaves(lev), NEW k \in Key,
         ns[l].keys \in Seq(Key), NEW c, OneLess(ns2[l], ns[l], c), k = ns[l].keys[c],
         SameEntries(ns2, ns, Leaves(lev) \ {l})
  PROVE  Holds(ns2, lev, [cont EXCEPT ![k] = NoRID])
<1> DEFINE cont2 == [cont EXCEPT ![k] = NoRID]
<1>0. cont2[k] = NoRID /\ \A x \in Key : x # k => cont2[x] = cont[x]
  OBVIOUS
<1>1. Ordered(ns[l].keys, low[l], high[l]) /\ k \in high[l] /\ k \notin low[l]
  <2>1. Ordered(ns[l].keys, low[l], high[l]) BY DEF Leaves, Tree, NodeOK
  <2>2. c \in 1 .. Len(ns[l].keys) BY DEF OneLess
  <2>3. QED BY <2>1, <2>2 DEF Ordered
<1>2. \A w : ~Has(ns2[l], k, w)
  BY <1>1, Gone
<1>3. ASSUME NEW x, NEW w, NEW i \in Leaves(lev), x # k
      PROVE  Has(ns2[i], x, w) <=> Has(ns[i], x, w)
  <2>1. CASE i = l
    <3>1. Has(ns[l], x, w) <=> Has(ns2[l], x, w) \/ (x = ns[l].keys[c] /\ w = ns[l].values[c])
      BY HasRemoved
    <3>2. QED BY <1>3, <2>1, <3>1
  <2>2. CASE i # l BY <2>2 DEF SameEntries, Has
  <2>3. QED BY <2>1, <2>2
<1>4. ASSUME NEW i \in Leaves(lev), NEW w PROVE ~Has(ns2[i], k, w)
  <2>1. CASE i = l BY <1>2, <2>1
  <2>2. CASE i # l
    <3>1. Has(ns2[i], k, w) => Has(ns[i], k, w) BY <2>2 DEF SameEntries, Has
    <3>2. OnlyThere(ns, lev, l, k) BY <1>1, OwnerOnly
    <3>3. QED BY <2>2, <3>1, <3>2 DEF OnlyThere
  <2>3. QED BY <2>1, <2>2
<1> HIDE DEF cont2
<1>5. ASSUME NEW x \in Key, NEW w \in RID
      PROVE  cont2[x] = w <=> \E i \in Leaves(lev) : Has(ns2[i], x, w)
  <2>1. CASE x = k
    <3>1. w # NoRID BY RidsAreRids
    <3>2. QED BY <1>0, <1>4, <2>1, <3>1
  <2>2. CASE x # k
    <3>1. \A i \in Leaves(lev) : Has(ns2[i], x, w) <=> Has(ns[i], x, w) BY <1>3, <2>2
    <3>2. cont[x] = w <=> \E i \in Leaves(lev) : Has(ns[i], x, w) BY DEF Holds
    <3>3. QED BY <1>0, <2>2, <3>1, <3>2
  <2>3. QED BY <2>1, <2>2
<1>6. Holds(ns2, lev, cont2)
  BY <1>5 DEF Holds
<1>7. QED BY <1>6 DEF cont2

-------------------------------------------------------------------------------
(* Nodes as values *)

\* The nodes whose links lead to one of the first N nodes.
NodeIn(N) == [type : {"LEAF", "INTERNAL"}, isRoot : BOOLEAN, parentIdx : 0 .. N,
              keys : Seq(Key), values : Seq(RID), childIndices : Seq(1 .. N),
              nextLeafIdx : 0 .. N]

\* The vector of nodes, as TypeOK has it.
Typed(ns) == Len(ns) \in Nat /\ ns \in Seq(NodeIn(Len(ns)))

\* The fields of such a node.
LEMMA NodeInFields ==
  ASSUME NEW N \in Nat, NEW n \in NodeIn(N)
  PROVE  /\ n.keys \in Seq(Key) /\ n.values \in Seq(RID) /\ n.childIndices \in Seq(1 .. N)
         /\ n.isRoot \in BOOLEAN /\ n.parentIdx \in 0 .. N /\ n.nextLeafIdx \in 0 .. N
         /\ n.type \in {"LEAF", "INTERNAL"}
BY DEF NodeIn

\* Lists over a set, and lists whose elements are in it.
LEMMA SeqToSet ==
  ASSUME NEW S, NEW T, NEW s \in Seq(S)
  PROVE  s \in Seq(T) <=> ToSet(s) \subseteq T
<1>1. DOMAIN s = 1 .. Len(s) /\ Len(s) \in Nat /\ s = [i \in 1 .. Len(s) |-> s[i]]
  OBVIOUS
<1>2. ASSUME s \in Seq(T) PROVE ToSet(s) \subseteq T
  BY <1>2, ElementOfSeq DEF ToSet
<1>3. ASSUME ToSet(s) \subseteq T PROVE s \in Seq(T)
  <2>1. \A i \in 1 .. Len(s) : s[i] \in T BY <1>1, <1>3 DEF ToSet
  <2>2. s \in [1 .. Len(s) -> T] BY <1>1, <2>1
  <2>3. QED BY <1>1, <2>2
<1>4. QED BY <1>2, <1>3

\* The two ways to say that the links stay among the nodes.
LEMMA NodeInIs ==
  ASSUME NEW N \in Nat, NEW n \in Node
  PROVE  n \in NodeIn(N) <=> /\ n.parentIdx \in 0 .. N /\ n.nextLeafIdx \in 0 .. N
                             /\ ToSet(n.childIndices) \subseteq 1 .. N
<1>1. n.childIndices \in Seq(Nat)
  BY DEF Node
<1>2. n.childIndices \in Seq(1 .. N) <=> ToSet(n.childIndices) \subseteq 1 .. N
  BY <1>1, SeqToSet
<1>3. n \in NodeIn(N) <=> /\ n.parentIdx \in 0 .. N /\ n.nextLeafIdx \in 0 .. N
                          /\ n.childIndices \in Seq(1 .. N)
  BY DEF Node, NodeIn
<1>4. QED BY <1>2, <1>3

\* Such a node is a node.
LEMMA NodeInNode ==
  ASSUME NEW N \in Nat, NEW n \in NodeIn(N)
  PROVE  n \in Node
<1>1. n.childIndices \in Seq(1 .. N)
  BY NodeInFields
<1>2. ToSet(n.childIndices) \subseteq 1 .. N
  BY <1>1, SeqToSet
<1>3. ToSet(n.childIndices) \subseteq Nat
  BY <1>2
<1>4. n.childIndices \in Seq(Nat)
  BY <1>1, <1>3, SeqToSet
<1>5. QED BY <1>4 DEF Node, NodeIn

\* More nodes.
LEMMA Wider ==
  ASSUME NEW N \in Nat, NEW M \in Nat, N <= M, NEW n \in NodeIn(N)
  PROVE  n \in NodeIn(M)
<1>1. n.childIndices \in Seq(1 .. N)
  BY NodeInFields
<1>2. ToSet(n.childIndices) \subseteq 1 .. N
  BY <1>1, SeqToSet
<1>3. ToSet(n.childIndices) \subseteq 1 .. M
  BY <1>2
<1>4. n.childIndices \in Seq(1 .. M)
  BY <1>1, <1>3, SeqToSet
<1>5. 0 .. N \subseteq 0 .. M
  OBVIOUS
<1>6. QED BY <1>4, <1>5 DEF NodeIn

\* The type of the nodes, with their links.
LEMMA TypedIs ==
  ASSUME NEW ns
  PROVE  Typed(ns) <=> /\ ns \in Seq(Node)
                       /\ \A i \in DOMAIN ns :
                            /\ ns[i].parentIdx \in 0 .. Len(ns)
                            /\ ns[i].nextLeafIdx \in 0 .. Len(ns)
                            /\ ToSet(ns[i].childIndices) \subseteq 1 .. Len(ns)
<1>1. ASSUME Typed(ns)
      PROVE  /\ ns \in Seq(Node)
             /\ \A i \in DOMAIN ns :
                  /\ ns[i].parentIdx \in 0 .. Len(ns) /\ ns[i].nextLeafIdx \in 0 .. Len(ns)
                  /\ ToSet(ns[i].childIndices) \subseteq 1 .. Len(ns)
  <2>1. Len(ns) \in Nat /\ ns \in Seq(NodeIn(Len(ns))) BY <1>1 DEF Typed
  <2>2. DOMAIN ns = 1 .. Len(ns) /\ \A i \in 1 .. Len(ns) : ns[i] \in NodeIn(Len(ns))
    BY <2>1, ElementOfSeq
  <2>3. \A i \in 1 .. Len(ns) : ns[i] \in Node BY <2>1, <2>2, NodeInNode
  <2>4. ns = [i \in 1 .. Len(ns) |-> ns[i]] BY <2>1
  <2>5. ns \in Seq(Node) BY <2>1, <2>3, <2>4
  <2>6. QED BY <2>1, <2>2, <2>3, <2>5, NodeInIs
<1>2. ASSUME ns \in Seq(Node),
             \A i \in DOMAIN ns :
               /\ ns[i].parentIdx \in 0 .. Len(ns) /\ ns[i].nextLeafIdx \in 0 .. Len(ns)
               /\ ToSet(ns[i].childIndices) \subseteq 1 .. Len(ns)
      PROVE  Typed(ns)
  <2>1. Len(ns) \in Nat /\ DOMAIN ns = 1 .. Len(ns) /\ ns = [i \in 1 .. Len(ns) |-> ns[i]]
    BY <1>2
  <2>2. \A i \in 1 .. Len(ns) : ns[i] \in Node BY <1>2, ElementOfSeq
  <2>3. \A i \in 1 .. Len(ns) : ns[i] \in NodeIn(Len(ns)) BY <1>2, <2>1, <2>2, NodeInIs
  <2>4. QED BY <2>1, <2>3 DEF Typed
<1>3. QED BY <1>1, <1>2

\* A list of nodes made node by node.
LEMMA TypedByNode ==
  ASSUME NEW ns, NEW M \in Nat, ns = [i \in 1 .. M |-> ns[i]], \A i \in 1 .. M : ns[i] \in NodeIn(M)
  PROVE  Typed(ns) /\ Len(ns) = M
<1>1. ns \in [1 .. M -> NodeIn(M)]
  OBVIOUS
<1>2. ns \in Seq(NodeIn(M)) /\ Len(ns) = M
  BY <1>1
<1>3. QED BY <1>2 DEF Typed

\* What Typed says of one node.
LEMMA TypedNode ==
  ASSUME NEW ns, Typed(ns)
  PROVE  /\ Len(ns) \in Nat /\ DOMAIN ns = 1 .. Len(ns) /\ ns = [i \in 1 .. Len(ns) |-> ns[i]]
         /\ \A i \in 1 .. Len(ns) : ns[i] \in NodeIn(Len(ns))
<1>1. Len(ns) \in Nat /\ ns \in Seq(NodeIn(Len(ns))) BY DEF Typed
<1>2. QED BY <1>1, ElementOfSeq

\* One node is replaced.
LEMMA PutIs ==
  ASSUME NEW ns, Typed(ns), NEW i \in 1 .. Len(ns), NEW n \in NodeIn(Len(ns))
  PROVE  /\ Typed([ns EXCEPT ![i] = n]) /\ Len([ns EXCEPT ![i] = n]) = Len(ns)
         /\ [ns EXCEPT ![i] = n][i] = n
         /\ \A j \in 1 .. Len(ns) : j # i => [ns EXCEPT ![i] = n][j] = ns[j]
<1> DEFINE t == [ns EXCEPT ![i] = n]
           M == Len(ns)
<1>1. M \in Nat /\ DOMAIN ns = 1 .. M /\ \A j \in 1 .. M : ns[j] \in NodeIn(M)
  BY TypedNode
<1>2. t[i] = n /\ (\A j \in 1 .. M : j # i => t[j] = ns[j]) /\ t = [j \in 1 .. M |-> t[j]]
  BY <1>1
<1> HIDE DEF t
<1>3. \A j \in 1 .. M : t[j] \in NodeIn(M)
  BY <1>1, <1>2
<1> HIDE DEF M
<1>4. Typed(t) /\ Len(t) = M
  BY <1>1, <1>2, <1>3, TypedByNode
<1>5. QED BY <1>2, <1>4 DEF t, M

\* A node is added.
LEMMA AddIs ==
  ASSUME NEW ns, Typed(ns), NEW n \in NodeIn(Len(ns) + 1)
  PROVE  /\ Typed(Append(ns, n)) /\ Len(Append(ns, n)) = Len(ns) + 1
         /\ Append(ns, n)[Len(ns) + 1] = n
         /\ \A j \in 1 .. Len(ns) : Append(ns, n)[j] = ns[j]
<1> DEFINE t == Append(ns, n)
           M == Len(ns) + 1
<1>1. /\ Len(ns) \in Nat /\ DOMAIN ns = 1 .. Len(ns)
      /\ \A j \in 1 .. Len(ns) : ns[j] \in NodeIn(Len(ns))
  BY TypedNode
<1>2. ns \in Seq(NodeIn(Len(ns)))
  BY DEF Typed
<1>3. /\ t[Len(ns) + 1] = n /\ \A j \in 1 .. Len(ns) : t[j] = ns[j]
      /\ t = [j \in 1 .. M |-> t[j]]
  <2> DEFINE S == NodeIn(Len(ns)) \cup {n}
  <2>1. ns \in Seq(S) /\ n \in S
    <3>1. ns = [j \in 1 .. Len(ns) |-> ns[j]] /\ \A j \in 1 .. Len(ns) : ns[j] \in S
      BY <1>1, TypedNode
    <3> HIDE DEF S
    <3>2. ns \in Seq(S) BY <1>1, <3>1
    <3>3. QED BY <3>2 DEF S
  <2> HIDE DEF S
  <2>2. /\ t \in Seq(S) /\ Len(t) = Len(ns) + 1 /\ t[Len(ns) + 1] = n
        /\ \A j \in 1 .. Len(ns) : t[j] = ns[j]
    BY <2>1
  <2> HIDE DEF t
  <2>3. t = [j \in 1 .. Len(t) |-> t[j]] BY <2>2
  <2>4. QED BY <2>2, <2>3
<1>4. \A j \in 1 .. Len(ns) : ns[j] \in NodeIn(M)
  <2> TAKE j \in 1 .. Len(ns)
  <2>1. ns[j] \in NodeIn(Len(ns)) /\ Len(ns) <= M /\ M \in Nat BY <1>1
  <2> HIDE DEF M
  <2>2. QED BY <1>1, <2>1, Wider
<1>5. \A j \in 1 .. M : j = Len(ns) + 1 \/ j \in 1 .. Len(ns)
  BY <1>1
<1> HIDE DEF t
<1>6. \A j \in 1 .. M : t[j] \in NodeIn(M)
  BY <1>3, <1>4, <1>5
<1>7. M \in Nat /\ M = Len(ns) + 1
  BY <1>1
<1> HIDE DEF M
<1>8. Typed(t) /\ Len(t) = M
  BY <1>3, <1>6, <1>7, TypedByNode
<1>9. QED BY <1>3, <1>7, <1>8 DEF t

\* withEntry adds the entry at lower_bound.
LEMMA WithEntryIs ==
  ASSUME NEW N \in Nat, NEW n \in NodeIn(N), NEW k \in Key, NEW v \in RID,
         Len(n.values) = Len(n.keys), lowerBound(n.keys, k) \in 1 .. Len(n.keys) + 1
  PROVE  /\ withEntry(n, k, v) \in NodeIn(N) /\ SameLinks(withEntry(n, k, v), n)
         /\ OneMore(withEntry(n, k, v), n, lowerBound(n.keys, k), k, v)
<1> DEFINE pos == lowerBound(n.keys, k)
           ks == InsertAt(n.keys, pos, k)
           vs == InsertAt(n.values, pos, v)
           n2 == withEntry(n, k, v)
<1>1. n.keys \in Seq(Key) /\ n.values \in Seq(RID) /\ Len(n.keys) \in Nat
  BY NodeInFields
<1>2. pos \in 1 .. Len(n.keys) + 1 /\ pos \in 1 .. Len(n.values) + 1
  OBVIOUS
<1>3. n2 = [n EXCEPT !.keys = ks, !.values = vs]
  BY DEF withEntry
<1> HIDE DEF pos
<1>4. ks \in Seq(Key) /\ Inserted(ks, n.keys, pos, k)
  BY <1>1, <1>2, InsertAtIs
<1>5. vs \in Seq(RID) /\ Inserted(vs, n.values, pos, v)
  BY <1>1, <1>2, InsertAtIs
<1> HIDE DEF ks, vs, n2
<1>6. n2 \in NodeIn(N)
  BY <1>3, <1>4, <1>5 DEF NodeIn
<1>7. n2.keys = ks /\ n2.values = vs
  BY <1>3 DEF NodeIn
<1>8. SameLinks(n2, n)
  BY <1>3 DEF SameLinks, NodeIn
<1>9. OneMore(n2, n, pos, k, v)
  BY <1>1, <1>2, <1>4, <1>5, <1>7 DEF OneMore
<1>10. QED BY <1>6, <1>8, <1>9 DEF n2, pos

\* withChild adds the separator at lower_bound and the child behind it.
LEMMA WithChildIs ==
  ASSUME NEW N \in Nat, NEW n \in NodeIn(N), NEW k \in Key, NEW r \in 1 .. N,
         Len(n.childIndices) = Len(n.keys) + 1, lowerBound(n.keys, k) \in 1 .. Len(n.keys) + 1
  PROVE  /\ withChild(n, k, r) \in NodeIn(N)
         /\ WithChild(withChild(n, k, r), n, lowerBound(n.keys, k), k, r)
<1> DEFINE pos == lowerBound(n.keys, k)
           ks == InsertAt(n.keys, pos, k)
           cs == InsertAt(n.childIndices, pos + 1, r)
           n2 == withChild(n, k, r)
<1>1. n.keys \in Seq(Key) /\ n.childIndices \in Seq(1 .. N) /\ Len(n.keys) \in Nat
  BY NodeInFields
<1>2. pos \in 1 .. Len(n.keys) + 1 /\ pos + 1 \in 1 .. Len(n.childIndices) + 1
  BY <1>1
<1>3. n2 = [n EXCEPT !.keys = ks, !.childIndices = cs]
  BY DEF withChild
<1> HIDE DEF pos
<1>4. ks \in Seq(Key) /\ Inserted(ks, n.keys, pos, k)
  BY <1>1, <1>2, InsertAtIs
<1>5. cs \in Seq(1 .. N) /\ Inserted(cs, n.childIndices, pos + 1, r)
  BY <1>1, <1>2, InsertAtIs
<1> HIDE DEF ks, cs, n2
<1>6. n2 \in NodeIn(N)
  BY <1>3, <1>4, <1>5 DEF NodeIn
<1>7. /\ n2.keys = ks /\ n2.childIndices = cs /\ n2.type = n.type /\ n2.isRoot = n.isRoot
      /\ n2.parentIdx = n.parentIdx
  BY <1>3 DEF NodeIn
<1>8. WithChild(n2, n, pos, k, r)
  BY <1>4, <1>5, <1>7 DEF WithChild
<1>9. QED BY <1>6, <1>8 DEF n2, pos

\* Position finds an element that is there.
LEMMA PositionIs ==
  ASSUME NEW S, NEW s \in Seq(S), NEW e \in ToSet(s)
  PROVE  Position(s, e) \in 1 .. Len(s) /\ s[Position(s, e)] = e
<1>1. DOMAIN s = 1 .. Len(s)
  OBVIOUS
<1>2. \E i \in DOMAIN s : s[i] = e
  BY DEF ToSet
<1>3. Position(s, e) \in DOMAIN s /\ s[Position(s, e)] = e
  BY <1>2 DEF Position
<1>4. QED BY <1>1, <1>3

\* withoutEntry takes the entry out.
LEMMA WithoutEntryIs ==
  ASSUME NEW N \in Nat, NEW n \in NodeIn(N), NEW k \in ToSet(n.keys),
         Len(n.values) = Len(n.keys)
  PROVE  /\ withoutEntry(n, k) \in NodeIn(N) /\ SameLinks(withoutEntry(n, k), n)
         /\ OneLess(withoutEntry(n, k), n, Position(n.keys, k))
         /\ n.keys[Position(n.keys, k)] = k
<1> DEFINE pos == Position(n.keys, k)
           ks == RemoveAt(n.keys, pos)
           vs == RemoveAt(n.values, pos)
           n2 == withoutEntry(n, k)
<1>1. n.keys \in Seq(Key) /\ n.values \in Seq(RID) /\ Len(n.keys) \in Nat
  BY NodeInFields
<1>2. pos \in 1 .. Len(n.keys) /\ n.keys[pos] = k
  BY <1>1, PositionIs
<1>3. n2 = [n EXCEPT !.keys = ks, !.values = vs]
  BY DEF withoutEntry
<1> HIDE DEF pos
<1>4. ks \in Seq(Key) /\ Removed(ks, n.keys, pos)
  BY <1>1, <1>2, RemoveAtIs
<1>5. vs \in Seq(RID) /\ Removed(vs, n.values, pos)
  <2>1. pos \in 1 .. Len(n.values) BY <1>2
  <2>2. QED BY <1>1, <2>1, RemoveAtIs
<1> HIDE DEF ks, vs, n2
<1>6. n2 \in NodeIn(N)
  BY <1>3, <1>4, <1>5 DEF NodeIn
<1>7. n2.keys = ks /\ n2.values = vs
  BY <1>3 DEF NodeIn
<1>8. SameLinks(n2, n)
  BY <1>3 DEF SameLinks, NodeIn
<1>9. OneLess(n2, n, pos)
  BY <1>1, <1>2, <1>4, <1>5, <1>7 DEF OneLess
<1>10. QED BY <1>2, <1>6, <1>8, <1>9 DEF n2, pos

\* The fields of a node that allocateNode made.
LEMMA NewNodeIs ==
  ASSUME NEW N \in Nat, NEW t \in {"LEAF", "INTERNAL"}
  PROVE  newNode(t) \in NodeIn(N)
<1>1. <<>> \in Seq(Key) /\ <<>> \in Seq(RID) /\ <<>> \in Seq(1 .. N)
  OBVIOUS
<1>2. QED BY <1>1 DEF newNode, NodeIn, NoNode

\* The left half of a leaf.
LeftLeaf(n, sp, next) ==
  [n EXCEPT !.keys = SubSeq(@, 1, sp), !.values = SubSeq(@, 1, sp), !.nextLeafIdx = next]

\* Its right half, in a new node.
RightLeaf(n, sp, next) ==
  [newNode("LEAF") EXCEPT !.keys = SubSeq(n.keys, sp + 1, Len(n.keys)),
                          !.values = SubSeq(n.values, sp + 1, Len(n.values)),
                          !.nextLeafIdx = next, !.parentIdx = n.parentIdx]

\* What splitLeafAndInsert leaves in the old leaf.
LEMMA LeftLeafIs ==
  ASSUME NEW N \in Nat, NEW n \in NodeIn(N), NEW sp \in 0 .. Len(n.keys), NEW next \in 0 .. N,
         Len(n.values) = Len(n.keys), n.type = "LEAF"
  PROVE  /\ LeftLeaf(n, sp, next) \in NodeIn(N)
         /\ LeafPart(LeftLeaf(n, sp, next), n, 1, sp, next)
         /\ Part(LeftLeaf(n, sp, next).values, n.values, 1, sp)
         /\ LeftLeaf(n, sp, next).isRoot = n.isRoot
         /\ LeftLeaf(n, sp, next).parentIdx = n.parentIdx
<1> DEFINE ks == SubSeq(n.keys, 1, sp)
           vs == SubSeq(n.values, 1, sp)
           n2 == LeftLeaf(n, sp, next)
<1>1. n.keys \in Seq(Key) /\ n.values \in Seq(RID) /\ Len(n.keys) \in Nat
  BY NodeInFields
<1>2. sp \in Nat /\ sp <= Len(n.keys) /\ sp <= Len(n.values) /\ 1 <= sp + 1
  BY <1>1
<1>3. n2 = [n EXCEPT !.keys = ks, !.values = vs, !.nextLeafIdx = next]
  BY DEF LeftLeaf
<1>4. ks \in Seq(Key) /\ Part(ks, n.keys, 1, sp)
  BY <1>1, <1>2, PartIs
<1>5. vs \in Seq(RID) /\ Part(vs, n.values, 1, sp)
  BY <1>1, <1>2, PartIs
<1> HIDE DEF ks, vs, n2
<1>6. n2 \in NodeIn(N)
  BY <1>3, <1>4, <1>5 DEF NodeIn
<1>7. /\ n2.keys = ks /\ n2.values = vs /\ n2.nextLeafIdx = next /\ n2.type = "LEAF"
      /\ n2.isRoot = n.isRoot /\ n2.parentIdx = n.parentIdx
  BY <1>3 DEF NodeIn
<1>8. Len(n2.values) = Len(n2.keys)
  BY <1>4, <1>5, <1>7 DEF Part
<1>9. LeafPart(n2, n, 1, sp, next)
  BY <1>4, <1>7, <1>8 DEF LeafPart
<1>10. QED BY <1>5, <1>6, <1>7, <1>9 DEF n2

\* What splitLeafAndInsert puts into the new leaf.
LEMMA RightLeafIs ==
  ASSUME NEW N \in Nat, NEW n \in NodeIn(N), NEW sp \in 0 .. Len(n.keys), NEW next \in 0 .. N,
         Len(n.values) = Len(n.keys)
  PROVE  /\ RightLeaf(n, sp, next) \in NodeIn(N)
         /\ LeafPart(RightLeaf(n, sp, next), n, sp + 1, Len(n.keys), next)
         /\ Part(RightLeaf(n, sp, next).values, n.values, sp + 1, Len(n.values))
         /\ RightLeaf(n, sp, next).isRoot = FALSE
<1> DEFINE ks == SubSeq(n.keys, sp + 1, Len(n.keys))
           vs == SubSeq(n.values, sp + 1, Len(n.values))
           n2 == RightLeaf(n, sp, next)
           nn == newNode("LEAF")
<1>1. n.keys \in Seq(Key) /\ n.values \in Seq(RID) /\ Len(n.keys) \in Nat /\ n.parentIdx \in 0 .. N
  BY NodeInFields
<1>2. sp + 1 \in Nat /\ sp + 1 <= Len(n.keys) + 1 /\ 1 <= sp + 1
  BY <1>1
<1>3. n2 = [nn EXCEPT !.keys = ks, !.values = vs, !.nextLeafIdx = next, !.parentIdx = n.parentIdx]
  BY DEF RightLeaf
<1>4. ks \in Seq(Key) /\ Part(ks, n.keys, sp + 1, Len(n.keys))
  BY <1>1, <1>2, PartIs
<1>5. vs \in Seq(RID) /\ Part(vs, n.values, sp + 1, Len(n.values))
  BY <1>1, <1>2, PartIs
<1>6. nn \in NodeIn(N) /\ nn.type = "LEAF" /\ nn.isRoot = FALSE
  <2>1. nn \in NodeIn(N) BY NewNodeIs
  <2>2. QED BY <2>1 DEF newNode
<1> HIDE DEF ks, vs, n2, nn
<1>7. n2 \in NodeIn(N)
  BY <1>1, <1>3, <1>4, <1>5, <1>6 DEF NodeIn
<1>8. /\ n2.keys = ks /\ n2.values = vs /\ n2.nextLeafIdx = next /\ n2.type = "LEAF"
      /\ n2.isRoot = FALSE
  BY <1>3, <1>6 DEF NodeIn
<1>9. Len(n2.values) = Len(n2.keys)
  BY <1>4, <1>5, <1>8 DEF Part
<1>10. LeafPart(n2, n, sp + 1, Len(n.keys), next)
  BY <1>4, <1>8, <1>9 DEF LeafPart
<1>11. QED BY <1>5, <1>7, <1>8, <1>10 DEF n2

-------------------------------------------------------------------------------
(* The invariant, on the nodes *)

\* A tree with the entries that a caller expects.
Whole(ns, root, lev, low, high, cont) ==
  /\ Tree(ns, root, lev, low, high, high, NoNode)
  /\ Filled(ns, root, lev, high, NoNode) /\ Holds(ns, lev, cont)

\* The same, where insertIntoParent is still to be called for left, key and right.
Halfway(ns, root, lev, low, high, top, left, key, right, cont) ==
  /\ Tree(ns, root, lev, low, high, top, right)
  /\ Pending(root, lev, low, high, top, left, key, right)
  /\ Filled(ns, root, lev, high, NoNode) /\ Holds(ns, lev, cont)

\* The leaves are as full as they were.
LEMMA FilledSame ==
  ASSUME NEW ns, NEW ns2, NEW root, NEW lev, NEW lev2, NEW high, NEW high2,
         Filled(ns, root, lev, high, NoNode), Leaves(lev2) = Leaves(lev),
         SameEntries(ns2, ns, Leaves(lev)), \A i \in Leaves(lev) : high2[i] = high[i]
  PROVE  Filled(ns2, root, lev2, high2, NoNode)
BY DEF Filled, SameEntries

\* The bounds of the thresholds.
LEMMA Thresholds ==
  /\ Order \in Nat /\ Order >= 3 /\ minLeafKeys \in Nat /\ minLeafKeys >= 1
  /\ minLeafKeys = Order \div 2 /\ maxLeafKeys = Order - 1 /\ maxInternalKeys = Order - 1
BY TreeAssumption DEF minLeafKeys, maxLeafKeys, maxInternalKeys

\* What the changed nodes are.
EntryAdded(n2, n, k, v) == n2 = withEntry(n, k, v)
ChildAdded(n2, n, k, r) == n2 = withChild(n, k, r)
EntryTaken(n2, n, k) == n2 = withoutEntry(n, k)
Longer(n2, n) == Len(n2.keys) = Len(n.keys) + 1

\* insertIntoLeaf: the leaf that is responsible for the key gets the entry.
LEMMA InsertWhole ==
  ASSUME NEW ns, NEW ns2, NEW root, NEW lev, NEW low, NEW high, NEW cont,
         Typed(ns), Whole(ns, root, lev, low, high, cont), cont \in [Key -> RID \cup {NoRID}],
         NEW l \in Leaves(lev), NEW k \in Key, NEW v \in RID, k \in high[l], k \notin low[l],
         k \notin ToSet(ns[l].keys), Len(ns2) \in Nat, Len(ns2) >= Len(ns),
         SameOn(ns2, ns, DOMAIN lev \ {l}), EntryAdded(ns2[l], ns[l], k, v)
  PROVE  /\ Whole(ns2, root, lev, low, high, [cont EXCEPT ![k] = v])
         /\ ns2[l] \in NodeIn(Len(ns)) /\ SameLinks(ns2[l], ns[l])
         /\ Longer(ns2[l], ns[l])
<1> DEFINE c == lowerBound(ns[l].keys, k)
<1>1. /\ Tree(ns, root, lev, low, high, high, NoNode)
      /\ Filled(ns, root, lev, high, NoNode) /\ Holds(ns, lev, cont)
  BY DEF Whole
<1>2. l \in DOMAIN lev /\ lev[l] = 0 /\ l \in 1 .. Len(ns) /\ Len(ns) \in Nat
  BY <1>1 DEF Leaves, Tree, Ghosts, Typed
<1>3. ns[l] \in NodeIn(Len(ns)) /\ ns[l].keys \in Seq(Key) /\ Len(ns[l].keys) \in Nat
  BY <1>2, TypedNode, NodeInFields
<1>4. LeafOK(ns, l, lev, low, high) /\ Ordered(ns[l].keys, low[l], high[l])
  BY <1>1, <1>2 DEF Tree, NodeOK
<1>5. Len(ns[l].values) = Len(ns[l].keys) /\ ns[l].type = "LEAF"
  BY <1>4 DEF LeafOK
<1>6. k \in Int
  BY KeysAreInts
<1>7. c \in 1 .. Len(ns[l].keys) + 1 /\ Between(ns[l].keys, c, k)
  BY <1>3, <1>4, <1>6, LowerBoundBetween
<1>8. /\ ns2[l] \in NodeIn(Len(ns)) /\ SameLinks(ns2[l], ns[l])
      /\ OneMore(ns2[l], ns[l], c, k, v)
  BY <1>2, <1>3, <1>5, <1>7, WithEntryIs DEF EntryAdded
<1> HIDE DEF c
<1>9. /\ Inserted(ns2[l].keys, ns[l].keys, c, k) /\ Inserted(ns2[l].values, ns[l].values, c, v)
      /\ Len(ns2[l].keys) = Len(ns[l].keys) + 1 /\ Len(ns2[l].values) = Len(ns[l].values) + 1
  BY <1>8 DEF OneMore, Inserted
<1>10. Len(ns2[l].values) = Len(ns2[l].keys)
  BY <1>5, <1>9
<1>11. Ordered(ns2[l].keys, low[l], high[l])
  BY <1>3, <1>4, <1>6, <1>7, <1>9, InsertedOrdered
<1>12. Tree(ns2, root, lev, low, high, high, NoNode)
  BY <1>1, <1>2, <1>8, <1>10, <1>11, LeafChange
<1>13. SameEntries(ns2, ns, Leaves(lev) \ {l})
  BY DEF SameOn, SameEntries, Leaves
<1>14. Holds(ns2, lev, [cont EXCEPT ![k] = v])
  BY <1>1, <1>3, <1>8, <1>13, InsertHolds
<1>15. Filled(ns2, root, lev, high, NoNode)
  <2> SUFFICES ASSUME NEW i \in Leaves(lev)
               PROVE  i = NoNode \/ Len(ns2[i].keys) >= minLeafKeys \/ (i = root /\ high[i] = Int)
    BY DEF Filled
  <2>1. i = NoNode \/ Len(ns[i].keys) >= minLeafKeys \/ (i = root /\ high[i] = Int)
    BY <1>1 DEF Filled
  <2>2. CASE i = l BY <1>3, <1>9, <2>1, <2>2, Thresholds
  <2>3. CASE i # l BY <1>13, <2>1, <2>3 DEF SameEntries
  <2>4. QED BY <2>2, <2>3
<1>16. QED BY <1>8, <1>9, <1>12, <1>14, <1>15 DEF Whole, Longer

\* Both parts of m keys are long enough.
GoodSplit(m, sp) == sp \in 1 .. m - 1 /\ sp >= minLeafKeys /\ m - sp >= minLeafKeys

\* A leaf of at least Order keys can be halved.
LEMMA Halves ==
  ASSUME NEW m \in Nat, m >= Order
  PROVE  GoodSplit(m, (m + 1) \div 2)
BY Thresholds DEF GoodSplit

\* a has the first sp entries of n, and b the others.
Halved(n, a, b, sp) ==
  /\ Len(n.keys) \in Nat /\ Len(n.values) = Len(n.keys) /\ sp \in 0 .. Len(n.keys)
  /\ Part(a.keys, n.keys, 1, sp) /\ Behind(b.keys, n.keys, sp)
  /\ Part(a.values, n.values, 1, sp) /\ Behind(b.values, n.values, sp)

\* The entries of the halves of a leaf are the entries of the leaf.
LEMMA HalvesJoined ==
  ASSUME NEW n, NEW a, NEW b, NEW sp, Halved(n, a, b, sp)
  PROVE  /\ Joined(n.keys, a.keys, b.keys) /\ Joined(n.values, a.values, b.values)
         /\ Len(a.keys) = sp /\ Len(b.keys) = Len(n.keys) - sp
         /\ Len(a.values) = sp /\ Len(b.values) = Len(n.keys) - sp
<1>1. /\ Len(n.keys) \in Nat /\ sp \in 0 .. Len(n.keys)
      /\ Len(n.values) \in Nat /\ sp \in 0 .. Len(n.values)
      /\ Part(a.keys, n.keys, 1, sp) /\ Behind(b.keys, n.keys, sp)
      /\ Part(a.values, n.values, 1, sp) /\ Behind(b.values, n.values, sp)
  BY DEF Halved
<1>2. Joined(n.keys, a.keys, b.keys) BY <1>1, PartsJoined
<1>3. Joined(n.values, a.values, b.values) BY <1>1, PartsJoined
<1>4. Len(a.keys) = sp /\ Len(b.keys) = Len(n.keys) - sp BY <1>1 DEF Part, Behind
<1>5. Len(a.values) = sp /\ Len(b.values) = Len(n.values) - sp BY <1>1 DEF Part, Behind
<1>6. Len(n.values) = Len(n.keys) BY DEF Halved
<1>7. QED BY <1>2, <1>3, <1>4, <1>5, <1>6

\* splitLeafAndInsert, once the entry is in the leaf.
LEMMA SplitLeafWhole ==
  ASSUME NEW ns, NEW ns2, NEW root, NEW lev, NEW low, NEW high, NEW cont, NEW N, NEW sp,
         Len(ns) \in Nat, Whole(ns, root, lev, low, high, cont), NEW l \in Leaves(lev),
         ns[l] \in NodeIn(Len(ns)), GoodSplit(Len(ns[l].keys), sp),
         N = Len(ns) + 1, Len(ns2) = Len(ns) + 1,
         SameOn(ns2, ns, DOMAIN lev \ {l}), ns2[l] = LeftLeaf(ns[l], sp, N),
         ns2[N] = RightLeaf(ns[l], sp, ns[l].nextLeafIdx)
  PROVE  /\ \E lev2, low2, high2, top2 :
              Halfway(ns2, root, lev2, low2, high2, top2, l, ns2[N].keys[1], N, cont)
         /\ ns2[l] \in NodeIn(N) /\ ns2[N] \in NodeIn(N)
<1> DEFINE m == Len(ns[l].keys)
           k == ns[l].keys[sp + 1]
<1>1. /\ Tree(ns, root, lev, low, high, high, NoNode)
      /\ Filled(ns, root, lev, high, NoNode) /\ Holds(ns, lev, cont)
  BY DEF Whole
<1>2. l \in DOMAIN lev /\ lev[l] = 0 /\ DOMAIN lev \subseteq 1 .. Len(ns) /\ N \notin DOMAIN lev
  BY <1>1 DEF Leaves, Tree, Ghosts
<1>3. /\ ns[l].keys \in Seq(Key) /\ m \in Nat /\ ns[l].values \in Seq(RID)
      /\ ns[l].nextLeafIdx \in 0 .. Len(ns) /\ N \in Nat /\ N \in 0 .. N
      /\ ns[l].nextLeafIdx \in 0 .. N
  BY NodeInFields
<1>4. ns[l] \in NodeIn(N)
  BY <1>3, Wider
<1>5. LeafOK(ns, l, lev, low, high)
  BY <1>1, <1>2 DEF Tree
<1>6. Len(ns[l].values) = m /\ ns[l].type = "LEAF"
  BY <1>5 DEF LeafOK
<1>7. sp \in 1 .. m - 1 /\ sp \in 0 .. m /\ sp >= minLeafKeys /\ m - sp >= minLeafKeys
  BY <1>3 DEF GoodSplit
<1>8. /\ ns2[l] \in NodeIn(N) /\ LeafPart(ns2[l], ns[l], 1, sp, N)
      /\ Part(ns2[l].values, ns[l].values, 1, sp)
      /\ ns2[l].isRoot = ns[l].isRoot /\ ns2[l].parentIdx = ns[l].parentIdx
  BY <1>3, <1>4, <1>6, <1>7, LeftLeafIs, SMTT(30)
<1>9. /\ ns2[N] \in NodeIn(N)
      /\ LeafPart(ns2[N], ns[l], sp + 1, Len(ns[l].keys), ns[l].nextLeafIdx)
      /\ Part(ns2[N].values, ns[l].values, sp + 1, Len(ns[l].values))
      /\ ns2[N].isRoot = FALSE
  <2>1. Len(ns[l].values) = Len(ns[l].keys) /\ sp \in 0 .. Len(ns[l].keys)
    BY <1>6, <1>7
  <2>2. N \in Nat /\ ns[l].nextLeafIdx \in 0 .. N BY <1>3
  <2>3. ns2[N] = RightLeaf(ns[l], sp, ns[l].nextLeafIdx) OBVIOUS
  <2>4. QED BY ONLY <1>4, <2>1, <2>2, <2>3, RightLeafIs
<1>10. PICK lev2, low2, high2, top2 :
         SplitBounds(lev2, low2, high2, top2, lev, low, high, l, k, N)
  BY <1>2, SplitBoundsExist
<1>11. /\ Tree(ns2, root, lev2, low2, high2, top2, N)
       /\ Pending(root, lev2, low2, high2, top2, l, k, N)
  BY <1>1, <1>2, <1>3, <1>7, <1>8, <1>9, <1>10, SplitLeaf, ZenonT(30)
<1>12. /\ Joined(ns[l].keys, ns2[l].keys, ns2[N].keys)
       /\ Joined(ns[l].values, ns2[l].values, ns2[N].values)
       /\ Len(ns2[l].keys) = sp /\ Len(ns2[N].keys) = Len(ns[l].keys) - sp
       /\ Len(ns2[l].values) = sp /\ Len(ns2[N].values) = Len(ns[l].keys) - sp
  <2>1. Halved(ns[l], ns2[l], ns2[N], sp)
    BY <1>3, <1>6, <1>7, <1>8, <1>9 DEF LeafPart, Behind, Halved
  <2>2. QED BY ONLY <2>1, HalvesJoined
<1>14. ns2[N].keys[1] = k
  <2>1. 1 \in 1 .. m - (sp + 1) + 1 /\ sp + 1 + 1 - 1 = sp + 1 BY <1>3, <1>7
  <2>2. Part(ns2[N].keys, ns[l].keys, sp + 1, m) BY <1>9 DEF LeafPart
  <2>3. ns2[N].keys[1] = ns[l].keys[sp + 1 + 1 - 1] BY <2>1, <2>2 DEF Part
  <2>4. QED BY <2>1, <2>3
<1>15. Leaves(lev2) = Leaves(lev) \cup {N}
  <2>1. /\ DOMAIN lev2 = DOMAIN lev \cup {N} /\ lev2[N] = lev[l]
        /\ \A i \in DOMAIN lev : lev2[i] = lev[i]
    BY <1>10 DEF SplitBounds
  <2>2. QED BY <1>2, <2>1 DEF Leaves
<1>16. SameEntries(ns2, ns, Leaves(lev) \ {l})
  BY DEF SameOn, SameEntries, Leaves
<1>17. Traded(ns2, {l, N}, ns, {l})
  <2>1. \A x, w : Has(ns[l], x, w) <=> Has(ns2[l], x, w) \/ Has(ns2[N], x, w)
    <3>1. Len(ns2[l].keys) \in Nat /\ Len(ns2[N].keys) \in Nat
          /\ Len(ns2[l].values) = Len(ns2[l].keys) /\ Len(ns2[N].values) = Len(ns2[N].keys)
      BY <1>3, <1>6, <1>7, <1>12
    <3>2. QED BY <1>12, <3>1, HasJoined
  <2>2. QED BY <2>1 DEF Traded
<1>18. Holds(ns2, lev2, cont)
  <2>1. N \notin Leaves(lev) /\ l \in Leaves(lev) BY <1>2 DEF Leaves
  <2>2. /\ {l} \subseteq Leaves(lev) /\ {l, N} \subseteq Leaves(lev2)
        /\ Leaves(lev) \ {l} = Leaves(lev2) \ {l, N}
    BY <1>15, <2>1
  <2>3. QED BY <1>1, <1>16, <1>17, <2>2, HoldsTraded
<1>19. Filled(ns2, root, lev2, high2, NoNode)
  <2> SUFFICES ASSUME NEW i \in Leaves(lev2)
               PROVE  i = NoNode \/ Len(ns2[i].keys) >= minLeafKeys \/ (i = root /\ high2[i] = Int)
    BY DEF Filled
  <2>1. CASE i = l BY <1>7, <1>12, <2>1
  <2>2. CASE i = N BY <1>7, <1>12, <2>2
  <2>3. CASE i # l /\ i # N
    <3>1. i \in Leaves(lev) /\ i \in DOMAIN lev BY <1>15, <2>3 DEF Leaves
    <3>2. high2[i] = high[i] BY <1>10, <2>3, <3>1 DEF SplitBounds
    <3>3. ns2[i].keys = ns[i].keys BY <1>16, <2>3, <3>1 DEF SameEntries
    <3>4. QED BY <1>1, <3>1, <3>2, <3>3 DEF Filled
  <2>4. QED BY <2>1, <2>2, <2>3
<1>20. Halfway(ns2, root, lev2, low2, high2, top2, l, ns2[N].keys[1], N, cont)
  BY <1>11, <1>14, <1>18, <1>19 DEF Halfway
<1>21. QED BY <1>8, <1>9, <1>20

\* The node N becomes the root, above the node root and its new neighbour right.
Crowned(ns2, ns, S, root, key, right, N) ==
  /\ SameOn(ns2, ns, S \ {root, right})
  /\ SameButParent(ns2[right], ns[right]) /\ ns2[right].parentIdx = N
  /\ SameInner(ns2[root], ns[root]) /\ ns2[root].values = ns[root].values
  /\ ns2[root].nextLeafIdx = ns[root].nextLeafIdx
  /\ ns2[root].isRoot = FALSE /\ ns2[root].parentIdx = N
  /\ ns2[N].type = "INTERNAL" /\ ns2[N].isRoot = TRUE /\ ns2[N].parentIdx = NoNode
  /\ ns2[N].keys = <<key>> /\ ns2[N].childIndices = <<root, right>>

\* insertIntoParent, where the node that was split is the root.
LEMMA NewRootWhole ==
  ASSUME NEW ns, NEW ns2, NEW root, NEW lev, NEW low, NEW high, NEW top,
         NEW key, NEW right, NEW cont, NEW N,
         Halfway(ns, root, lev, low, high, top, root, key, right, cont),
         Len(ns) \in Nat, N = Len(ns) + 1, Len(ns2) = Len(ns) + 1,
         Crowned(ns2, ns, DOMAIN lev, root, key, right, N)
  PROVE  \E lev2, low2, high2 : Whole(ns2, N, lev2, low2, high2, cont)
<1>1. /\ Tree(ns, root, lev, low, high, top, right)
      /\ Pending(root, lev, low, high, top, root, key, right)
      /\ Filled(ns, root, lev, high, NoNode) /\ Holds(ns, lev, cont)
  BY DEF Halfway
<1>2. /\ DOMAIN lev \subseteq 1 .. Len(ns) /\ N \notin DOMAIN lev /\ root \in DOMAIN lev
      /\ \A i \in DOMAIN lev : lev[i] \in Nat
  BY <1>1 DEF Tree, Ghosts, RootOK
<1>3. PICK lev2, low2, high2 : RootBounds(lev2, low2, high2, lev, low, high, root, N)
  BY <1>2, RootBoundsExist
<1>4. Tree(ns2, N, lev2, low2, high2, high2, NoNode)
  BY <1>1, <1>3, NewRoot DEF Crowned
<1>5. /\ DOMAIN lev2 = DOMAIN lev \cup {N} /\ lev2[N] = lev[root] + 1
      /\ \A i \in DOMAIN lev : lev2[i] = lev[i] /\ high2[i] = high[i]
  BY <1>3 DEF RootBounds
<1>6. Leaves(lev2) = Leaves(lev)
  <2>1. lev2[N] # 0 BY <1>2, <1>5
  <2>2. QED BY <1>5, <2>1 DEF Leaves
<1>7. SameEntries(ns2, ns, Leaves(lev))
  <2> SUFFICES ASSUME NEW i \in Leaves(lev)
               PROVE  ns2[i].keys = ns[i].keys /\ ns2[i].values = ns[i].values
    BY DEF SameEntries
  <2>1. i \in DOMAIN lev BY DEF Leaves
  <2>2. QED BY <2>1 DEF Crowned, SameOn, SameButParent, SameInner
<1>8. Holds(ns2, lev2, cont)
  BY <1>1, <1>6, <1>7, HoldsSame
<1>9. \A i \in Leaves(lev) : high2[i] = high[i]
  BY <1>5 DEF Leaves
<1>10. Filled(ns2, root, lev2, high2, NoNode)
  BY <1>1, <1>6, <1>7, <1>9, FilledSame
<1>11. high2[root] # Int
  <2>1. key \in Int /\ high2[root] = Cut(key) BY <1>1, <1>2, <1>5, KeysAreInts DEF Pending
  <2>2. QED BY <2>1, CutIs
<1>12. Filled(ns2, N, lev2, high2, NoNode)
  BY <1>10, <1>11 DEF Filled
<1>13. QED BY <1>4, <1>8, <1>12 DEF Whole

\* The parent as node n knows it.
IsParent(p, n) == p = n.parentIdx

\* What insertIntoParent may assume of the parent p of a node left that is not the root.
LEMMA ParentOfSplit ==
  ASSUME NEW ns, NEW root, NEW lev, NEW low, NEW high, NEW top, NEW left, NEW key, NEW right,
         Tree(ns, root, lev, low, high, top, right),
         Pending(root, lev, low, high, top, left, key, right), Typed(ns), left # root,
         NEW p, IsParent(p, ns[left])
  PROVE  /\ p \in DOMAIN lev /\ lev[p] # 0 /\ p \in 1 .. Len(ns) /\ p # right
         /\ right \in 1 .. Len(ns)
         /\ ns[p] \in NodeIn(Len(ns)) /\ Len(ns[p].childIndices) = Len(ns[p].keys) + 1
         /\ ns[p].keys \in Seq(Key) /\ ns[p].type = "INTERNAL"
         /\ \E c \in 1 .. Len(ns[p].keys) + 1 :
              /\ ns[p].childIndices[c] = left /\ lowerBound(ns[p].keys, key) = c
<1>1. left \in DOMAIN lev /\ right \in DOMAIN lev /\ left # right /\ lev[left] = lev[right]
  BY DEF Pending
<1>2. Hangs(ns, left, lev)
  BY <1>1 DEF Tree
<1>3. /\ p \in DOMAIN lev /\ lev[p] # 0
      /\ \E c \in 1 .. Len(ns[p].keys) + 1 : ns[p].childIndices[c] = left
  BY <1>2 DEF Hangs, IsParent
<1>4. DOMAIN lev \subseteq 1 .. Len(ns) /\ Len(ns) \in Nat
  BY DEF Tree, Ghosts, Typed
<1>5. p \in 1 .. Len(ns) /\ right \in 1 .. Len(ns)
  BY <1>1, <1>3, <1>4
<1>6. ns[p] \in NodeIn(Len(ns))
  BY <1>5, TypedNode
<1>7. ns[p].keys \in Seq(Key)
  BY <1>4, <1>6, NodeInFields
<1>8. InnerOK(ns, p, lev, low, high, top, right)
  BY <1>3 DEF Tree
<1>9. Len(ns[p].childIndices) = Len(ns[p].keys) + 1 /\ ns[p].type = "INTERNAL"
  BY <1>8 DEF InnerOK
<1>10. PICK c \in 1 .. Len(ns[p].keys) + 1 : ns[p].childIndices[c] = left
  BY <1>3
<1>11. /\ lev[left] + 1 = lev[p] /\ low[left] = lowCut(ns[p].keys, c, low[p])
       /\ top[left] = highCut(ns[p].keys, c, high[p])
  BY <1>3, <1>10, ParentOf
<1>12. p # right
  <2>1. lev[left] \in Nat BY <1>1 DEF Tree, Ghosts
  <2>2. QED BY <1>1, <1>11, <2>1
<1>13. NodeOK(ns, p, root, low, high)
  BY <1>3 DEF Tree
<1>14. Ordered(ns[p].keys, low[p], high[p]) /\ Span(low[p], high[p])
  BY <1>13 DEF NodeOK
<1>15. key \in Int /\ key \in top[left]
  BY KeysAreInts DEF Pending
<1>16. PICK x \in Cut(key) : x \notin low[left]
  BY DEF Pending
<1>17. x \in Int /\ x < key
  BY <1>16 DEF Cut
<1>18. Between(ns[p].keys, c, key)
  BY <1>7, <1>10, <1>11, <1>14, <1>15, <1>16, <1>17, BetweenSeparators
<1>19. lowerBound(ns[p].keys, key) = c
  BY <1>7, <1>10, <1>15, <1>18, LowerBoundIs
<1>20. QED BY <1>3, <1>5, <1>6, <1>7, <1>9, <1>10, <1>12, <1>19

\* A node has one child more than keys.
Paired(n) == Len(n.childIndices) = Len(n.keys) + 1

\* insertIntoParent, where the parent gets a key and a child.
LEMMA AddChildWhole ==
  ASSUME NEW ns, NEW ns2, NEW root, NEW lev, NEW low, NEW high, NEW top,
         NEW left, NEW key, NEW right, NEW cont,
         Halfway(ns, root, lev, low, high, top, left, key, right, cont), Typed(ns), left # root,
         Len(ns2) \in Nat, Len(ns2) >= Len(ns), NEW p, IsParent(p, ns[left]),
         ChildAdded(ns2[p], ns[p], key, right), SameOn(ns2, ns, DOMAIN lev \ {p, right}),
         SameButParent(ns2[right], ns[right]), ns2[right].parentIdx = p
  PROVE  /\ Whole(ns2, root, lev, low, high, cont)
         /\ ns2[p] \in NodeIn(Len(ns)) /\ Longer(ns2[p], ns[p]) /\ Paired(ns2[p])
<1>1. /\ Tree(ns, root, lev, low, high, top, right)
      /\ Pending(root, lev, low, high, top, left, key, right)
      /\ Filled(ns, root, lev, high, NoNode) /\ Holds(ns, lev, cont)
  BY DEF Halfway
<1>2. /\ p \in DOMAIN lev /\ lev[p] # 0 /\ p \in 1 .. Len(ns) /\ p # right /\ right \in 1 .. Len(ns)
      /\ ns[p] \in NodeIn(Len(ns)) /\ Len(ns[p].childIndices) = Len(ns[p].keys) + 1
      /\ ns[p].keys \in Seq(Key)
      /\ \E c \in 1 .. Len(ns[p].keys) + 1 :
           /\ ns[p].childIndices[c] = left /\ lowerBound(ns[p].keys, key) = c
  BY <1>1, ParentOfSplit
<1>3. PICK c \in 1 .. Len(ns[p].keys) + 1 :
        ns[p].childIndices[c] = left /\ lowerBound(ns[p].keys, key) = c
  BY <1>2
<1>4. Len(ns) \in Nat /\ key \in Key /\ right \in DOMAIN lev
  BY <1>1 DEF Typed, Pending
<1>5. ns2[p] \in NodeIn(Len(ns)) /\ WithChild(ns2[p], ns[p], c, key, right)
  <2>1. lowerBound(ns[p].keys, key) \in 1 .. Len(ns[p].keys) + 1 BY <1>3
  <2>2. /\ withChild(ns[p], key, right) \in NodeIn(Len(ns))
        /\ WithChild(withChild(ns[p], key, right), ns[p], lowerBound(ns[p].keys, key), key, right)
    BY <1>2, <1>4, <2>1, WithChildIs
  <2>3. QED BY <1>3, <2>2 DEF ChildAdded
<1>6. Tree(ns2, root, lev, low, high, high, NoNode)
  BY <1>1, <1>2, <1>3, <1>4, <1>5, AddChild
<1>7. /\ Len(ns2[p].keys) = Len(ns[p].keys) + 1
      /\ Len(ns2[p].childIndices) = Len(ns[p].childIndices) + 1
  BY <1>5 DEF WithChild, Inserted
<1>8. SameEntries(ns2, ns, Leaves(lev))
  <2> SUFFICES ASSUME NEW i \in Leaves(lev)
               PROVE  ns2[i].keys = ns[i].keys /\ ns2[i].values = ns[i].values
    BY DEF SameEntries
  <2>1. i \in DOMAIN lev /\ i # p BY <1>2 DEF Leaves
  <2>2. QED BY <2>1 DEF SameOn, SameButParent
<1>9. Holds(ns2, lev, cont) /\ Filled(ns2, root, lev, high, NoNode)
  BY <1>1, <1>8, HoldsSame, FilledSame
<1>10. Paired(ns2[p]) /\ Longer(ns2[p], ns[p])
  BY <1>2, <1>7 DEF Paired, Longer
<1>11. QED BY <1>5, <1>6, <1>9, <1>10 DEF Whole

\* splitInternal, once the key and the child are in the node.
LEMMA SplitInnerWhole ==
  ASSUME NEW ns, NEW ns2, NEW root, NEW lev, NEW low, NEW high, NEW cont, NEW N, NEW mid,
         Len(ns) \in Nat, Whole(ns, root, lev, low, high, cont),
         NEW p \in DOMAIN lev, lev[p] # 0, ns[p].keys \in Seq(Key),
         mid \in 1 .. Len(ns[p].keys) - 1,
         N = Len(ns) + 1, Len(ns2) = Len(ns) + 1,
         LeftHalf(ns2[p], ns[p], mid), RightHalf(ns2[N], ns[p], mid),
         Adopted(ns2, ns, DOMAIN lev \ {p}, MovedChildren(ns[p], mid), N)
  PROVE  \E lev2, low2, high2, top2 :
           Halfway(ns2, root, lev2, low2, high2, top2, p, ns[p].keys[mid + 1], N, cont)
<1> DEFINE k == ns[p].keys[mid + 1]
<1>1. /\ Tree(ns, root, lev, low, high, high, NoNode)
      /\ Filled(ns, root, lev, high, NoNode) /\ Holds(ns, lev, cont)
  BY DEF Whole
<1>2. DOMAIN lev \subseteq 1 .. Len(ns) /\ N \notin DOMAIN lev
  BY <1>1 DEF Tree, Ghosts
<1>3. PICK lev2, low2, high2, top2 :
        SplitBounds(lev2, low2, high2, top2, lev, low, high, p, k, N)
  BY <1>2, SplitBoundsExist
<1>4. /\ Tree(ns2, root, lev2, low2, high2, top2, N)
      /\ Pending(root, lev2, low2, high2, top2, p, k, N)
  BY <1>1, <1>3, SplitInner
<1> HIDE DEF k
<1>5. /\ DOMAIN lev2 = DOMAIN lev \cup {N} /\ lev2[N] = lev[p]
      /\ \A i \in DOMAIN lev : lev2[i] = lev[i]
      /\ \A i \in DOMAIN lev : i # p => high2[i] = high[i]
  BY <1>3 DEF SplitBounds
<1>6. Leaves(lev2) = Leaves(lev)
  BY <1>5 DEF Leaves
<1>7. \A i \in Leaves(lev) : i \in DOMAIN lev \ {p}
  BY DEF Leaves
<1>8. SameEntries(ns2, ns, Leaves(lev)) /\ \A i \in Leaves(lev) : high2[i] = high[i]
  BY <1>5, <1>7 DEF Adopted, SameButParent, SameEntries
<1>9. Holds(ns2, lev2, cont) /\ Filled(ns2, root, lev2, high2, NoNode)
  BY <1>1, <1>6, <1>8, HoldsSame, FilledSame
<1>10. Halfway(ns2, root, lev2, low2, high2, top2, p, k, N, cont)
  BY <1>4, <1>9 DEF Halfway
<1>11. QED BY <1>10 DEF k

-------------------------------------------------------------------------------
(* remove *)

\* Between removeFromLeaf and the end of handleUnderflow, the leaf l may be short by one.
Lean(ns, root, lev, low, high, l, cont) ==
  /\ Tree(ns, root, lev, low, high, high, NoNode)
  /\ Filled(ns, root, lev, high, l) /\ Holds(ns, lev, cont)

\* removeFromLeaf.
LEMMA RemoveWhole ==
  ASSUME NEW ns, NEW ns2, NEW root, NEW lev, NEW low, NEW high, NEW cont,
         Typed(ns), Whole(ns, root, lev, low, high, cont), cont \in [Key -> RID \cup {NoRID}],
         NEW l \in Leaves(lev), NEW k \in Key, k \in ToSet(ns[l].keys), Len(ns2) = Len(ns),
         SameOn(ns2, ns, DOMAIN lev \ {l}), EntryTaken(ns2[l], ns[l], k)
  PROVE  /\ Lean(ns2, root, lev, low, high, l, [cont EXCEPT ![k] = NoRID])
         /\ ns2[l] \in NodeIn(Len(ns)) /\ SameLinks(ns2[l], ns[l])
         /\ Len(ns2[l].keys) \in Nat
         /\ l # root => Len(ns2[l].keys) + 1 >= minLeafKeys
<1> DEFINE c == Position(ns[l].keys, k)
<1>1. /\ Tree(ns, root, lev, low, high, high, NoNode)
      /\ Filled(ns, root, lev, high, NoNode) /\ Holds(ns, lev, cont)
  BY DEF Whole
<1>2. l \in DOMAIN lev /\ lev[l] = 0 /\ l \in 1 .. Len(ns) /\ Len(ns) \in Nat
  BY <1>1 DEF Leaves, Tree, Ghosts, Typed
<1>3. ns[l] \in NodeIn(Len(ns)) /\ ns[l].keys \in Seq(Key) /\ Len(ns[l].keys) \in Nat
  BY <1>2, TypedNode, NodeInFields
<1>4. LeafOK(ns, l, lev, low, high) /\ Ordered(ns[l].keys, low[l], high[l])
  BY <1>1, <1>2 DEF Tree, NodeOK
<1>5. Len(ns[l].values) = Len(ns[l].keys)
  BY <1>4 DEF LeafOK
<1>6. /\ ns2[l] \in NodeIn(Len(ns)) /\ SameLinks(ns2[l], ns[l])
      /\ OneLess(ns2[l], ns[l], c) /\ ns[l].keys[c] = k
  BY <1>2, <1>3, <1>5, WithoutEntryIs DEF EntryTaken
<1> HIDE DEF c
<1>7. /\ Removed(ns2[l].keys, ns[l].keys, c) /\ c \in 1 .. Len(ns[l].keys)
      /\ Len(ns2[l].keys) = Len(ns[l].keys) - 1 /\ Len(ns2[l].values) = Len(ns[l].values) - 1
  BY <1>6 DEF OneLess, Removed
<1>8. Len(ns2[l].values) = Len(ns2[l].keys) /\ Len(ns2[l].keys) \in Nat
      /\ Len(ns2[l].keys) + 1 = Len(ns[l].keys)
  BY <1>3, <1>5, <1>7
<1>9. Ordered(ns2[l].keys, low[l], high[l])
  BY <1>3, <1>4, <1>7, RemovedOrdered
<1>10. Tree(ns2, root, lev, low, high, high, NoNode)
  BY <1>1, <1>2, <1>6, <1>8, <1>9, LeafChange
<1>11. SameEntries(ns2, ns, Leaves(lev) \ {l})
  BY DEF SameOn, SameEntries, Leaves
<1>12. Holds(ns2, lev, [cont EXCEPT ![k] = NoRID])
  BY <1>1, <1>3, <1>6, <1>11, RemoveHolds
<1>13. Filled(ns2, root, lev, high, l)
  <2> SUFFICES ASSUME NEW i \in Leaves(lev), i # l
               PROVE  Len(ns2[i].keys) >= minLeafKeys \/ (i = root /\ high[i] = Int)
    BY DEF Filled
  <2>1. ns2[i].keys = ns[i].keys BY <1>11 DEF SameEntries
  <2>2. i # NoNode BY <1>1 DEF Tree, Ghosts, Leaves, NoNode
  <2>3. QED BY <1>1, <2>1, <2>2 DEF Filled
<1>14. l # root => Len(ns2[l].keys) + 1 >= minLeafKeys
  BY <1>1, <1>2, <1>8 DEF Filled, NoNode
<1>15. QED BY <1>6, <1>8, <1>10, <1>12, <1>13, <1>14 DEF Lean

\* A leaf g gives its entry c to a leaf t, which has it at position d.
Gives(ns2, ns, g, c, t, d) ==
  /\ OneLess(ns2[g], ns[g], c)
  /\ OneMore(ns2[t], ns[t], d, ns[g].keys[c], ns[g].values[c])

\* Together the two leaves have what they had.
LEMMA GivesTraded ==
  ASSUME NEW ns, NEW ns2, NEW g, NEW c, NEW t, NEW d, Gives(ns2, ns, g, c, t, d)
  PROVE  Traded(ns2, {g, t}, ns, {g, t})
<1>1. ASSUME NEW x, NEW w
      PROVE  (Has(ns[g], x, w) \/ Has(ns[t], x, w)) <=> (Has(ns2[g], x, w) \/ Has(ns2[t], x, w))
  <2>1. Has(ns[g], x, w) <=> Has(ns2[g], x, w) \/ (x = ns[g].keys[c] /\ w = ns[g].values[c])
    BY HasRemoved DEF Gives
  <2>2. Has(ns2[t], x, w) <=> Has(ns[t], x, w) \/ (x = ns[g].keys[c] /\ w = ns[g].values[c])
    BY HasInserted DEF Gives
  <2>3. QED BY <2>1, <2>2
<1>2. QED BY <1>1 DEF Traded

\* handleUnderflow, where a sibling gives an entry: l is the leaf that is short,
\* g and l are the neighbours a and b, in one order or the other.
LEMMA BorrowWhole ==
  ASSUME NEW ns, NEW ns2, NEW root, NEW lev, NEW low, NEW high, NEW cont,
         NEW p, NEW q, NEW a, NEW b, NEW s, NEW g, NEW c, NEW l, NEW d,
         Lean(ns, root, lev, low, high, l, cont), Neighbours(ns, lev, p, q, a, b),
         (g = a /\ l = b) \/ (g = b /\ l = a), Gives(ns2, ns, g, c, l, d),
         Len(ns2) = Len(ns), s \in Key,
         Len(ns[g].keys) > minLeafKeys, Len(ns[l].keys) + 1 >= minLeafKeys,
         SameLinks(ns2[a], ns[a]), SameLinks(ns2[b], ns[b]),
         GoodLeaf(ns2[a], low[a], Cut(s)), GoodLeaf(ns2[b], Cut(s), high[b]),
         WithSeparator(ns2[p], ns[p], q, s), SameOn(ns2, ns, DOMAIN lev \ {a, b, p})
  PROVE  \E low2, high2 : Whole(ns2, root, lev, low2, high2, cont)
<1>1. /\ Tree(ns, root, lev, low, high, high, NoNode)
      /\ Filled(ns, root, lev, high, l) /\ Holds(ns, lev, cont)
  BY DEF Lean
<1>2. /\ a \in DOMAIN lev /\ b \in DOMAIN lev /\ lev[a] = 0 /\ lev[b] = 0 /\ lev[p] = 1
      /\ a # b /\ a # root /\ b # root
  BY <1>1, NeighboursAre
<1>3. PICK low2, high2 : MovedBounds(low2, high2, lev, low, high, a, b, s)
  BY <1>2, MovedBoundsExist
<1>4. Tree(ns2, root, lev, low2, high2, high2, NoNode)
  BY <1>1, <1>3, Borrow
<1>5. {a, b} = {g, l} /\ {g, l} \subseteq Leaves(lev)
  BY <1>2 DEF Leaves
<1>6. SameEntries(ns2, ns, Leaves(lev) \ {g, l})
  BY <1>2, <1>5 DEF SameOn, SameEntries, Leaves
<1>7. Traded(ns2, {g, l}, ns, {g, l})
  BY GivesTraded
<1>8. Holds(ns2, lev, cont)
  BY <1>1, <1>5, <1>6, <1>7, HoldsTraded
<1>9. /\ Len(ns[g].keys) \in Nat /\ Len(ns2[g].keys) = Len(ns[g].keys) - 1
      /\ Len(ns[l].keys) \in Nat /\ Len(ns2[l].keys) = Len(ns[l].keys) + 1
  BY DEF Gives, OneLess, OneMore, Removed, Inserted
<1>10. Len(ns2[g].keys) >= minLeafKeys /\ Len(ns2[l].keys) >= minLeafKeys
  BY <1>9, Thresholds
<1>11. Filled(ns2, root, lev, high2, NoNode)
  <2> SUFFICES ASSUME NEW i \in Leaves(lev)
               PROVE  i = NoNode \/ Len(ns2[i].keys) >= minLeafKeys \/ (i = root /\ high2[i] = Int)
    BY DEF Filled
  <2>1. CASE i \in {g, l} BY <1>10, <2>1
  <2>2. CASE i \notin {g, l}
    <3>1. high2[i] = high[i] BY <1>3, <1>5, <2>2 DEF MovedBounds, Leaves
    <3>2. ns2[i].keys = ns[i].keys BY <1>6, <2>2 DEF SameEntries
    <3>3. QED BY <1>1, <2>2, <3>1, <3>2 DEF Filled
  <2>3. QED BY <2>1, <2>2
<1>12. QED BY <1>4, <1>8, <1>11 DEF Whole

\* One leaf that is full enough makes a merged leaf full enough.
LEMMA EnoughTogether ==
  ASSUME NEW x \in Nat, NEW y \in Nat, NEW m \in Nat, x >= m \/ y >= m
  PROVE  x + y >= m
OBVIOUS

\* handleUnderflow, where the entries of b go to a: l is the one that is short.
LEMMA MergeWhole ==
  ASSUME NEW ns, NEW ns2, NEW root, NEW lev, NEW low, NEW high, NEW cont,
         NEW p, NEW q, NEW a, NEW b, NEW l, Typed(ns), l \in {a, b},
         Lean(ns, root, lev, low, high, l, cont), Neighbours(ns, lev, p, q, a, b),
         Len(ns2) = Len(ns), MergedLeaf(ns2[a], ns[a], ns[b]),
         WithoutChild(ns2[p], ns[p], q), SameOn(ns2, ns, DOMAIN lev \ {a, b, p})
  PROVE  \E lev2, low2, high2 : Whole(ns2, root, lev2, low2, high2, cont)
<1>1. /\ Tree(ns, root, lev, low, high, high, NoNode)
      /\ Filled(ns, root, lev, high, l) /\ Holds(ns, lev, cont)
  BY DEF Lean
<1>2. /\ a \in DOMAIN lev /\ b \in DOMAIN lev /\ lev[a] = 0 /\ lev[b] = 0 /\ lev[p] = 1
      /\ a # b /\ a # root /\ b # root
  BY <1>1, NeighboursAre
<1>3. PICK lev2, low2, high2 : MergedBounds(lev2, low2, high2, lev, low, high, a, b)
  BY <1>2, MergedBoundsExist
<1>4. a \in 1 .. Len(ns) /\ b \in 1 .. Len(ns) /\ Len(ns) \in Nat
  BY <1>1, <1>2 DEF Tree, Ghosts, Typed
<1>5. /\ ns[a].keys \in Seq(Key) /\ ns[b].keys \in Seq(Key)
      /\ Len(ns[a].keys) \in Nat /\ Len(ns[b].keys) \in Nat
  BY <1>4, TypedNode, NodeInFields
<1>6. Tree(ns2, root, lev2, low2, high2, high2, NoNode)
  BY <1>1, <1>3, <1>5, Merge
<1>7. /\ DOMAIN lev2 = DOMAIN lev \ {b} /\ \A i \in DOMAIN lev : i # b => lev2[i] = lev[i]
      /\ \A i \in DOMAIN lev : i # b /\ i # a => high2[i] = high[i]
  BY <1>3 DEF MergedBounds
<1>8. Leaves(lev2) = Leaves(lev) \ {b} /\ {a, b} \subseteq Leaves(lev)
  BY <1>2, <1>7 DEF Leaves
<1>9. SameEntries(ns2, ns, Leaves(lev) \ {a, b})
  BY <1>2 DEF SameOn, SameEntries, Leaves
<1>10. Len(ns[a].values) = Len(ns[a].keys) /\ Len(ns[b].values) = Len(ns[b].keys)
  BY <1>1, <1>2 DEF Tree, LeafOK
<1>11. Traded(ns2, {a}, ns, {a, b})
  <2>1. \A x, w : Has(ns2[a], x, w) <=> Has(ns[a], x, w) \/ Has(ns[b], x, w)
    BY <1>5, <1>10, HasJoined DEF MergedLeaf
  <2>2. QED BY <2>1 DEF Traded
<1>12. Holds(ns2, lev2, cont)
  <2>1. {a} \subseteq Leaves(lev2) /\ Leaves(lev) \ {a, b} = Leaves(lev2) \ {a}
    BY <1>2, <1>8
  <2>2. QED BY <1>1, <1>8, <1>9, <1>11, <2>1, HoldsTraded
<1>13. Len(ns2[a].keys) >= minLeafKeys
  <2>1. Len(ns2[a].keys) = Len(ns[a].keys) + Len(ns[b].keys) BY DEF MergedLeaf, Joined
  <2>2. Len(ns[a].keys) >= minLeafKeys \/ Len(ns[b].keys) >= minLeafKeys
    BY <1>1, <1>2, <1>8 DEF Filled
  <2>3. minLeafKeys \in Nat BY Thresholds
  <2>4. Len(ns[a].keys) + Len(ns[b].keys) >= minLeafKeys BY <1>5, <2>2, <2>3, EnoughTogether
  <2>5. QED BY <2>1, <2>4
<1>14. Filled(ns2, root, lev2, high2, NoNode)
  <2> SUFFICES ASSUME NEW i \in Leaves(lev2)
               PROVE  i = NoNode \/ Len(ns2[i].keys) >= minLeafKeys \/ (i = root /\ high2[i] = Int)
    BY DEF Filled
  <2>1. CASE i = a BY <1>13, <2>1
  <2>2. CASE i # a
    <3>1. i \in Leaves(lev) /\ i \in DOMAIN lev /\ i # b BY <1>8 DEF Leaves
    <3>2. high2[i] = high[i] BY <1>7, <2>2, <3>1
    <3>3. ns2[i].keys = ns[i].keys BY <1>9, <2>2, <3>1 DEF SameEntries
    <3>4. QED BY <1>1, <2>2, <3>1, <3>2, <3>3 DEF Filled
  <2>3. QED BY <2>1, <2>2
<1>15. QED BY <1>6, <1>12, <1>14 DEF Whole

\* The end of remove: the only child of the root becomes the root.
LEMMA ShrinkWhole ==
  ASSUME NEW ns, NEW ns2, NEW root, NEW lev, NEW low, NEW high, NEW cont, NEW c,
         Whole(ns, root, lev, low, high, cont), Len(ns2) = Len(ns), Len(ns) \in Nat,
         lev[root] # 0, Len(ns[root].keys) = 0, c = ns[root].childIndices[1],
         SameOn(ns2, ns, DOMAIN lev \ {c}), SameInner(ns2[c], ns[c]),
         ns2[c].values = ns[c].values, ns2[c].nextLeafIdx = ns[c].nextLeafIdx,
         ns2[c].isRoot = TRUE, ns2[c].parentIdx = NoNode
  PROVE  \E lev2, low2, high2 : Whole(ns2, c, lev2, low2, high2, cont)
<1>1. /\ Tree(ns, root, lev, low, high, high, NoNode)
      /\ Filled(ns, root, lev, high, NoNode) /\ Holds(ns, lev, cont)
  BY DEF Whole
<1>2. PICK lev2, low2, high2 : FewerBounds(lev2, low2, high2, lev, low, high, root)
  BY FewerBoundsExist
<1>3. Tree(ns2, c, lev2, low2, high2, high2, NoNode)
  BY <1>1, <1>2, Shrink
<1>4. Leaves(lev2) = Leaves(lev) /\ root \notin Leaves(lev)
      /\ \A i \in Leaves(lev) : high2[i] = high[i]
  BY <1>2 DEF Leaves, FewerBounds
<1>5. SameEntries(ns2, ns, Leaves(lev))
  BY DEF SameEntries, SameOn, SameInner, Leaves
<1>6. Holds(ns2, lev2, cont) /\ Filled(ns2, root, lev2, high2, NoNode)
  BY <1>1, <1>4, <1>5, HoldsSame, FilledSame
<1>7. Filled(ns2, c, lev2, high2, NoNode)
  BY <1>4, <1>6 DEF Filled
<1>8. QED BY <1>3, <1>6, <1>7 DEF Whole

\* The tree that is one leaf without keys has no entry.
LEMMA EmptyLeaf ==
  ASSUME NEW ns, NEW root, NEW lev, NEW low, NEW high, NEW cont,
         Whole(ns, root, lev, low, high, cont), cont \in [Key -> RID \cup {NoRID}],
         lev[root] = 0, Len(ns[root].keys) = 0
  PROVE  \A k \in Key : cont[k] = NoRID
<1>1. Tree(ns, root, lev, low, high, high, NoNode) /\ Holds(ns, lev, cont)
  BY DEF Whole
<1>2. \A i \in Leaves(lev) : i = root
  BY <1>1, OnlyLeaf DEF Leaves
<1>3. \A x, v : \A i \in Leaves(lev) : ~Has(ns[i], x, v)
  BY <1>2 DEF Has
<1>4. \A k \in Key : \A v \in RID : cont[k] # v
  BY <1>1, <1>3 DEF Holds
<1>5. QED BY <1>4

\* pop_back.
LEMMA FrontIs ==
  ASSUME NEW S, NEW s \in Seq(S), Len(s) >= 1
  PROVE  Front(s) \in Seq(S) /\ Removed(Front(s), s, Len(s))
<1>1. Len(s) \in Nat /\ Len(s) - 1 \in Nat /\ Len(s) - 1 <= Len(s) /\ 1 <= Len(s) - 1 + 1
  OBVIOUS
<1>2. Front(s) = SubSeq(s, 1, Len(s) - 1)
  BY DEF Front
<1>3. Front(s) \in Seq(S) /\ Part(Front(s), s, 1, Len(s) - 1)
  BY <1>1, <1>2, PartIs
<1>4. /\ Len(Front(s)) = Len(s) - 1
      /\ \A j \in 1 .. Len(s) - 1 : Front(s)[j] = s[j]
  BY <1>1, <1>3 DEF Part
<1>5. QED BY <1>1, <1>3, <1>4 DEF Removed

\* erase(begin()).
LEMMA TailIs ==
  ASSUME NEW S, NEW s \in Seq(S), Len(s) >= 1
  PROVE  Tail(s) \in Seq(S) /\ Removed(Tail(s), s, 1)
<1>1. s # <<>> /\ Len(s) \in Nat
  OBVIOUS
<1>2. /\ Tail(s) \in Seq(S) /\ Len(Tail(s)) = Len(s) - 1
      /\ \A j \in 1 .. Len(s) - 1 : Tail(s)[j] = s[j + 1]
  BY <1>1, HeadTailProperties
<1>3. QED BY <1>1, <1>2 DEF Removed

\* insert at begin().
LEMMA FirstIs ==
  ASSUME NEW S, NEW s \in Seq(S), NEW e \in S
  PROVE  <<e>> \o s \in Seq(S) /\ Inserted(<<e>> \o s, s, 1, e)
<1> DEFINE m == <<e>>
           t == m \o s
<1>1. m \in Seq(S) /\ Len(m) = 1 /\ m[1] = e
  OBVIOUS
<1> HIDE DEF m
<1>2. t \in Seq(S) /\ Joined(t, m, s)
  BY <1>1, JoinIs
<1> HIDE DEF t
<1>3. Len(s) \in Nat /\ Len(t) = Len(s) + 1 /\ t[1] = e
  BY <1>1, <1>2 DEF Joined
<1>4. ASSUME NEW j \in 1 + 1 .. Len(s) + 1 PROVE t[j] = s[j - 1]
  <2>1. j - 1 \in 1 .. Len(s) /\ 1 + (j - 1) = j BY <1>3
  <2>2. t[Len(m) + (j - 1)] = s[j - 1] BY <1>2, <2>1 DEF Joined
  <2>3. QED BY <1>1, <2>1, <2>2
<1>5. Inserted(t, s, 1, e)
  BY <1>3, <1>4 DEF Inserted
<1>6. QED BY <1>2, <1>5 DEF t, m

\* push_back.
LEMMA LastIs ==
  ASSUME NEW S, NEW s \in Seq(S), NEW e \in S
  PROVE  Append(s, e) \in Seq(S) /\ Inserted(Append(s, e), s, Len(s) + 1, e)
<1>1. /\ Append(s, e) \in Seq(S) /\ Len(s) \in Nat /\ Len(Append(s, e)) = Len(s) + 1
      /\ Append(s, e)[Len(s) + 1] = e /\ \A j \in 1 .. Len(s) : Append(s, e)[j] = s[j]
  OBVIOUS
<1>2. QED BY <1>1 DEF Inserted

\* A key is replaced.
LEMMA ReplaceIs ==
  ASSUME NEW S, NEW s \in Seq(S), NEW q \in 1 .. Len(s), NEW e \in S
  PROVE  [s EXCEPT ![q] = e] \in Seq(S) /\ Replaced([s EXCEPT ![q] = e], s, q, e)
BY DEF Replaced

\* The siblings of a leaf, and its parent, in handleUnderflow.
takesFirst(n, k, v) == [n EXCEPT !.keys = <<k>> \o @, !.values = <<v>> \o @]
takesLast(n, k, v) == [n EXCEPT !.keys = Append(@, k), !.values = Append(@, v)]
givesLast(n) == [n EXCEPT !.keys = Front(@), !.values = Front(@)]
givesFirst(n) == [n EXCEPT !.keys = Tail(@), !.values = Tail(@)]
newSeparator(n, q, s) == [n EXCEPT !.keys[q] = s]
takesAll(n, r) == [n EXCEPT !.keys = @ \o r.keys, !.values = @ \o r.values,
                            !.nextLeafIdx = r.nextLeafIdx]
dropChild(n, q) == [n EXCEPT !.keys = RemoveAt(@, q), !.childIndices = RemoveAt(@, q + 1)]

\* Three nodes of the vector are replaced.
Put3(ns2, ns, a, x, b, y, c, z) ==
  /\ ns2 = [i \in 1 .. Len(ns) |-> ns2[i]] /\ ns2[a] = x /\ ns2[b] = y /\ ns2[c] = z
  /\ \A i \in 1 .. Len(ns) \ {a, b, c} : ns2[i] = ns[i]

\* borrowFromLeft changes the leaf, its left sibling and the separator in their parent.
LEMMA BorrowLeftPuts ==
  ASSUME NEW ns, Typed(ns), NEW l \in 1 .. Len(ns), NEW p \in 1 .. Len(ns), NEW pos,
         NEW sib \in 1 .. Len(ns), ns[p].childIndices[pos - 1] = sib,
         l # p, l # sib, p # sib
  PROVE  Put3(borrowLeft(ns, l, p, pos), ns,
              l, takesFirst(ns[l], Last(ns[sib].keys), Last(ns[sib].values)),
              sib, givesLast(ns[sib]),
              p, newSeparator(ns[p], pos - 1, Last(ns[sib].keys)))
<1> DEFINE ns2 == borrowLeft(ns, l, p, pos)
<1>1. DOMAIN ns = 1 .. Len(ns) /\ \A i \in 1 .. Len(ns) : ns[i] \in NodeIn(Len(ns))
  BY TypedNode
<1>2. \A i \in 1 .. Len(ns) : DOMAIN ns[i] = {"type", "isRoot", "parentIdx", "keys", "values",
                                            "childIndices", "nextLeafIdx"}
  BY <1>1 DEF NodeIn
<1>3. ns2[l] = takesFirst(ns[l], Last(ns[sib].keys), Last(ns[sib].values))
  BY <1>1, <1>2 DEF borrowLeft, takesFirst
<1>4. ns2[sib] = givesLast(ns[sib])
  BY <1>1, <1>2 DEF borrowLeft, givesLast
<1>5. ns2[p] = newSeparator(ns[p], pos - 1, Last(ns[sib].keys))
  BY <1>1, <1>2 DEF borrowLeft, newSeparator
<1>6. \A i \in 1 .. Len(ns) \ {l, sib, p} : ns2[i] = ns[i]
  BY <1>1, <1>2 DEF borrowLeft
<1>7. ns2 = [i \in 1 .. Len(ns) |-> ns2[i]]
  BY <1>1, <1>2 DEF borrowLeft
<1>8. QED BY <1>3, <1>4, <1>5, <1>6, <1>7 DEF Put3

\* The same, where the right sibling gives its first entry.
LEMMA BorrowRightPuts ==
  ASSUME NEW ns, Typed(ns), NEW l \in 1 .. Len(ns), NEW p \in 1 .. Len(ns), NEW pos,
         NEW sib \in 1 .. Len(ns), ns[p].childIndices[pos + 1] = sib,
         l # p, l # sib, p # sib
  PROVE  Put3(borrowRight(ns, l, p, pos), ns,
              l, takesLast(ns[l], Head(ns[sib].keys), Head(ns[sib].values)),
              sib, givesFirst(ns[sib]),
              p, newSeparator(ns[p], pos, ns[sib].keys[2]))
<1> DEFINE ns2 == borrowRight(ns, l, p, pos)
<1>1. DOMAIN ns = 1 .. Len(ns) /\ \A i \in 1 .. Len(ns) : ns[i] \in NodeIn(Len(ns))
  BY TypedNode
<1>2. \A i \in 1 .. Len(ns) : DOMAIN ns[i] = {"type", "isRoot", "parentIdx", "keys", "values",
                                            "childIndices", "nextLeafIdx"}
  BY <1>1 DEF NodeIn
<1>3. ns2[l] = takesLast(ns[l], Head(ns[sib].keys), Head(ns[sib].values))
  BY <1>1, <1>2 DEF borrowRight, takesLast
<1>4. ns2[sib] = givesFirst(ns[sib])
  BY <1>1, <1>2 DEF borrowRight, givesFirst
<1>5. ns2[p] = newSeparator(ns[p], pos, ns[sib].keys[2])
  BY <1>1, <1>2 DEF borrowRight, newSeparator
<1>6. \A i \in 1 .. Len(ns) \ {l, sib, p} : ns2[i] = ns[i]
  BY <1>1, <1>2 DEF borrowRight
<1>7. ns2 = [i \in 1 .. Len(ns) |-> ns2[i]]
  BY <1>1, <1>2 DEF borrowRight
<1>8. QED BY <1>3, <1>4, <1>5, <1>6, <1>7 DEF Put3

\* The same, where the entries of b go to a.
LEMMA MergePuts ==
  ASSUME NEW ns, Typed(ns), NEW a \in 1 .. Len(ns), NEW p \in 1 .. Len(ns), NEW q,
         NEW b \in 1 .. Len(ns), ns[p].childIndices[q] = a, ns[p].childIndices[q + 1] = b,
         a # p, a # b, p # b
  PROVE  Put3(merge(ns, p, q), ns, a, takesAll(ns[a], ns[b]), b, ns[b],
              p, dropChild(ns[p], q))
<1> DEFINE ns2 == merge(ns, p, q)
<1>1. DOMAIN ns = 1 .. Len(ns) /\ \A i \in 1 .. Len(ns) : ns[i] \in NodeIn(Len(ns))
  BY TypedNode
<1>2. \A i \in 1 .. Len(ns) : DOMAIN ns[i] = {"type", "isRoot", "parentIdx", "keys", "values",
                                            "childIndices", "nextLeafIdx"}
  BY <1>1 DEF NodeIn
<1>3. ns2[a] = takesAll(ns[a], ns[b])
  BY <1>1, <1>2 DEF merge, takesAll
<1>4. ns2[p] = dropChild(ns[p], q)
  BY <1>1, <1>2 DEF merge, dropChild
<1>5. \A i \in 1 .. Len(ns) \ {a, p} : ns2[i] = ns[i]
  BY <1>1, <1>2 DEF merge
<1>6. ns2 = [i \in 1 .. Len(ns) |-> ns2[i]]
  BY <1>1, <1>2 DEF merge
<1>7. QED BY <1>3, <1>4, <1>5, <1>6 DEF Put3

\* Three nodes are replaced by nodes.
LEMMA Put3Is ==
  ASSUME NEW ns, Typed(ns), NEW ns2, NEW a, NEW b, NEW c, NEW x \in NodeIn(Len(ns)),
         NEW y \in NodeIn(Len(ns)), NEW z \in NodeIn(Len(ns)), Put3(ns2, ns, a, x, b, y, c, z)
  PROVE  Typed(ns2) /\ Len(ns2) = Len(ns)
<1>1. Len(ns) \in Nat /\ \A i \in 1 .. Len(ns) : ns[i] \in NodeIn(Len(ns))
  BY TypedNode
<1>2. \A i \in 1 .. Len(ns) : ns2[i] \in NodeIn(Len(ns))
  BY <1>1 DEF Put3
<1>3. ns2 = [i \in 1 .. Len(ns) |-> ns2[i]]
  BY DEF Put3
<1>4. QED BY <1>1, <1>2, <1>3, TypedByNode

\* The leaf gets an entry before the others.
LEMMA TakesFirstIs ==
  ASSUME NEW N \in Nat, NEW n \in NodeIn(N), NEW k \in Key, NEW v \in RID,
         Len(n.values) = Len(n.keys)
  PROVE  /\ takesFirst(n, k, v) \in NodeIn(N) /\ SameLinks(takesFirst(n, k, v), n)
         /\ OneMore(takesFirst(n, k, v), n, 1, k, v)
<1> DEFINE ks == <<k>> \o n.keys
           vs == <<v>> \o n.values
           n2 == takesFirst(n, k, v)
<1>1. n.keys \in Seq(Key) /\ n.values \in Seq(RID) /\ Len(n.keys) \in Nat
      /\ 1 \in 1 .. Len(n.keys) + 1
  BY NodeInFields
<1>2. n2 = [n EXCEPT !.keys = ks, !.values = vs]
  BY DEF takesFirst
<1>3. ks \in Seq(Key) /\ Inserted(ks, n.keys, 1, k)
  BY <1>1, FirstIs
<1>4. vs \in Seq(RID) /\ Inserted(vs, n.values, 1, v)
  BY <1>1, FirstIs
<1> HIDE DEF ks, vs, n2
<1>5. n2 \in NodeIn(N)
  BY <1>2, <1>3, <1>4 DEF NodeIn
<1>6. n2.keys = ks /\ n2.values = vs
  BY <1>2 DEF NodeIn
<1>7. SameLinks(n2, n)
  BY <1>2 DEF SameLinks, NodeIn
<1>8. OneMore(n2, n, 1, k, v)
  BY <1>1, <1>3, <1>4, <1>6 DEF OneMore
<1>9. QED BY <1>5, <1>7, <1>8 DEF n2

\* The leaf gets an entry behind the others.
LEMMA TakesLastIs ==
  ASSUME NEW N \in Nat, NEW n \in NodeIn(N), NEW k \in Key, NEW v \in RID,
         Len(n.values) = Len(n.keys)
  PROVE  /\ takesLast(n, k, v) \in NodeIn(N) /\ SameLinks(takesLast(n, k, v), n)
         /\ OneMore(takesLast(n, k, v), n, Len(n.keys) + 1, k, v)
<1> DEFINE ks == Append(n.keys, k)
           vs == Append(n.values, v)
           n2 == takesLast(n, k, v)
<1>1. n.keys \in Seq(Key) /\ n.values \in Seq(RID) /\ Len(n.keys) \in Nat
      /\ Len(n.keys) + 1 \in 1 .. Len(n.keys) + 1
  BY NodeInFields
<1>2. n2 = [n EXCEPT !.keys = ks, !.values = vs]
  BY DEF takesLast
<1>3. ks \in Seq(Key) /\ Inserted(ks, n.keys, Len(n.keys) + 1, k)
  BY <1>1, LastIs
<1>4. vs \in Seq(RID) /\ Inserted(vs, n.values, Len(n.values) + 1, v)
  BY <1>1, LastIs
<1> HIDE DEF ks, vs, n2
<1>5. n2 \in NodeIn(N)
  BY <1>2, <1>3, <1>4 DEF NodeIn
<1>6. n2.keys = ks /\ n2.values = vs
  BY <1>2 DEF NodeIn
<1>7. SameLinks(n2, n)
  BY <1>2 DEF SameLinks, NodeIn
<1>8. OneMore(n2, n, Len(n.keys) + 1, k, v)
  BY <1>1, <1>3, <1>4, <1>6 DEF OneMore
<1>9. QED BY <1>5, <1>7, <1>8 DEF n2

\* The leaf loses its last entry.
LEMMA GivesLastIs ==
  ASSUME NEW N \in Nat, NEW n \in NodeIn(N), Len(n.values) = Len(n.keys), Len(n.keys) >= 1
  PROVE  /\ givesLast(n) \in NodeIn(N) /\ SameLinks(givesLast(n), n)
         /\ OneLess(givesLast(n), n, Len(n.keys))
<1> DEFINE ks == Front(n.keys)
           vs == Front(n.values)
           n2 == givesLast(n)
<1>1. n.keys \in Seq(Key) /\ n.values \in Seq(RID) /\ Len(n.keys) \in Nat
      /\ Len(n.keys) \in 1 .. Len(n.keys) /\ Len(n.values) >= 1
  BY NodeInFields
<1>2. n2 = [n EXCEPT !.keys = ks, !.values = vs]
  BY DEF givesLast
<1>3. ks \in Seq(Key) /\ Removed(ks, n.keys, Len(n.keys))
  BY <1>1, FrontIs
<1>4. vs \in Seq(RID) /\ Removed(vs, n.values, Len(n.values))
  BY <1>1, FrontIs
<1> HIDE DEF ks, vs, n2
<1>5. n2 \in NodeIn(N)
  BY <1>2, <1>3, <1>4 DEF NodeIn
<1>6. n2.keys = ks /\ n2.values = vs
  BY <1>2 DEF NodeIn
<1>7. SameLinks(n2, n)
  BY <1>2 DEF SameLinks, NodeIn
<1>8. OneLess(n2, n, Len(n.keys))
  BY <1>1, <1>3, <1>4, <1>6 DEF OneLess
<1>9. QED BY <1>5, <1>7, <1>8 DEF n2

\* The leaf loses its first entry.
LEMMA GivesFirstIs ==
  ASSUME NEW N \in Nat, NEW n \in NodeIn(N), Len(n.values) = Len(n.keys), Len(n.keys) >= 1
  PROVE  /\ givesFirst(n) \in NodeIn(N) /\ SameLinks(givesFirst(n), n)
         /\ OneLess(givesFirst(n), n, 1)
<1> DEFINE ks == Tail(n.keys)
           vs == Tail(n.values)
           n2 == givesFirst(n)
<1>1. n.keys \in Seq(Key) /\ n.values \in Seq(RID) /\ Len(n.keys) \in Nat
      /\ 1 \in 1 .. Len(n.keys) /\ Len(n.values) >= 1
  BY NodeInFields
<1>2. n2 = [n EXCEPT !.keys = ks, !.values = vs]
  BY DEF givesFirst
<1>3. ks \in Seq(Key) /\ Removed(ks, n.keys, 1)
  BY <1>1, TailIs
<1>4. vs \in Seq(RID) /\ Removed(vs, n.values, 1)
  BY <1>1, TailIs
<1> HIDE DEF ks, vs, n2
<1>5. n2 \in NodeIn(N)
  BY <1>2, <1>3, <1>4 DEF NodeIn
<1>6. n2.keys = ks /\ n2.values = vs
  BY <1>2 DEF NodeIn
<1>7. SameLinks(n2, n)
  BY <1>2 DEF SameLinks, NodeIn
<1>8. OneLess(n2, n, 1)
  BY <1>1, <1>3, <1>4, <1>6 DEF OneLess
<1>9. QED BY <1>5, <1>7, <1>8 DEF n2

\* The parent gets a new separator.
LEMMA NewSeparatorIs ==
  ASSUME NEW N \in Nat, NEW n \in NodeIn(N), NEW q \in 1 .. Len(n.keys), NEW s \in Key
  PROVE  newSeparator(n, q, s) \in NodeIn(N) /\ WithSeparator(newSeparator(n, q, s), n, q, s)
<1> DEFINE ks == [n.keys EXCEPT ![q] = s]
           n2 == newSeparator(n, q, s)
<1>1. n.keys \in Seq(Key)
  BY NodeInFields
<1>2. n2 = [n EXCEPT !.keys = ks]
  BY DEF newSeparator
<1>3. ks \in Seq(Key) /\ Replaced(ks, n.keys, q, s)
  BY <1>1, ReplaceIs
<1> HIDE DEF ks, n2
<1>4. n2 \in NodeIn(N)
  BY <1>2, <1>3 DEF NodeIn
<1>5. /\ n2.keys = ks /\ n2.childIndices = n.childIndices /\ n2.type = n.type
      /\ n2.isRoot = n.isRoot /\ n2.parentIdx = n.parentIdx
  BY <1>2 DEF NodeIn
<1>6. WithSeparator(n2, n, q, s)
  BY <1>3, <1>5 DEF WithSeparator
<1>7. QED BY <1>4, <1>6 DEF n2

\* The leaf gets the entries of its right neighbour.
LEMMA TakesAllIs ==
  ASSUME NEW N \in Nat, NEW n \in NodeIn(N), NEW r \in NodeIn(N)
  PROVE  takesAll(n, r) \in NodeIn(N) /\ MergedLeaf(takesAll(n, r), n, r)
<1> DEFINE ks == n.keys \o r.keys
           vs == n.values \o r.values
           n2 == takesAll(n, r)
<1>1. /\ n.keys \in Seq(Key) /\ n.values \in Seq(RID) /\ r.keys \in Seq(Key)
      /\ r.values \in Seq(RID) /\ r.nextLeafIdx \in 0 .. N
  BY NodeInFields
<1>2. n2 = [n EXCEPT !.keys = ks, !.values = vs, !.nextLeafIdx = r.nextLeafIdx]
  BY DEF takesAll
<1>3. ks \in Seq(Key) /\ Joined(ks, n.keys, r.keys)
  BY <1>1, JoinIs
<1>4. vs \in Seq(RID) /\ Joined(vs, n.values, r.values)
  BY <1>1, JoinIs
<1> HIDE DEF ks, vs, n2
<1>5. n2 \in NodeIn(N)
  BY <1>1, <1>2, <1>3, <1>4 DEF NodeIn
<1>6. /\ n2.keys = ks /\ n2.values = vs /\ n2.nextLeafIdx = r.nextLeafIdx
      /\ n2.type = n.type /\ n2.isRoot = n.isRoot /\ n2.parentIdx = n.parentIdx
  BY <1>2 DEF NodeIn
<1>7. MergedLeaf(n2, n, r)
  BY <1>3, <1>4, <1>6 DEF MergedLeaf
<1>8. QED BY <1>5, <1>7 DEF n2

\* The parent loses a separator and the child behind it.
LEMMA DropChildIs ==
  ASSUME NEW N \in Nat, NEW n \in NodeIn(N), NEW q \in 1 .. Len(n.keys),
         Len(n.childIndices) = Len(n.keys) + 1
  PROVE  dropChild(n, q) \in NodeIn(N) /\ WithoutChild(dropChild(n, q), n, q)
<1> DEFINE ks == RemoveAt(n.keys, q)
           cs == RemoveAt(n.childIndices, q + 1)
           n2 == dropChild(n, q)
<1>1. /\ n.keys \in Seq(Key) /\ n.childIndices \in Seq(1 .. N) /\ Len(n.keys) \in Nat
      /\ q + 1 \in 1 .. Len(n.childIndices)
  BY NodeInFields
<1>2. n2 = [n EXCEPT !.keys = ks, !.childIndices = cs]
  BY DEF dropChild
<1>3. ks \in Seq(Key) /\ Removed(ks, n.keys, q)
  BY <1>1, RemoveAtIs
<1>4. cs \in Seq(1 .. N) /\ Removed(cs, n.childIndices, q + 1)
  BY <1>1, RemoveAtIs
<1> HIDE DEF ks, cs, n2
<1>5. n2 \in NodeIn(N)
  BY <1>2, <1>3, <1>4 DEF NodeIn
<1>6. /\ n2.keys = ks /\ n2.childIndices = cs
      /\ n2.type = n.type /\ n2.isRoot = n.isRoot /\ n2.parentIdx = n.parentIdx
  BY <1>2 DEF NodeIn
<1>7. WithoutChild(n2, n, q)
  BY <1>3, <1>4, <1>6 DEF WithoutChild
<1>8. QED BY <1>5, <1>7 DEF n2

\* Two leaves next to each other, and their parent.
LEMMA NeighbourNodes ==
  ASSUME NEW ns, NEW root, NEW lev, NEW low, NEW high, Typed(ns),
         Tree(ns, root, lev, low, high, high, NoNode),
         NEW p, NEW q, NEW a, NEW b, Neighbours(ns, lev, p, q, a, b)
  PROVE  /\ Len(ns) \in Nat /\ a \in 1 .. Len(ns) /\ b \in 1 .. Len(ns) /\ p \in 1 .. Len(ns)
         /\ ns[a] \in NodeIn(Len(ns)) /\ ns[b] \in NodeIn(Len(ns)) /\ ns[p] \in NodeIn(Len(ns))
         /\ ns[a].keys \in Seq(Key) /\ ns[b].keys \in Seq(Key)
         /\ Len(ns[a].values) = Len(ns[a].keys) /\ Len(ns[b].values) = Len(ns[b].keys)
         /\ Ordered(ns[a].keys, low[a], high[a]) /\ Ordered(ns[b].keys, low[b], high[b])
         /\ q \in 1 .. Len(ns[p].keys) /\ Len(ns[p].childIndices) = Len(ns[p].keys) + 1
<1>1. /\ a \in DOMAIN lev /\ b \in DOMAIN lev /\ lev[a] = 0 /\ lev[b] = 0
      /\ p \in DOMAIN lev /\ lev[p] # 0
  BY NeighboursAre DEF Neighbours
<1>2. DOMAIN lev \subseteq 1 .. Len(ns) /\ Len(ns) \in Nat
  BY DEF Tree, Ghosts, Typed
<1>3. a \in 1 .. Len(ns) /\ b \in 1 .. Len(ns) /\ p \in 1 .. Len(ns)
  BY <1>1, <1>2
<1>4. ns[a] \in NodeIn(Len(ns)) /\ ns[b] \in NodeIn(Len(ns)) /\ ns[p] \in NodeIn(Len(ns))
  BY <1>3, TypedNode
<1>5. ns[a].keys \in Seq(Key) /\ ns[b].keys \in Seq(Key)
  BY <1>2, <1>4, NodeInFields
<1>6. LeafOK(ns, a, lev, low, high) /\ LeafOK(ns, b, lev, low, high)
      /\ InnerOK(ns, p, lev, low, high, high, NoNode)
  BY <1>1 DEF Tree
<1>7. NodeOK(ns, a, root, low, high) /\ NodeOK(ns, b, root, low, high)
  BY <1>1 DEF Tree
<1>8. Ordered(ns[a].keys, low[a], high[a]) /\ Ordered(ns[b].keys, low[b], high[b])
  BY <1>7 DEF NodeOK
<1>9. /\ Len(ns[a].values) = Len(ns[a].keys) /\ Len(ns[b].values) = Len(ns[b].keys)
      /\ Len(ns[p].childIndices) = Len(ns[p].keys) + 1
  BY <1>6 DEF LeafOK, InnerOK
<1>10. q \in 1 .. Len(ns[p].keys)
  BY DEF Neighbours
<1>11. QED BY <1>2, <1>3, <1>4, <1>5, <1>8, <1>9, <1>10

\* The keys of a leaf without the last, which becomes the separator.
LEMMA WithoutLast ==
  ASSUME NEW ks \in Seq(Key), NEW t, NEW lo, NEW hi, Ordered(ks, lo, hi), Len(ks) >= 2,
         Removed(t, ks, Len(ks))
  PROVE  Ordered(t, lo, Cut(ks[Len(ks)])) /\ 1 \in 1 .. Len(t)
<1>1. /\ Len(ks) \in Nat /\ Len(t) = Len(ks) - 1 /\ \A j \in 1 .. Len(ks) - 1 : t[j] = ks[j]
      /\ \A j \in 1 .. Len(ks) : ks[j] \in Int
  BY KeysAreInts DEF Removed
<1>2. /\ \A i, j \in 1 .. Len(ks) : i < j => ks[i] < ks[j]
      /\ \A i \in 1 .. Len(ks) : ks[i] \in hi /\ ks[i] \notin lo
  BY DEF Ordered
<1>3. \A i \in 1 .. Len(t) : /\ i \in 1 .. Len(ks) - 1 /\ i \in 1 .. Len(ks) /\ i < Len(ks)
                             /\ Len(ks) \in 1 .. Len(ks)
  BY <1>1
<1>4. \A i, j \in 1 .. Len(t) : i < j => t[i] < t[j]
  BY <1>1, <1>2, <1>3
<1>5. \A i \in 1 .. Len(t) : t[i] \in Int /\ t[i] < ks[Len(ks)] /\ t[i] \notin lo
  BY <1>1, <1>2, <1>3
<1>6. Ordered(t, lo, Cut(ks[Len(ks)]))
  BY <1>4, <1>5 DEF Ordered, Cut
<1>7. QED BY <1>1, <1>6

\* The keys of a leaf without the first; the second becomes the separator.
LEMMA WithoutFirst ==
  ASSUME NEW ks \in Seq(Key), NEW t, NEW lo, NEW hi, Ordered(ks, lo, hi), Len(ks) >= 2,
         Removed(t, ks, 1)
  PROVE  Ordered(t, Cut(ks[2]), hi) /\ 1 \in 1 .. Len(t)
<1>1. /\ Len(ks) \in Nat /\ Len(t) = Len(ks) - 1 /\ \A j \in 1 .. Len(ks) - 1 : t[j] = ks[j + 1]
      /\ \A j \in 1 .. Len(ks) : ks[j] \in Int
  BY KeysAreInts DEF Removed
<1>2. /\ \A i, j \in 1 .. Len(ks) : i < j => ks[i] < ks[j]
      /\ \A i \in 1 .. Len(ks) : ks[i] \in hi /\ ks[i] \notin lo
  BY DEF Ordered
<1>3. \A i \in 1 .. Len(t) : /\ i \in 1 .. Len(ks) - 1 /\ i + 1 \in 1 .. Len(ks)
                             /\ (2 < i + 1 \/ 2 = i + 1) /\ 2 \in 1 .. Len(ks)
  BY <1>1
<1>4. \A i, j \in 1 .. Len(t) : i < j => t[i] < t[j]
  <2> TAKE i, j \in 1 .. Len(t)
  <2>1. i < j => i + 1 < j + 1 BY <1>1
  <2>2. QED BY <1>1, <1>2, <1>3, <2>1
<1>5. \A i \in 1 .. Len(t) : t[i] \in Int /\ ~(t[i] < ks[2]) /\ t[i] \in hi
  <2> TAKE i \in 1 .. Len(t)
  <2>1. t[i] = ks[i + 1] /\ ks[i + 1] \in Int /\ ks[2] \in Int /\ ks[i + 1] \in hi
    BY <1>1, <1>2, <1>3
  <2>2. ks[2] < ks[i + 1] \/ ks[2] = ks[i + 1] BY <1>2, <1>3
  <2>3. QED BY <2>1, <2>2
<1>6. Ordered(t, Cut(ks[2]), hi)
  BY <1>4, <1>5 DEF Ordered, Cut
<1>7. QED BY <1>1, <1>6

\* A leaf gets the separator before its own keys.
LEMMA WithFirst ==
  ASSUME NEW ks \in Seq(Key), NEW t, NEW lo, NEW hi, Ordered(ks, lo, hi), Span(lo, hi),
         NEW s \in Int, s \in lo, Inserted(t, ks, 1, s)
  PROVE  Ordered(t, Cut(s), hi) /\ 1 \in 1 .. Len(t)
<1>1. Len(ks) \in Nat /\ Len(t) = Len(ks) + 1 /\ \A j \in 1 .. Len(ks) : ks[j] \in Int
  BY KeysAreInts DEF Inserted
<1>2. /\ \A i, j \in 1 .. Len(ks) : i < j => ks[i] < ks[j]
      /\ \A i \in 1 .. Len(ks) : ks[i] \in hi /\ ks[i] \notin lo
  BY DEF Ordered
<1>3. Down(lo) /\ s \in hi
  BY SpanNested DEF Span
<1>4. \A i \in 1 .. Len(ks) : s < ks[i]
  BY <1>1, <1>2, <1>3, Below
<1>5. Ordered(ks, Cut(s), hi)
  <2>1. \A i \in 1 .. Len(ks) : ks[i] \notin Cut(s) BY <1>1, <1>4 DEF Cut
  <2>2. QED BY <1>2, <2>1 DEF Ordered
<1>6. Between(ks, 1, s) /\ 1 \in 1 .. Len(ks) + 1 /\ s \notin Cut(s)
  BY <1>1, <1>4, CutIs DEF Between
<1>7. QED BY <1>1, <1>3, <1>5, <1>6, InsertedOrdered

\* A leaf gets a key behind its own.
LEMMA WithLast ==
  ASSUME NEW ks \in Seq(Key), NEW t, NEW lo, NEW hi, Ordered(ks, lo, hi), Span(lo, hi),
         NEW x \in Int, x \notin hi, NEW s \in Int, x < s, Inserted(t, ks, Len(ks) + 1, x)
  PROVE  Ordered(t, lo, Cut(s)) /\ 1 \in 1 .. Len(t)
<1>1. Len(ks) \in Nat /\ Len(t) = Len(ks) + 1 /\ \A j \in 1 .. Len(ks) : ks[j] \in Int
  BY KeysAreInts DEF Inserted
<1>2. /\ \A i, j \in 1 .. Len(ks) : i < j => ks[i] < ks[j]
      /\ \A i \in 1 .. Len(ks) : ks[i] \in hi /\ ks[i] \notin lo
  BY DEF Ordered
<1>3. Down(hi) /\ x \notin lo
  BY SpanNested DEF Span
<1>4. \A i \in 1 .. Len(ks) : ks[i] < x
  BY <1>1, <1>2, <1>3, Below
<1>5. Ordered(ks, lo, Cut(s))
  <2>1. \A i \in 1 .. Len(ks) : ks[i] \in Cut(s) BY <1>1, <1>4 DEF Cut
  <2>2. QED BY <1>2, <2>1 DEF Ordered
<1>6. Between(ks, Len(ks) + 1, x) /\ Len(ks) + 1 \in 1 .. Len(ks) + 1 /\ x \in Cut(s)
  BY <1>1, <1>4 DEF Between, Cut
<1>7. QED BY <1>1, <1>3, <1>5, <1>6, InsertedOrdered

\* handleUnderflow: the left sibling a gives its last entry to b.
LEMMA BorrowLeftWhole ==
  ASSUME NEW ns, NEW ns2, NEW root, NEW lev, NEW low, NEW high, NEW cont,
         NEW p, NEW q, NEW a, NEW b, Typed(ns), Lean(ns, root, lev, low, high, b, cont),
         Neighbours(ns, lev, p, q, a, b), Len(ns[a].keys) > minLeafKeys,
         Len(ns[b].keys) + 1 >= minLeafKeys,
         Put3(ns2, ns, b, takesFirst(ns[b], Last(ns[a].keys), Last(ns[a].values)),
              a, givesLast(ns[a]), p, newSeparator(ns[p], q, Last(ns[a].keys)))
  PROVE  Typed(ns2) /\ Len(ns2) = Len(ns)
         /\ \E low2, high2 : Whole(ns2, root, lev, low2, high2, cont)
<1> DEFINE m == Len(ns[a].keys)
           s == ns[a].keys[m]
           v == ns[a].values[m]
<1>1. Tree(ns, root, lev, low, high, high, NoNode)
  BY DEF Lean
<1>2. /\ a \in DOMAIN lev /\ b \in DOMAIN lev /\ a # b /\ a # p /\ b # p
      /\ low[b] = high[a] /\ Span(low[a], high[a]) /\ Span(low[b], high[b])
  BY <1>1, NeighboursAre
<1>3. /\ Len(ns) \in Nat /\ a \in 1 .. Len(ns) /\ b \in 1 .. Len(ns) /\ p \in 1 .. Len(ns)
      /\ ns[a] \in NodeIn(Len(ns)) /\ ns[b] \in NodeIn(Len(ns)) /\ ns[p] \in NodeIn(Len(ns))
      /\ ns[a].keys \in Seq(Key) /\ ns[b].keys \in Seq(Key)
      /\ Len(ns[a].values) = Len(ns[a].keys) /\ Len(ns[b].values) = Len(ns[b].keys)
      /\ Ordered(ns[a].keys, low[a], high[a]) /\ Ordered(ns[b].keys, low[b], high[b])
      /\ q \in 1 .. Len(ns[p].keys)
  BY <1>1, NeighbourNodes
<1>4. m \in Nat /\ m >= 2 /\ m >= 1 /\ m \in 1 .. m
  BY <1>3, Thresholds
<1>5. s \in Key /\ s \in Int /\ v \in RID
  <2>1. ns[a].values \in Seq(RID) BY <1>3, NodeInFields
  <2>2. QED BY <1>3, <1>4, <2>1, KeysAreInts
<1>6. Last(ns[a].keys) = s /\ Last(ns[a].values) = v
  BY <1>3 DEF Last
<1>7. /\ ns2[b] = takesFirst(ns[b], s, v) /\ ns2[a] = givesLast(ns[a])
      /\ ns2[p] = newSeparator(ns[p], q, s)
      /\ \A i \in 1 .. Len(ns) \ {b, a, p} : ns2[i] = ns[i]
  BY <1>6 DEF Put3
<1> HIDE DEF s, v
<1>8. /\ ns2[b] \in NodeIn(Len(ns)) /\ SameLinks(ns2[b], ns[b])
      /\ OneMore(ns2[b], ns[b], 1, s, v)
  BY <1>3, <1>5, <1>7, TakesFirstIs
<1>9. /\ ns2[a] \in NodeIn(Len(ns)) /\ SameLinks(ns2[a], ns[a])
      /\ OneLess(ns2[a], ns[a], Len(ns[a].keys))
  BY <1>3, <1>4, <1>7, GivesLastIs
<1>10. ns2[p] \in NodeIn(Len(ns)) /\ WithSeparator(ns2[p], ns[p], q, s)
  BY <1>3, <1>5, <1>7, NewSeparatorIs
<1>11. Typed(ns2) /\ Len(ns2) = Len(ns)
  <2>1. Put3(ns2, ns, b, ns2[b], a, ns2[a], p, ns2[p]) BY DEF Put3
  <2>2. QED BY <1>8, <1>9, <1>10, <2>1, Put3Is
<1>12. SameOn(ns2, ns, DOMAIN lev \ {a, b, p})
  <2>1. DOMAIN lev \subseteq 1 .. Len(ns) BY <1>1 DEF Tree, Ghosts
  <2>2. QED BY <1>7, <2>1 DEF SameOn
<1>13. Gives(ns2, ns, a, Len(ns[a].keys), b, 1)
  BY <1>8, <1>9 DEF Gives, s, v
<1>14. GoodLeaf(ns2[a], low[a], Cut(s))
  <2>1. Removed(ns2[a].keys, ns[a].keys, Len(ns[a].keys)) /\ Len(ns2[a].values) = Len(ns2[a].keys)
    BY <1>9 DEF OneLess, Removed
  <2>2. /\ Ordered(ns2[a].keys, low[a], Cut(ns[a].keys[Len(ns[a].keys)]))
        /\ 1 \in 1 .. Len(ns2[a].keys)
    BY <1>3, <1>4, <2>1, WithoutLast
  <2>3. QED BY <2>1, <2>2 DEF GoodLeaf, s
<1>15. GoodLeaf(ns2[b], Cut(s), high[b])
  <2>1. Inserted(ns2[b].keys, ns[b].keys, 1, s) /\ Len(ns2[b].values) = Len(ns2[b].keys)
    BY <1>8 DEF OneMore, Inserted
  <2>2. s \in low[b]
    BY <1>2, <1>3, <1>4 DEF Ordered, s
  <2>3. Ordered(ns2[b].keys, Cut(s), high[b]) /\ 1 \in 1 .. Len(ns2[b].keys)
    BY <1>2, <1>3, <1>5, <2>1, <2>2, WithFirst
  <2>4. QED BY <2>1, <2>3 DEF GoodLeaf
<1>16. \E low2, high2 : Whole(ns2, root, lev, low2, high2, cont)
  BY <1>5, <1>8, <1>9, <1>10, <1>11, <1>12, <1>13, <1>14, <1>15, BorrowWhole
<1>17. QED BY <1>11, <1>16

\* handleUnderflow: the right sibling b gives its first entry to a.
LEMMA BorrowRightWhole ==
  ASSUME NEW ns, NEW ns2, NEW root, NEW lev, NEW low, NEW high, NEW cont,
         NEW p, NEW q, NEW a, NEW b, Typed(ns), Lean(ns, root, lev, low, high, a, cont),
         Neighbours(ns, lev, p, q, a, b), Len(ns[b].keys) > minLeafKeys,
         Len(ns[a].keys) + 1 >= minLeafKeys,
         Put3(ns2, ns, a, takesLast(ns[a], Head(ns[b].keys), Head(ns[b].values)),
              b, givesFirst(ns[b]), p, newSeparator(ns[p], q, ns[b].keys[2]))
  PROVE  Typed(ns2) /\ Len(ns2) = Len(ns)
         /\ \E low2, high2 : Whole(ns2, root, lev, low2, high2, cont)
<1> DEFINE m == Len(ns[b].keys)
           x == ns[b].keys[1]
           v == ns[b].values[1]
           s == ns[b].keys[2]
<1>1. Tree(ns, root, lev, low, high, high, NoNode)
  BY DEF Lean
<1>2. /\ a \in DOMAIN lev /\ b \in DOMAIN lev /\ a # b /\ a # p /\ b # p
      /\ low[b] = high[a] /\ Span(low[a], high[a]) /\ Span(low[b], high[b])
  BY <1>1, NeighboursAre
<1>3. /\ Len(ns) \in Nat /\ a \in 1 .. Len(ns) /\ b \in 1 .. Len(ns) /\ p \in 1 .. Len(ns)
      /\ ns[a] \in NodeIn(Len(ns)) /\ ns[b] \in NodeIn(Len(ns)) /\ ns[p] \in NodeIn(Len(ns))
      /\ ns[a].keys \in Seq(Key) /\ ns[b].keys \in Seq(Key)
      /\ Len(ns[a].values) = Len(ns[a].keys) /\ Len(ns[b].values) = Len(ns[b].keys)
      /\ Ordered(ns[a].keys, low[a], high[a]) /\ Ordered(ns[b].keys, low[b], high[b])
      /\ q \in 1 .. Len(ns[p].keys)
  BY <1>1, NeighbourNodes
<1>4. m \in Nat /\ m >= 2 /\ m >= 1 /\ 1 \in 1 .. m /\ 2 \in 1 .. m
  BY <1>3, Thresholds, SMTT(30)
<1>5. x \in Key /\ x \in Int /\ v \in RID /\ s \in Key /\ s \in Int
  <2>1. ns[b].values \in Seq(RID) BY <1>3, NodeInFields
  <2>2. QED BY <1>3, <1>4, <2>1, KeysAreInts, SMTT(30)
<1>6. Head(ns[b].keys) = x /\ Head(ns[b].values) = v
  <2>1. ns[b].values \in Seq(RID) BY <1>3, NodeInFields
  <2>2. ns[b].values # <<>> /\ ns[b].keys # <<>> BY <1>3, <1>4
  <2>3. QED BY <1>3, <2>1, <2>2, HeadTailProperties
<1>7. /\ ns2[a] = takesLast(ns[a], x, v) /\ ns2[b] = givesFirst(ns[b])
      /\ ns2[p] = newSeparator(ns[p], q, s)
      /\ \A i \in 1 .. Len(ns) \ {a, b, p} : ns2[i] = ns[i]
  BY <1>6 DEF Put3
<1>8. x \notin high[a] /\ x < s
  BY <1>2, <1>3, <1>4 DEF Ordered
<1> HIDE DEF s, v, x
<1>9. /\ ns2[a] \in NodeIn(Len(ns)) /\ SameLinks(ns2[a], ns[a])
      /\ OneMore(ns2[a], ns[a], Len(ns[a].keys) + 1, x, v)
  BY <1>3, <1>5, <1>7, TakesLastIs
<1>10. /\ ns2[b] \in NodeIn(Len(ns)) /\ SameLinks(ns2[b], ns[b])
       /\ OneLess(ns2[b], ns[b], 1)
  BY <1>3, <1>4, <1>7, GivesFirstIs
<1>11. ns2[p] \in NodeIn(Len(ns)) /\ WithSeparator(ns2[p], ns[p], q, s)
  BY <1>3, <1>5, <1>7, NewSeparatorIs
<1>12. Typed(ns2) /\ Len(ns2) = Len(ns)
  <2>1. Put3(ns2, ns, a, ns2[a], b, ns2[b], p, ns2[p]) BY DEF Put3
  <2>2. QED BY <1>9, <1>10, <1>11, <2>1, Put3Is
<1>13. SameOn(ns2, ns, DOMAIN lev \ {a, b, p})
  <2>1. DOMAIN lev \subseteq 1 .. Len(ns) BY <1>1 DEF Tree, Ghosts
  <2>2. QED BY <1>7, <2>1 DEF SameOn
<1>14. Gives(ns2, ns, b, 1, a, Len(ns[a].keys) + 1)
  BY <1>9, <1>10 DEF Gives, x, v
<1>15. GoodLeaf(ns2[b], Cut(s), high[b])
  <2>1. Removed(ns2[b].keys, ns[b].keys, 1) /\ Len(ns2[b].values) = Len(ns2[b].keys)
    BY <1>10 DEF OneLess, Removed
  <2>2. Ordered(ns2[b].keys, Cut(ns[b].keys[2]), high[b]) /\ 1 \in 1 .. Len(ns2[b].keys)
    BY <1>3, <1>4, <2>1, WithoutFirst
  <2>3. QED BY <2>1, <2>2 DEF GoodLeaf, s
<1>16. GoodLeaf(ns2[a], low[a], Cut(s))
  <2>1. /\ Inserted(ns2[a].keys, ns[a].keys, Len(ns[a].keys) + 1, x)
        /\ Len(ns2[a].values) = Len(ns2[a].keys)
    BY <1>9 DEF OneMore, Inserted
  <2>2. Ordered(ns2[a].keys, low[a], Cut(s)) /\ 1 \in 1 .. Len(ns2[a].keys)
    BY <1>2, <1>3, <1>5, <1>8, <2>1, WithLast
  <2>3. QED BY <2>1, <2>2 DEF GoodLeaf
<1>17. \E low2, high2 : Whole(ns2, root, lev, low2, high2, cont)
  BY <1>5, <1>9, <1>10, <1>11, <1>12, <1>13, <1>14, <1>15, <1>16, BorrowWhole
<1>18. QED BY <1>12, <1>17

\* handleUnderflow: b goes into a.
LEMMA MergeBoth ==
  ASSUME NEW ns, NEW ns2, NEW root, NEW lev, NEW low, NEW high, NEW cont,
         NEW p, NEW q, NEW a, NEW b, NEW l, Typed(ns), l \in {a, b},
         Lean(ns, root, lev, low, high, l, cont), Neighbours(ns, lev, p, q, a, b),
         Put3(ns2, ns, a, takesAll(ns[a], ns[b]), b, ns[b], p, dropChild(ns[p], q))
  PROVE  Typed(ns2) /\ Len(ns2) = Len(ns)
         /\ \E lev2, low2, high2 : Whole(ns2, root, lev2, low2, high2, cont)
<1>1. Tree(ns, root, lev, low, high, high, NoNode)
  BY DEF Lean
<1>2. /\ Len(ns) \in Nat /\ a \in 1 .. Len(ns) /\ b \in 1 .. Len(ns) /\ p \in 1 .. Len(ns)
      /\ ns[a] \in NodeIn(Len(ns)) /\ ns[b] \in NodeIn(Len(ns)) /\ ns[p] \in NodeIn(Len(ns))
      /\ q \in 1 .. Len(ns[p].keys) /\ Len(ns[p].childIndices) = Len(ns[p].keys) + 1
  BY <1>1, NeighbourNodes
<1>3. /\ ns2[a] = takesAll(ns[a], ns[b]) /\ ns2[p] = dropChild(ns[p], q)
      /\ \A i \in 1 .. Len(ns) \ {a, b, p} : ns2[i] = ns[i]
  BY DEF Put3
<1>4. ns2[a] \in NodeIn(Len(ns)) /\ MergedLeaf(ns2[a], ns[a], ns[b])
  BY <1>2, <1>3, TakesAllIs
<1>5. ns2[p] \in NodeIn(Len(ns)) /\ WithoutChild(ns2[p], ns[p], q)
  BY <1>2, <1>3, DropChildIs
<1>6. Typed(ns2) /\ Len(ns2) = Len(ns)
  <2>1. Put3(ns2, ns, a, ns2[a], b, ns[b], p, ns2[p]) BY DEF Put3
  <2>2. QED BY <1>2, <1>4, <1>5, <2>1, Put3Is
<1>7. SameOn(ns2, ns, DOMAIN lev \ {a, b, p})
  <2>1. DOMAIN lev \subseteq 1 .. Len(ns) BY <1>1 DEF Tree, Ghosts
  <2>2. QED BY <1>3, <2>1 DEF SameOn
<1>8. QED BY <1>4, <1>5, <1>6, <1>7, MergeWhole

\* Where node n finds its child l.
IsPlace(pos, n, l) == pos = Position(n.childIndices, l)

\* The place of a leaf that is not the root among its parent's children.
LEMMA LeafPlace ==
  ASSUME NEW ns, NEW root, NEW lev, NEW low, NEW high, Typed(ns),
         Tree(ns, root, lev, low, high, high, NoNode), NEW l \in Leaves(lev), l # root,
         NEW p, IsParent(p, ns[l]), NEW pos, IsPlace(pos, ns[p], l)
  PROVE  /\ pos \in 1 .. Len(ns[p].childIndices) /\ ns[p].childIndices[pos] = l
         /\ Len(ns[p].childIndices) \in Nat
         /\ pos > 1 => Neighbours(ns, lev, p, pos - 1, ns[p].childIndices[pos - 1], l)
         /\ pos < Len(ns[p].childIndices) =>
              Neighbours(ns, lev, p, pos, l, ns[p].childIndices[pos + 1])
<1>1. l \in DOMAIN lev /\ lev[l] = 0
  BY DEF Leaves
<1>2. DOMAIN lev \subseteq 1 .. Len(ns) /\ Len(ns) \in Nat /\ NoNode \notin 1 .. Len(ns)
  BY DEF Tree, Ghosts, Typed, NoNode
<1>3. Hangs(ns, l, lev)
  BY <1>1, <1>2 DEF Tree
<1>4. /\ p \in DOMAIN lev /\ lev[p] # 0
      /\ \E c \in 1 .. Len(ns[p].keys) + 1 : ns[p].childIndices[c] = l
  BY <1>3 DEF Hangs, IsParent
<1>5. ns[p] \in NodeIn(Len(ns))
  BY <1>2, <1>4, TypedNode
<1>6. ns[p].keys \in Seq(Key) /\ ns[p].childIndices \in Seq(1 .. Len(ns))
  BY <1>2, <1>5, NodeInFields
<1>7. InnerOK(ns, p, lev, low, high, high, NoNode)
  BY <1>4 DEF Tree
<1>8. Len(ns[p].childIndices) = Len(ns[p].keys) + 1
  BY <1>7 DEF InnerOK
<1>9. l \in ToSet(ns[p].childIndices)
  <2>1. DOMAIN ns[p].childIndices = 1 .. Len(ns[p].childIndices) BY <1>6
  <2>2. QED BY <1>4, <1>8, <2>1 DEF ToSet
<1>10. pos \in 1 .. Len(ns[p].childIndices) /\ ns[p].childIndices[pos] = l
  BY <1>6, <1>9, PositionIs DEF IsPlace
<1>11. Len(ns[p].keys) \in Nat /\ pos \in 1 .. Len(ns[p].keys) + 1
  BY <1>6, <1>8, <1>10
<1>12. lev[p] = 1
  <2>1. lev[ns[p].childIndices[pos]] + 1 = lev[p] BY <1>4, <1>11, ParentOf
  <2>2. QED BY <1>1, <1>10, <2>1
<1>13. ASSUME pos > 1
       PROVE  Neighbours(ns, lev, p, pos - 1, ns[p].childIndices[pos - 1], l)
  <2>1. /\ pos - 1 \in 1 .. Len(ns[p].keys) /\ pos - 1 \in 1 .. Len(ns[p].keys) + 1
        /\ pos - 1 + 1 = pos
    BY <1>11, <1>13
  <2>2. lev[ns[p].childIndices[pos - 1]] + 1 = lev[p] BY <1>4, <2>1, ParentOf
  <2>3. lev[ns[p].childIndices[pos - 1]] \in Nat
    <3>1. ns[p].childIndices[pos - 1] \in DOMAIN lev BY <1>4, <2>1, ParentOf
    <3>2. QED BY <3>1 DEF Tree, Ghosts
  <2>4. lev[ns[p].childIndices[pos - 1]] = 0 BY <1>12, <2>2, <2>3
  <2>5. QED BY <1>4, <1>6, <1>10, <2>1, <2>4 DEF Neighbours
<1>14. ASSUME pos < Len(ns[p].childIndices)
       PROVE  Neighbours(ns, lev, p, pos, l, ns[p].childIndices[pos + 1])
  <2>1. pos \in 1 .. Len(ns[p].keys) BY <1>8, <1>11, <1>14
  <2>2. QED BY <1>1, <1>4, <1>6, <1>10, <2>1 DEF Neighbours
<1>15. QED BY <1>8, <1>10, <1>11, <1>13, <1>14

\* handleUnderflow leaves a tree whose leaves are all full enough.
LEMMA UnderflowWhole ==
  ASSUME NEW ns, NEW root, NEW lev, NEW low, NEW high, NEW cont, Typed(ns),
         NEW l \in Leaves(lev), Lean(ns, root, lev, low, high, l, cont), l # root,
         Len(ns[l].keys) + 1 >= minLeafKeys,
         NEW p, IsParent(p, ns[l]), NEW pos, IsPlace(pos, ns[p], l),
         Len(ns[p].childIndices) > 1, NEW ns2, ns2 = handleUnderflow(ns, l, p, pos)
  PROVE  Typed(ns2) /\ Len(ns2) = Len(ns)
         /\ \E lev2, low2, high2 : Whole(ns2, root, lev2, low2, high2, cont)
<1>1. Tree(ns, root, lev, low, high, high, NoNode)
  BY DEF Lean
<1>2. /\ pos \in 1 .. Len(ns[p].childIndices) /\ ns[p].childIndices[pos] = l
      /\ Len(ns[p].childIndices) \in Nat
      /\ pos > 1 => Neighbours(ns, lev, p, pos - 1, ns[p].childIndices[pos - 1], l)
      /\ pos < Len(ns[p].childIndices) =>
           Neighbours(ns, lev, p, pos, l, ns[p].childIndices[pos + 1])
  BY <1>1, LeafPlace
<1>3. ASSUME pos > 1
      PROVE  \E a, q : /\ Neighbours(ns, lev, p, q, a, l) /\ q = pos - 1
                       /\ a = ns[p].childIndices[pos - 1] /\ ns[p].childIndices[q + 1] = l
                       /\ a \in 1 .. Len(ns) /\ l \in 1 .. Len(ns) /\ p \in 1 .. Len(ns)
                       /\ a # l /\ a # p /\ l # p
  <2>1. Neighbours(ns, lev, p, pos - 1, ns[p].childIndices[pos - 1], l) BY <1>2, <1>3
  <2>2. PICK a, q : /\ Neighbours(ns, lev, p, q, a, l) /\ q = pos - 1
                    /\ a = ns[p].childIndices[pos - 1]
    BY <2>1
  <2>3. a # l /\ a # p /\ l # p BY <1>1, <2>2, NeighboursAre
  <2>4. a \in 1 .. Len(ns) /\ l \in 1 .. Len(ns) /\ p \in 1 .. Len(ns)
    BY <1>1, <2>2, NeighbourNodes
  <2>5. q + 1 = pos BY <1>2, <2>2
  <2>6. QED BY <1>2, <2>2, <2>3, <2>4, <2>5
<1>4. ASSUME pos < Len(ns[p].childIndices)
      PROVE  \E b : /\ Neighbours(ns, lev, p, pos, l, b) /\ b = ns[p].childIndices[pos + 1]
                    /\ b \in 1 .. Len(ns) /\ l \in 1 .. Len(ns) /\ p \in 1 .. Len(ns)
                    /\ b # l /\ b # p /\ l # p
  <2>1. PICK b : Neighbours(ns, lev, p, pos, l, b) /\ b = ns[p].childIndices[pos + 1]
    BY <1>2, <1>4
  <2>2. b # l /\ b # p /\ l # p BY <1>1, <2>1, NeighboursAre
  <2>3. b \in 1 .. Len(ns) /\ l \in 1 .. Len(ns) /\ p \in 1 .. Len(ns)
    BY <1>1, <2>1, NeighbourNodes
  <2>4. QED BY <2>1, <2>2, <2>3
<1>5. CASE CanBorrowLeft(ns, p, pos)
  <2>1. pos > 1 /\ ns2 = borrowLeft(ns, l, p, pos) BY <1>5 DEF CanBorrowLeft, handleUnderflow
  <2>2. PICK a, q : /\ Neighbours(ns, lev, p, q, a, l) /\ q = pos - 1
                    /\ a = ns[p].childIndices[pos - 1]
                    /\ a \in 1 .. Len(ns) /\ l \in 1 .. Len(ns) /\ p \in 1 .. Len(ns)
                    /\ a # l /\ a # p /\ l # p
    BY <1>3, <2>1
  <2>3. Len(ns[a].keys) > minLeafKeys BY <1>5, <2>2 DEF CanBorrowLeft, canGive
  <2>4. Put3(borrowLeft(ns, l, p, pos), ns,
             l, takesFirst(ns[l], Last(ns[a].keys), Last(ns[a].values)),
             a, givesLast(ns[a]), p, newSeparator(ns[p], pos - 1, Last(ns[a].keys)))
    BY <2>2, BorrowLeftPuts
  <2>5. Put3(ns2, ns, l, takesFirst(ns[l], Last(ns[a].keys), Last(ns[a].values)),
             a, givesLast(ns[a]), p, newSeparator(ns[p], q, Last(ns[a].keys)))
    BY <2>1, <2>2, <2>4
  <2>6. Neighbours(ns, lev, p, q, a, l) BY <2>2
  <2>7. QED BY <2>3, <2>5, <2>6, BorrowLeftWhole
<1>6. CASE ~CanBorrowLeft(ns, p, pos) /\ CanBorrowRight(ns, p, pos)
  <2>1. pos < Len(ns[p].childIndices) /\ ns2 = borrowRight(ns, l, p, pos)
    BY <1>6 DEF CanBorrowRight, handleUnderflow
  <2>2. PICK b : /\ Neighbours(ns, lev, p, pos, l, b) /\ b = ns[p].childIndices[pos + 1]
                 /\ b \in 1 .. Len(ns) /\ l \in 1 .. Len(ns) /\ p \in 1 .. Len(ns)
                 /\ b # l /\ b # p /\ l # p
    BY <1>4, <2>1
  <2>3. Len(ns[b].keys) > minLeafKeys BY <1>6, <2>2 DEF CanBorrowRight, canGive
  <2>4. Put3(borrowRight(ns, l, p, pos), ns,
             l, takesLast(ns[l], Head(ns[b].keys), Head(ns[b].values)),
             b, givesFirst(ns[b]), p, newSeparator(ns[p], pos, ns[b].keys[2]))
    BY <2>2, BorrowRightPuts
  <2>5. Neighbours(ns, lev, p, pos, l, b) BY <2>2
  <2>6. QED BY <2>1, <2>3, <2>4, <2>5, BorrowRightWhole
<1>7. CASE ~CanBorrowLeft(ns, p, pos) /\ ~CanBorrowRight(ns, p, pos) /\ pos > 1
  <2>1. ns2 = merge(ns, p, pos - 1) BY <1>7 DEF handleUnderflow
  <2>2. PICK a, q : /\ Neighbours(ns, lev, p, q, a, l) /\ q = pos - 1
                    /\ a = ns[p].childIndices[pos - 1] /\ ns[p].childIndices[q + 1] = l
                    /\ a \in 1 .. Len(ns) /\ l \in 1 .. Len(ns) /\ p \in 1 .. Len(ns)
                    /\ a # l /\ a # p /\ l # p
    BY <1>3, <1>7
  <2>3. ns2 = merge(ns, p, q) /\ ns[p].childIndices[q] = a BY <2>1, <2>2
  <2>4. Put3(merge(ns, p, q), ns, a, takesAll(ns[a], ns[l]), l, ns[l], p, dropChild(ns[p], q))
    BY <2>2, <2>3, MergePuts
  <2>5. Neighbours(ns, lev, p, q, a, l) /\ l \in {a, l} BY <2>2
  <2>6. QED BY <2>3, <2>4, <2>5, MergeBoth
<1>8. CASE ~CanBorrowLeft(ns, p, pos) /\ ~CanBorrowRight(ns, p, pos) /\ ~(pos > 1)
  <2>1. ns2 = merge(ns, p, pos) BY <1>8 DEF handleUnderflow
  <2>2. pos < Len(ns[p].childIndices) BY <1>2, <1>8
  <2>3. PICK b : /\ Neighbours(ns, lev, p, pos, l, b) /\ b = ns[p].childIndices[pos + 1]
                 /\ b \in 1 .. Len(ns) /\ l \in 1 .. Len(ns) /\ p \in 1 .. Len(ns)
                 /\ b # l /\ b # p /\ l # p
    BY <1>4, <2>2
  <2>4. Put3(merge(ns, p, pos), ns, l, takesAll(ns[l], ns[b]), b, ns[b], p, dropChild(ns[p], pos))
    BY <1>2, <2>3, MergePuts
  <2>5. Neighbours(ns, lev, p, pos, l, b) /\ l \in {l, b} BY <2>3
  <2>6. QED BY <2>1, <2>4, <2>5, MergeBoth
<1>9. QED BY <1>5, <1>6, <1>7, <1>8

\* The index between two calls: no tree, or a tree with the entries of cont.
Stored(ns, root, cont) ==
  \/ root = NoNode /\ \A k \in Key : cont[k] = NoRID
  \/ \E lev, low, high : Whole(ns, root, lev, low, high, cont)

\* The first insertion makes a tree of one leaf.
LEMMA FirstWhole ==
  ASSUME NEW ns, NEW N, NEW k \in Key, NEW v \in RID, NEW cont, Len(ns) \in Nat, N \in 1 .. Len(ns),
         cont \in [Key -> RID \cup {NoRID}], \A x \in Key : cont[x] = NoRID,
         ns[N].type = "LEAF", ns[N].isRoot = TRUE, ns[N].parentIdx = NoNode,
         ns[N].nextLeafIdx = NoNode, ns[N].keys = <<k>>, ns[N].values = <<v>>
  PROVE  \E lev, low, high : Whole(ns, N, lev, low, high, [cont EXCEPT ![k] = v])
<1> DEFINE lev == [i \in {N} |-> 0]
           low == [i \in {N} |-> {}]
           high == [i \in {N} |-> Int]
           cont2 == [cont EXCEPT ![k] = v]
<1>1. DOMAIN lev = {N} /\ DOMAIN low = {N} /\ DOMAIN high = {N}
      /\ lev[N] = 0 /\ low[N] = {} /\ high[N] = Int
  OBVIOUS
<1> HIDE DEF lev, low, high
<1>2. Len(ns[N].keys) = 1 /\ Len(ns[N].values) = 1 /\ ns[N].keys[1] = k /\ ns[N].values[1] = v
  OBVIOUS
<1>3. Ghosts(ns, lev, low, high, high)
  BY <1>1 DEF Ghosts
<1>4. RootOK(ns, N, lev, low, high)
  BY <1>1 DEF RootOK
<1>5. NodeOK(ns, N, N, low, high)
  <2>1. Span({}, Int) BY DEF Span, Down
  <2>2. Ordered(ns[N].keys, {}, Int)
    <3>1. k \in Int BY KeysAreInts
    <3>2. \A i \in 1 .. 1 : i = 1 OBVIOUS
    <3>3. QED BY <1>2, <3>1, <3>2 DEF Ordered
  <2>3. QED BY <1>1, <2>1, <2>2 DEF NodeOK
<1>6. LeafOK(ns, N, lev, low, high)
  BY <1>1, <1>2 DEF LeafOK, NextOK
<1>7. Tree(ns, N, lev, low, high, high, NoNode)
  BY <1>1, <1>3, <1>4, <1>5, <1>6 DEF Tree
<1>8. Leaves(lev) = {N}
  BY <1>1 DEF Leaves
<1>9. Filled(ns, N, lev, high, NoNode)
  BY <1>1, <1>8 DEF Filled
<1>10. Holds(ns, lev, cont2)
  <2> SUFFICES ASSUME NEW x \in Key, NEW w \in RID
               PROVE  cont2[x] = w <=> Has(ns[N], x, w)
    BY <1>8 DEF Holds
  <2>1. Has(ns[N], x, w) <=> x = k /\ w = v
    <3>1. \A i \in 1 .. 1 : i = 1 OBVIOUS
    <3>2. 1 \in 1 .. 1 OBVIOUS
    <3>3. QED BY <1>2, <3>1, <3>2 DEF Has
  <2>2. w # NoRID BY RidsAreRids
  <2>3. QED BY <2>1, <2>2
<1>11. Whole(ns, N, lev, low, high, cont2)
  BY <1>7, <1>9, <1>10 DEF Whole
<1>12. QED BY <1>11

\* A leaf that is short is the only one that may be.
LEMMA LeanWhole ==
  ASSUME NEW ns, NEW root, NEW lev, NEW low, NEW high, NEW l, NEW cont,
         Lean(ns, root, lev, low, high, l, cont), l = root \/ Len(ns[l].keys) >= minLeafKeys
  PROVE  Whole(ns, root, lev, low, high, cont)
<1>1. /\ Tree(ns, root, lev, low, high, high, NoNode)
      /\ Filled(ns, root, lev, high, l) /\ Holds(ns, lev, cont)
  BY DEF Lean
<1>2. high[root] = Int
  BY <1>1 DEF Tree, RootOK
<1>3. Filled(ns, root, lev, high, NoNode)
  BY <1>1, <1>2 DEF Filled
<1>4. QED BY <1>1, <1>3 DEF Whole

\* The type of a node says whether it is a leaf.
LEMMA TypeOfNode ==
  ASSUME NEW ns, NEW root, NEW lev, NEW low, NEW high, NEW cont,
         Whole(ns, root, lev, low, high, cont)
  PROVE  root \in DOMAIN lev /\ root \in 1 .. Len(ns) /\ root # NoNode
         /\ (ns[root].type = "LEAF" <=> lev[root] = 0)
         /\ (ns[root].type = "INTERNAL" <=> lev[root] # 0)
<1>1. Tree(ns, root, lev, low, high, high, NoNode)
  BY DEF Whole
<1>2. root \in DOMAIN lev /\ root \in 1 .. Len(ns)
  BY <1>1 DEF Tree, RootOK, Ghosts
<1>3. CASE lev[root] = 0
  <2>1. LeafOK(ns, root, lev, low, high) BY <1>1, <1>2, <1>3 DEF Tree
  <2>2. QED BY <1>2, <1>3, <2>1 DEF LeafOK, NoNode
<1>4. CASE lev[root] # 0
  <2>1. InnerOK(ns, root, lev, low, high, high, NoNode) BY <1>1, <1>2, <1>4 DEF Tree
  <2>2. QED BY <1>2, <1>4, <2>1 DEF InnerOK, NoNode
<1>5. QED BY <1>3, <1>4

\* The end of remove: an empty leaf is no root.
LEMMA RootOrNone ==
  ASSUME NEW ns, NEW root, NEW lev, NEW low, NEW high, NEW cont, NEW root2,
         Typed(ns), Whole(ns, root, lev, low, high, cont), cont \in [Key -> RID \cup {NoRID}],
         root2 = IF ns[root].type = "LEAF" /\ ns[root].keys = <<>> THEN NoNode ELSE root
  PROVE  Stored(ns, root2, cont) /\ root2 \in 0 .. Len(ns)
<1>1. root \in 1 .. Len(ns) /\ (ns[root].type = "LEAF" <=> lev[root] = 0) /\ Len(ns) \in Nat
  BY TypeOfNode DEF Typed
<1>2. CASE ns[root].type = "LEAF" /\ ns[root].keys = <<>>
  <2>1. lev[root] = 0 /\ Len(ns[root].keys) = 0 BY <1>1, <1>2
  <2>2. \A k \in Key : cont[k] = NoRID BY <2>1, EmptyLeaf
  <2>3. root2 = NoNode /\ NoNode \in 0 .. Len(ns) BY <1>1, <1>2 DEF NoNode
  <2>4. QED BY <2>2, <2>3 DEF Stored
<1>3. CASE ~(ns[root].type = "LEAF" /\ ns[root].keys = <<>>)
  <2>1. root2 = root /\ root \in 0 .. Len(ns) BY <1>1, <1>3
  <2>2. QED BY <2>1 DEF Stored
<1>4. QED BY <1>2, <1>3

\* The end of remove.
LEMMA FinishWhole ==
  ASSUME NEW ns, NEW lev, NEW low, NEW high, NEW cont, Typed(ns),
         Whole(ns, rootIdx, lev, low, high, cont), cont \in [Key -> RID \cup {NoRID}],
         finishRemove(ns)
  PROVE  Typed(nodes') /\ Stored(nodes', rootIdx', cont) /\ rootIdx' \in 0 .. Len(nodes')
<1> DEFINE shrink == ns[rootIdx].type = "INTERNAL" /\ ns[rootIdx].keys = <<>>
           c == ns[rootIdx].childIndices[1]
<1>1. /\ rootIdx \in DOMAIN lev /\ rootIdx \in 1 .. Len(ns)
      /\ (ns[rootIdx].type = "INTERNAL" <=> lev[rootIdx] # 0)
  BY TypeOfNode
<1>2. CASE ~shrink
  <2>1. nodes' = ns BY <1>2 DEF finishRemove
  <2>2. rootIdx' = IF ns[rootIdx].type = "LEAF" /\ ns[rootIdx].keys = <<>> THEN NoNode ELSE rootIdx
    BY <1>2 DEF finishRemove
  <2>3. QED BY <2>1, <2>2, RootOrNone
<1>3. CASE shrink
  <2>1. /\ nodes' = [ns EXCEPT ![c].isRoot = TRUE, ![c].parentIdx = NoNode]
        /\ rootIdx' = IF ns[c].type = "LEAF" /\ ns[c].keys = <<>> THEN NoNode ELSE c
    BY <1>3 DEF finishRemove
  <2>2. lev[rootIdx] # 0 /\ Len(ns[rootIdx].keys) = 0 BY <1>1, <1>3
  <2>3. Tree(ns, rootIdx, lev, low, high, high, NoNode) BY DEF Whole
  <2>4. c \in DOMAIN lev
    <3>1. 1 \in 1 .. Len(ns[rootIdx].keys) + 1 BY <2>2
    <3>2. QED BY <1>1, <2>2, <2>3, <3>1, ParentOf
  <2>5. DOMAIN lev \subseteq 1 .. Len(ns) /\ c \in 1 .. Len(ns) BY <2>3, <2>4 DEF Tree, Ghosts
  <2>6. Len(ns) \in Nat /\ ns[c] \in NodeIn(Len(ns)) BY <2>5, TypedNode
  <2> DEFINE n == [ns[c] EXCEPT !.isRoot = TRUE, !.parentIdx = NoNode]
  <2> HIDE DEF c
  <2>7. nodes' = [ns EXCEPT ![c] = n]
    <3>1. ns = [i \in 1 .. Len(ns) |-> ns[i]] BY TypedNode
    <3>2. QED BY <2>1, <2>5, <2>6, <3>1 DEF NodeIn
  <2>8. n \in NodeIn(Len(ns))
    <3>1. NoNode \in 0 .. Len(ns) BY <2>6 DEF NoNode
    <3>2. QED BY ONLY <2>6, <3>1 DEF NodeIn, n
  <2>9. /\ SameInner(n, ns[c]) /\ n.values = ns[c].values /\ n.nextLeafIdx = ns[c].nextLeafIdx
        /\ n.isRoot = TRUE /\ n.parentIdx = NoNode
    BY <2>6 DEF NodeIn, SameInner
  <2> HIDE DEF n
  <2>10. /\ Typed(nodes') /\ Len(nodes') = Len(ns) /\ nodes'[c] = n
         /\ \A j \in 1 .. Len(ns) : j # c => nodes'[j] = ns[j]
    <3>1. LET ns2 == [ns EXCEPT ![c] = n]
          IN  /\ Typed(ns2) /\ Len(ns2) = Len(ns) /\ ns2[c] = n
              /\ \A j \in 1 .. Len(ns) : j # c => ns2[j] = ns[j]
      BY <2>5, <2>8, PutIs
    <3>2. QED BY ONLY <2>7, <3>1
  <2>11. SameOn(nodes', ns, DOMAIN lev \ {c})
    BY <2>5, <2>10 DEF SameOn
  <2>13. \E lev2, low2, high2 : Whole(nodes', c, lev2, low2, high2, cont)
    <3>1. /\ SameInner(nodes'[c], ns[c]) /\ nodes'[c].values = ns[c].values
          /\ nodes'[c].nextLeafIdx = ns[c].nextLeafIdx
          /\ nodes'[c].isRoot = TRUE /\ nodes'[c].parentIdx = NoNode
          /\ Len(nodes') = Len(ns) /\ Len(ns) \in Nat
      BY <2>6, <2>9, <2>10
    <3>2. Whole(ns, rootIdx, lev, low, high, cont) OBVIOUS
    <3>3. QED BY ONLY <2>2, <2>11, <3>1, <3>2, ShrinkWhole DEF c
  <2>14. rootIdx' = IF nodes'[c].type = "LEAF" /\ nodes'[c].keys = <<>> THEN NoNode ELSE c
    BY <2>1, <2>9, <2>10 DEF SameInner
  <2>15. QED BY <2>10, <2>13, <2>14, RootOrNone
<1>4. QED BY <1>2, <1>3

\* One node is replaced.
LEMMA PutAnyIs ==
  ASSUME NEW ns, Typed(ns), NEW i \in 1 .. Len(ns), NEW n, NEW ns2, ns2 = [ns EXCEPT ![i] = n]
  PROVE  /\ Len(ns2) = Len(ns) /\ ns2[i] = n /\ \A j \in 1 .. Len(ns) : j # i => ns2[j] = ns[j]
<1>1. Len(ns) \in Nat /\ ns \in Seq(NodeIn(Len(ns))) /\ DOMAIN ns = 1 .. Len(ns)
  BY TypedNode DEF Typed
<1>2. DOMAIN ns2 = 1 .. Len(ns) /\ ns2 \in Seq(NodeIn(Len(ns)) \cup {n})
  <2>1. ns \in [1 .. Len(ns) -> NodeIn(Len(ns))] BY <1>1
  <2>2. ns2 \in [1 .. Len(ns) -> NodeIn(Len(ns)) \cup {n}] BY <2>1
  <2>3. QED BY <1>1, <2>2
<1>3. Len(ns2) = Len(ns)
  BY <1>1, <1>2
<1>4. QED BY <1>1, <1>3

-------------------------------------------------------------------------------
(* The inductive invariant *)

\* The nodes and the root, as TypeOK has them.
NodesTyped == Typed(nodes) /\ rootIdx \in 0 .. Len(nodes)

\* insertIntoParent is about to be called.
Midway ==
  \E lev, low, high, top, left, key, right :
    /\ call = promote(left, key, right)
    /\ Halfway(nodes, rootIdx, lev, low, high, top, left, key, right, contents)

\* Between two calls the index is a tree with the right entries, or empty; during an
\* insertion it is a tree in which one node is not yet known to its parent.
TreeInv ==
  \/ call = undefined
  \/ call = idle /\ Stored(nodes, rootIdx, contents)
  \/ Midway

\* The inductive invariant.
TreeOK == TypeOK /\ TreeInv

\* The parts of TypeOK.
LEMMA TypeParts ==
  TypeOK <=> NodesTyped /\ entryCount \in Int /\ contents \in [Key -> RID \cup {NoRID}]
<1>1. Typed(nodes) <=> /\ nodes \in Seq(Node)
                       /\ \A i \in DOMAIN nodes :
                            /\ nodes[i].parentIdx \in 0 .. Len(nodes)
                            /\ nodes[i].nextLeafIdx \in 0 .. Len(nodes)
                            /\ ToSet(nodes[i].childIndices) \subseteq 1 .. Len(nodes)
  BY TypedIs
<1>2. QED BY <1>1 DEF TypeOK, NodesTyped

\* What a call waits for is told apart.
LEMMA Calls ==
  /\ idle # undefined /\ Len(idle) = 0 /\ Len(undefined) = 1
  /\ \A left, key, right : /\ Len(promote(left, key, right)) = 4
                           /\ promote(left, key, right)[2] = left
                           /\ promote(left, key, right)[3] = key
                           /\ promote(left, key, right)[4] = right
                           /\ promote(left, key, right) # idle
                           /\ promote(left, key, right) # undefined
<1>1. Len(idle) = 0 /\ Len(undefined) = 1
  BY DEF idle, undefined
<1>2. ASSUME NEW left, NEW key, NEW right
      PROVE  /\ Len(promote(left, key, right)) = 4
             /\ promote(left, key, right)[2] = left
             /\ promote(left, key, right)[3] = key
             /\ promote(left, key, right)[4] = right
  BY DEF promote
<1>3. QED BY <1>1, <1>2

\* An insertion finds the leaf that is responsible for the key.
LEMMA LeafToFind ==
  ASSUME TypeOK, NEW lev, NEW low, NEW high, Whole(nodes, rootIdx, lev, low, high, contents),
         NEW k \in Key
  PROVE  /\ findLeaf(k) \in Leaves(lev) /\ findLeaf(k) \in 1 .. Len(nodes)
         /\ k \in high[findLeaf(k)] /\ k \notin low[findLeaf(k)]
<1>1. Tree(nodes, rootIdx, lev, low, high, high, NoNode) /\ k \in Int
  BY KeysAreInts DEF Whole
<1>2. /\ findLeaf(k) \in DOMAIN lev /\ lev[findLeaf(k)] = 0 /\ k \in high[findLeaf(k)]
      /\ k \notin low[findLeaf(k)]
  BY <1>1, FindLeaf
<1>3. QED BY <1>1, <1>2 DEF Leaves, Tree, Ghosts

\* insert, in an empty index.
LEMMA FirstStep ==
  ASSUME TypeOK, Stored(nodes, rootIdx, contents), NEW k \in Key, NEW v \in RID,
         insertFirst(k, v), call = idle, contents' = [contents EXCEPT ![k] = v]
  PROVE  NodesTyped' /\ TreeInv'
<1> DEFINE N == Len(nodes) + 1
           n == [newNode("LEAF") EXCEPT !.isRoot = TRUE, !.keys = <<k>>, !.values = <<v>>]
<1>1. Typed(nodes) /\ contents \in [Key -> RID \cup {NoRID}] /\ Len(nodes) \in Nat
  BY TypeParts DEF NodesTyped, Typed
<1>2. rootIdx = NoNode /\ \A x \in Key : contents[x] = NoRID
  <2>1. rootIdx = NoNode BY DEF insertFirst
  <2>2. ~\E lev, low, high : Whole(nodes, rootIdx, lev, low, high, contents)
    BY <2>1, TypeOfNode
  <2>3. QED BY <2>1, <2>2 DEF Stored
<1>3. nodes' = Append(nodes, n) /\ rootIdx' = N /\ call' = idle
  BY DEF insertFirst, newIdx
<1>4. N \in Nat /\ NoNode \in 0 .. N
  BY <1>1 DEF NoNode
<1>5. n \in NodeIn(N)
  <2>1. <<k>> \in Seq(Key) /\ <<v>> \in Seq(RID) OBVIOUS
  <2>2. newNode("LEAF") \in NodeIn(N) BY <1>4, NewNodeIs
  <2> HIDE DEF N
  <2>3. QED BY ONLY <2>1, <2>2 DEF NodeIn
<1>6. /\ n.type = "LEAF" /\ n.isRoot = TRUE /\ n.parentIdx = NoNode /\ n.nextLeafIdx = NoNode
      /\ n.keys = <<k>> /\ n.values = <<v>>
  BY DEF newNode
<1> HIDE DEF n
<1>7. Typed(nodes') /\ Len(nodes') = N /\ nodes'[N] = n
  BY <1>1, <1>3, <1>5, AddIs
<1>8. N \in 1 .. Len(nodes') /\ rootIdx' \in 0 .. Len(nodes')
  BY <1>3, <1>4, <1>7, <1>1
<1>9. \E lev, low, high : Whole(nodes', N, lev, low, high, [contents EXCEPT ![k] = v])
  <2>1. /\ nodes'[N].type = "LEAF" /\ nodes'[N].isRoot = TRUE /\ nodes'[N].parentIdx = NoNode
        /\ nodes'[N].nextLeafIdx = NoNode /\ nodes'[N].keys = <<k>> /\ nodes'[N].values = <<v>>
    BY <1>6, <1>7
  <2>2. Len(nodes') \in Nat BY <1>4, <1>7
  <2> HIDE DEF N
  <2>3. QED BY <1>1, <1>2, <1>8, <2>1, <2>2, FirstWhole
<1>10. Stored(nodes', rootIdx', contents')
  BY <1>3, <1>9 DEF Stored
<1>11. QED BY <1>3, <1>7, <1>8, <1>10 DEF NodesTyped, TreeInv

\* insertIntoLeaf.
LEMMA IntoLeafStep ==
  ASSUME TypeOK, NEW lev, NEW low, NEW high, Whole(nodes, rootIdx, lev, low, high, contents),
         NEW k \in Key, NEW v \in RID, NEW l \in Leaves(lev), l \in 1 .. Len(nodes),
         k \in high[l], k \notin low[l], k \notin ToSet(nodes[l].keys),
         insertIntoLeaf(l, k, v), call = idle, contents' = [contents EXCEPT ![k] = v]
  PROVE  NodesTyped' /\ TreeInv'
<1>1. Typed(nodes) /\ contents \in [Key -> RID \cup {NoRID}] /\ Len(nodes) \in Nat
      /\ rootIdx \in 0 .. Len(nodes)
  BY TypeParts DEF NodesTyped, Typed
<1>2. nodes' = [nodes EXCEPT ![l] = withEntry(nodes[l], k, v)] /\ rootIdx' = rootIdx /\ call' = idle
  BY DEF insertIntoLeaf
<1>3. /\ Len(nodes') = Len(nodes) /\ nodes'[l] = withEntry(nodes[l], k, v)
      /\ \A j \in 1 .. Len(nodes) : j # l => nodes'[j] = nodes[j]
  BY <1>1, <1>2, PutAnyIs
<1>4. SameOn(nodes', nodes, DOMAIN lev \ {l})
  <2>1. DOMAIN lev \subseteq 1 .. Len(nodes) BY DEF Whole, Tree, Ghosts
  <2>2. QED BY <1>3, <2>1 DEF SameOn
<1>5. /\ Whole(nodes', rootIdx, lev, low, high, [contents EXCEPT ![k] = v])
      /\ nodes'[l] \in NodeIn(Len(nodes))
  <2>1. Len(nodes') \in Nat /\ Len(nodes') >= Len(nodes) BY <1>1, <1>3
  <2>2. /\ Whole(nodes, rootIdx, lev, low, high, contents) /\ l \in Leaves(lev) /\ k \in Key
        /\ v \in RID /\ k \in high[l] /\ k \notin low[l] /\ k \notin ToSet(nodes[l].keys)
    OBVIOUS
  <2>3. EntryAdded(nodes'[l], nodes[l], k, v) BY <1>3 DEF EntryAdded
  <2>4. QED BY ONLY <1>1, <1>4, <2>1, <2>2, <2>3, InsertWhole
<1>6. Typed(nodes')
  <2>1. withEntry(nodes[l], k, v) \in NodeIn(Len(nodes)) BY <1>3, <1>5
  <2>2. Typed([nodes EXCEPT ![l] = withEntry(nodes[l], k, v)]) BY <1>1, <2>1, PutIs
  <2>3. QED BY <1>2, <2>2
<1>7. Stored(nodes', rootIdx', contents')
  BY <1>2, <1>5 DEF Stored
<1>8. QED BY <1>1, <1>2, <1>3, <1>6, <1>7 DEF NodesTyped, TreeInv

\* The leaf with one entry more, as the two ways to split it begin.
LEMMA EntryFirst ==
  ASSUME TypeOK, NEW lev, NEW low, NEW high, Whole(nodes, rootIdx, lev, low, high, contents),
         NEW k \in Key, NEW v \in RID, NEW l \in Leaves(lev), l \in 1 .. Len(nodes),
         k \in high[l], k \notin low[l], k \notin ToSet(nodes[l].keys), NEW ns1,
         ns1 = [nodes EXCEPT ![l] = withEntry(nodes[l], k, v)]
  PROVE  /\ Typed(ns1) /\ Len(ns1) = Len(nodes) /\ ns1[l] = withEntry(nodes[l], k, v)
         /\ \A j \in 1 .. Len(nodes) : j # l => ns1[j] = nodes[j]
         /\ ns1[l] \in NodeIn(Len(ns1))
         /\ SameLinks(ns1[l], nodes[l]) /\ Len(ns1[l].keys) = Len(nodes[l].keys) + 1
         /\ Whole(ns1, rootIdx, lev, low, high, [contents EXCEPT ![k] = v])
<1>1. Typed(nodes) /\ contents \in [Key -> RID \cup {NoRID}] /\ Len(nodes) \in Nat
  BY TypeParts DEF NodesTyped, Typed
<1>2. /\ Len(ns1) = Len(nodes) /\ ns1[l] = withEntry(nodes[l], k, v)
      /\ \A j \in 1 .. Len(nodes) : j # l => ns1[j] = nodes[j]
  BY <1>1, PutAnyIs
<1>3. SameOn(ns1, nodes, DOMAIN lev \ {l})
  <2>1. DOMAIN lev \subseteq 1 .. Len(nodes) BY DEF Whole, Tree, Ghosts
  <2>2. QED BY <1>2, <2>1 DEF SameOn
<1>4. /\ Whole(ns1, rootIdx, lev, low, high, [contents EXCEPT ![k] = v])
      /\ ns1[l] \in NodeIn(Len(nodes)) /\ SameLinks(ns1[l], nodes[l])
      /\ Len(ns1[l].keys) = Len(nodes[l].keys) + 1
  <2>1. Len(ns1) \in Nat /\ Len(ns1) >= Len(nodes) BY <1>1, <1>2
  <2>2. /\ Whole(nodes, rootIdx, lev, low, high, contents) /\ l \in Leaves(lev) /\ k \in Key
        /\ v \in RID /\ k \in high[l] /\ k \notin low[l] /\ k \notin ToSet(nodes[l].keys)
    OBVIOUS
  <2>3. EntryAdded(ns1[l], nodes[l], k, v) BY <1>2 DEF EntryAdded
  <2>4. Whole(ns1, rootIdx, lev, low, high, [contents EXCEPT ![k] = v])
    BY ONLY <1>1, <1>3, <2>1, <2>2, <2>3, InsertWhole
  <2>5. ns1[l] \in NodeIn(Len(nodes)) /\ SameLinks(ns1[l], nodes[l])
    BY ONLY <1>1, <1>3, <2>1, <2>2, <2>3, InsertWhole
  <2>6. Len(ns1[l].keys) = Len(nodes[l].keys) + 1
    <3>1. /\ Whole(ns1, rootIdx, lev, low, high, [contents EXCEPT ![k] = v])
          /\ Longer(ns1[l], nodes[l])
      BY ONLY <1>1, <1>3, <2>1, <2>2, <2>3, InsertWhole
    <3>2. QED BY <3>1 DEF Longer
  <2>7. QED BY <2>4, <2>5, <2>6
<1>5. Typed(ns1)
  <2>1. withEntry(nodes[l], k, v) \in NodeIn(Len(nodes)) BY <1>2, <1>4
  <2>2. Typed([nodes EXCEPT ![l] = withEntry(nodes[l], k, v)]) BY <1>1, <2>1, PutIs
  <2>3. QED BY <2>2
<1>6. QED BY <1>2, <1>4, <1>5

\* splitLeafAndInsert.
LEMMA SplitLeafStep ==
  ASSUME TypeOK, NEW lev, NEW low, NEW high, Whole(nodes, rootIdx, lev, low, high, contents),
         NEW k \in Key, NEW v \in RID, NEW l \in Leaves(lev), l \in 1 .. Len(nodes),
         k \in high[l], k \notin low[l], k \notin ToSet(nodes[l].keys),
         splitLeafAndInsert(l, k, v), contents' = [contents EXCEPT ![k] = v]
  PROVE  NodesTyped' /\ TreeInv'
<1> DEFINE ns1 == [nodes EXCEPT ![l] = withEntry(nodes[l], k, v)]
           sp == (Len(ns1[l].keys) + 1) \div 2
           N == Len(nodes) + 1
           a == LeftLeaf(ns1[l], sp, N)
           b == RightLeaf(ns1[l], sp, ns1[l].nextLeafIdx)
<1>1. /\ Typed(ns1) /\ Len(ns1) = Len(nodes) /\ ns1[l] = withEntry(nodes[l], k, v)
      /\ \A j \in 1 .. Len(nodes) : j # l => ns1[j] = nodes[j]
      /\ ns1[l] \in NodeIn(Len(ns1))
      /\ SameLinks(ns1[l], nodes[l]) /\ Len(ns1[l].keys) = Len(nodes[l].keys) + 1
      /\ Whole(ns1, rootIdx, lev, low, high, [contents EXCEPT ![k] = v])
  BY EntryFirst
<1>2. Typed(nodes) /\ Len(nodes) \in Nat /\ rootIdx \in 0 .. Len(nodes) /\ N \in Nat
  BY TypeParts DEF NodesTyped, Typed
<1>3. nodes[l].keys \in Seq(Key) /\ Len(nodes[l].keys) \in Nat
  BY <1>2, TypedNode, NodeInFields
<1>4. Len(ns1[l].keys) \in Nat /\ Len(ns1[l].keys) >= Order
  <2>1. Len(nodes[l].keys) >= maxLeafKeys BY DEF splitLeafAndInsert
  <2>2. QED BY <1>1, <1>3, <2>1, Thresholds, SMTT(30)
<1>5. GoodSplit(Len(ns1[l].keys), sp)
  BY <1>4, Halves
<1>6. /\ nodes' = Append([nodes EXCEPT ![l] = a], b) /\ rootIdx' = rootIdx
      /\ call' = promote(l, b.keys[1], N)
  <2>1. linkNew(l) = ns1[l].nextLeafIdx /\ newIdx = N
    BY <1>1 DEF linkNew, newIdx, SameLinks
  <2>2. QED BY <1>1, <2>1 DEF splitLeafAndInsert, LeftLeaf, RightLeaf
<1> HIDE DEF sp, a, b
<1>7. /\ Len(nodes') = N /\ nodes'[l] = a /\ nodes'[N] = b
      /\ \A j \in 1 .. Len(nodes) : j # l => nodes'[j] = ns1[j]
      /\ nodes' = [j \in 1 .. N |-> nodes'[j]]
  <2> DEFINE mid == [nodes EXCEPT ![l] = a]
  <2>1. Len(mid) = Len(nodes) /\ mid[l] = a /\ \A j \in 1 .. Len(nodes) : j # l => mid[j] = nodes[j]
    BY <1>2, PutAnyIs
  <2>2. mid \in Seq(NodeIn(Len(nodes)) \cup {a})
    <3>1. nodes \in [1 .. Len(nodes) -> NodeIn(Len(nodes))] BY <1>2, TypedNode
    <3>2. mid \in [1 .. Len(nodes) -> NodeIn(Len(nodes)) \cup {a}] BY <3>1
    <3> HIDE DEF mid
    <3>3. QED BY <1>2, <3>2
  <2>3. nodes' = Append(mid, b) BY <1>6
  <2> HIDE DEF mid
  <2>4. /\ nodes' \in Seq(NodeIn(Len(nodes)) \cup {a, b}) /\ Len(nodes') = N
        /\ nodes'[N] = b /\ \A j \in 1 .. Len(nodes) : nodes'[j] = mid[j]
    BY <1>2, <2>1, <2>2, <2>3
  <2>5. nodes' = [j \in 1 .. N |-> nodes'[j]] BY <2>4
  <2>6. QED BY <1>1, <2>1, <2>4, <2>5
<1> HIDE DEF ns1
<1>8. SameOn(nodes', ns1, DOMAIN lev \ {l})
  <2>1. DOMAIN lev \subseteq 1 .. Len(nodes) BY DEF Whole, Tree, Ghosts
  <2>2. QED BY <1>7, <2>1 DEF SameOn
<1>9. /\ \E lev2, low2, high2, top2 :
           Halfway(nodes', rootIdx, lev2, low2, high2, top2, l, nodes'[N].keys[1], N,
                   [contents EXCEPT ![k] = v])
      /\ nodes'[l] \in NodeIn(N) /\ nodes'[N] \in NodeIn(N)
  <2>1. /\ Len(ns1) \in Nat /\ N = Len(ns1) + 1 /\ Len(nodes') = Len(ns1) + 1
        /\ nodes'[l] = LeftLeaf(ns1[l], sp, N)
        /\ nodes'[N] = RightLeaf(ns1[l], sp, ns1[l].nextLeafIdx)
    BY <1>1, <1>2, <1>7 DEF a, b
  <2>2. l \in Leaves(lev) OBVIOUS
  <2> HIDE DEF N
  <2>3. QED BY ONLY <1>1, <1>5, <1>8, <2>1, <2>2, SplitLeafWhole
<1>10. Typed(nodes')
  <2>1. \A j \in 1 .. Len(nodes) : ns1[j] \in NodeIn(N)
    <3>1. \A j \in 1 .. Len(ns1) : ns1[j] \in NodeIn(Len(ns1)) BY <1>1, TypedNode
    <3>2. Len(ns1) \in Nat /\ N \in Nat /\ Len(ns1) <= N BY <1>1, <1>2
    <3> HIDE DEF N
    <3>3. QED BY <1>1, <3>1, <3>2, Wider
  <2>2. ASSUME NEW j \in 1 .. N PROVE nodes'[j] \in NodeIn(N)
    <3>1. CASE j = N BY <1>9, <3>1
    <3>2. CASE j = l BY <1>9, <3>2
    <3>3. CASE j # N /\ j # l
      <4>1. j \in 1 .. Len(nodes) BY <1>2, <3>3
      <4>2. QED BY <1>7, <2>1, <3>3, <4>1
    <3>4. QED BY <3>1, <3>2, <3>3
  <2> HIDE DEF N
  <2>3. QED BY <1>2, <1>7, <2>2, TypedByNode
<1>11. rootIdx' \in 0 .. Len(nodes')
  BY <1>2, <1>6, <1>7
<1>12. call' = promote(l, nodes'[N].keys[1], N)
  BY <1>6, <1>7
<1>13. Midway'
  <2>1. contents' = [contents EXCEPT ![k] = v] /\ rootIdx' = rootIdx BY <1>6
  <2> HIDE DEF N
  <2>2. QED BY <1>9, <1>12, <2>1 DEF Midway
<1>14. QED BY <1>10, <1>11, <1>13 DEF NodesTyped, TreeInv

\* splitLeafAndInsert, where allocateNode moves the nodes.
LEMMA SplitLeafThrowsStep ==
  ASSUME TypeOK, NEW lev, NEW low, NEW high, Whole(nodes, rootIdx, lev, low, high, contents),
         NEW k \in Key, NEW v \in RID, NEW l \in Leaves(lev), l \in 1 .. Len(nodes),
         k \in high[l], k \notin low[l], k \notin ToSet(nodes[l].keys),
         splitLeafThrows(l, k, v), contents' = [contents EXCEPT ![k] = v]
  PROVE  NodesTyped' /\ TreeInv'
<1> DEFINE ns1 == [nodes EXCEPT ![l] = withEntry(nodes[l], k, v)]
<1>1. /\ Typed(ns1) /\ Len(ns1) = Len(nodes) /\ ns1[l] = withEntry(nodes[l], k, v)
      /\ \A j \in 1 .. Len(nodes) : j # l => ns1[j] = nodes[j]
  BY EntryFirst
<1>2. Typed(nodes) /\ Len(nodes) \in Nat /\ rootIdx \in 0 .. Len(nodes)
      /\ contents \in [Key -> RID \cup {NoRID}]
  BY TypeParts DEF NodesTyped, Typed
<1>3. /\ nodes' = Append(ns1, newNode("LEAF")) /\ rootIdx' = rootIdx
      /\ call' = idle \/ call' = undefined
  BY DEF splitLeafThrows
<1> HIDE DEF ns1
<1>4. /\ Typed(nodes') /\ Len(nodes') = Len(nodes) + 1
      /\ \A j \in 1 .. Len(nodes) : nodes'[j] = ns1[j]
  <2>1. newNode("LEAF") \in NodeIn(Len(ns1) + 1) BY <1>1, <1>2, NewNodeIs
  <2>2. QED BY <1>1, <1>3, <2>1, AddIs
<1>5. SameOn(nodes', nodes, DOMAIN lev \ {l}) /\ EntryAdded(nodes'[l], nodes[l], k, v)
  <2>1. DOMAIN lev \subseteq 1 .. Len(nodes) BY DEF Whole, Tree, Ghosts
  <2>2. QED BY <1>1, <1>4, <2>1 DEF SameOn, EntryAdded
<1>6. Whole(nodes', rootIdx, lev, low, high, [contents EXCEPT ![k] = v])
  <2>1. Len(nodes') \in Nat /\ Len(nodes') >= Len(nodes) BY <1>2, <1>4
  <2>2. /\ Whole(nodes, rootIdx, lev, low, high, contents) /\ l \in Leaves(lev) /\ k \in Key
        /\ v \in RID /\ k \in high[l] /\ k \notin low[l] /\ k \notin ToSet(nodes[l].keys)
    OBVIOUS
  <2>3. QED BY ONLY <1>2, <1>5, <2>1, <2>2, InsertWhole
<1>7. Stored(nodes', rootIdx', contents')
  BY <1>3, <1>6 DEF Stored
<1>8. rootIdx' \in 0 .. Len(nodes')
  BY <1>2, <1>3, <1>4
<1>9. QED BY <1>3, <1>4, <1>7, <1>8 DEF NodesTyped, TreeInv

\* push_back.
LEMMA AppendIs ==
  ASSUME NEW L \in Nat, NEW ns, ns = [i \in 1 .. L |-> ns[i]], NEW n, NEW ns2, ns2 = Append(ns, n)
  PROVE  /\ Len(ns2) = L + 1 /\ ns2[L + 1] = n /\ \A j \in 1 .. L : ns2[j] = ns[j]
         /\ ns2 = [j \in 1 .. L + 1 |-> ns2[j]]
<1> DEFINE S == {ns[i] : i \in 1 .. L} \cup {n}
<1>1. ns \in [1 .. L -> S]
  OBVIOUS
<1>2. n \in S
  OBVIOUS
<1> HIDE DEF S
<1>3. ns \in Seq(S) /\ Len(ns) = L
  BY ONLY <1>1, L \in Nat
<1>4. ns2 \in Seq(S) /\ Len(ns2) = L + 1 /\ ns2[L + 1] = n /\ \A j \in 1 .. L : ns2[j] = ns[j]
  BY ONLY <1>2, <1>3, ns2 = Append(ns, n), L \in Nat
<1>5. ns2 = [j \in 1 .. L + 1 |-> ns2[j]]
  BY ONLY <1>4
<1>6. QED BY <1>4, <1>5

\* n with the parent p.
reparented(n, p) == [n EXCEPT !.parentIdx = p]

\* n, which was the root, with the parent p.
dethroned(n, p) == [n EXCEPT !.isRoot = FALSE, !.parentIdx = p]

\* A node gets a new parent.
LEMMA ReparentedIs ==
  ASSUME NEW N \in Nat, NEW n \in NodeIn(N), NEW p \in 0 .. N
  PROVE  /\ reparented(n, p) \in NodeIn(N) /\ SameButParent(reparented(n, p), n)
         /\ reparented(n, p).parentIdx = p
<1>1. reparented(n, p) \in NodeIn(N)
  BY DEF reparented, NodeIn
<1>2. SameButParent(reparented(n, p), n) /\ reparented(n, p).parentIdx = p
  BY DEF reparented, NodeIn, SameButParent
<1>3. QED BY <1>1, <1>2

\* The root gets a parent.
LEMMA DethronedIs ==
  ASSUME NEW N \in Nat, NEW n \in NodeIn(N), NEW p \in 0 .. N
  PROVE  /\ dethroned(n, p) \in NodeIn(N) /\ SameInner(dethroned(n, p), n)
         /\ dethroned(n, p).values = n.values /\ dethroned(n, p).nextLeafIdx = n.nextLeafIdx
         /\ dethroned(n, p).isRoot = FALSE /\ dethroned(n, p).parentIdx = p
<1>1. dethroned(n, p) \in NodeIn(N)
  BY DEF dethroned, NodeIn
<1>2. /\ SameInner(dethroned(n, p), n)
      /\ dethroned(n, p).values = n.values /\ dethroned(n, p).nextLeafIdx = n.nextLeafIdx
      /\ dethroned(n, p).isRoot = FALSE /\ dethroned(n, p).parentIdx = p
  BY DEF dethroned, NodeIn, SameInner
<1>3. QED BY <1>1, <1>2

\* What insertIntoParent is called for.
LEMMA PendingNodes ==
  ASSUME TypeOK, NEW lev, NEW low, NEW high, NEW top, NEW left, NEW key, NEW right,
         Halfway(nodes, rootIdx, lev, low, high, top, left, key, right, contents)
  PROVE  /\ Typed(nodes) /\ Len(nodes) \in Nat /\ rootIdx \in 0 .. Len(nodes)
         /\ left \in DOMAIN lev /\ right \in DOMAIN lev /\ left # right
         /\ DOMAIN lev \subseteq 1 .. Len(nodes) /\ key \in Key
         /\ left \in 1 .. Len(nodes) /\ right \in 1 .. Len(nodes)
         /\ nodes[left].isRoot <=> left = rootIdx
<1>1. Typed(nodes) /\ Len(nodes) \in Nat /\ rootIdx \in 0 .. Len(nodes)
  BY TypeParts DEF NodesTyped, Typed
<1>2. /\ Tree(nodes, rootIdx, lev, low, high, top, right)
      /\ Pending(rootIdx, lev, low, high, top, left, key, right)
  BY DEF Halfway
<1>3. left \in DOMAIN lev /\ right \in DOMAIN lev /\ left # right /\ key \in Key
  BY <1>2 DEF Pending
<1>4. DOMAIN lev \subseteq 1 .. Len(nodes)
  BY <1>2 DEF Tree, Ghosts
<1>5. NodeOK(nodes, left, rootIdx, low, high)
  BY <1>2, <1>3 DEF Tree
<1>6. nodes[left].isRoot <=> left = rootIdx
  BY <1>5 DEF NodeOK
<1>7. QED BY <1>1, <1>3, <1>4, <1>6

\* insertIntoParent, where the root was split.
LEMMA NewRootStep ==
  ASSUME TypeOK, NEW lev, NEW low, NEW high, NEW top, NEW left, NEW key, NEW right,
         Halfway(nodes, rootIdx, lev, low, high, top, left, key, right, contents),
         newRoot(left, key, right), contents' = contents
  PROVE  NodesTyped' /\ TreeInv'
<1> DEFINE N == Len(nodes) + 1
           a == dethroned(nodes[left], N)
           b == reparented(nodes[right], N)
           r == [newNode("INTERNAL") EXCEPT !.isRoot = TRUE, !.keys = <<key>>,
                                            !.childIndices = <<left, right>>]
           mid == [nodes EXCEPT ![left].isRoot = FALSE, ![left].parentIdx = N,
                                ![right].parentIdx = N]
<1>1. /\ Typed(nodes) /\ Len(nodes) \in Nat /\ rootIdx \in 0 .. Len(nodes)
      /\ left \in DOMAIN lev /\ right \in DOMAIN lev /\ left # right
      /\ DOMAIN lev \subseteq 1 .. Len(nodes) /\ key \in Key
      /\ left \in 1 .. Len(nodes) /\ right \in 1 .. Len(nodes)
      /\ nodes[left].isRoot <=> left = rootIdx
  BY PendingNodes
<1>2. left = rootIdx
  BY <1>1 DEF newRoot
<1>3. nodes' = Append(mid, r) /\ rootIdx' = N /\ call' = idle
  BY DEF newRoot, newIdx, Return
<1>4. DOMAIN nodes = 1 .. Len(nodes) /\ \A i \in 1 .. Len(nodes) : nodes[i] \in NodeIn(Len(nodes))
  BY <1>1, TypedNode
<1>5. /\ mid = [i \in 1 .. Len(nodes) |-> mid[i]] /\ mid[left] = a /\ mid[right] = b
      /\ \A i \in 1 .. Len(nodes) \ {left, right} : mid[i] = nodes[i]
  <2>1. \A i \in 1 .. Len(nodes) :
          DOMAIN nodes[i] = {"type", "isRoot", "parentIdx", "keys", "values",
                             "childIndices", "nextLeafIdx"}
    BY <1>4 DEF NodeIn
  <2>2. mid[left] = a BY <1>1, <1>4, <2>1 DEF dethroned
  <2>3. mid[right] = b BY <1>1, <1>4, <2>1 DEF reparented
  <2>4. \A i \in 1 .. Len(nodes) \ {left, right} : mid[i] = nodes[i] BY <1>1, <1>4, <2>1
  <2>5. mid = [i \in 1 .. Len(nodes) |-> mid[i]] BY <1>1, <1>4, <2>1
  <2>6. QED BY <2>2, <2>3, <2>4, <2>5
<1>6. N \in Nat /\ N \in 0 .. N /\ Len(nodes) <= N /\ NoNode \in 0 .. N
      /\ left \in 1 .. N /\ right \in 1 .. N
  BY <1>1 DEF NoNode
<1>7. \A i \in 1 .. Len(nodes) : nodes[i] \in NodeIn(N)
  <2> HIDE DEF N
  <2>1. QED BY <1>1, <1>4, <1>6, Wider
<1>8. r \in NodeIn(N)
  <2>1. <<key>> \in Seq(Key) /\ <<left, right>> \in Seq(1 .. N) BY <1>1, <1>6
  <2>2. newNode("INTERNAL") \in NodeIn(N) BY <1>6, NewNodeIs
  <2> HIDE DEF N
  <2>3. QED BY ONLY <2>1, <2>2 DEF NodeIn
<1>9. /\ r.type = "INTERNAL" /\ r.isRoot = TRUE /\ r.parentIdx = NoNode
      /\ r.keys = <<key>> /\ r.childIndices = <<left, right>>
  BY DEF newNode
<1> HIDE DEF mid, r
<1>10. /\ Len(nodes') = N /\ nodes'[N] = r /\ \A j \in 1 .. Len(nodes) : nodes'[j] = mid[j]
       /\ nodes' = [j \in 1 .. N |-> nodes'[j]]
  BY <1>1, <1>3, <1>5, AppendIs
<1> HIDE DEF N
<1>11. a \in NodeIn(N) /\ SameInner(a, nodes[left])
       /\ a.values = nodes[left].values /\ a.nextLeafIdx = nodes[left].nextLeafIdx
       /\ a.isRoot = FALSE /\ a.parentIdx = N
  BY <1>1, <1>6, <1>7, DethronedIs, ZenonT(30)
<1>12. b \in NodeIn(N) /\ SameButParent(b, nodes[right]) /\ b.parentIdx = N
  BY <1>1, <1>6, <1>7, ReparentedIs
<1> HIDE DEF a, b
<1>13. nodes'[left] = a /\ nodes'[right] = b
       /\ \A i \in 1 .. Len(nodes) \ {left, right} : nodes'[i] = nodes[i]
  BY <1>1, <1>5, <1>10
<1>14. Typed(nodes')
  <2>1. ASSUME NEW j \in 1 .. N PROVE nodes'[j] \in NodeIn(N)
    <3>1. CASE j = N BY <1>8, <1>10, <3>1
    <3>2. CASE j = left BY <1>11, <1>13, <3>2
    <3>3. CASE j = right BY <1>12, <1>13, <3>3
    <3>4. CASE j # N /\ j # left /\ j # right
      <4>1. j \in 1 .. Len(nodes) BY <1>1, <3>4 DEF N
      <4>2. QED BY <1>7, <1>13, <3>4, <4>1
    <3>5. QED BY <3>1, <3>2, <3>3, <3>4
  <2>2. QED BY <1>6, <1>10, <2>1, TypedByNode
<1>15. Crowned(nodes', nodes, DOMAIN lev, rootIdx, key, right, N)
  <2>1. SameOn(nodes', nodes, DOMAIN lev \ {rootIdx, right}) BY <1>1, <1>2, <1>13 DEF SameOn
  <2>2. QED BY <1>2, <1>9, <1>10, <1>11, <1>12, <1>13, <2>1 DEF Crowned
<1>16. \E lev2, low2, high2 : Whole(nodes', N, lev2, low2, high2, contents)
  <2>1. N = Len(nodes) + 1 /\ Len(nodes') = Len(nodes) + 1 BY <1>10 DEF N
  <2>2. Halfway(nodes, rootIdx, lev, low, high, top, rootIdx, key, right, contents) BY <1>2
  <2>3. QED BY ONLY <1>1, <1>15, <2>1, <2>2, NewRootWhole
<1>17. Stored(nodes', rootIdx', contents') /\ rootIdx' \in 0 .. Len(nodes')
  BY <1>3, <1>6, <1>10, <1>16 DEF Stored
<1>18. QED BY <1>3, <1>14, <1>17 DEF NodesTyped, TreeInv

\* The number of nodes.
LEMMA LengthIs ==
  ASSUME NEW L \in Nat, NEW ns, ns = [i \in 1 .. L |-> ns[i]]
  PROVE  Len(ns) = L
<1> DEFINE S == {ns[i] : i \in 1 .. L}
<1>1. ns \in [1 .. L -> S]
  OBVIOUS
<1> HIDE DEF S
<1>2. QED BY ONLY <1>1, L \in Nat

\* The parent with one child more, as insertIntoParent makes it.
withRight(ns, p, key, right) ==
  [ns EXCEPT ![p] = withChild(@, key, right), ![right].parentIdx = p]

\* The node p and its new child, in the vector ns2.
ChildPut(ns2, ns, S, p, key, right) ==
  /\ ChildAdded(ns2[p], ns[p], key, right) /\ SameOn(ns2, ns, S \ {p, right})
  /\ SameButParent(ns2[right], ns[right]) /\ ns2[right].parentIdx = p

\* insertIntoParent, in the parent: the new child is known and the tree is one again.
LEMMA ChildFirst ==
  ASSUME TypeOK, NEW lev, NEW low, NEW high, NEW top, NEW left, NEW key, NEW right,
         Halfway(nodes, rootIdx, lev, low, high, top, left, key, right, contents),
         left # rootIdx, NEW p, IsParent(p, nodes[left]), NEW ns1,
         ns1 = withRight(nodes, p, key, right)
  PROVE  /\ Typed(ns1) /\ Len(ns1) = Len(nodes) /\ ns1[p] = withChild(nodes[p], key, right)
         /\ ns1[right] = reparented(nodes[right], p)
         /\ \A j \in 1 .. Len(nodes) \ {p, right} : ns1[j] = nodes[j]
         /\ ChildPut(ns1, nodes, DOMAIN lev, p, key, right)
         /\ Whole(ns1, rootIdx, lev, low, high, contents)
         /\ Longer(ns1[p], nodes[p]) /\ Paired(ns1[p])
         /\ p \in DOMAIN lev /\ lev[p] # 0 /\ p \in 1 .. Len(nodes) /\ p # right
<1>1. /\ Typed(nodes) /\ Len(nodes) \in Nat /\ rootIdx \in 0 .. Len(nodes)
      /\ DOMAIN lev \subseteq 1 .. Len(nodes) /\ right \in 1 .. Len(nodes)
  BY PendingNodes
<1>2. /\ Tree(nodes, rootIdx, lev, low, high, top, right)
      /\ Pending(rootIdx, lev, low, high, top, left, key, right)
  BY DEF Halfway
<1>3. p \in DOMAIN lev /\ lev[p] # 0 /\ p \in 1 .. Len(nodes) /\ p # right
  BY <1>1, <1>2, ParentOfSplit
<1>4. DOMAIN nodes = 1 .. Len(nodes) /\ \A i \in 1 .. Len(nodes) : nodes[i] \in NodeIn(Len(nodes))
  BY <1>1, TypedNode
<1>5. /\ ns1 = [i \in 1 .. Len(nodes) |-> ns1[i]] /\ ns1[p] = withChild(nodes[p], key, right)
      /\ ns1[right] = reparented(nodes[right], p)
      /\ \A j \in 1 .. Len(nodes) \ {p, right} : ns1[j] = nodes[j]
  BY <1>1, <1>3, <1>4 DEF withRight, reparented
<1>6. p \in 0 .. Len(nodes)
  BY <1>1, <1>3
<1>7. /\ ns1[right] \in NodeIn(Len(nodes)) /\ SameButParent(ns1[right], nodes[right])
      /\ ns1[right].parentIdx = p
  BY <1>1, <1>4, <1>5, <1>6, ReparentedIs
<1>8. ChildPut(ns1, nodes, DOMAIN lev, p, key, right)
  BY <1>1, <1>5, <1>7 DEF ChildPut, ChildAdded, SameOn
<1>9. Len(ns1) = Len(nodes)
  BY <1>1, <1>5, LengthIs
<1>10. /\ Whole(ns1, rootIdx, lev, low, high, contents)
       /\ ns1[p] \in NodeIn(Len(nodes)) /\ Longer(ns1[p], nodes[p]) /\ Paired(ns1[p])
  <2>1. Len(ns1) \in Nat /\ Len(ns1) >= Len(nodes) BY <1>1, <1>9
  <2>2. /\ Halfway(nodes, rootIdx, lev, low, high, top, left, key, right, contents)
        /\ left # rootIdx /\ IsParent(p, nodes[left])
    OBVIOUS
  <2>3. /\ ChildAdded(ns1[p], nodes[p], key, right) /\ SameOn(ns1, nodes, DOMAIN lev \ {p, right})
        /\ SameButParent(ns1[right], nodes[right]) /\ ns1[right].parentIdx = p
    BY <1>8 DEF ChildPut
  <2>4. QED BY ONLY <1>1, <2>1, <2>2, <2>3, AddChildWhole
<1>11. Typed(ns1)
  <2>1. \A i \in 1 .. Len(nodes) : ns1[i] \in NodeIn(Len(nodes)) BY <1>4, <1>5, <1>7, <1>10
  <2>2. QED BY <1>1, <1>5, <2>1, TypedByNode
<1>12. QED BY <1>3, <1>5, <1>8, <1>9, <1>10, <1>11

\* insertIntoParent, where the parent has room.
LEMMA IntoParentStep ==
  ASSUME TypeOK, NEW lev, NEW low, NEW high, NEW top, NEW left, NEW key, NEW right,
         Halfway(nodes, rootIdx, lev, low, high, top, left, key, right, contents),
         left # rootIdx, NEW p, IsParent(p, nodes[left]),
         intoParent(p, key, right), contents' = contents
  PROVE  NodesTyped' /\ TreeInv'
<1>1. nodes' = withRight(nodes, p, key, right) /\ rootIdx' = rootIdx /\ call' = idle
  BY DEF intoParent, withRight, Return
<1>2. Typed(nodes') /\ Len(nodes') = Len(nodes) /\ Whole(nodes', rootIdx, lev, low, high, contents)
  BY <1>1, ChildFirst
<1>3. rootIdx' \in 0 .. Len(nodes')
  BY <1>1, <1>2, PendingNodes
<1>4. Stored(nodes', rootIdx', contents')
  BY <1>1, <1>2 DEF Stored
<1>5. QED BY <1>1, <1>2, <1>3, <1>4 DEF NodesTyped, TreeInv

\* splitInternal, where allocateNode moves the nodes.
LEMMA SplitInternalThrowsStep ==
  ASSUME TypeOK, NEW lev, NEW low, NEW high, NEW top, NEW left, NEW key, NEW right,
         Halfway(nodes, rootIdx, lev, low, high, top, left, key, right, contents),
         left # rootIdx, NEW p, IsParent(p, nodes[left]),
         splitInternalThrows(p, key, right), contents' = contents
  PROVE  NodesTyped' /\ TreeInv'
<1> DEFINE ns1 == withRight(nodes, p, key, right)
<1>1. /\ nodes' = Append(ns1, newNode("INTERNAL")) /\ rootIdx' = rootIdx
      /\ call' = idle \/ call' = undefined
  BY DEF splitInternalThrows, withRight
<1>2. /\ Typed(ns1) /\ Len(ns1) = Len(nodes)
      /\ ChildPut(ns1, nodes, DOMAIN lev, p, key, right)
      /\ p \in 1 .. Len(nodes)
  BY ChildFirst
<1>3. /\ Typed(nodes) /\ Len(nodes) \in Nat /\ rootIdx \in 0 .. Len(nodes)
      /\ DOMAIN lev \subseteq 1 .. Len(nodes) /\ right \in 1 .. Len(nodes)
  BY PendingNodes
<1> HIDE DEF ns1
<1>4. /\ Typed(nodes') /\ Len(nodes') = Len(nodes) + 1
      /\ \A j \in 1 .. Len(nodes) : nodes'[j] = ns1[j]
  <2>1. newNode("INTERNAL") \in NodeIn(Len(ns1) + 1) BY <1>2, <1>3, NewNodeIs
  <2>2. QED BY <1>1, <1>2, <2>1, AddIs
<1>5. ChildPut(nodes', nodes, DOMAIN lev, p, key, right)
  BY <1>2, <1>3, <1>4 DEF ChildPut, SameOn
<1>6. Whole(nodes', rootIdx, lev, low, high, contents)
  <2>1. Len(nodes') \in Nat /\ Len(nodes') >= Len(nodes) BY <1>3, <1>4
  <2>2. /\ Halfway(nodes, rootIdx, lev, low, high, top, left, key, right, contents)
        /\ left # rootIdx /\ IsParent(p, nodes[left])
    OBVIOUS
  <2>3. /\ ChildAdded(nodes'[p], nodes[p], key, right)
        /\ SameOn(nodes', nodes, DOMAIN lev \ {p, right})
        /\ SameButParent(nodes'[right], nodes[right]) /\ nodes'[right].parentIdx = p
    BY <1>5 DEF ChildPut
  <2>4. QED BY ONLY <1>3, <2>1, <2>2, <2>3, AddChildWhole
<1>7. Stored(nodes', rootIdx', contents')
  BY <1>1, <1>6 DEF Stored
<1>8. rootIdx' \in 0 .. Len(nodes')
  BY <1>1, <1>3, <1>4
<1>9. QED BY <1>1, <1>4, <1>7, <1>8 DEF NodesTyped, TreeInv

\* The halves of an internal node.
leftInner(n, mid) ==
  [n EXCEPT !.keys = SubSeq(@, 1, mid), !.childIndices = SubSeq(@, 1, mid + 1)]

\* What splitInternal puts into the new node.
rightInner(n, mid) ==
  [newNode("INTERNAL") EXCEPT !.keys = SubSeq(n.keys, mid + 2, Len(n.keys)),
                              !.childIndices = SubSeq(n.childIndices, mid + 2, Len(n.childIndices)),
                              !.parentIdx = n.parentIdx]

\* The node keeps its first half.
LEMMA LeftInnerIs ==
  ASSUME NEW N \in Nat, NEW n \in NodeIn(N), Paired(n), NEW mid \in 1 .. Len(n.keys) - 1
  PROVE  leftInner(n, mid) \in NodeIn(N) /\ LeftHalf(leftInner(n, mid), n, mid)
<1> DEFINE e == mid + 1
           ks == SubSeq(n.keys, 1, mid)
           cs == SubSeq(n.childIndices, 1, e)
           n2 == leftInner(n, mid)
<1>1. /\ n.keys \in Seq(Key) /\ n.childIndices \in Seq(1 .. N) /\ Len(n.keys) \in Nat
      /\ Len(n.childIndices) = Len(n.keys) + 1
  BY NodeInFields DEF Paired
<1>2. /\ mid \in Nat /\ e \in Nat /\ 1 <= mid + 1 /\ mid <= Len(n.keys)
      /\ 1 <= e + 1 /\ e <= Len(n.childIndices)
  BY <1>1
<1>3. n2 = [n EXCEPT !.keys = ks, !.childIndices = cs]
  BY DEF leftInner
<1> HIDE DEF e
<1>4. ks \in Seq(Key) /\ Part(ks, n.keys, 1, mid)
  BY <1>1, <1>2, PartIs
<1>5. cs \in Seq(1 .. N) /\ Part(cs, n.childIndices, 1, e)
  <2>1. n.childIndices \in Seq(1 .. N) /\ 1 \in Nat /\ 1 <= 1 BY <1>1
  <2>2. QED BY ONLY <1>2, <2>1, PartIs
<1> HIDE DEF ks, cs, n2
<1>6. n2 \in NodeIn(N)
  BY <1>3, <1>4, <1>5 DEF NodeIn
<1>7. /\ n2.keys = ks /\ n2.childIndices = cs /\ n2.type = n.type /\ n2.isRoot = n.isRoot
      /\ n2.parentIdx = n.parentIdx
  BY <1>3 DEF NodeIn
<1>8. LeftHalf(n2, n, mid)
  BY <1>4, <1>5, <1>7 DEF LeftHalf, e
<1>9. QED BY <1>6, <1>8 DEF n2

\* The new node gets the second half.
LEMMA RightInnerIs ==
  ASSUME NEW N \in Nat, NEW n \in NodeIn(N), Paired(n), NEW mid \in 1 .. Len(n.keys) - 1
  PROVE  rightInner(n, mid) \in NodeIn(N) /\ RightHalf(rightInner(n, mid), n, mid)
<1> DEFINE e == mid + 2
           ks == SubSeq(n.keys, e, Len(n.keys))
           cs == SubSeq(n.childIndices, e, Len(n.childIndices))
           n2 == rightInner(n, mid)
           z == newNode("INTERNAL")
<1>1. /\ n.keys \in Seq(Key) /\ n.childIndices \in Seq(1 .. N) /\ Len(n.keys) \in Nat
      /\ Len(n.childIndices) = Len(n.keys) + 1 /\ n.parentIdx \in 0 .. N
  BY NodeInFields DEF Paired
<1>2. /\ e \in Nat /\ 1 <= e /\ e <= Len(n.keys) + 1
      /\ e <= Len(n.childIndices) + 1 /\ Len(n.childIndices) \in Nat
  BY <1>1
<1>3. n2 = [z EXCEPT !.keys = ks, !.childIndices = cs, !.parentIdx = n.parentIdx]
  BY DEF rightInner
<1> HIDE DEF e
<1>4. ks \in Seq(Key) /\ Part(ks, n.keys, e, Len(n.keys))
  BY <1>1, <1>2, PartIs
<1>5. cs \in Seq(1 .. N) /\ Part(cs, n.childIndices, e, Len(n.childIndices))
  <2>1. n.childIndices \in Seq(1 .. N) /\ Len(n.childIndices) <= Len(n.childIndices) BY <1>1, <1>2
  <2>2. QED BY ONLY <1>2, <2>1, PartIs
<1>6. z \in NodeIn(N) /\ z.type = "INTERNAL" /\ z.isRoot = FALSE
  <2>1. z \in NodeIn(N) BY NewNodeIs
  <2>2. z.type = "INTERNAL" /\ z.isRoot = FALSE BY DEF newNode
  <2>3. QED BY <2>1, <2>2
<1> HIDE DEF ks, cs, n2, z
<1>7. n2 \in NodeIn(N)
  BY <1>1, <1>3, <1>4, <1>5, <1>6 DEF NodeIn
<1>8. /\ n2.keys = ks /\ n2.childIndices = cs /\ n2.type = z.type /\ n2.isRoot = z.isRoot
  BY <1>3, <1>6 DEF NodeIn
<1>9. Part(n2.childIndices, n.childIndices, e, Len(n.keys) + 1)
  BY <1>1, <1>5, <1>8
<1>10. RightHalf(n2, n, mid)
  BY <1>4, <1>6, <1>8, <1>9 DEF RightHalf, e
<1>11. QED BY <1>7, <1>10 DEF n2

\* The children that splitInternal moves.
LEMMA MovedIs ==
  ASSUME NEW N \in Nat, NEW n \in NodeIn(N), Paired(n), NEW mid \in 1 .. Len(n.keys) - 1
  PROVE  ToSet(SubSeq(n.childIndices, mid + 2, Len(n.childIndices))) = MovedChildren(n, mid)
<1> DEFINE cs == n.childIndices
           m == Len(n.keys)
           e == mid + 2
           f == m + 1
           t == SubSeq(cs, e, f)
<1>1. cs \in Seq(1 .. N) /\ m \in Nat /\ Len(cs) = m + 1
  BY NodeInFields DEF Paired
<1>2. e \in Nat /\ 1 <= e /\ f \in Nat /\ f <= Len(cs) /\ e <= f + 1
  BY <1>1
<1> HIDE DEF e, f
<1>3. t \in Seq(1 .. N) /\ Part(t, cs, e, f)
  BY <1>1, <1>2, PartIs
<1> HIDE DEF t, cs, m
<1>4. Len(t) = m - mid /\ \A j \in 1 .. m - mid : t[j] = cs[mid + 1 + j]
  <2>1. Len(t) = f - e + 1 /\ \A j \in 1 .. f - e + 1 : t[j] = cs[e + j - 1]
    BY <1>3 DEF Part
  <2>2. f - e + 1 = m - mid /\ \A j \in 1 .. m - mid : e + j - 1 = mid + 1 + j
    BY <1>1 DEF e, f
  <2>3. QED BY <2>1, <2>2
<1>5. DOMAIN t = 1 .. m - mid
  BY <1>3, <1>4
<1>6. ASSUME NEW x \in ToSet(t) PROVE x \in {cs[d] : d \in mid + 2 .. m + 1}
  <2>1. PICK j \in 1 .. m - mid : x = t[j] BY <1>5 DEF ToSet
  <2>2. mid + 1 + j \in mid + 2 .. m + 1 BY <1>1
  <2>3. QED BY <1>4, <2>1, <2>2
<1>7. ASSUME NEW d \in mid + 2 .. m + 1 PROVE cs[d] \in ToSet(t)
  <2>1. d - mid - 1 \in 1 .. m - mid /\ mid + 1 + (d - mid - 1) = d BY <1>1
  <2>2. t[d - mid - 1] = cs[d] BY <1>4, <2>1
  <2>3. QED BY <1>5, <2>1, <2>2 DEF ToSet
<1>8. ToSet(t) = {cs[d] : d \in mid + 2 .. m + 1}
  BY <1>6, <1>7
<1>9. QED BY <1>1, <1>8 DEF MovedChildren, t, cs, m, e, f

\* A node of at least Order keys can be halved.
LEMMA Middle ==
  ASSUME NEW m \in Nat, m >= Order
  PROVE  m \div 2 \in 1 .. m - 1
BY Thresholds

\* splitInternal.
LEMMA SplitInternalStep ==
  ASSUME TypeOK, NEW lev, NEW low, NEW high, NEW top, NEW left, NEW key, NEW right,
         Halfway(nodes, rootIdx, lev, low, high, top, left, key, right, contents),
         left # rootIdx, NEW p, IsParent(p, nodes[left]),
         splitInternal(p, key, right), contents' = contents
  PROVE  NodesTyped' /\ TreeInv'
<1> DEFINE ns1 == withRight(nodes, p, key, right)
           n == ns1[p]
           mid == Len(n.keys) \div 2
           N == Len(nodes) + 1
           M == MovedChildren(n, mid)
           a == leftInner(n, mid)
           b == rightInner(n, mid)
           ns2 == [i \in 1 .. Len(nodes) |-> IF i = p THEN a
                                             ELSE IF i \in M THEN reparented(ns1[i], N) ELSE ns1[i]]
<1>1. /\ Typed(ns1) /\ Len(ns1) = Len(nodes) /\ ns1[p] = withChild(nodes[p], key, right)
      /\ ns1[right] = reparented(nodes[right], p)
      /\ \A j \in 1 .. Len(nodes) \ {p, right} : ns1[j] = nodes[j]
      /\ Whole(ns1, rootIdx, lev, low, high, contents)
      /\ Longer(ns1[p], nodes[p]) /\ Paired(ns1[p])
      /\ p \in DOMAIN lev /\ lev[p] # 0 /\ p \in 1 .. Len(nodes) /\ p # right
  BY ChildFirst
<1>2. /\ Typed(nodes) /\ Len(nodes) \in Nat /\ rootIdx \in 0 .. Len(nodes)
      /\ DOMAIN lev \subseteq 1 .. Len(nodes) /\ right \in 1 .. Len(nodes)
  BY PendingNodes
<1>3. /\ n \in NodeIn(Len(nodes)) /\ \A i \in 1 .. Len(nodes) : ns1[i] \in NodeIn(Len(nodes))
      /\ DOMAIN nodes = 1 .. Len(nodes) /\ nodes[p] \in NodeIn(Len(nodes))
  BY <1>1, <1>2, TypedNode
<1>4. n.keys \in Seq(Key) /\ Len(n.keys) \in Nat /\ nodes[p].keys \in Seq(Key)
  BY <1>2, <1>3, NodeInFields
<1>5. mid \in 1 .. Len(n.keys) - 1
  <2>1. Len(nodes[p].keys) \in Nat BY <1>4
  <2>2. Len(nodes[p].keys) >= maxInternalKeys
    <3>1. splitInternal(p, key, right) OBVIOUS
    <3>2. QED BY ONLY <3>1 DEF splitInternal
  <2>3. Len(n.keys) >= Order BY <1>1, <1>4, <2>1, <2>2, Thresholds DEF Longer
  <2>4. QED BY <1>4, <2>3, Middle
<1>6. N \in Nat /\ Len(nodes) <= N /\ N \in 0 .. N
  BY <1>2
<1>7. n \in NodeIn(N) /\ \A i \in 1 .. Len(nodes) : ns1[i] \in NodeIn(N)
  <2> HIDE DEF N, ns1
  <2>1. QED BY <1>2, <1>3, <1>6, Wider
<1>8. ToSet(SubSeq(n.childIndices, mid + 2, Len(n.childIndices))) = M /\ Paired(n)
  <2> HIDE DEF mid, n
  <2>1. QED BY <1>1, <1>2, <1>3, <1>5, MovedIs DEF n
<1>9. p \notin M
  <2> HIDE DEF mid, ns1
  <2> SUFFICES ASSUME NEW d \in mid + 2 .. Len(n.keys) + 1, n.childIndices[d] = p PROVE FALSE
    BY DEF MovedChildren
  <2>1. d \in 1 .. Len(n.keys) + 1 BY <1>4, <1>5
  <2>2. Tree(ns1, rootIdx, lev, low, high, high, NoNode) BY <1>1 DEF Whole
  <2>3. lev[p] + 1 = lev[p] BY <1>1, <2>1, <2>2, ParentOf
  <2>4. lev[p] \in Nat BY <1>1, <2>2 DEF Tree, Ghosts
  <2>5. QED BY <2>3, <2>4
<1>10. /\ nodes' = Append(ns2, b) /\ rootIdx' = rootIdx /\ call' = promote(p, n.keys[mid + 1], N)
  <2> DEFINE node == withChild(nodes[p], key, right)
             kept == [nodes EXCEPT ![p] = a, ![right].parentIdx = p]
             ns3 == [i \in DOMAIN nodes |-> IF i \in M THEN [kept[i] EXCEPT !.parentIdx = N]
                                            ELSE kept[i]]
  <2>1. node = n /\ newIdx = N BY <1>1 DEF newIdx
  <2>2. nodes' = Append(ns3, b) /\ rootIdx' = rootIdx /\ call' = promote(p, n.keys[mid + 1], N)
    <3>1. /\ nodes' = Append([i \in DOMAIN nodes |->
                         IF i \in ToSet(SubSeq(node.childIndices, Len(node.keys) \div 2 + 2,
                                               Len(node.childIndices)))
                         THEN [[nodes EXCEPT ![p] = leftInner(node, Len(node.keys) \div 2),
                                             ![right].parentIdx = p][i] EXCEPT !.parentIdx = newIdx]
                         ELSE [nodes EXCEPT ![p] = leftInner(node, Len(node.keys) \div 2),
                                            ![right].parentIdx = p][i]],
                         rightInner(node, Len(node.keys) \div 2))
          /\ rootIdx' = rootIdx
          /\ call' = promote(p, node.keys[Len(node.keys) \div 2 + 1], newIdx)
      BY DEF splitInternal, leftInner, rightInner
    <3> HIDE DEF n, node
    <3>2. QED BY <1>8, <2>1, <3>1
  <2> HIDE DEF a, n, M, N, ns1
  <2>3. kept[p] = a /\ \A i \in 1 .. Len(nodes) : i # p => kept[i] = ns1[i]
    BY <1>1, <1>2, <1>3 DEF reparented
  <2>4. ns3 = ns2
    <3> HIDE DEF kept
    <3>1. QED BY <1>3, <1>9, <2>3 DEF reparented
  <2>5. QED BY <2>2, <2>4
<1> HIDE DEF ns1, mid
<1>11. a \in NodeIn(N) /\ LeftHalf(a, n, mid) /\ b \in NodeIn(N) /\ RightHalf(b, n, mid)
  <2> HIDE DEF n, N
  <2>1. QED BY <1>5, <1>6, <1>7, <1>8, LeftInnerIs, RightInnerIs
<1> HIDE DEF a, b, M, N, n
<1>12. \A i \in 1 .. Len(nodes) : /\ SameButParent(reparented(ns1[i], N), ns1[i])
                                 /\ reparented(ns1[i], N).parentIdx = N
                                 /\ reparented(ns1[i], N) \in NodeIn(N)
  BY <1>6, <1>7, ReparentedIs
<1>13. ns2 = [i \in 1 .. Len(nodes) |-> ns2[i]] /\ ns2[p] = a
       /\ \A i \in 1 .. Len(nodes) :
            i # p => ns2[i] = IF i \in M THEN reparented(ns1[i], N) ELSE ns1[i]
  BY <1>1
<1> HIDE DEF ns2
<1>14. /\ Len(nodes') = N /\ nodes'[N] = b /\ \A j \in 1 .. Len(nodes) : nodes'[j] = ns2[j]
       /\ nodes' = [j \in 1 .. N |-> nodes'[j]]
  BY <1>2, <1>10, <1>13, AppendIs DEF N
<1>15. Typed(nodes')
  <2>1. ASSUME NEW j \in 1 .. N PROVE nodes'[j] \in NodeIn(N)
    <3>1. CASE j = N BY <1>11, <1>14, <3>1
    <3>2. CASE j # N
      <4>1. j \in 1 .. Len(nodes) BY <1>2, <3>2 DEF N
      <4>2. ns2[j] \in NodeIn(N) BY <1>7, <1>11, <1>12, <1>13, <4>1
      <4>3. QED BY <1>14, <4>1, <4>2
    <3>3. QED BY <3>1, <3>2
  <2>2. QED BY <1>6, <1>14, <2>1, TypedByNode
<1>16. Adopted(nodes', ns1, DOMAIN lev \ {p}, M, N)
  <2> SUFFICES ASSUME NEW i \in DOMAIN lev \ {p}
               PROVE  /\ SameButParent(nodes'[i], ns1[i])
                      /\ nodes'[i].parentIdx = IF i \in M THEN N ELSE ns1[i].parentIdx
    BY DEF Adopted
  <2>1. i \in 1 .. Len(nodes) /\ nodes'[i] = IF i \in M THEN reparented(ns1[i], N) ELSE ns1[i]
    BY <1>2, <1>13, <1>14
  <2>2. QED BY <1>12, <2>1 DEF SameButParent
<1>17. \E lev2, low2, high2, top2 :
         Halfway(nodes', rootIdx, lev2, low2, high2, top2, p, ns1[p].keys[mid + 1], N, contents)
  <2>1. /\ Len(ns1) \in Nat /\ N = Len(ns1) + 1 /\ Len(nodes') = Len(ns1) + 1
        /\ ns1[p].keys \in Seq(Key) /\ mid \in 1 .. Len(ns1[p].keys) - 1
        /\ LeftHalf(nodes'[p], ns1[p], mid) /\ RightHalf(nodes'[N], ns1[p], mid)
        /\ Adopted(nodes', ns1, DOMAIN lev \ {p}, MovedChildren(ns1[p], mid), N)
    BY <1>1, <1>2, <1>4, <1>5, <1>11, <1>13, <1>14, <1>16 DEF n, N, M
  <2>2. QED BY ONLY <1>1, <2>1, SplitInnerWhole
<1>18. Midway'
  <2>1. rootIdx' = rootIdx /\ contents' = contents /\ call' = promote(p, ns1[p].keys[mid + 1], N)
    BY <1>10 DEF n
  <2>2. QED BY <1>17, <2>1 DEF Midway
<1>19. rootIdx' \in 0 .. Len(nodes')
  BY <1>2, <1>10, <1>14 DEF N
<1>20. QED BY <1>15, <1>18, <1>19 DEF NodesTyped, TreeInv

\* findLeaf finds nothing in an index without a root.
LEMMA NothingFound ==
  ASSUME NEW k, rootIdx = NoNode, Len(nodes) \in Nat
  PROVE  findLeaf(k) = NoNode
<1> DEFINE N == Len(nodes)
<1>1. PICK D : D = [d \in 0 .. N |-> DownStep(D, d, k)]
  BY DownExists
<1> DEFINE C == CHOOSE f : f = [d \in 0 .. N |-> DownStep(f, d, k)]
<1>2. C = [d \in 0 .. N |-> DownStep(C, d, k)]
  BY <1>1
<1>3. findLeaf(k) = C[N]
  BY DEF findLeaf, DownStep
<1> HIDE DEF C
<1> DEFINE S == {d \in Nat : d <= N => C[d] = NoNode}
<1>4. 0 \in S
  <2>1. C[0] = rootIdx BY <1>2 DEF DownStep
  <2>2. QED BY <2>1
<1>5. ASSUME NEW d \in Nat, d \in S PROVE d + 1 \in S
  <2> SUFFICES ASSUME d + 1 <= N PROVE C[d + 1] = NoNode
    OBVIOUS
  <2>1. d + 1 \in 0 .. N /\ d + 1 # 0 /\ (d + 1) - 1 = d /\ d <= N OBVIOUS
  <2>2. C[d] = NoNode BY <1>5, <2>1
  <2>3. C[d + 1] = DownStep(C, d + 1, k) BY <1>2, <2>1
  <2>4. QED BY <2>1, <2>2, <2>3 DEF DownStep
<1>6. Nat \subseteq S
  <2> HIDE DEF S
  <2>1. QED BY <1>4, <1>5, SetInduction
<1>7. C[N] = NoNode
  BY <1>6
<1>8. QED BY <1>3, <1>7

\* remove, where the leaf keeps enough entries.
LEMMA RemoveEnough ==
  ASSUME NEW ns, NEW lev, NEW low, NEW high, NEW cont, NEW l, Typed(ns),
         Lean(ns, rootIdx, lev, low, high, l, cont), cont \in [Key -> RID \cup {NoRID}],
         l \in Leaves(lev), Len(ns[l].keys) \in Nat, ~underfull(ns, l), finishRemove(ns)
  PROVE  Typed(nodes') /\ Stored(nodes', rootIdx', cont) /\ rootIdx' \in 0 .. Len(nodes')
<1>1. ns[l].isRoot <=> l = rootIdx
  BY DEF Lean, Tree, NodeOK, Leaves
<1>2. l = rootIdx \/ Len(ns[l].keys) >= minLeafKeys
  BY <1>1, Thresholds DEF underfull
<1>3. Whole(ns, rootIdx, lev, low, high, cont)
  BY <1>2, LeanWhole
<1>4. QED BY <1>3, FinishWhole

\* remove, where the leaf has a sibling to borrow from or to be merged with.
LEMMA RemoveShort ==
  ASSUME NEW ns, NEW lev, NEW low, NEW high, NEW cont, NEW l, NEW p, NEW pos, Typed(ns),
         Lean(ns, rootIdx, lev, low, high, l, cont), cont \in [Key -> RID \cup {NoRID}],
         l \in Leaves(lev), underfull(ns, l), l # rootIdx => Len(ns[l].keys) + 1 >= minLeafKeys,
         IsParent(p, ns[l]), IsPlace(pos, ns[p], l), Len(ns[p].childIndices) > 1,
         finishRemove(handleUnderflow(ns, l, p, pos))
  PROVE  Typed(nodes') /\ Stored(nodes', rootIdx', cont) /\ rootIdx' \in 0 .. Len(nodes')
<1>1. l # rootIdx
  BY DEF Lean, Tree, NodeOK, Leaves, underfull
<1>2. PICK ns2 : ns2 = handleUnderflow(ns, l, p, pos)
  OBVIOUS
<1>3. Typed(ns2) /\ \E lev2, low2, high2 : Whole(ns2, rootIdx, lev2, low2, high2, cont)
  BY <1>1, <1>2, UnderflowWhole
<1>4. finishRemove(ns2)
  BY <1>2
<1>5. QED BY <1>3, <1>4, FinishWhole

\* remove.
LEMMA RemoveStep ==
  ASSUME TypeOK, Stored(nodes, rootIdx, contents), NEW k \in Key, remove(k)
  PROVE  NodesTyped' /\ TreeInv' /\ contents' \in [Key -> RID \cup {NoRID}]
<1> DEFINE l == findLeaf(k)
           ns == [nodes EXCEPT ![l] = withoutEntry(nodes[l], k)]
           p == ns[l].parentIdx
           pos == Position(ns[p].childIndices, l)
           cont == [contents EXCEPT ![k] = NoRID]
<1>1. Typed(nodes) /\ contents \in [Key -> RID \cup {NoRID}] /\ Len(nodes) \in Nat
      /\ rootIdx \in 0 .. Len(nodes)
  BY TypeParts DEF NodesTyped, Typed
<1>2. l # NoNode /\ k \in ToSet(nodes[l].keys) /\ contents' = cont /\ call = idle
  BY DEF remove
<1>3. \/ ~underfull(ns, l) /\ finishRemove(ns) /\ call' = call
      \/ /\ underfull(ns, l) /\ Len(ns[p].childIndices) > 1
         /\ finishRemove(handleUnderflow(ns, l, p, pos)) /\ call' = call
      \/ call' = undefined /\ nodes' = nodes /\ rootIdx' = rootIdx
  BY DEF remove
<1>4. PICK lev, low, high : Whole(nodes, rootIdx, lev, low, high, contents)
  BY <1>1, <1>2, NothingFound DEF Stored
<1>5. l \in Leaves(lev) /\ l \in 1 .. Len(nodes)
  BY <1>4, LeafToFind
<1>6. cont \in [Key -> RID \cup {NoRID}]
  BY <1>1
<1> HIDE DEF l, cont
<1>7. PICK n : n = withoutEntry(nodes[l], k)
  OBVIOUS
<1>8. /\ Len(ns) = Len(nodes) /\ ns[l] = n /\ \A j \in 1 .. Len(nodes) : j # l => ns[j] = nodes[j]
  BY <1>1, <1>5, <1>7, PutAnyIs
<1>9. SameOn(ns, nodes, DOMAIN lev \ {l}) /\ EntryTaken(ns[l], nodes[l], k)
  <2>1. DOMAIN lev \subseteq 1 .. Len(nodes) BY <1>4 DEF Whole, Tree, Ghosts
  <2>2. QED BY <1>7, <1>8, <2>1 DEF SameOn, EntryTaken
<1>10. ns = [nodes EXCEPT ![l] = n]
  BY <1>7
<1> HIDE DEF ns
<1>11. /\ Lean(ns, rootIdx, lev, low, high, l, cont)
       /\ ns[l] \in NodeIn(Len(nodes)) /\ SameLinks(ns[l], nodes[l]) /\ Len(ns[l].keys) \in Nat
       /\ l # rootIdx => Len(ns[l].keys) + 1 >= minLeafKeys
  BY ONLY <1>1, <1>2, <1>4, <1>5, <1>8, <1>9, RemoveWhole DEF cont
<1>12. Typed(ns)
  <2>1. n \in NodeIn(Len(nodes)) BY <1>8, <1>11
  <2>2. QED BY <1>1, <1>5, <1>10, <2>1, PutIs
<1>13. IsParent(p, ns[l]) /\ IsPlace(pos, ns[p], l)
  BY DEF IsParent, IsPlace
<1> HIDE DEF p, pos
<1>14. CASE ~underfull(ns, l) /\ finishRemove(ns) /\ call' = call
  <2>1. Typed(nodes') /\ Stored(nodes', rootIdx', cont) /\ rootIdx' \in 0 .. Len(nodes')
    BY <1>5, <1>6, <1>11, <1>12, <1>14, RemoveEnough
  <2>2. QED BY <1>2, <1>6, <1>14, <2>1 DEF NodesTyped, TreeInv
<1>15. CASE /\ underfull(ns, l) /\ Len(ns[p].childIndices) > 1
            /\ finishRemove(handleUnderflow(ns, l, p, pos)) /\ call' = call
  <2>1. Typed(nodes') /\ Stored(nodes', rootIdx', cont) /\ rootIdx' \in 0 .. Len(nodes')
    BY <1>5, <1>6, <1>11, <1>12, <1>13, <1>15, RemoveShort
  <2>2. QED BY <1>2, <1>6, <1>15, <2>1 DEF NodesTyped, TreeInv
<1>16. CASE call' = undefined /\ nodes' = nodes /\ rootIdx' = rootIdx
  BY <1>1, <1>2, <1>6, <1>16 DEF NodesTyped, TreeInv
<1>17. QED BY <1>3, <1>14, <1>15, <1>16

\* insert.
LEMMA InsertStep ==
  ASSUME TypeOK, Stored(nodes, rootIdx, contents), NEW k \in Key, NEW v \in RID, insert(k, v)
  PROVE  NodesTyped' /\ TreeInv' /\ contents' \in [Key -> RID \cup {NoRID}]
<1>1. contents \in [Key -> RID \cup {NoRID}]
  BY TypeParts
<1>2. contents' = [contents EXCEPT ![k] = v] /\ call = idle
  BY DEF insert
<1>3. contents' \in [Key -> RID \cup {NoRID}]
  BY <1>1, <1>2
<1>4. CASE insertFirst(k, v)
  BY <1>2, <1>3, <1>4, FirstStep
<1>5. CASE /\ rootIdx # NoNode /\ k \notin ToSet(nodes[findLeaf(k)].keys)
           /\ \/ insertIntoLeaf(findLeaf(k), k, v)
              \/ splitLeafAndInsert(findLeaf(k), k, v)
              \/ splitLeafThrows(findLeaf(k), k, v)
  <2>1. PICK l : l = findLeaf(k) OBVIOUS
  <2>2. PICK lev, low, high : Whole(nodes, rootIdx, lev, low, high, contents)
    BY <1>5 DEF Stored
  <2>3. /\ l \in Leaves(lev) /\ l \in 1 .. Len(nodes) /\ k \in high[l] /\ k \notin low[l]
        /\ k \notin ToSet(nodes[l].keys)
    BY <1>5, <2>1, <2>2, LeafToFind
  <2>4. CASE insertIntoLeaf(l, k, v) BY <1>2, <1>3, <2>2, <2>3, <2>4, IntoLeafStep
  <2>5. CASE splitLeafAndInsert(l, k, v) BY <1>2, <1>3, <2>2, <2>3, <2>5, SplitLeafStep
  <2>6. CASE splitLeafThrows(l, k, v) BY <1>2, <1>3, <2>2, <2>3, <2>6, SplitLeafThrowsStep
  <2>7. QED BY <1>5, <2>1, <2>4, <2>5, <2>6
<1>6. QED BY <1>4, <1>5 DEF insert

\* insertIntoParent.
LEMMA ParentStep ==
  ASSUME TypeOK, Midway, insertIntoParent
  PROVE  NodesTyped' /\ TreeInv' /\ contents' = contents
<1>1. PICK lev, low, high, top, left, key, right :
        /\ call = promote(left, key, right)
        /\ Halfway(nodes, rootIdx, lev, low, high, top, left, key, right, contents)
  BY DEF Midway
<1>2. call[2] = left /\ call[3] = key /\ call[4] = right
  BY <1>1, Calls
<1>3. contents' = contents
  BY DEF insertIntoParent
<1>4. nodes[left].isRoot <=> left = rootIdx
  BY <1>1, PendingNodes
<1>5. PICK p : p = nodes[left].parentIdx
  OBVIOUS
<1>6. \/ newRoot(left, key, right)
      \/ /\ ~nodes[left].isRoot
         /\ \/ intoParent(p, key, right)
            \/ splitInternal(p, key, right)
            \/ splitInternalThrows(p, key, right)
  BY <1>2, <1>5 DEF insertIntoParent
<1>7. CASE newRoot(left, key, right)
  BY <1>1, <1>3, <1>7, NewRootStep
<1>8. CASE /\ ~nodes[left].isRoot
           /\ \/ intoParent(p, key, right)
              \/ splitInternal(p, key, right)
              \/ splitInternalThrows(p, key, right)
  <2>1. left # rootIdx /\ IsParent(p, nodes[left]) BY <1>4, <1>5, <1>8 DEF IsParent
  <2>2. CASE intoParent(p, key, right) BY <1>1, <1>3, <2>1, <2>2, IntoParentStep
  <2>3. CASE splitInternal(p, key, right) BY <1>1, <1>3, <2>1, <2>3, SplitInternalStep
  <2>4. CASE splitInternalThrows(p, key, right)
    BY <1>1, <1>3, <2>1, <2>4, SplitInternalThrowsStep
  <2>5. QED BY <1>8, <2>2, <2>3, <2>4
<1>9. QED BY <1>6, <1>7, <1>8

\* entryCount stays a number.
LEMMA CountStep ==
  ASSUME entryCount \in Int, Next
  PROVE  entryCount' \in Int
<1>1. ASSUME NEW k, NEW v, insert(k, v) PROVE entryCount' \in Int
  <2>1. insertFirst(k, v) => entryCount' = entryCount + 1 BY DEF insertFirst
  <2>2. ASSUME NEW l
        PROVE  /\ insertIntoLeaf(l, k, v) => entryCount' = entryCount + 1
               /\ splitLeafAndInsert(l, k, v) => entryCount' = entryCount
               /\ splitLeafThrows(l, k, v) => entryCount' = entryCount
    <3>1. insertIntoLeaf(l, k, v) => entryCount' = entryCount + 1 BY DEF insertIntoLeaf
    <3>2. splitLeafAndInsert(l, k, v) => entryCount' = entryCount BY DEF splitLeafAndInsert
    <3>3. splitLeafThrows(l, k, v) => entryCount' = entryCount BY DEF splitLeafThrows
    <3>4. QED BY <3>1, <3>2, <3>3
  <2>3. entryCount' = entryCount \/ entryCount' = entryCount + 1
    BY <1>1, <2>1, <2>2 DEF insert
  <2>4. QED BY <2>3
<1>2. ASSUME insertIntoParent PROVE entryCount' \in Int
  <2>1. ASSUME NEW p, NEW k, NEW r
        PROVE  /\ newRoot(p, k, r) => entryCount' = entryCount + 1
               /\ intoParent(p, k, r) => entryCount' = entryCount + 1
               /\ splitInternal(p, k, r) => entryCount' = entryCount
               /\ splitInternalThrows(p, k, r) => entryCount' = entryCount
    <3>1. newRoot(p, k, r) => entryCount' = entryCount + 1 BY DEF newRoot, Return
    <3>2. intoParent(p, k, r) => entryCount' = entryCount + 1 BY DEF intoParent, Return
    <3>3. splitInternal(p, k, r) => entryCount' = entryCount BY DEF splitInternal
    <3>4. splitInternalThrows(p, k, r) => entryCount' = entryCount BY DEF splitInternalThrows
    <3>5. QED BY <3>1, <3>2, <3>3, <3>4
  <2>2. entryCount' = entryCount \/ entryCount' = entryCount + 1
    BY <1>2, <2>1 DEF insertIntoParent
  <2>3. QED BY <2>2
<1>3. ASSUME NEW k, remove(k) PROVE entryCount' \in Int
  BY <1>3 DEF remove
<1>4. QED BY <1>1, <1>2, <1>3 DEF Next

\* Every step keeps the invariant.
LEMMA TreeStep ==
  ASSUME TreeOK, [Next]_vars
  PROVE  TreeOK'
<1>1. TypeOK /\ TreeInv /\ entryCount \in Int /\ contents \in [Key -> RID \cup {NoRID}]
  BY TypeParts DEF TreeOK
<1>2. call = idle => Stored(nodes, rootIdx, contents)
  BY <1>1, Calls DEF TreeInv, Midway
<1>3. Len(call) = 4 => Midway
  BY <1>1, Calls DEF TreeInv
<1>4. SUFFICES NodesTyped' /\ TreeInv' /\ entryCount' \in Int
               /\ contents' \in [Key -> RID \cup {NoRID}]
  <2>1. TypeOK' <=> (NodesTyped' /\ entryCount' \in Int /\ contents' \in [Key -> RID \cup {NoRID}])
    <3>1. Typed(nodes') <=> /\ nodes' \in Seq(Node)
                            /\ \A i \in DOMAIN nodes' :
                                 /\ nodes'[i].parentIdx \in 0 .. Len(nodes')
                                 /\ nodes'[i].nextLeafIdx \in 0 .. Len(nodes')
                                 /\ ToSet(nodes'[i].childIndices) \subseteq 1 .. Len(nodes')
      BY TypedIs
    <3>2. QED BY <3>1 DEF TypeOK, NodesTyped
  <2>2. QED BY <2>1 DEF TreeOK
<1>5. CASE Next
  <2>1. ASSUME NEW e \in Entry, insert(e[1], e[2])
        PROVE  NodesTyped' /\ TreeInv' /\ contents' \in [Key -> RID \cup {NoRID}]
    <3>1. e[1] \in Key /\ e[2] \in RID BY DEF Key, RID
    <3>2. call = idle BY <2>1 DEF insert
    <3>3. QED BY <1>1, <1>2, <2>1, <3>1, <3>2, InsertStep
  <2>2. ASSUME insertIntoParent
        PROVE  NodesTyped' /\ TreeInv' /\ contents' \in [Key -> RID \cup {NoRID}]
    <3>1. Len(call) = 4 BY <2>2 DEF insertIntoParent
    <3>2. QED BY <1>1, <1>3, <2>2, <3>1, ParentStep
  <2>3. ASSUME NEW k \in Key, remove(k)
        PROVE  NodesTyped' /\ TreeInv' /\ contents' \in [Key -> RID \cup {NoRID}]
    <3>1. call = idle BY <2>3 DEF remove
    <3>2. QED BY <1>1, <1>2, <2>3, <3>1, RemoveStep
  <2>4. entryCount' \in Int BY <1>1, <1>5, CountStep
  <2>5. QED BY <1>5, <2>1, <2>2, <2>3, <2>4 DEF Next
<1>6. CASE UNCHANGED vars
  <2>1. nodes' = nodes /\ rootIdx' = rootIdx /\ call' = call /\ contents' = contents
        /\ entryCount' = entryCount
    BY <1>6 DEF vars
  <2>2. NodesTyped BY <1>1, TypeParts
  <2>3. QED BY <1>1, <2>1, <2>2 DEF NodesTyped, TreeInv, Midway
<1>7. QED BY <1>5, <1>6

\* The invariant holds of the empty index.
LEMMA TreeInit ==
  ASSUME Init
  PROVE  TreeOK
<1>1. nodes = <<>> /\ rootIdx = NoNode /\ call = idle /\ entryCount = 0
      /\ contents = [k \in Key |-> NoRID]
  BY DEF Init
<1>2. TypeOK
  <2>1. nodes \in Seq(Node) /\ Len(nodes) = 0 /\ DOMAIN nodes = {} BY <1>1
  <2>2. rootIdx \in 0 .. Len(nodes) BY <1>1, <2>1 DEF NoNode
  <2>3. QED BY <1>1, <2>1, <2>2 DEF TypeOK
<1>3. Stored(nodes, rootIdx, contents)
  BY <1>1 DEF Stored
<1>4. QED BY <1>1, <1>2, <1>3 DEF TreeOK, TreeInv

\* The index stays a search tree through every insertion, split, removal, borrowing and merge, and
\* through insertions that threw: its nodes hang together at equal depth, separators bound what is
\* below them, the leaves are chained in the order of their keys, and hold what a caller expects.
THEOREM TreeCorrect == Spec => []TreeOK
<1>1. Init => TreeOK
  BY TreeInit
<1>2. TreeOK /\ [Next]_vars => TreeOK'
  BY TreeStep
<1>3. QED BY <1>1, <1>2, PTL DEF Spec

\* A leaf with ordered keys has a key once.
LEMMA OneRid ==
  ASSUME NEW N \in Nat, NEW n \in NodeIn(N), NEW lo, NEW hi, Ordered(n.keys, lo, hi),
         NEW i \in 1 .. Len(n.keys), NEW j \in 1 .. Len(n.keys), n.keys[i] = n.keys[j]
  PROVE  i = j
<1>1. n.keys \in Seq(Key) /\ Len(n.keys) \in Nat
  BY NodeInFields
<1>2. n.keys[i] \in Int /\ n.keys[j] \in Int
  BY <1>1, KeysAreInts, ElementOfSeq
<1>3. SUFFICES ASSUME i # j PROVE FALSE
  OBVIOUS
<1>4. i < j \/ j < i
  BY <1>1, <1>3
<1>5. n.keys[i] < n.keys[j] \/ n.keys[j] < n.keys[i]
  BY <1>4 DEF Ordered
<1>6. QED BY <1>2, <1>5

\* What search finds in a leaf.
LEMMA SearchLeaf ==
  ASSUME TypeOK, NEW lev, NEW low, NEW high, Whole(nodes, rootIdx, lev, low, high, contents),
         NEW k \in Key
  PROVE  search(k) = contents[k]
<1>1. PICK l : l = findLeaf(k)
  OBVIOUS
<1>2. /\ l \in Leaves(lev) /\ l \in 1 .. Len(nodes) /\ k \in high[l] /\ k \notin low[l]
      /\ l \in DOMAIN lev /\ lev[l] = 0 /\ l # NoNode
  BY <1>1, LeafToFind DEF Leaves, NoNode
<1>3. Typed(nodes) /\ Len(nodes) \in Nat /\ contents[k] \in RID \cup {NoRID}
  BY TypeParts DEF NodesTyped, Typed
<1>4. /\ Tree(nodes, rootIdx, lev, low, high, high, NoNode) /\ Holds(nodes, lev, contents)
  BY DEF Whole
<1>5. nodes[l] \in NodeIn(Len(nodes))
  BY <1>2, <1>3, TypedNode
<1>6. nodes[l].keys \in Seq(Key) /\ nodes[l].values \in Seq(RID)
  BY <1>3, <1>5, NodeInFields
<1>7. /\ Ordered(nodes[l].keys, low[l], high[l]) /\ Len(nodes[l].values) = Len(nodes[l].keys)
  BY <1>2, <1>4 DEF Tree, NodeOK, LeafOK
<1>8. OnlyThere(nodes, lev, l, k)
  BY <1>2, <1>4, OwnerOnly
<1>9. \A w \in RID : contents[k] = w <=> Has(nodes[l], k, w)
  BY <1>2, <1>4, <1>8 DEF Holds, OnlyThere
<1>10. CASE k \notin ToSet(nodes[l].keys)
  <2>1. \A w \in RID : ~Has(nodes[l], k, w)
    <3>1. DOMAIN nodes[l].keys = 1 .. Len(nodes[l].keys) BY <1>6
    <3>2. QED BY <1>10, <3>1 DEF Has, ToSet
  <2>2. contents[k] = NoRID BY <1>3, <1>9, <2>1
  <2>3. search(k) = NoRID BY <1>1, <1>10 DEF search
  <2>4. QED BY <2>2, <2>3
<1>11. CASE k \in ToSet(nodes[l].keys)
  <2>1. PICK c : c = Position(nodes[l].keys, k) OBVIOUS
  <2>2. c \in 1 .. Len(nodes[l].keys) /\ nodes[l].keys[c] = k BY <1>6, <1>11, <2>1, PositionIs
  <2>3. search(k) = nodes[l].values[c] BY <1>1, <1>2, <1>11, <2>1 DEF search
  <2>4. nodes[l].values[c] \in RID BY <1>6, <1>7, <2>2, ElementOfSeq
  <2>5. Has(nodes[l], k, nodes[l].values[c]) BY <2>2 DEF Has
  <2>6. QED BY <1>9, <2>3, <2>4, <2>5
<1>12. QED BY <1>10, <1>11

\* The invariant makes search right.
LEMMA SearchIs ==
  ASSUME TreeOK
  PROVE  SearchRight
<1>1. SUFFICES ASSUME call = idle, NEW k \in Key PROVE search(k) = contents[k]
  BY DEF SearchRight
<1>2. TypeOK /\ Len(nodes) \in Nat
  BY TypeParts DEF TreeOK, NodesTyped, Typed
<1>3. Stored(nodes, rootIdx, contents)
  BY <1>1, Calls DEF TreeOK, TreeInv, Midway
<1>4. CASE rootIdx = NoNode /\ \A x \in Key : contents[x] = NoRID
  BY <1>2, <1>4, NothingFound DEF search
<1>5. CASE \E lev, low, high : Whole(nodes, rootIdx, lev, low, high, contents)
  BY <1>2, <1>5, SearchLeaf
<1>6. QED BY <1>3, <1>4, <1>5 DEF Stored

\* The invariant keeps the leaves filled.
LEMMA FillIs ==
  ASSUME TreeOK
  PROVE  LeafFill
<1>1. SUFFICES ASSUME call = idle, rootIdx # NoNode, NEW k \in Key
               PROVE  nodes[findLeaf(k)].isRoot \/ Len(nodes[findLeaf(k)].keys) >= minLeafKeys
  BY DEF LeafFill
<1>2. TypeOK
  BY DEF TreeOK
<1>3. PICK lev, low, high : Whole(nodes, rootIdx, lev, low, high, contents)
  BY <1>1, Calls DEF TreeOK, TreeInv, Midway, Stored
<1>4. PICK l : l = findLeaf(k)
  OBVIOUS
<1>5. l \in Leaves(lev) /\ l \in DOMAIN lev /\ l # NoNode
  BY <1>2, <1>3, <1>4, LeafToFind DEF Leaves, NoNode
<1>6. (nodes[l].isRoot <=> l = rootIdx) /\ Filled(nodes, rootIdx, lev, high, NoNode)
  BY <1>3, <1>5 DEF Whole, Tree, NodeOK
<1>7. QED BY <1>4, <1>5, <1>6 DEF Filled

\* The vector of nodes keeps its type: every index in a node refers to a node of the vector.
THEOREM TreeTypeCorrect == Spec => []TypeOK
<1>1. TreeOK => TypeOK
  BY DEF TreeOK
<1>2. QED BY <1>1, TreeCorrect, PTL

\* search finds for every key the RID that was inserted last and not removed.
THEOREM SearchCorrect == Spec => []SearchRight
<1>1. TreeOK => SearchRight
  BY SearchIs
<1>2. QED BY <1>1, TreeCorrect, PTL

\* handleUnderflow keeps every leaf but the root at minLeafKeys_ keys.
THEOREM FillCorrect == Spec => []LeafFill
<1>1. TreeOK => LeafFill
  BY FillIs
<1>2. QED BY <1>1, TreeCorrect, PTL

-------------------------------------------------------------------------------
(* The numbers of a set in their order *)

\* nth finds the number at a place.
LEMMA NthIs ==
  ASSUME NEW S, Numbers(S), NEW i \in 1 .. Cardinality(S)
  PROVE  nth(S, i) \in S /\ rank(S, nth(S, i)) = i
<1>1. \E x \in S : Cardinality({y \in S : y <= x}) = i
  BY RankTaken DEF rank, UpTo
<1>2. nth(S, i) \in S /\ Cardinality({y \in S : y <= nth(S, i)}) = i
  BY <1>1 DEF nth
<1>3. QED BY <1>2 DEF rank, UpTo

\* The number at a place is the one that stands there.
LEMMA NthOf ==
  ASSUME NEW S, Numbers(S), NEW x \in S
  PROVE  nth(S, rank(S, x)) = x
<1>1. rank(S, x) \in 1 .. Cardinality(S)
  BY RankIs
<1>2. nth(S, rank(S, x)) \in S /\ rank(S, nth(S, rank(S, x))) = rank(S, x)
  BY <1>1, NthIs
<1>3. QED BY <1>2, RankOnce

\* All numbers of A come before those of B.
Before(A, B) == \A a \in A : \A b \in B : a < b

\* The numbers of B follow in C behind those of A.
Follows(C, A, B) == \A i \in 1 .. Cardinality(B) : nth(C, Cardinality(A) + i) = nth(B, i)

\* Two sets behind each other.
LEMMA NthUnion ==
  ASSUME NEW A, NEW B, Numbers(A), Numbers(B), Before(A, B)
  PROVE  /\ Numbers(A \cup B) /\ Cardinality(A) \in Nat /\ Cardinality(B) \in Nat
         /\ Cardinality(A \cup B) = Cardinality(A) + Cardinality(B)
         /\ \A i \in 1 .. Cardinality(A) : nth(A \cup B, i) = nth(A, i)
         /\ Follows(A \cup B, A, B)
<1> DEFINE C == A \cup B
<1>1. /\ IsFiniteSet(A) /\ IsFiniteSet(B) /\ Cardinality(A) \in Nat /\ Cardinality(B) \in Nat
      /\ A \subseteq Int /\ B \subseteq Int
  BY FS_CardinalityType DEF Numbers
<1>2. A \cap B = {}
  BY <1>1 DEF Before
<1>3. IsFiniteSet(C) /\ Cardinality(C) = Cardinality(A) + Cardinality(B)
  <2>1. /\ IsFiniteSet(C)
        /\ Cardinality(C) = Cardinality(A) + Cardinality(B) - Cardinality(A \cap B)
    BY <1>1, FS_Union
  <2>2. Cardinality(A \cap B) = 0 BY <1>2, FS_EmptySet
  <2> HIDE DEF C
  <2>3. QED BY <1>1, <2>1, <2>2
<1>4. Numbers(C)
  BY <1>1, <1>3 DEF Numbers
<1>5. ASSUME NEW i \in 1 .. Cardinality(A) PROVE nth(C, i) = nth(A, i)
  <2>1. PICK x \in A : x = nth(A, i) /\ rank(A, x) = i BY NthIs
  <2>2. UpTo(C, x) = UpTo(A, x)
    <3>1. \A b \in B : ~(b <= x) BY <1>1 DEF Before
    <3>2. QED BY <3>1 DEF UpTo
  <2>3. rank(C, x) = i BY <2>1, <2>2 DEF rank
  <2>4. x \in C OBVIOUS
  <2> HIDE DEF C
  <2>5. nth(C, rank(C, x)) = x BY <1>4, <2>4, NthOf
  <2>6. QED BY <2>1, <2>3, <2>5
<1>6. ASSUME NEW i \in 1 .. Cardinality(B) PROVE nth(C, Cardinality(A) + i) = nth(B, i)
  <2>1. PICK x \in B : x = nth(B, i) /\ rank(B, x) = i BY NthIs
  <2>2. UpTo(C, x) = A \cup UpTo(B, x) /\ A \cap UpTo(B, x) = {} /\ IsFiniteSet(UpTo(B, x))
    <3>1. UpTo(C, x) = A \cup UpTo(B, x)
      <4>1. \A a \in A : a <= x BY <1>1 DEF Before
      <4>2. QED BY <4>1 DEF UpTo
    <3>2. QED BY <1>2, <3>1, RankIs DEF UpTo
  <2>3. Cardinality(A \cup UpTo(B, x)) = Cardinality(A) + Cardinality(UpTo(B, x))
    <3>1. Cardinality(UpTo(B, x)) \in Nat BY <2>2, FS_CardinalityType
    <3>2. Cardinality(A \cup UpTo(B, x))
            = Cardinality(A) + Cardinality(UpTo(B, x)) - Cardinality({})
      BY <1>1, <2>2, FS_Union
    <3>3. QED BY <1>1, <3>1, <3>2, FS_EmptySet
  <2>4. rank(C, x) = Cardinality(A) + i BY <2>1, <2>2, <2>3 DEF rank
  <2>5. x \in C OBVIOUS
  <2> HIDE DEF C
  <2>6. nth(C, rank(C, x)) = x BY <1>4, <2>5, NthOf
  <2>7. QED BY <2>1, <2>4, <2>6
<1>7. Follows(C, A, B)
  BY <1>6 DEF Follows
<1>8. QED BY <1>1, <1>3, <1>4, <1>5, <1>7

\* The values of f at the places I.
Image(f, I) == {f[i] : i \in I}

\* f is larger at a larger place of I.
Rising(f, I) == \A i, j \in I : i < j => f[i] < f[j]

\* As many values as places.
LEMMA ImageSize ==
  ASSUME NEW I, NEW f, Numbers(I), Rising(f, I), \A i \in I : f[i] \in Int
  PROVE  /\ Numbers(Image(f, I)) /\ Cardinality(Image(f, I)) = Cardinality(I)
         /\ \A i, j \in I : f[i] = f[j] => i = j
<1> DEFINE g == [i \in I |-> f[i]]
           B == Image(f, I)
<1>1. \A i, j \in I : f[i] = f[j] => i = j
  <2> SUFFICES ASSUME NEW i \in I, NEW j \in I, f[i] = f[j], i # j PROVE FALSE
    OBVIOUS
  <2>1. i \in Int /\ j \in Int /\ f[i] \in Int /\ f[j] \in Int BY DEF Numbers
  <2>2. i < j \/ j < i BY <2>1
  <2>3. f[i] < f[j] \/ f[j] < f[i] BY <2>2 DEF Rising
  <2>4. QED BY <2>1, <2>3
<1>2. B \subseteq Int /\ g \in [I -> B] /\ \A b \in B : \E i \in I : g[i] = b
  BY DEF Image
<1>3. g \in Surjection(I, B) /\ g \in Injection(I, B)
  BY <1>1, <1>2 DEF Surjection, Injection, IsInjective
<1>4. IsFiniteSet(I)
  BY DEF Numbers
<1> HIDE DEF g, B
<1>5. IsFiniteSet(B) /\ Cardinality(B) = Cardinality(I)
  BY <1>3, <1>4, FS_Surjection
<1>6. QED BY <1>1, <1>2, <1>5 DEF Numbers, B

\* The values in their order are those at the places in their order.
LEMMA ImageNth ==
  ASSUME NEW I, NEW f, Numbers(I), Rising(f, I), \A i \in I : f[i] \in Int,
         NEW j \in 1 .. Cardinality(I)
  PROVE  nth(Image(f, I), j) = f[nth(I, j)] /\ nth(I, j) \in I
<1> DEFINE B == Image(f, I)
<1>1. PICK x \in I : x = nth(I, j) /\ rank(I, x) = j
  BY NthIs
<1>2. x \in Int /\ \A i \in I : i \in Int
  BY DEF Numbers
<1>3. UpTo(B, f[x]) = Image(f, UpTo(I, x))
  <2>1. ASSUME NEW i \in I PROVE f[i] <= f[x] <=> i <= x
    <3>1. f[i] \in Int /\ f[x] \in Int /\ i \in Int BY <1>2
    <3>2. i < x => f[i] < f[x] BY DEF Rising
    <3>3. x < i => f[x] < f[i] BY DEF Rising
    <3>4. i = x => f[i] = f[x] OBVIOUS
    <3>5. QED BY <1>2, <3>1, <3>2, <3>3, <3>4
  <2>2. QED BY <2>1 DEF UpTo, Image
<1>4. Cardinality(Image(f, UpTo(I, x))) = Cardinality(UpTo(I, x))
  <2>1. IsFiniteSet(UpTo(I, x)) BY RankIs
  <2>2. Numbers(UpTo(I, x)) BY <1>2, <2>1 DEF Numbers, UpTo
  <2>3. Rising(f, UpTo(I, x)) /\ \A i \in UpTo(I, x) : f[i] \in Int BY DEF Rising, UpTo
  <2>4. QED BY <2>2, <2>3, ImageSize
<1>5. rank(B, f[x]) = j
  BY <1>1, <1>3, <1>4 DEF rank
<1>6. Numbers(B) /\ f[x] \in B
  BY ImageSize DEF Image
<1> HIDE DEF B
<1>7. nth(B, rank(B, f[x])) = f[x]
  BY <1>6, NthOf
<1>8. QED BY <1>1, <1>5, <1>7 DEF B

\* What a scan of the keys S yields.
Listing(S, cont) == [i \in 1 .. Cardinality(S) |-> cont[nth(S, i)]]

\* To scan A and then B is to scan both.
ListingJoined(A, B, cont) ==
  Listing(A \cup B, cont) = Listing(A, cont) \o Listing(B, cont)

\* A scan of two sets of keys, behind each other.
LEMMA ListingUnion ==
  ASSUME NEW A, NEW B, Numbers(A), Numbers(B), Before(A, B), A \subseteq Key, B \subseteq Key,
         NEW cont, cont \in [Key -> RID \cup {NoRID}]
  PROVE  Numbers(A \cup B) /\ ListingJoined(A, B, cont)
<1> DEFINE D == Key
           R == RID \cup {NoRID}
           C == A \cup B
           a == Cardinality(A)
           b == Cardinality(B)
           s == Listing(A, cont)
           t == Listing(B, cont)
           u == Listing(C, cont)
<1>0. cont \in [D -> R]
  OBVIOUS
<1>1. /\ Numbers(C) /\ a \in Nat /\ b \in Nat /\ Cardinality(C) = a + b
      /\ \A i \in 1 .. a : nth(C, i) = nth(A, i)
      /\ \A i \in 1 .. b : nth(C, a + i) = nth(B, i)
  <2>1. Numbers(A) /\ Numbers(B) /\ Before(A, B) OBVIOUS
  <2>2. Numbers(C) /\ a \in Nat /\ b \in Nat /\ Cardinality(C) = a + b BY ONLY <2>1, NthUnion
  <2>3. \A i \in 1 .. a : nth(C, i) = nth(A, i) BY ONLY <2>1, NthUnion
  <2>4. Follows(C, A, B) BY ONLY <2>1, NthUnion
  <2>5. QED BY <2>2, <2>3, <2>4 DEF Follows
<1>2. /\ \A i \in 1 .. a : nth(A, i) \in D
      /\ \A i \in 1 .. b : nth(B, i) \in D
      /\ \A i \in 1 .. a + b : nth(C, i) \in D
  <2>1. \A i \in 1 .. a : nth(A, i) \in A BY NthIs
  <2>2. \A i \in 1 .. b : nth(B, i) \in B BY NthIs
  <2>3. \A i \in 1 .. Cardinality(C) : nth(C, i) \in C
    <3> HIDE DEF C
    <3>1. QED BY <1>1, NthIs
  <2>4. QED BY <1>1, <2>1, <2>2, <2>3
<1> HIDE DEF C, D, R, a, b
<1>3. /\ s = [i \in 1 .. a |-> cont[nth(A, i)]] /\ t = [i \in 1 .. b |-> cont[nth(B, i)]]
      /\ u = [i \in 1 .. a + b |-> cont[nth(C, i)]]
  BY <1>1 DEF Listing, a, b
<1> HIDE DEF s, t, u
<1>4. s \in [1 .. a -> R] /\ t \in [1 .. b -> R] /\ u \in [1 .. a + b -> R]
  BY <1>2, <1>3, <1>0
<1>5. s \in Seq(R) /\ t \in Seq(R) /\ u \in Seq(R) /\ Len(s) = a /\ Len(t) = b /\ Len(u) = a + b
  BY <1>1, <1>4
<1>6. /\ s \o t \in Seq(R) /\ Len(s \o t) = a + b
      /\ \A k \in 1 .. a : (s \o t)[k] = s[k]
      /\ \A k \in 1 .. b : (s \o t)[a + k] = t[k]
  <2>1. s \in Seq(R) /\ t \in Seq(R) BY <1>5
  <2>2. /\ s \o t \in Seq(R) /\ Len(s \o t) = Len(s) + Len(t)
        /\ \A k \in 1 .. Len(s) : (s \o t)[k] = s[k]
        /\ \A k \in 1 .. Len(t) : (s \o t)[Len(s) + k] = t[k]
    BY ONLY <2>1, ConcatAt
  <2>3. QED BY <1>5, <2>2
<1>7. ASSUME NEW k \in 1 .. a + b PROVE u[k] = (s \o t)[k]
  <2>1. CASE k \in 1 .. a BY <1>1, <1>3, <1>6, <2>1
  <2>2. CASE k \notin 1 .. a
    <3>1. PICK i \in 1 .. b : k = a + i
      <4>1. k - a \in 1 .. b /\ k = a + (k - a) BY <1>1, <2>2
      <4>2. QED BY <4>1
    <3>2. QED BY <1>1, <1>3, <1>6, <3>1
  <2>3. QED BY <2>1, <2>2
<1>8. u = s \o t
  BY <1>5, <1>6, <1>7, SeqEqual
<1>9. QED BY <1>1, <1>8 DEF ListingJoined, C, s, t, u

-------------------------------------------------------------------------------
(* rangeScan *)

\* The keys of a leaf that are in the range.
InRange(n, lo, hi) == {k \in ToSet(n.keys) : lo <= k /\ k <= hi}

\* What a caller expects of the entries of a leaf.
Agrees(n, cont) == \A i \in 1 .. Len(n.keys) : cont[n.keys[i]] = n.values[i]

\* The positions that the scan takes from a leaf are those of the keys in the range.
LEMMA PickedAt ==
  ASSUME NEW ks \in Seq(Key), NEW l, NEW h, Ordered(ks, l, h), NEW lo \in Int, NEW hi \in Int,
         NEW past, past = Min({i \in DOMAIN ks : ks[i] > hi} \cup {Len(ks) + 1})
  PROVE  {i \in 1 .. past - 1 : ks[i] >= lo} = {i \in 1 .. Len(ks) : lo <= ks[i] /\ ks[i] <= hi}
<1> DEFINE T == {i \in DOMAIN ks : ks[i] > hi} \cup {Len(ks) + 1}
<1>1. Len(ks) \in Nat /\ DOMAIN ks = 1 .. Len(ks)
  OBVIOUS
<1>2. \A i \in 1 .. Len(ks) : ks[i] \in Int
  BY KeysAreInts, ElementOfSeq
<1>3. T \subseteq Nat /\ T # {}
  BY <1>1
<1>4. past \in T /\ \A y \in T : past <= y
  <2>1. past = Min(T) OBVIOUS
  <2> HIDE DEF T
  <2>2. QED BY <1>3, <2>1, MinExists
<1>5. past \in 1 .. Len(ks) + 1 /\ (past # Len(ks) + 1 => past \in 1 .. Len(ks) /\ ks[past] > hi)
  BY <1>1, <1>4
<1>6. ASSUME NEW i \in 1 .. Len(ks) PROVE ks[i] <= hi <=> i <= past - 1
  <2>1. CASE i <= past - 1
    <3>1. i \notin T
      <4>1. ~(past <= i) BY <1>5, <2>1
      <4> HIDE DEF T
      <4>2. QED BY <1>4, <4>1
    <3>2. QED BY <1>1, <1>2, <2>1, <3>1
  <2>2. CASE ~(i <= past - 1)
    <3>1. past \in 1 .. Len(ks) /\ ks[past] > hi BY <1>1, <1>5, <2>2
    <3>2. i = past \/ past < i BY <1>5, <2>2
    <3>3. past < i => ks[past] < ks[i] BY <3>1 DEF Ordered
    <3>4. ks[i] > hi BY <1>2, <3>1, <3>2, <3>3
    <3>5. QED BY <1>2, <2>2, <3>4
  <2>3. QED BY <2>1, <2>2
<1>7. \A i : i \in 1 .. past - 1 <=> i \in 1 .. Len(ks) /\ i <= past - 1
  BY <1>1, <1>5
<1>8. \A i \in 1 .. Len(ks) : ks[i] >= lo <=> lo <= ks[i]
  BY <1>2
<1>9. QED BY <1>6, <1>7, <1>8

\* The scan takes from a leaf the RIDs of its keys in the range, in their order.
LEMMA PickedIs ==
  ASSUME NEW N \in Nat, NEW n \in NodeIn(N), NEW l, NEW h, Ordered(n.keys, l, h),
         NEW cont, Agrees(n, cont), NEW lo \in Int, NEW hi \in Int
  PROVE  /\ Numbers(InRange(n, lo, hi)) /\ InRange(n, lo, hi) \subseteq Key
         /\ picked(n, lo, hi) = Listing(InRange(n, lo, hi), cont)
<1> DEFINE ks == n.keys
           I == {i \in 1 .. Len(ks) : lo <= ks[i] /\ ks[i] <= hi}
<1>1. ks \in Seq(Key) /\ Len(ks) \in Nat /\ DOMAIN ks = 1 .. Len(ks)
  BY NodeInFields
<1>2. \A i \in 1 .. Len(ks) : ks[i] \in Key /\ ks[i] \in Int
  BY <1>1, KeysAreInts, ElementOfSeq
<1>3. picked(n, lo, hi) = [j \in 1 .. Cardinality(I) |-> n.values[nth(I, j)]]
  <2>1. PICK past : past = Min({i \in DOMAIN ks : ks[i] > hi} \cup {Len(ks) + 1}) OBVIOUS
  <2>2. {i \in 1 .. past - 1 : ks[i] >= lo} = I
    <3>1. Ordered(ks, l, h) OBVIOUS
    <3> HIDE DEF ks
    <3>2. QED BY <1>1, <2>1, <3>1, PickedAt, SMTT(30)
  <2>3. picked(n, lo, hi) = [j \in 1 .. Cardinality({i \in 1 .. past - 1 : ks[i] >= lo}) |->
                               n.values[nth({i \in 1 .. past - 1 : ks[i] >= lo}, j)]]
    BY <2>1 DEF picked
  <2> HIDE DEF ks, I
  <2>4. QED BY <2>2, <2>3
<1>4. Numbers(I)
  <2>1. IsFiniteSet(1 .. Len(ks)) BY <1>1, FS_Interval
  <2>2. I \in SUBSET (1 .. Len(ks)) OBVIOUS
  <2> HIDE DEF I, ks
  <2>3. IsFiniteSet(I) BY <2>1, <2>2, FS_Subset
  <2>4. QED BY <1>1, <2>2, <2>3 DEF Numbers
<1>5. Rising(ks, I) /\ \A i \in I : ks[i] \in Int
  BY <1>2 DEF Rising, Ordered
<1>6. Image(ks, I) = InRange(n, lo, hi)
  BY <1>1 DEF Image, InRange, ToSet
<1>7. \A i \in I : cont[ks[i]] = n.values[i]
  BY DEF Agrees
<1>8. InRange(n, lo, hi) \subseteq Key
  BY <1>1, <1>2 DEF InRange, ToSet
<1> HIDE DEF ks, I
<1>9. Numbers(InRange(n, lo, hi)) /\ Cardinality(InRange(n, lo, hi)) = Cardinality(I)
  BY <1>4, <1>5, <1>6, ImageSize
<1>10. \A j \in 1 .. Cardinality(I) : cont[nth(InRange(n, lo, hi), j)] = n.values[nth(I, j)]
  <2> TAKE j \in 1 .. Cardinality(I)
  <2>1. nth(InRange(n, lo, hi), j) = ks[nth(I, j)] /\ nth(I, j) \in I
    BY <1>4, <1>5, <1>6, ImageNth
  <2>2. QED BY <1>7, <2>1
<1>11. QED BY <1>3, <1>8, <1>9, <1>10 DEF Listing

\* One turn of the loop of rangeScan.
ScanStep(S, d, lo, hi) ==
  IF d = 0 THEN [current |-> findLeaf(lo), results |-> <<>>]
  ELSE LET done == S[d - 1]
           leaf == nodes[done.current]
       IN  IF done.current = NoNode THEN done
           ELSE [current |-> IF \E i \in DOMAIN leaf.keys : leaf.keys[i] > hi THEN NoNode
                             ELSE leaf.nextLeafIdx,
                 results |-> done.results \o picked(leaf, lo, hi)]

\* The first n turns.
Scans(D, n, lo, hi) == D = [d \in 0 .. n |-> ScanStep(D, d, lo, hi)]

\* The recursive function of rangeScan exists.
LEMMA ScanExists ==
  ASSUME NEW lo, NEW hi, NEW N \in Nat
  PROVE  \E D : Scans(D, N, lo, hi)
<1> DEFINE M == {n \in Nat : \E D : Scans(D, n, lo, hi)}
<1>1. 0 \in M
  <2> DEFINE D == [d \in 0 .. 0 |-> [current |-> findLeaf(lo), results |-> <<>>]]
  <2>1. Scans(D, 0, lo, hi)
    BY DEF ScanStep, Scans
  <2>2. QED BY <2>1
<1>2. ASSUME NEW n \in Nat, n \in M PROVE n + 1 \in M
  <2>1. PICK D : D = [d \in 0 .. n |-> ScanStep(D, d, lo, hi)]
    BY <1>2 DEF Scans
  <2> DEFINE E == [d \in 0 .. n + 1 |-> IF d = n + 1 THEN ScanStep(D, d, lo, hi) ELSE D[d]]
  <2>2. ASSUME NEW d \in 0 .. n + 1 PROVE E[d] = ScanStep(E, d, lo, hi)
    <3>1. ScanStep(E, d, lo, hi) = ScanStep(D, d, lo, hi)
      <4>1. CASE d = 0 BY <4>1 DEF ScanStep
      <4>2. CASE d # 0
        <5>1. d - 1 \in 0 .. n + 1 /\ d - 1 # n + 1 BY <4>2
        <5>2. E[d - 1] = D[d - 1] BY <5>1
        <5> HIDE DEF E
        <5>3. QED BY <4>2, <5>2 DEF ScanStep
      <4>3. QED BY <4>1, <4>2
    <3>2. E[d] = ScanStep(D, d, lo, hi)
      <4>1. CASE d = n + 1 BY <4>1
      <4>2. CASE d # n + 1
        <5>1. d \in 0 .. n BY <4>2
        <5>2. D[d] = ScanStep(D, d, lo, hi) BY <2>1, <5>1
        <5>3. QED BY <4>2, <5>2
      <4>3. QED BY <4>1, <4>2
    <3>3. QED BY <3>1, <3>2
  <2>3. E = [d \in 0 .. n + 1 |-> E[d]]
    OBVIOUS
  <2> HIDE DEF E
  <2>4. Scans(E, n + 1, lo, hi)
    BY <2>2, <2>3 DEF Scans
  <2>5. QED BY <2>4
<1>3. Nat \subseteq M
  <2> HIDE DEF M
  <2>1. QED BY <1>1, <1>2, SetInduction
<1>4. QED BY <1>3

\* The keys of the range that a scan has passed when it comes to the leaf cur.
Scanned(cur, low, lo, hi) ==
  {k \in Key : lo <= k /\ k <= hi /\ contents[k] # NoRID /\ (cur = NoNode \/ k \in low[cur])}

\* What is expected at a key is what its leaf has.
LEMMA HeldThere ==
  ASSUME TypeOK, NEW lev, NEW low, NEW high, Whole(nodes, rootIdx, lev, low, high, contents),
         NEW l \in Leaves(lev)
  PROVE  /\ l \in 1 .. Len(nodes) /\ nodes[l] \in NodeIn(Len(nodes)) /\ Len(nodes) \in Nat
         /\ nodes[l].keys \in Seq(Key) /\ Ordered(nodes[l].keys, low[l], high[l])
         /\ Span(low[l], high[l]) /\ Agrees(nodes[l], contents)
         /\ \A k \in Key : k \in high[l] /\ k \notin low[l] =>
              (contents[k] # NoRID <=> k \in ToSet(nodes[l].keys))
<1>1. /\ Tree(nodes, rootIdx, lev, low, high, high, NoNode) /\ Holds(nodes, lev, contents)
  BY DEF Whole
<1>2. l \in DOMAIN lev /\ lev[l] = 0 /\ l \in 1 .. Len(nodes)
  BY <1>1 DEF Leaves, Tree, Ghosts
<1>3. Typed(nodes) /\ Len(nodes) \in Nat /\ contents \in [Key -> RID \cup {NoRID}]
  BY TypeParts DEF NodesTyped, Typed
<1>4. nodes[l] \in NodeIn(Len(nodes))
  BY <1>2, <1>3, TypedNode
<1>5. nodes[l].keys \in Seq(Key) /\ nodes[l].values \in Seq(RID)
  BY <1>3, <1>4, NodeInFields
<1>6. /\ Ordered(nodes[l].keys, low[l], high[l]) /\ Len(nodes[l].values) = Len(nodes[l].keys)
      /\ Span(low[l], high[l])
  BY <1>1, <1>2 DEF Tree, NodeOK, LeafOK
<1>7. Agrees(nodes[l], contents)
  <2> SUFFICES ASSUME NEW i \in 1 .. Len(nodes[l].keys)
               PROVE  contents[nodes[l].keys[i]] = nodes[l].values[i]
    BY DEF Agrees
  <2>1. nodes[l].keys[i] \in Key /\ nodes[l].values[i] \in RID BY <1>5, <1>6, ElementOfSeq
  <2>2. Has(nodes[l], nodes[l].keys[i], nodes[l].values[i]) BY DEF Has
  <2>3. QED BY <1>1, <2>1, <2>2 DEF Holds
<1>8. ASSUME NEW k \in Key, k \in high[l], k \notin low[l]
      PROVE  contents[k] # NoRID <=> k \in ToSet(nodes[l].keys)
  <2>1. OnlyThere(nodes, lev, l, k) BY <1>1, <1>8, OwnerOnly
  <2>2. DOMAIN nodes[l].keys = 1 .. Len(nodes[l].keys) BY <1>5
  <2>3. ASSUME contents[k] # NoRID PROVE k \in ToSet(nodes[l].keys)
    <3>1. contents[k] \in RID BY <1>3, <2>3
    <3>2. Has(nodes[l], k, contents[k]) BY <1>1, <2>1, <3>1 DEF Holds, OnlyThere
    <3>3. QED BY <2>2, <3>2 DEF Has, ToSet
  <2>4. ASSUME k \in ToSet(nodes[l].keys) PROVE contents[k] # NoRID
    <3>1. PICK i \in 1 .. Len(nodes[l].keys) : nodes[l].keys[i] = k BY <2>2, <2>4 DEF ToSet
    <3>2. contents[k] = nodes[l].values[i] BY <1>7, <3>1 DEF Agrees
    <3>3. nodes[l].values[i] \in RID BY <1>5, <1>6, ElementOfSeq
    <3>4. QED BY <3>2, <3>3, RidsAreRids
  <2>5. QED BY <2>3, <2>4
<1>9. QED BY <1>2, <1>3, <1>4, <1>5, <1>6, <1>7, <1>8

\* Where the scan goes on after the leaf cur.
After(cur, hi) ==
  IF \E i \in DOMAIN nodes[cur].keys : nodes[cur].keys[i] > hi THEN NoNode
  ELSE nodes[cur].nextLeafIdx

\* The scan goes on at the leaf that begins where cur ends, or nothing of the range is left.
LEMMA AfterIs ==
  ASSUME TypeOK, NEW lev, NEW low, NEW high, Whole(nodes, rootIdx, lev, low, high, contents),
         NEW cur \in Leaves(lev), NEW hi \in Int
  PROVE  \/ After(cur, hi) = NoNode /\ \A k \in Int : k <= hi => k \in high[cur]
         \/ After(cur, hi) \in Leaves(lev) /\ low[After(cur, hi)] = high[cur]
<1>1. /\ nodes[cur].keys \in Seq(Key) /\ Ordered(nodes[cur].keys, low[cur], high[cur])
      /\ Span(low[cur], high[cur])
  BY HeldThere
<1>2. CASE \E i \in DOMAIN nodes[cur].keys : nodes[cur].keys[i] > hi
  <2>1. PICK i \in 1 .. Len(nodes[cur].keys) : nodes[cur].keys[i] > hi BY <1>1, <1>2
  <2>2. nodes[cur].keys[i] \in high[cur] BY <1>1 DEF Ordered
  <2>3. nodes[cur].keys[i] \in Int BY <1>1, KeysAreInts, ElementOfSeq
  <2>4. \A k \in Int : k <= hi => k < nodes[cur].keys[i] BY <2>1, <2>3
  <2>5. \A k \in Int : k <= hi => k \in high[cur] BY <1>1, <2>2, <2>4 DEF Span, Down
  <2>6. QED BY <1>2, <2>5 DEF After
<1>3. CASE ~\E i \in DOMAIN nodes[cur].keys : nodes[cur].keys[i] > hi
  <2>1. After(cur, hi) = nodes[cur].nextLeafIdx BY <1>3 DEF After
  <2>2. NextOK(nodes, cur, lev, low, high) BY DEF Whole, Tree, LeafOK, Leaves
  <2>3. QED BY <2>1, <2>2 DEF NextOK, Leaves
<1>4. QED BY <1>2, <1>3

\* One leaf more.
LEMMA ScannedMore ==
  ASSUME TypeOK, NEW lev, NEW low, NEW high, Whole(nodes, rootIdx, lev, low, high, contents),
         NEW cur \in Leaves(lev), NEW lo \in Int, NEW hi \in Int
  PROVE  /\ Scanned(After(cur, hi), low, lo, hi)
              = Scanned(cur, low, lo, hi) \cup InRange(nodes[cur], lo, hi)
         /\ Before(Scanned(cur, low, lo, hi), InRange(nodes[cur], lo, hi))
<1>1. PICK next : next = After(cur, hi)
  OBVIOUS
<1>2. /\ nodes[cur].keys \in Seq(Key) /\ Ordered(nodes[cur].keys, low[cur], high[cur])
      /\ Span(low[cur], high[cur])
      /\ \A k \in Key : k \in high[cur] /\ k \notin low[cur] =>
           (contents[k] # NoRID <=> k \in ToSet(nodes[cur].keys))
  BY HeldThere
<1>3. \A k \in ToSet(nodes[cur].keys) : k \in Key /\ k \in high[cur] /\ k \notin low[cur]
  <2>1. DOMAIN nodes[cur].keys = 1 .. Len(nodes[cur].keys) BY <1>2
  <2>2. \A i \in 1 .. Len(nodes[cur].keys) : nodes[cur].keys[i] \in Key BY <1>2, ElementOfSeq
  <2>3. QED BY <1>2, <2>1, <2>2 DEF ToSet, Ordered
<1>4. cur # NoNode /\ (next # NoNode => next \in Leaves(lev) /\ low[next] = high[cur])
      /\ (next = NoNode => \A k \in Int : k <= hi => k \in high[cur])
  <2>1. \A i \in Leaves(lev) : i # NoNode BY DEF Whole, Tree, Ghosts, Leaves, NoNode
  <2>2. QED BY <1>1, <2>1, AfterIs
<1>5. low[cur] \subseteq high[cur] /\ Down(low[cur])
  BY <1>2, SpanNested DEF Span
<1>6. ASSUME NEW k \in Key, lo <= k, k <= hi, contents[k] # NoRID
      PROVE  (next = NoNode \/ k \in low[next]) <=>
             (k \in low[cur] \/ k \in ToSet(nodes[cur].keys))
  <2>1. (next = NoNode \/ k \in low[next]) <=> k \in high[cur]
    BY <1>4, <1>6, KeysAreInts
  <2>2. k \in high[cur] <=> k \in low[cur] \/ k \in ToSet(nodes[cur].keys)
    BY <1>2, <1>3, <1>5, <1>6
  <2>3. QED BY <2>1, <2>2
<1>7. \A k \in ToSet(nodes[cur].keys) : contents[k] # NoRID
  BY <1>2, <1>3
<1>8. Scanned(next, low, lo, hi) = Scanned(cur, low, lo, hi) \cup InRange(nodes[cur], lo, hi)
  BY <1>3, <1>4, <1>6, <1>7 DEF Scanned, InRange
<1>9. Before(Scanned(cur, low, lo, hi), InRange(nodes[cur], lo, hi))
  <2> SUFFICES ASSUME NEW a \in Scanned(cur, low, lo, hi), NEW b \in InRange(nodes[cur], lo, hi)
               PROVE  a < b
    BY DEF Before
  <2>1. a \in low[cur] /\ b \in Int /\ b \notin low[cur]
    BY <1>3, <1>4, KeysAreInts DEF Scanned, InRange
  <2>2. QED BY <1>5, <2>1, Below
<1>10. QED BY <1>1, <1>8, <1>9

\* The scan has read n leaves, which all end before the leaf cur begins.
Read(n, cur, lev, low, high) ==
  \E V : /\ V \subseteq Leaves(lev) /\ IsFiniteSet(V) /\ Cardinality(V) = n
         /\ \A i \in V : high[i] \subseteq low[cur]

\* The state of the scan after n turns: it is at a leaf and has read n others, or has ended.
ScanAt(s, n, lev, low, high, lo, hi) ==
  /\ \/ s.current = NoNode
     \/ s.current \in Leaves(lev) /\ Read(n, s.current, lev, low, high)
  /\ Numbers(Scanned(s.current, low, lo, hi))
  /\ s.results = Listing(Scanned(s.current, low, lo, hi), contents)

\* There are not more leaves than nodes.
LEMMA ReadBound ==
  ASSUME TypeOK, NEW lev, NEW low, NEW high, Whole(nodes, rootIdx, lev, low, high, contents),
         NEW cur \in Leaves(lev), NEW n \in Nat, Read(n, cur, lev, low, high)
  PROVE  n < Len(nodes) /\ \A next : low[next] = high[cur] => Read(n + 1, next, lev, low, high)
<1>1. PICK V : /\ V \subseteq Leaves(lev) /\ IsFiniteSet(V) /\ Cardinality(V) = n
               /\ \A i \in V : high[i] \subseteq low[cur]
  BY DEF Read
<1>2. Len(nodes) \in Nat /\ Span(low[cur], high[cur])
  BY HeldThere
<1>3. cur \notin V
  BY <1>1, <1>2 DEF Span
<1>4. IsFiniteSet(V \cup {cur}) /\ Cardinality(V \cup {cur}) = n + 1
  BY <1>1, <1>3, FS_AddElement
<1>5. V \cup {cur} \subseteq Leaves(lev)
  BY <1>1
<1>6. Leaves(lev) \subseteq 1 .. Len(nodes)
  BY DEF Whole, Tree, Ghosts, Leaves
<1>7. IsFiniteSet(1 .. Len(nodes)) /\ Cardinality(1 .. Len(nodes)) = Len(nodes)
  <2>1. 1 \in Int /\ Len(nodes) \in Int /\ (1 > Len(nodes) => Len(nodes) = 0) BY <1>2
  <2>2. /\ IsFiniteSet(1 .. Len(nodes))
        /\ Cardinality(1 .. Len(nodes)) = IF 1 > Len(nodes) THEN 0 ELSE Len(nodes) - 1 + 1
    BY <2>1, FS_Interval
  <2>3. QED BY <2>1, <2>2
<1>8. n + 1 <= Len(nodes)
  <2>1. V \cup {cur} \in SUBSET (1 .. Len(nodes)) BY <1>5, <1>6
  <2>2. Cardinality(V \cup {cur}) <= Cardinality(1 .. Len(nodes)) BY <1>7, <2>1, FS_Subset
  <2>3. QED BY <1>4, <1>7, <2>2
<1>9. ASSUME NEW next, low[next] = high[cur] PROVE Read(n + 1, next, lev, low, high)
  <2>1. low[cur] \subseteq high[cur] BY <1>2, SpanNested
  <2>2. \A i \in V \cup {cur} : high[i] \subseteq low[next] BY <1>1, <1>9, <2>1
  <2>3. QED BY <1>4, <1>5, <2>2 DEF Read
<1>10. QED BY <1>2, <1>8, <1>9

\* One turn of the loop.
LEMMA ScanTurn ==
  ASSUME TypeOK, NEW lev, NEW low, NEW high, Whole(nodes, rootIdx, lev, low, high, contents),
         NEW lo \in Int, NEW hi \in Int, NEW s, NEW n \in Nat, ScanAt(s, n, lev, low, high, lo, hi),
         NEW t,
         t = IF s.current = NoNode THEN s
             ELSE [current |-> After(s.current, hi),
                   results |-> s.results \o picked(nodes[s.current], lo, hi)]
  PROVE  ScanAt(t, n + 1, lev, low, high, lo, hi)
<1>1. CASE s.current = NoNode
  BY <1>1 DEF ScanAt
<1>2. CASE s.current # NoNode
  <2>1. PICK cur \in Leaves(lev) : s.current = cur /\ Read(n, cur, lev, low, high)
    BY <1>2 DEF ScanAt
  <2> DEFINE A == Scanned(cur, low, lo, hi)
             B == InRange(nodes[cur], lo, hi)
  <2>2. PICK next : next = After(cur, hi) OBVIOUS
  <2>3. t.current = next /\ t.results = s.results \o picked(nodes[cur], lo, hi)
    BY <1>2, <2>1, <2>2
  <2>4. Numbers(A) /\ s.results = Listing(A, contents) BY <2>1 DEF ScanAt
  <2>5. Numbers(B) /\ B \subseteq Key /\ picked(nodes[cur], lo, hi) = Listing(B, contents)
    BY HeldThere, PickedIs
  <2>6. Scanned(next, low, lo, hi) = A \cup B /\ Before(A, B)
    <3>1. TypeOK /\ Whole(nodes, rootIdx, lev, low, high, contents) /\ lo \in Int /\ hi \in Int
      OBVIOUS
    <3>2. Scanned(After(cur, hi), low, lo, hi) = A \cup B /\ Before(A, B)
      BY ONLY <3>1, ScannedMore
    <3>3. QED BY <2>2, <3>2
  <2>7. A \subseteq Key /\ contents \in [Key -> RID \cup {NoRID}]
    BY TypeParts DEF Scanned
  <2> HIDE DEF A, B
  <2>8. /\ Numbers(A \cup B)
        /\ Listing(A \cup B, contents) = Listing(A, contents) \o Listing(B, contents)
    <3>1. Numbers(A) /\ Numbers(B) /\ Before(A, B) /\ A \subseteq Key /\ B \subseteq Key
      BY <2>4, <2>5, <2>6, <2>7
    <3>2. Numbers(A \cup B) /\ ListingJoined(A, B, contents) BY ONLY <2>7, <3>1, ListingUnion
    <3>3. QED BY <3>2 DEF ListingJoined
  <2>9. Numbers(Scanned(next, low, lo, hi))
        /\ t.results = Listing(Scanned(next, low, lo, hi), contents)
    BY <2>3, <2>4, <2>5, <2>6, <2>8
  <2>10. next = NoNode \/ (next \in Leaves(lev) /\ Read(n + 1, next, lev, low, high))
    BY <2>1, <2>2, AfterIs, ReadBound
  <2>11. QED BY <2>3, <2>9, <2>10 DEF ScanAt
<1>3. QED BY <1>1, <1>2

\* Nothing to list.
LEMMA EmptyListing == Listing({}, contents) = <<>> /\ Numbers({})
<1>1. Numbers({}) /\ Cardinality({}) = 0
  BY FS_EmptySet DEF Numbers
<1>2. Listing({}, contents) = [i \in 1 .. 0 |-> contents[nth({}, i)]]
  BY <1>1 DEF Listing
<1>3. 1 .. 0 = {}
  OBVIOUS
<1>4. Listing({}, contents) \in [1 .. 0 -> {}]
  BY <1>2, <1>3
<1>5. Listing({}, contents) \in Seq({}) /\ Len(Listing({}, contents)) = 0
  BY <1>4
<1>6. Listing({}, contents) = <<>>
  BY <1>5
<1>7. QED BY <1>1, <1>6

\* rangeScan finds nothing in an index without a root.
LEMMA NothingScanned ==
  ASSUME NEW lo, NEW hi, rootIdx = NoNode, Len(nodes) \in Nat
  PROVE  rangeScan(lo, hi) = <<>>
<1> DEFINE N == Len(nodes)
<1>0. findLeaf(lo) = NoNode
  BY NothingFound
<1>1. \E D : Scans(D, N, lo, hi)
  <2>1. N \in Nat OBVIOUS
  <2> HIDE DEF N
  <2>2. QED BY ONLY <2>1, ScanExists
<1> DEFINE C == CHOOSE f : f = [d \in 0 .. N |-> ScanStep(f, d, lo, hi)]
<1>2. C = [d \in 0 .. N |-> ScanStep(C, d, lo, hi)]
  BY <1>1 DEF Scans
<1>3. rangeScan(lo, hi) = C[N].results
  BY DEF rangeScan, ScanStep
<1> HIDE DEF C
<1> DEFINE S == {d \in Nat : d <= N => C[d].current = NoNode /\ C[d].results = <<>>}
<1>4. 0 \in S
  <2>1. C[0] = [current |-> findLeaf(lo), results |-> <<>>] BY <1>2 DEF ScanStep
  <2>2. QED BY <1>0, <2>1
<1>5. ASSUME NEW d \in Nat, d \in S PROVE d + 1 \in S
  <2> SUFFICES ASSUME d + 1 <= N PROVE C[d + 1].current = NoNode /\ C[d + 1].results = <<>>
    OBVIOUS
  <2>1. d + 1 \in 0 .. N /\ d + 1 # 0 /\ (d + 1) - 1 = d /\ d <= N OBVIOUS
  <2>2. C[d].current = NoNode /\ C[d].results = <<>> BY <1>5, <2>1
  <2>3. C[d + 1] = ScanStep(C, d + 1, lo, hi) BY <1>2, <2>1
  <2>4. C[d + 1] = C[d] BY <2>1, <2>2, <2>3 DEF ScanStep
  <2>5. QED BY <2>2, <2>4
<1>6. Nat \subseteq S
  <2> HIDE DEF S
  <2>1. QED BY <1>4, <1>5, SetInduction
<1>7. C[N].results = <<>>
  BY <1>6
<1>8. QED BY <1>3, <1>7

\* The scan begins where its lower end is.
LEMMA ScanBegins ==
  ASSUME TypeOK, NEW lev, NEW low, NEW high, Whole(nodes, rootIdx, lev, low, high, contents),
         NEW lo \in Key, NEW hi \in Int, NEW s, s.current = findLeaf(lo), s.results = <<>>
  PROVE  ScanAt(s, 0, lev, low, high, lo, hi)
<1>1. PICK l : l = findLeaf(lo)
  OBVIOUS
<1>2. l \in Leaves(lev) /\ lo \notin low[l] /\ l # NoNode
  BY <1>1, LeafToFind DEF NoNode
<1>3. Down(low[l]) /\ lo \in Int
  BY <1>2, HeldThere, KeysAreInts DEF Span
<1>4. Scanned(l, low, lo, hi) = {}
  <2> SUFFICES ASSUME NEW k \in Key, lo <= k, k \in low[l] PROVE FALSE
    BY <1>2 DEF Scanned
  <2>1. k \in Int BY KeysAreInts
  <2>2. k < lo BY <1>2, <1>3, Below
  <2>3. QED BY <1>3, <2>1, <2>2
<1>5. Numbers({}) /\ Listing({}, contents) = <<>>
  BY EmptyListing
<1>7. Read(0, l, lev, low, high)
  BY FS_EmptySet DEF Read
<1>8. QED BY <1>1, <1>2, <1>4, <1>5, <1>7 DEF ScanAt

\* rangeScan in a tree.
LEMMA ScanTree ==
  ASSUME TypeOK, NEW lev, NEW low, NEW high, Whole(nodes, rootIdx, lev, low, high, contents),
         NEW lo \in Key, NEW hi \in Key
  PROVE  rangeScan(lo, hi) = Listing(Scanned(NoNode, low, lo, hi), contents)
<1> DEFINE N == Len(nodes)
<1>0. N \in Nat /\ lo \in Int /\ hi \in Int
  BY KeysAreInts, TypeParts DEF NodesTyped, Typed
<1>1. \E D : Scans(D, N, lo, hi)
  <2>1. N \in Nat BY <1>0
  <2> HIDE DEF N
  <2>2. QED BY ONLY <2>1, ScanExists
<1> DEFINE C == CHOOSE f : f = [d \in 0 .. N |-> ScanStep(f, d, lo, hi)]
<1>2. C = [d \in 0 .. N |-> ScanStep(C, d, lo, hi)]
  BY <1>1 DEF Scans
<1>3. rangeScan(lo, hi) = C[N].results
  BY DEF rangeScan, ScanStep
<1> HIDE DEF C
<1> DEFINE S == {d \in Nat : d <= N => ScanAt(C[d], d, lev, low, high, lo, hi)}
<1>4. 0 \in S
  <2>1. C[0] = [current |-> findLeaf(lo), results |-> <<>>] BY <1>0, <1>2 DEF ScanStep
  <2>2. C[0].current = findLeaf(lo) /\ C[0].results = <<>> BY <2>1
  <2>3. ScanAt(C[0], 0, lev, low, high, lo, hi) BY <1>0, <2>2, ScanBegins
  <2>4. QED BY <2>3
<1>5. ASSUME NEW d \in Nat, d \in S PROVE d + 1 \in S
  <2> SUFFICES ASSUME d + 1 <= N PROVE ScanAt(C[d + 1], d + 1, lev, low, high, lo, hi)
    OBVIOUS
  <2>1. d + 1 \in 0 .. N /\ d + 1 # 0 /\ (d + 1) - 1 = d /\ d <= N BY <1>0
  <2>2. ScanAt(C[d], d, lev, low, high, lo, hi) BY <1>5, <2>1
  <2>3. C[d + 1] = ScanStep(C, d + 1, lo, hi) BY <1>2, <2>1
  <2>4. C[d + 1] = IF C[d].current = NoNode THEN C[d]
                   ELSE [current |-> After(C[d].current, hi),
                         results |-> C[d].results \o picked(nodes[C[d].current], lo, hi)]
    BY <2>1, <2>3 DEF ScanStep, After
  <2>5. QED BY <1>0, <2>2, <2>4, ScanTurn
<1>6. Nat \subseteq S
  <2> HIDE DEF S
  <2>1. QED BY <1>4, <1>5, SetInduction
<1>7. ScanAt(C[N], N, lev, low, high, lo, hi)
  BY <1>0, <1>6
<1>8. C[N].current = NoNode
  <2>1. \A cur \in Leaves(lev) : ~Read(N, cur, lev, low, high) BY <1>0, ReadBound
  <2>2. QED BY <1>7, <2>1 DEF ScanAt
<1>9. QED BY <1>3, <1>7, <1>8 DEF ScanAt
\* The invariant makes rangeScan right.
LEMMA ScanIs ==
  ASSUME TreeOK
  PROVE  ScanRight
<1>1. SUFFICES ASSUME call = idle, NEW lo \in Key, NEW hi \in Key
               PROVE  rangeScan(lo, hi) =
                        Listing({k \in Key : lo <= k /\ k <= hi /\ contents[k] # NoRID}, contents)
  BY DEF ScanRight, Listing
<1>2. TypeOK /\ Len(nodes) \in Nat
  BY TypeParts DEF TreeOK, NodesTyped, Typed
<1>3. Stored(nodes, rootIdx, contents)
  BY <1>1, Calls DEF TreeOK, TreeInv, Midway
<1>4. CASE rootIdx = NoNode /\ \A x \in Key : contents[x] = NoRID
  <2>1. {k \in Key : lo <= k /\ k <= hi /\ contents[k] # NoRID} = {} BY <1>4
  <2>2. Listing({}, contents) = <<>> BY EmptyListing
  <2>3. rangeScan(lo, hi) = <<>> BY <1>2, <1>4, NothingScanned
  <2>4. QED BY <2>1, <2>2, <2>3
<1>5. CASE \E lev, low, high : Whole(nodes, rootIdx, lev, low, high, contents)
  <2>1. PICK lev, low, high : Whole(nodes, rootIdx, lev, low, high, contents) BY <1>5
  <2>2. rangeScan(lo, hi) = Listing(Scanned(NoNode, low, lo, hi), contents)
    BY <1>2, <2>1, ScanTree
  <2>3. Scanned(NoNode, low, lo, hi)
          = {k \in Key : lo <= k /\ k <= hi /\ contents[k] # NoRID}
    BY DEF Scanned
  <2>4. QED BY <2>2, <2>3
<1>6. QED BY <1>3, <1>4, <1>5 DEF Stored

\* rangeScan yields the RIDs of exactly the keys in its range, in the order of the keys.
THEOREM ScanCorrect == Spec => []ScanRight
<1>1. TreeOK => ScanRight
  BY ScanIs
<1>2. QED BY <1>1, TreeCorrect, PTL

===============================================================================
