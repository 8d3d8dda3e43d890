------------------------------- MODULE BPlusTree -------------------------------
(***************************************************************************)
(* The index of src/index/BPlusTree.cpp: nodes in a growing vector, linked *)
(* by their positions (counted from 1 here, NoNode for -1).  A removal is  *)
(* one step.  An insertion that splits is one step for the leaf and one    *)
(* for every insertIntoParent on the way to the root.                      *)
(*                                                                         *)
(* A node's size is the length of its keys.                                *)
(***************************************************************************)
EXTENDS Integers, FiniteSets, SequencesExt, FiniteSetsExt

CONSTANTS Order,
          Entry,      \* the pairs of a key and an RID that are inserted
          NoRID,
          MaxNodes    \* no insertion starts with more nodes

ASSUME TreeAssumption ==
  /\ Order \in Nat /\ Order > 2
  /\ \A e \in Entry : e[1] \in Int /\ e[2] # NoRID
  /\ MaxNodes \in Nat

Key == {e[1] : e \in Entry}
RID == {e[2] : e \in Entry}

NoNode == 0
maxLeafKeys == Order - 1
minLeafKeys == Order \div 2
maxInternalKeys == Order - 1

Node == [type : {"LEAF", "INTERNAL"}, isRoot : BOOLEAN, parentIdx : Nat,
         keys : Seq(Key), values : Seq(RID), childIndices : Seq(Nat),
         nextLeafIdx : Nat]

VARIABLES nodes,       \* Seq(Node)
          rootIdx,
          entryCount,
          call,        \* what the running insertion has still to do
          contents     \* the entries a caller expects: Key -> RID or NoRID

vars == <<nodes, rootIdx, entryCount, call, contents>>

idle == <<>>
\* The process died, or went on with memory it had freed.
undefined == <<"undefined">>
promote(left, key, right) == <<"insertIntoParent", left, key, right>>

\* Type of every variable.
TypeOK ==
  /\ nodes \in Seq(Node)
  /\ rootIdx \in 0 .. Len(nodes)
  /\ \A i \in DOMAIN nodes :
       /\ nodes[i].parentIdx \in 0 .. Len(nodes) /\ nodes[i].nextLeafIdx \in 0 .. Len(nodes)
       /\ ToSet(nodes[i].childIndices) \subseteq 1 .. Len(nodes)
  /\ entryCount \in Int
  /\ contents \in [Key -> RID \cup {NoRID}]

Init ==
  /\ nodes = <<>>
  /\ rootIdx = NoNode
  /\ entryCount = 0
  /\ call = idle
  /\ contents = [k \in Key |-> NoRID]

-------------------------------------------------------------------------------
(* findLeaf, search, rangeScan *)

\* Mutant: a key equal to a separator is looked for to its left.
childLeft(n, k) ==
  n.childIndices[Min({i \in DOMAIN n.keys : k <= n.keys[i]} \cup {Len(n.keys) + 1})]

\* The child to follow for key k.
childFor(n, k) ==
  n.childIndices[Min({i \in DOMAIN n.keys : k < n.keys[i]} \cup {Len(n.keys) + 1})]

findLeaf(k) ==
  LET down[d \in 0 .. Len(nodes)] ==
        IF d = 0 THEN rootIdx
        ELSE LET cur == down[d - 1] IN
             IF cur = NoNode \/ nodes[cur].type = "LEAF" THEN cur
             ELSE childFor(nodes[cur], k)
  IN  down[Len(nodes)]

Position(s, e) == CHOOSE i \in DOMAIN s : s[i] = e

search(k) ==
  LET leaf == findLeaf(k) IN
  IF leaf = NoNode \/ k \notin ToSet(nodes[leaf].keys) THEN NoRID
  ELSE nodes[leaf].values[Position(nodes[leaf].keys, k)]

\* The i-th number of the finite set S, counted from the smallest.
nth(S, i) == CHOOSE x \in S : Cardinality({y \in S : y <= x}) = i

\* What the scan takes from the leaf n: it returns at the first key above hi.
picked(n, lo, hi) ==
  LET past == Min({i \in DOMAIN n.keys : n.keys[i] > hi} \cup {Len(n.keys) + 1})
      at == {i \in 1 .. past - 1 : n.keys[i] >= lo}
  IN  [j \in 1 .. Cardinality(at) |-> n.values[nth(at, j)]]

rangeScan(lo, hi) ==
  LET scan[d \in 0 .. Len(nodes)] ==
        IF d = 0 THEN [current |-> findLeaf(lo), results |-> <<>>]
        ELSE LET done == scan[d - 1]
                 leaf == nodes[done.current]
             IN  IF done.current = NoNode THEN done
                 ELSE [current |-> IF \E i \in DOMAIN leaf.keys : leaf.keys[i] > hi THEN NoNode
                                   ELSE leaf.nextLeafIdx,
                       results |-> done.results \o picked(leaf, lo, hi)]
  IN  scan[Len(nodes)].results

-------------------------------------------------------------------------------
(* insert *)

newNode(type) ==
  [type |-> type, isRoot |-> FALSE, parentIdx |-> NoNode, keys |-> <<>>,
   values |-> <<>>, childIndices |-> <<>>, nextLeafIdx |-> NoNode]

\* Mutant: allocateNode returns the number of nodes, as if counted from 1 there.
idxPastEnd == Len(nodes) + 2

\* Where allocateNode will put the next node.
newIdx == Len(nodes) + 1

\* std::vector doubles its storage: push_back moves the nodes when their number
\* is a power of two.
Reallocates == \E i \in 0 .. Len(nodes) : Len(nodes) = 2 ^ i

\* std::lower_bound, counted from 1.
lowerBound(keys, k) == Min({i \in DOMAIN keys : keys[i] >= k} \cup {Len(keys) + 1})

withEntry(n, k, v) ==
  LET pos == lowerBound(n.keys, k) IN
  [n EXCEPT !.keys = InsertAt(@, pos, k), !.values = InsertAt(@, pos, v)]

withChild(n, k, c) ==
  LET pos == lowerBound(n.keys, k) IN
  [n EXCEPT !.keys = InsertAt(@, pos, k), !.childIndices = InsertAt(@, pos + 1, c)]

insertFirst(k, v) ==
  /\ rootIdx = NoNode
  /\ nodes' = Append(nodes, [newNode("LEAF") EXCEPT !.isRoot = TRUE,
                                                   !.keys = <<k>>, !.values = <<v>>])
  /\ rootIdx' = newIdx
  /\ entryCount' = entryCount + 1
  /\ UNCHANGED call

insertIntoLeaf(l, k, v) ==
  /\ Len(nodes[l].keys) < maxLeafKeys
  /\ nodes' = [nodes EXCEPT ![l] = withEntry(@, k, v)]
  /\ entryCount' = entryCount + 1
  /\ UNCHANGED <<rootIdx, call>>

\* Mutant: the new leaf becomes the last one.
linkLast(l) == NoNode

linkNew(l) == nodes[l].nextLeafIdx

\* The halves of the full leaf l with one entry more.
splitLeafAndInsert(l, k, v) ==
  LET leaf == withEntry(nodes[l], k, v)
      splitPoint == (Len(leaf.keys) + 1) \div 2
      newLeaf == [newNode("LEAF") EXCEPT
        !.keys = SubSeq(leaf.keys, splitPoint + 1, Len(leaf.keys)),
        !.values = SubSeq(leaf.values, splitPoint + 1, Len(leaf.values)),
        !.nextLeafIdx = linkNew(l),
        !.parentIdx = leaf.parentIdx]
      oldLeaf == [leaf EXCEPT
        !.keys = SubSeq(@, 1, splitPoint), !.values = SubSeq(@, 1, splitPoint),
        !.nextLeafIdx = newIdx]
  IN  /\ Len(nodes[l].keys) >= maxLeafKeys
      /\ ~Reallocates
      /\ nodes' = Append([nodes EXCEPT ![l] = oldLeaf], newLeaf)
      /\ call' = promote(l, newLeaf.keys[1], newIdx)
      /\ UNCHANGED <<rootIdx, entryCount>>

\* allocateNode moved the nodes: leaf is a reference to where the leaf was, and
\* its vectors are empty there.  newLeaf.keys.assign then throws
\* std::length_error, with the entry in the leaf; where the allocator has
\* overwritten leaf.size the process dies.
splitLeafThrows(l, k, v) ==
  /\ Len(nodes[l].keys) >= maxLeafKeys
  /\ Reallocates
  /\ nodes' = Append([nodes EXCEPT ![l] = withEntry(@, k, v)], newNode("LEAF"))
  /\ call' \in {idle, undefined}
  /\ UNCHANGED <<rootIdx, entryCount>>

insert(k, v) ==
  /\ call = idle /\ Len(nodes) <= MaxNodes
  /\ \/ insertFirst(k, v)
     \/ /\ rootIdx # NoNode /\ k \notin ToSet(nodes[findLeaf(k)].keys)
        /\ \/ insertIntoLeaf(findLeaf(k), k, v)
           \/ splitLeafAndInsert(findLeaf(k), k, v)
           \/ splitLeafThrows(findLeaf(k), k, v)
  /\ contents' = [contents EXCEPT ![k] = v]

-------------------------------------------------------------------------------
(* insertIntoParent, splitInternal *)

Return ==
  /\ call' = idle
  /\ entryCount' = entryCount + 1

newRoot(left, k, right) ==
  /\ nodes[left].isRoot
  /\ nodes' = Append([nodes EXCEPT ![left].isRoot = FALSE,
                                   ![left].parentIdx = newIdx,
                                   ![right].parentIdx = newIdx],
                     [newNode("INTERNAL") EXCEPT !.isRoot = TRUE, !.keys = <<k>>,
                                                 !.childIndices = <<left, right>>])
  /\ rootIdx' = newIdx
  /\ Return

intoParent(p, k, right) ==
  /\ Len(nodes[p].keys) < maxInternalKeys
  /\ nodes' = [nodes EXCEPT ![p] = withChild(@, k, right), ![right].parentIdx = p]
  /\ Return
  /\ UNCHANGED rootIdx

splitInternal(p, k, right) ==
  LET node == withChild(nodes[p], k, right)
      mid == Len(node.keys) \div 2
      moved == SubSeq(node.childIndices, mid + 2, Len(node.childIndices))
      new == [newNode("INTERNAL") EXCEPT
        !.keys = SubSeq(node.keys, mid + 2, Len(node.keys)), !.childIndices = moved,
        !.parentIdx = node.parentIdx]
      left == [node EXCEPT !.keys = SubSeq(@, 1, mid),
                           !.childIndices = SubSeq(@, 1, mid + 1)]
      kept == [nodes EXCEPT ![p] = left, ![right].parentIdx = p]
  IN  /\ Len(nodes[p].keys) >= maxInternalKeys
      /\ ~Reallocates
      /\ nodes' = Append([i \in DOMAIN nodes |->
                    IF i \in ToSet(moved) THEN [kept[i] EXCEPT !.parentIdx = newIdx]
                    ELSE kept[i]], new)
      /\ call' = promote(p, node.keys[mid + 1], newIdx)
      /\ UNCHANGED <<rootIdx, entryCount>>

\* As splitLeafThrows, with the reference node.
splitInternalThrows(p, k, right) ==
  /\ Len(nodes[p].keys) >= maxInternalKeys
  /\ Reallocates
  /\ nodes' = Append([nodes EXCEPT ![p] = withChild(@, k, right), ![right].parentIdx = p],
                     newNode("INTERNAL"))
  /\ call' \in {idle, undefined}
  /\ UNCHANGED <<rootIdx, entryCount>>

insertIntoParent ==
  /\ Len(call) = 4
  /\ LET left == call[2]
         k == call[3]
         right == call[4]
         p == nodes[left].parentIdx
     IN  \/ newRoot(left, k, right)
         \/ /\ ~nodes[left].isRoot
            /\ \/ intoParent(p, k, right)
               \/ splitInternal(p, k, right)
               \/ splitInternalThrows(p, k, right)
  /\ UNCHANGED contents

-------------------------------------------------------------------------------
(* remove.  ns are the nodes after removeFromLeaf, p the leaf's parent and pos *)
(* its position there.  handleUnderflow changes nothing for an internal node.  *)

withoutEntry(n, k) ==
  LET pos == Position(n.keys, k) IN
  [n EXCEPT !.keys = RemoveAt(@, pos), !.values = RemoveAt(@, pos)]

\* Mutant: one key too few is allowed.
underfullLate(ns, l) == ~ns[l].isRoot /\ Len(ns[l].keys) < minLeafKeys - 1

underfull(ns, l) == ~ns[l].isRoot /\ Len(ns[l].keys) < minLeafKeys

canGive(ns, i) == Len(ns[i].keys) > minLeafKeys

CanBorrowLeft(ns, p, pos) == pos > 1 /\ canGive(ns, ns[p].childIndices[pos - 1])

CanBorrowRight(ns, p, pos) ==
  pos < Len(ns[p].childIndices) /\ canGive(ns, ns[p].childIndices[pos + 1])

borrowLeft(ns, l, p, pos) ==
  LET sib == ns[p].childIndices[pos - 1] IN
  [ns EXCEPT ![l].keys = <<Last(ns[sib].keys)>> \o @,
             ![l].values = <<Last(ns[sib].values)>> \o @,
             ![sib].keys = Front(@), ![sib].values = Front(@),
             ![p].keys[pos - 1] = Last(ns[sib].keys)]

borrowRight(ns, l, p, pos) ==
  LET sib == ns[p].childIndices[pos + 1] IN
  [ns EXCEPT ![l].keys = Append(@, Head(ns[sib].keys)),
             ![l].values = Append(@, Head(ns[sib].values)),
             ![sib].keys = Tail(@), ![sib].values = Tail(@),
             ![p].keys[pos] = ns[sib].keys[2]]

\* The entries of the child at pos + 1 of p are appended to the child at pos.
merge(ns, p, pos) ==
  LET left == ns[p].childIndices[pos]
      right == ns[p].childIndices[pos + 1]
  IN  [ns EXCEPT ![left].keys = @ \o ns[right].keys,
                 ![left].values = @ \o ns[right].values,
                 ![left].nextLeafIdx = ns[right].nextLeafIdx,
                 ![p].keys = RemoveAt(@, pos),
                 ![p].childIndices = RemoveAt(@, pos + 1)]

handleUnderflow(ns, l, p, pos) ==
  IF CanBorrowLeft(ns, p, pos) THEN borrowLeft(ns, l, p, pos)
  ELSE IF CanBorrowRight(ns, p, pos) THEN borrowRight(ns, l, p, pos)
  ELSE IF pos > 1 THEN merge(ns, p, pos - 1)
  ELSE merge(ns, p, pos)

\* The only child of a root without keys becomes the root; an empty leaf is no root.
finishRemove(ns) ==
  LET shrink == ns[rootIdx].type = "INTERNAL" /\ ns[rootIdx].keys = <<>>
      root == IF shrink THEN ns[rootIdx].childIndices[1] ELSE rootIdx
  IN  /\ nodes' = IF shrink THEN [ns EXCEPT ![root].isRoot = TRUE, ![root].parentIdx = NoNode]
                  ELSE ns
      /\ rootIdx' = IF ns[root].type = "LEAF" /\ ns[root].keys = <<>> THEN NoNode ELSE root

remove(k) ==
  LET l == findLeaf(k)
      ns == [nodes EXCEPT ![l] = withoutEntry(@, k)]
      p == ns[l].parentIdx
      pos == Position(ns[p].childIndices, l)
  IN  /\ call = idle
      /\ l # NoNode /\ k \in ToSet(nodes[l].keys)
      /\ entryCount' = entryCount - 1
      /\ contents' = [contents EXCEPT ![k] = NoRID]
      /\ \/ ~underfull(ns, l) /\ finishRemove(ns) /\ UNCHANGED call
         \/ /\ underfull(ns, l) /\ Len(ns[p].childIndices) > 1
            /\ finishRemove(handleUnderflow(ns, l, p, pos))
            /\ UNCHANGED call
         \* The leaf has no sibling, and childIndices is read beyond its end.
         \/ /\ underfull(ns, l) /\ Len(ns[p].childIndices) = 1
            /\ call' = undefined
            /\ UNCHANGED <<nodes, rootIdx>>

Next ==
  \/ \E e \in Entry : insert(e[1], e[2])
  \/ insertIntoParent
  \/ \E k \in Key : remove(k)

Spec == Init /\ [][Next]_vars

-------------------------------------------------------------------------------
(* Properties *)

\* Between two calls, search finds for every key the RID that was inserted last
\* and not removed, through all splits, merges and redistributions, and also
\* after insertions that threw.
SearchRight == call = idle => \A k \in Key : search(k) = contents[k]

\* Between two calls, rangeScan yields the RIDs of exactly the keys in its range, in
\* the order of the keys.
ScanRight ==
  call = idle => \A lo, hi \in Key :
    LET range == {k \in Key : lo <= k /\ k <= hi /\ contents[k] # NoRID}
    IN  rangeScan(lo, hi) = [i \in 1 .. Cardinality(range) |-> contents[nth(range, i)]]

\* Between two calls every leaf but the root has at least minLeafKeys_ keys.  The
\* leaves in use are those that findLeaf finds: each but the first is where its
\* separator is looked for, and that is a key.
LeafFill ==
  call = idle /\ rootIdx # NoNode => \A k \in Key :
    LET leaf == nodes[findLeaf(k)]
    IN  leaf.isRoot \/ Len(leaf.keys) >= minLeafKeys
================================================================================
