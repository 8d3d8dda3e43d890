---------------------------- MODULE DetectorProofs ----------------------------
(***************************************************************************)
(* The depth-first search of LockManager::detectCycle is right on every    *)
(* wait-for graph over any number of transactions: what it answers, when   *)
(* it answers, is whether a cycle can be reached from the transaction that *)
(* asks.  That it answers at all is liveness, and stays with TLC.          *)
(***************************************************************************)
EXTENDS DeadlockDetector, SequenceTheorems, TLAPS

\* Transactions whose activation has returned false.
Finished == visited \ inStack

\* A set that a walk along the graph need never leave.
Closed(S) == \A u \in S : graph[u] \cap S # {}

\* The neighbours that activation i has been through are finished; the last of
\* them may be the activation it waits for.
Explored(i) ==
  \A u \in graph[stack[i].txnId] \ stack[i].todo :
    u \in Finished \/ (i > 1 /\ u = stack[i - 1].txnId)

\* The call stack while the search runs: it ends with the outermost call.
Running ==
  result = "none" =>
    /\ stack # <<>>
    /\ stack[Len(stack)].txnId = start
    /\ \A i \in 1 .. Len(stack) : stack[i].todo \subseteq graph[stack[i].txnId]
    /\ \A i \in 1 .. Len(stack) : Explored(i)

\* No walk for ever goes through a finished transaction.
FinishedEnds == \A S \in SUBSET Txn : Closed(S) => S \cap Finished = {}

\* The answers.
Answered ==
  /\ result = "true" => CanWalkForever
  /\ result = "false" => start \in Finished

\* The inductive invariant of the search.
SearchInv ==
  /\ TypeOK
  /\ inStack \subseteq visited
  /\ StackIsPath
  /\ Running
  /\ FinishedEnds
  /\ Answered

-------------------------------------------------------------------------------
(* The call stack *)

\* A return pops the innermost activation.
LEMMA PopStack ==
  ASSUME NEW S, NEW s \in Seq(S), s # <<>>
  PROVE  /\ Len(s) \in Nat \ {0} /\ DOMAIN s = 1 .. Len(s)
         /\ Head(s) = s[1] /\ Head(s) \in S
         /\ Tail(s) \in Seq(S) /\ Len(Tail(s)) = Len(s) - 1
         /\ DOMAIN Tail(s) = 1 .. Len(s) - 1
         /\ \A i \in 1 .. Len(s) - 1 : Tail(s)[i] = s[i + 1]
OBVIOUS

\* The stack p is s with the activation e on top.
Pushed(p, e, s) ==
  /\ Len(p) = Len(s) + 1 /\ DOMAIN p = 1 .. Len(s) + 1
  /\ p[1] = e
  /\ \A i \in 2 .. Len(s) + 1 : p[i] = s[i - 1]

\* A call pushes its activation.
LEMMA PushStack ==
  ASSUME NEW S, NEW s \in Seq(S), NEW e \in S
  PROVE  Cons(e, s) \in Seq(S) /\ Pushed(Cons(e, s), e, s)
<1>1. Cons(e, s) \in Seq(S) /\ Len(Cons(e, s)) = Len(s) + 1 /\ Cons(e, s)[1] = e
  BY DEF Cons
<1>2. \A i \in 2 .. Len(s) + 1 : Cons(e, s)[i] = s[i - 1]
  BY DEF Cons
<1>3. QED BY <1>1, <1>2 DEF Pushed

\* The loop of the innermost activation goes on to its next neighbour; the
\* other activations stay as they are.
LEMMA AdvanceStack ==
  ASSUME TypeOK, stack # <<>>, NEW n \in Txn
  PROVE  /\ advance(n) \in Seq(Activation) /\ Len(advance(n)) = Len(stack)
         /\ DOMAIN advance(n) = 1 .. Len(stack)
         /\ advance(n)[1].txnId = stack[1].txnId
         /\ advance(n)[1].todo = stack[1].todo \ {n}
         /\ \A i \in 2 .. Len(stack) : advance(n)[i] = stack[i]
         /\ \A i \in 1 .. Len(stack) : advance(n)[i].txnId = stack[i].txnId
<1> DEFINE e == [Head(stack) EXCEPT !.todo = @ \ {n}]
<1>1. stack \in Seq(Activation)
  BY DEF TypeOK
<1>2. /\ Len(stack) \in Nat \ {0}
      /\ Head(stack) = stack[1] /\ Head(stack) \in Activation
      /\ Tail(stack) \in Seq(Activation) /\ Len(Tail(stack)) = Len(stack) - 1
      /\ \A i \in 1 .. Len(stack) - 1 : Tail(stack)[i] = stack[i + 1]
  BY <1>1, PopStack
<1>3. e \in Activation /\ e.txnId = stack[1].txnId /\ e.todo = stack[1].todo \ {n}
  BY <1>2 DEF Activation
<1>4. advance(n) = Cons(e, Tail(stack))
  BY DEF advance
<1> HIDE DEF e
<1>5. /\ advance(n) \in Seq(Activation)
      /\ Len(advance(n)) = Len(Tail(stack)) + 1
      /\ DOMAIN advance(n) = 1 .. Len(Tail(stack)) + 1
      /\ advance(n)[1] = e
      /\ \A i \in 2 .. Len(Tail(stack)) + 1 : advance(n)[i] = Tail(stack)[i - 1]
  <2> DEFINE r == Tail(stack)
  <2>1. r \in Seq(Activation) /\ e \in Activation
    BY <1>2, <1>3
  <2>2. advance(n) = Cons(e, r)
    BY <1>4
  <2> HIDE DEF r
  <2>3. Cons(e, r) \in Seq(Activation) /\ Pushed(Cons(e, r), e, r)
    BY ONLY <2>1, PushStack
  <2>4. QED BY <2>2, <2>3 DEF r, Pushed
<1>6. \A i \in 2 .. Len(stack) : advance(n)[i] = stack[i]
  <2>1. TAKE i \in 2 .. Len(stack)
  <2>2. i - 1 \in 1 .. Len(stack) - 1 /\ (i - 1) + 1 = i /\ i \in 2 .. Len(Tail(stack)) + 1
    BY <1>2
  <2>3. QED BY <1>2, <1>5, <2>2
<1>7. \A i \in 1 .. Len(stack) : advance(n)[i].txnId = stack[i].txnId
  <2>1. TAKE i \in 1 .. Len(stack)
  <2>2. i = 1 \/ i \in 2 .. Len(stack)
    BY <1>2
  <2>3. QED BY <1>3, <1>5, <1>6, <2>2
<1>8. QED BY <1>2, <1>3, <1>5, <1>6, <1>7

-------------------------------------------------------------------------------
(* The inductive invariant *)

LEMMA SearchInit == Init => SearchInv
<1> SUFFICES ASSUME Init PROVE SearchInv
  OBVIOUS
<1> DEFINE e == Enter(start)
<1>1. graph \in [Txn -> SUBSET Txn] /\ start \in Txn /\ stack = <<e>>
      /\ visited = {start} /\ inStack = {start} /\ result = "none"
  BY DEF Init
<1>2. e \in Activation /\ e.txnId = start /\ e.todo = graph[start]
  BY <1>1 DEF Enter, Activation
<1> HIDE DEF e
<1>3. Len(stack) = 1 /\ DOMAIN stack = {1} /\ stack[1] = e /\ stack \in Seq(Activation)
      /\ stack # <<>>
  BY <1>1, <1>2
<1>4. TypeOK
  BY <1>1, <1>3 DEF TypeOK
<1>5. StackIsPath
  <2>1. {stack[i].txnId : i \in DOMAIN stack} = {start}
    BY <1>2, <1>3
  <2>2. QED BY <1>1, <1>3, <2>1 DEF StackIsPath
<1>6. Running
  BY <1>1, <1>2, <1>3 DEF Running, Explored
<1>7. FinishedEnds /\ Answered
  BY <1>1 DEF FinishedEnds, Answered, Finished
<1>8. QED BY <1>1, <1>4, <1>5, <1>6, <1>7 DEF SearchInv

\* A neighbour that is active closes a cycle: the active transactions are a set
\* that a walk from start need never leave.
LEMMA CycleStep ==
  ASSUME SearchInv, NEW n \in Txn, result = "none", n \in Head(stack).todo,
         closesCycle(n), result' = "true",
         UNCHANGED <<graph, start, stack, visited, inStack>>
  PROVE  SearchInv'
<1>1. stack \in Seq(Activation) /\ stack # <<>> /\ inStack \subseteq Txn
  BY DEF SearchInv, TypeOK, Running
<1>2. Len(stack) \in Nat \ {0} /\ DOMAIN stack = 1 .. Len(stack) /\ Head(stack) = stack[1]
  BY <1>1, PopStack
<1>3. inStack = {stack[i].txnId : i \in DOMAIN stack}
  BY DEF SearchInv, StackIsPath
<1>4. \A u \in inStack : graph[u] \cap inStack # {}
  <2>1. TAKE u \in inStack
  <2>2. PICK i \in 1 .. Len(stack) : u = stack[i].txnId
    BY <1>2, <1>3
  <2>3. CASE i = 1
    <3>1. n \in graph[u]
      BY <1>2, <2>2, <2>3 DEF SearchInv, Running
    <3>2. QED BY <3>1 DEF closesCycle
  <2>4. CASE i # 1
    <3>1. i \in 2 .. Len(stack) /\ i - 1 \in 1 .. Len(stack)
      BY <1>2, <2>4
    <3>2. stack[i - 1].txnId \in graph[u]
      BY <2>2, <3>1 DEF SearchInv, StackIsPath
    <3>3. stack[i - 1].txnId \in inStack
      BY <1>2, <1>3, <3>1
    <3>4. QED BY <3>2, <3>3
  <2>5. QED BY <2>3, <2>4
<1>5. start \in inStack
  <2>1. stack[Len(stack)].txnId = start /\ Len(stack) \in 1 .. Len(stack)
    BY <1>2 DEF SearchInv, Running
  <2>2. QED BY <1>2, <1>3, <2>1
<1>6. CanWalkForever'
  BY <1>1, <1>4, <1>5 DEF CanWalkForever
<1>7. TypeOK' /\ (inStack \subseteq visited)'
  BY DEF SearchInv, TypeOK
<1>8. StackIsPath' /\ Running' /\ Answered'
  BY <1>6 DEF StackIsPath, Running, Answered
<1>9. FinishedEnds'
  BY DEF SearchInv, FinishedEnds, Finished, Closed
<1>10. QED BY <1>6, <1>7, <1>8, <1>9 DEF SearchInv

\* A recursive call.
LEMMA CallStep ==
  ASSUME SearchInv, NEW n \in Txn, result = "none", n \in Head(stack).todo,
         n \notin visited,
         stack' = Cons(Enter(n), advance(n)),
         visited' = visited \cup {n}, inStack' = inStack \cup {n},
         UNCHANGED <<graph, start, result>>
  PROVE  SearchInv'
<1> DEFINE L == Len(stack)
           a == advance(n)
           e == Enter(n)
<1>1. TypeOK /\ stack # <<>> /\ stack \in Seq(Activation) /\ inStack \subseteq visited
      /\ stack[L].txnId = start
      /\ (\A i \in 1 .. L : stack[i].todo \subseteq graph[stack[i].txnId])
      /\ (\A i \in 1 .. L : Explored(i))
      /\ inStack = {stack[i].txnId : i \in DOMAIN stack}
      /\ (\A i, j \in DOMAIN stack : stack[i].txnId = stack[j].txnId => i = j)
      /\ (\A i \in 2 .. L : stack[i - 1].txnId \in graph[stack[i].txnId])
  BY DEF SearchInv, TypeOK, Running, StackIsPath
<1>2. L \in Nat \ {0} /\ DOMAIN stack = 1 .. L /\ Head(stack) = stack[1]
  BY <1>1, PopStack
<1>3. /\ a \in Seq(Activation) /\ Len(a) = L
      /\ a[1].todo = stack[1].todo \ {n}
      /\ \A i \in 2 .. L : a[i] = stack[i]
      /\ \A i \in 1 .. L : a[i].txnId = stack[i].txnId
  BY <1>1, AdvanceStack
<1>4. e \in Activation /\ e.txnId = n /\ e.todo = graph[n]
  BY <1>1 DEF Enter, Activation, TypeOK
<1>5. /\ stack' \in Seq(Activation) /\ Len(stack') = L + 1
      /\ DOMAIN stack' = 1 .. L + 1
      /\ stack'[1] = e
      /\ \A i \in 2 .. L + 1 : stack'[i] = a[i - 1]
  <2> HIDE DEF a, e
  <2>1. stack' = Cons(e, a) BY DEF a, e
  <2>2. a \in Seq(Activation) /\ e \in Activation
    BY <1>3, <1>4
  <2>3. Cons(e, a) \in Seq(Activation) /\ Pushed(Cons(e, a), e, a)
    BY ONLY <2>2, PushStack
  <2>4. Len(a) = L
    BY <1>3
  <2>5. QED BY <2>1, <2>3, <2>4 DEF Pushed
<1>6. stack' # <<>>
  BY <1>2, <1>5
<1> HIDE DEF a, e
<1>7. \A i \in 2 .. L + 1 : i - 1 \in 1 .. L /\ stack'[i].txnId = stack[i - 1].txnId
  BY <1>2, <1>3, <1>5
<1>8. TypeOK'
  BY <1>1, <1>5 DEF TypeOK
<1>9. n \notin inStack
  BY <1>1
<1>10. Finished' = Finished
  BY <1>1 DEF Finished
<1>11. StackIsPath'
  <2>1. ASSUME NEW x PROVE x \in inStack' <=> \E i \in 1 .. L + 1 : x = stack'[i].txnId
    <3>1. ASSUME x \in inStack' PROVE \E i \in 1 .. L + 1 : x = stack'[i].txnId
      <4>1. CASE x = n
        <5>1. 1 \in 1 .. L + 1 BY <1>2
        <5>2. QED BY <1>4, <1>5, <4>1, <5>1
      <4>2. CASE x # n
        <5>1. PICK i \in 1 .. L : x = stack[i].txnId
          BY <1>1, <1>2, <3>1, <4>2
        <5>2. i + 1 \in 2 .. L + 1 /\ i + 1 \in 1 .. L + 1 /\ (i + 1) - 1 = i
          BY <1>2
        <5>3. QED BY <1>7, <5>1, <5>2
      <4>3. QED BY <4>1, <4>2
    <3>2. ASSUME NEW i \in 1 .. L + 1, x = stack'[i].txnId PROVE x \in inStack'
      <4>1. CASE i = 1
        BY <1>4, <1>5, <3>2, <4>1
      <4>2. CASE i # 1
        <5>1. i \in 2 .. L + 1 BY <1>2, <4>2
        <5>2. QED BY <1>1, <1>2, <1>7, <3>2, <5>1
      <4>3. QED BY <4>1, <4>2
    <3>3. QED BY <3>1, <3>2
  <2>2. inStack' = {stack'[i].txnId : i \in DOMAIN stack'}
    <3>1. DOMAIN stack' = 1 .. L + 1 BY <1>5
    <3>2. inStack' = {stack'[i].txnId : i \in 1 .. L + 1} BY <2>1, SMTT(30)
    <3>3. QED BY <3>1, <3>2
  <2>3. ASSUME NEW i \in 1 .. L + 1, NEW j \in 1 .. L + 1, stack'[i].txnId = stack'[j].txnId
        PROVE  i = j
    <3>1. \A k \in 2 .. L + 1 : stack'[k].txnId # n
      BY <1>1, <1>2, <1>7, <1>9
    <3>2. CASE i = 1 \/ j = 1
      BY <1>2, <1>4, <1>5, <2>3, <3>1, <3>2
    <3>3. CASE i # 1 /\ j # 1
      <4>1. i \in 2 .. L + 1 /\ j \in 2 .. L + 1 BY <1>2, <3>3
      <4>2. i - 1 = j - 1 BY <1>1, <1>2, <1>7, <2>3, <4>1
      <4>3. QED BY <4>1, <4>2
    <3>4. QED BY <3>2, <3>3
  <2>4. ASSUME NEW i \in 2 .. L + 1 PROVE stack'[i - 1].txnId \in graph[stack'[i].txnId]
    <3>1. CASE i = 2
      <4>1. 2 - 1 = 1 /\ 2 \in 2 .. L + 1 /\ 1 \in 1 .. L BY <1>2
      <4>2. stack'[2].txnId = stack[1].txnId
        BY <1>7, <4>1
      <4>3. n \in graph[stack[1].txnId]
        BY <1>1, <1>2, <4>1
      <4>4. QED BY <1>4, <1>5, <3>1, <4>1, <4>2, <4>3
    <3>2. CASE i # 2
      <4>1. i - 1 \in 2 .. L + 1 /\ i - 1 \in 2 .. L BY <1>2, <3>2
      <4>2. stack'[i - 1].txnId = stack[(i - 1) - 1].txnId /\ stack'[i].txnId = stack[i - 1].txnId
        BY <1>7, <4>1
      <4>3. QED BY <1>1, <4>1, <4>2
    <3>3. QED BY <3>1, <3>2
  <2>5. QED BY <1>5, <2>2, <2>3, <2>4 DEF StackIsPath
<1>12. Running'
  <2>1. stack'[L + 1].txnId = start
    <3>1. L + 1 \in 2 .. L + 1 /\ (L + 1) - 1 = L BY <1>2
    <3>2. QED BY <1>1, <1>7, <3>1
  <2>2. ASSUME NEW i \in 1 .. L + 1 PROVE (stack'[i].todo \subseteq graph[stack'[i].txnId]) /\ Explored(i)'
    <3>1. CASE i = 1
      <4>1. stack'[i].todo = graph[n] /\ stack'[i].txnId = n
        BY <1>4, <1>5, <3>1
      <4>2. QED BY <3>1, <4>1 DEF Explored
    <3>2. CASE i = 2
      <4>1. 2 - 1 = 1 /\ 2 \in 2 .. L + 1 /\ 1 \in 1 .. L BY <1>2
      <4>2. stack'[2].txnId = stack[1].txnId /\ stack'[2].todo = stack[1].todo \ {n}
        BY <1>3, <1>5, <1>7, <4>1
      <4>3. stack[1].todo \subseteq graph[stack[1].txnId] /\ Explored(1)
        BY <1>1, <4>1
      <4>4. stack'[2 - 1].txnId = n
        BY <1>4, <1>5, <4>1
      <4>5. QED BY <1>10, <3>2, <4>2, <4>3, <4>4 DEF Explored
    <3>3. CASE i > 2
      <4>1. i \in 2 .. L + 1 /\ i - 1 \in 2 .. L /\ i - 1 \in 2 .. L + 1 /\ i - 1 \in 1 .. L
        BY <1>2, <3>3
      <4>2. stack'[i] = stack[i - 1]
        BY <1>3, <1>5, <4>1
      <4>3. stack'[i - 1].txnId = stack[(i - 1) - 1].txnId
        BY <1>7, <4>1
      <4>4. stack[i - 1].todo \subseteq graph[stack[i - 1].txnId] /\ Explored(i - 1)
        BY <1>1, <4>1
      <4>5. QED BY <1>10, <3>3, <4>2, <4>3, <4>4 DEF Explored
    <3>4. QED BY <1>2, <3>1, <3>2, <3>3
  <2>3. QED BY <1>5, <1>6, <2>1, <2>2 DEF Running
<1>13. FinishedEnds'
  BY <1>10 DEF SearchInv, FinishedEnds, Closed
<1>14. Answered'
  BY DEF Answered
<1>15. (inStack \subseteq visited)'
  BY <1>1
<1>16. QED BY <1>8, <1>11, <1>12, <1>13, <1>14, <1>15 DEF SearchInv

\* A neighbour that was visited and is not active has been finished.
LEMMA SkipStep ==
  ASSUME SearchInv, NEW n \in Txn, result = "none", n \in Head(stack).todo,
         n \notin inStack, n \in visited, stack' = advance(n),
         UNCHANGED <<graph, start, visited, inStack, result>>
  PROVE  SearchInv'
<1> DEFINE L == Len(stack)
<1>1. TypeOK /\ stack # <<>> /\ stack \in Seq(Activation) /\ inStack \subseteq visited
      /\ stack[L].txnId = start
      /\ (\A i \in 1 .. L : stack[i].todo \subseteq graph[stack[i].txnId])
      /\ (\A i \in 1 .. L : Explored(i))
      /\ inStack = {stack[i].txnId : i \in DOMAIN stack}
      /\ (\A i, j \in DOMAIN stack : stack[i].txnId = stack[j].txnId => i = j)
      /\ (\A i \in 2 .. L : stack[i - 1].txnId \in graph[stack[i].txnId])
  BY DEF SearchInv, TypeOK, Running, StackIsPath
<1>2. L \in Nat \ {0} /\ DOMAIN stack = 1 .. L
  BY <1>1, PopStack
<1>3. /\ stack' \in Seq(Activation) /\ Len(stack') = L /\ DOMAIN stack' = 1 .. L
      /\ stack'[1].todo = stack[1].todo \ {n}
      /\ \A i \in 2 .. L : stack'[i] = stack[i]
      /\ \A i \in 1 .. L : stack'[i].txnId = stack[i].txnId
  BY <1>1, AdvanceStack
<1>4. stack' # <<>> /\ L \in 1 .. L
  BY <1>2, <1>3
<1>5. TypeOK'
  BY <1>1, <1>3 DEF TypeOK
<1>6. Finished' = Finished /\ n \in Finished
  BY DEF Finished
<1>7. StackIsPath'
  <2>1. \A i \in 2 .. L : i - 1 \in 1 .. L /\ i \in 1 .. L
    BY <1>2
  <2>2. \A i \in 2 .. L : stack'[i - 1].txnId \in graph'[stack'[i].txnId]
    BY <1>1, <1>3, <2>1
  <2>3. {stack'[i].txnId : i \in DOMAIN stack'} = {stack[i].txnId : i \in DOMAIN stack}
    BY <1>2, <1>3
  <2>4. QED BY <1>1, <1>2, <1>3, <2>2, <2>3 DEF StackIsPath
<1>8. Running'
  <2>1. ASSUME NEW i \in 1 .. L
        PROVE  (stack'[i].todo \subseteq graph[stack'[i].txnId]) /\ Explored(i)'
    <3>1. i > 1 => i - 1 \in 1 .. L
      BY <1>2
    <3>2. i > 1 => stack'[i - 1].txnId = stack[i - 1].txnId
      BY <1>3, <3>1
    <3>3. stack'[i].txnId = stack[i].txnId /\ (stack'[i].todo = stack[i].todo \/ stack'[i].todo = stack[i].todo \ {n})
      <4>1. i = 1 \/ i \in 2 .. L BY <1>2
      <4>2. QED BY <1>3, <4>1
    <3>4. QED BY <1>1, <1>6, <3>2, <3>3 DEF Explored
  <2>2. stack'[L].txnId = start
    BY <1>1, <1>3, <1>4
  <2>3. QED BY <1>3, <1>4, <2>1, <2>2 DEF Running
<1>9. FinishedEnds' /\ Answered'
  BY <1>6 DEF SearchInv, FinishedEnds, Closed, Answered
<1>10. QED BY <1>1, <1>5, <1>7, <1>8, <1>9 DEF SearchInv

\* An activation returns: its transaction has only finished neighbours, so that
\* no walk for ever goes through it.
LEMMA ReturnStep ==
  ASSUME SearchInv, return
  PROVE  SearchInv'
<1> DEFINE L == Len(stack)
           t == stack[1].txnId
<1>1. TypeOK /\ stack # <<>> /\ stack \in Seq(Activation) /\ inStack \subseteq visited
      /\ stack[L].txnId = start
      /\ (\A i \in 1 .. L : stack[i].todo \subseteq graph[stack[i].txnId])
      /\ (\A i \in 1 .. L : Explored(i))
      /\ inStack = {stack[i].txnId : i \in DOMAIN stack}
      /\ (\A i, j \in DOMAIN stack : stack[i].txnId = stack[j].txnId => i = j)
      /\ (\A i \in 2 .. L : stack[i - 1].txnId \in graph[stack[i].txnId])
  BY DEF SearchInv, TypeOK, Running, StackIsPath, return
<1>2. L \in Nat \ {0} /\ DOMAIN stack = 1 .. L /\ Head(stack) = stack[1]
      /\ Tail(stack) \in Seq(Activation) /\ Len(Tail(stack)) = L - 1
      /\ DOMAIN Tail(stack) = 1 .. L - 1
      /\ (\A i \in 1 .. L - 1 : Tail(stack)[i] = stack[i + 1])
  BY <1>1, PopStack
<1>3. /\ result = "none" /\ stack[1].todo = {} /\ inStack' = inStack \ {t}
      /\ stack' = Tail(stack) /\ result' = IF L = 1 THEN "false" ELSE "none"
      /\ UNCHANGED <<graph, start, visited>>
  BY <1>2 DEF return, leave
<1>4. 1 \in 1 .. L /\ L \in 1 .. L
  BY <1>2
<1>5. t \in inStack /\ t \in Txn
  BY <1>1, <1>2, <1>4 DEF TypeOK
<1>6. Finished' = Finished \cup {t} /\ t \notin Finished
  BY <1>1, <1>3, <1>5 DEF Finished
<1>7. graph[t] \subseteq Finished
  BY <1>1, <1>3, <1>4 DEF Explored
<1>8. FinishedEnds'
  <2>1. SUFFICES ASSUME NEW S \in SUBSET Txn, \A u \in S : graph[u] \cap S # {}
                 PROVE  S \cap Finished' = {}
    BY <1>3 DEF FinishedEnds, Closed
  <2>2. S \cap Finished = {}
    BY <2>1 DEF SearchInv, FinishedEnds, Closed
  <2>3. t \notin S
    BY <1>7, <2>1, <2>2
  <2>4. QED BY <1>6, <2>2, <2>3
<1>9. TypeOK'
  BY <1>1, <1>2, <1>3 DEF TypeOK
<1>10. Answered'
  <2>1. L = 1 => start = t
    BY <1>1
  <2>2. QED BY <1>3, <1>6, <2>1 DEF Answered
<1>11. \A i \in 1 .. L - 1 : i + 1 \in 1 .. L /\ i + 1 \in 2 .. L /\ stack'[i] = stack[i + 1]
  BY <1>2, <1>3
<1>12. StackIsPath'
  <2>1. ASSUME NEW x PROVE x \in inStack' <=> \E i \in 1 .. L - 1 : x = stack'[i].txnId
    <3>1. ASSUME x \in inStack' PROVE \E i \in 1 .. L - 1 : x = stack'[i].txnId
      <4>1. PICK i \in 1 .. L : x = stack[i].txnId
        BY <1>1, <1>2, <1>3, <3>1
      <4>2. i - 1 \in 1 .. L - 1 /\ (i - 1) + 1 = i
        BY <1>2, <1>3, <3>1, <4>1
      <4>3. QED BY <1>11, <4>1, <4>2
    <3>2. ASSUME NEW i \in 1 .. L - 1, x = stack'[i].txnId PROVE x \in inStack'
      <4>1. i + 1 \in 1 .. L /\ i + 1 # 1 /\ x = stack[i + 1].txnId
        BY <1>2, <1>11, <3>2
      <4>2. x # t BY <1>1, <1>2, <1>4, <4>1
      <4>3. QED BY <1>1, <1>2, <1>3, <4>1, <4>2
    <3>3. QED BY <3>1, <3>2
  <2>2. inStack' = {stack'[i].txnId : i \in DOMAIN stack'}
    <3>1. DOMAIN stack' = 1 .. L - 1 BY <1>2, <1>3
    <3>2. inStack' = {stack'[i].txnId : i \in 1 .. L - 1} BY <2>1
    <3>3. QED BY <3>1, <3>2
  <2>3. ASSUME NEW i \in 1 .. L - 1, NEW j \in 1 .. L - 1, stack'[i].txnId = stack'[j].txnId
        PROVE  i = j
    <3>1. i + 1 \in DOMAIN stack /\ j + 1 \in DOMAIN stack
      BY <1>2, <1>11
    <3>2. stack'[i] = stack[i + 1] /\ stack'[j] = stack[j + 1]
      BY <1>11
    <3>3. stack[i + 1].txnId = stack[j + 1].txnId
      BY ONLY <2>3, <3>2
    <3>4. \A k, m \in DOMAIN stack : stack[k].txnId = stack[m].txnId => k = m
      BY <1>1
    <3>5. i + 1 = j + 1
      BY ONLY <3>1, <3>3, <3>4
    <3>6. QED BY ONLY <3>5, i \in Int, j \in Int
  <2>4. ASSUME NEW i \in 2 .. L - 1 PROVE stack'[i - 1].txnId \in graph[stack'[i].txnId]
    <3>1. i - 1 \in 1 .. L - 1 /\ i \in 1 .. L - 1 /\ (i - 1) + 1 = i /\ (i + 1) - 1 = i
      BY <1>2
    <3>2. stack'[i - 1] = stack[i] /\ stack'[i] = stack[i + 1] /\ i + 1 \in 2 .. L
      BY <1>11, <3>1
    <3>3. stack[(i + 1) - 1].txnId \in graph[stack[i + 1].txnId]
      BY <1>1, <3>2
    <3>4. QED BY <3>1, <3>2, <3>3
  <2>5. QED BY <1>2, <1>3, <2>2, <2>3, <2>4 DEF StackIsPath
<1>13. Running'
  <2>1. CASE L = 1
    BY <1>3, <2>1 DEF Running
  <2>2. CASE L # 1
    <3>1. L - 1 \in 1 .. L - 1 /\ (L - 1) + 1 = L /\ L - 1 \in Nat \ {0}
      BY <1>2, <2>2
    <3>2. stack' # <<>> /\ stack'[L - 1].txnId = start
      BY <1>1, <1>2, <1>3, <1>11, <3>1
    <3>3. ASSUME NEW i \in 1 .. L - 1
          PROVE  (stack'[i].todo \subseteq graph[stack'[i].txnId]) /\ Explored(i)'
      <4>1. stack'[i] = stack[i + 1] /\ i + 1 \in 1 .. L /\ i + 1 > 1 /\ (i + 1) - 1 = i
        BY <1>11
      <4>2. stack[i + 1].todo \subseteq graph[stack[i + 1].txnId]
        BY <1>1, <4>1
      <4>3. \A u \in graph[stack[i + 1].txnId] \ stack[i + 1].todo :
              u \in Finished \/ u = stack[i].txnId
        BY <1>1, <4>1 DEF Explored
      <4>4. CASE i = 1
        BY <1>3, <1>6, <4>1, <4>2, <4>3, <4>4 DEF Explored
      <4>5. CASE i > 1
        <5>1. i - 1 \in 1 .. L - 1 /\ (i - 1) + 1 = i
          BY <4>5, <1>2
        <5>2. stack'[i - 1] = stack[i]
          BY <1>11, <5>1
        <5>3. QED BY <1>3, <1>6, <4>1, <4>2, <4>3, <4>5, <5>2 DEF Explored
      <4>6. QED BY <4>4, <4>5
    <3>4. QED BY <1>2, <1>3, <3>2, <3>3 DEF Running
  <2>3. QED BY <2>1, <2>2
<1>14. (inStack \subseteq visited)'
  BY <1>1, <1>3
<1>15. QED BY <1>8, <1>9, <1>10, <1>12, <1>13, <1>14 DEF SearchInv

LEMMA SearchStep == SearchInv /\ [Next]_vars => SearchInv'
<1> SUFFICES ASSUME SearchInv, [Next]_vars PROVE SearchInv'
  OBVIOUS
<1>1. ASSUME NEW n \in Txn, iterate(n) PROVE SearchInv'
  <2>1. CASE closesCycle(n) /\ result' = "true" /\ UNCHANGED <<stack, visited, inStack>>
    BY <1>1, <2>1, CycleStep DEF iterate
  <2>2. CASE /\ n \notin visited /\ stack' = Cons(Enter(n), advance(n))
             /\ visited' = visited \cup {n} /\ inStack' = inStack \cup {n}
             /\ UNCHANGED result
    BY <1>1, <2>2, CallStep DEF iterate
  <2>3. CASE /\ ~closesCycle(n) /\ n \in visited /\ stack' = advance(n)
             /\ UNCHANGED <<visited, inStack, result>>
    BY <1>1, <2>3, SkipStep DEF iterate, closesCycle
  <2>4. QED BY <1>1, <2>1, <2>2, <2>3 DEF iterate
<1>2. ASSUME return PROVE SearchInv'
  BY <1>2, ReturnStep
<1>3. ASSUME UNCHANGED vars PROVE SearchInv'
  BY <1>3 DEF vars, SearchInv, TypeOK, StackIsPath, Running, Explored, FinishedEnds, Closed,
              Answered, Finished, CanWalkForever
<1>4. QED BY <1>1, <1>2, <1>3 DEF Next

LEMMA SearchInvariant == Spec => []SearchInv
BY SearchInit, SearchStep, PTL DEF Spec

-------------------------------------------------------------------------------
(* The theorems *)

\* Every variable of detectCycle has its type.
THEOREM SearchTypeCorrect == Spec => []TypeOK
<1>1. SearchInv => TypeOK BY DEF SearchInv
<1>2. QED BY <1>1, SearchInvariant, PTL

\* inStack is exactly the set of the active calls, each called by the one
\* before it along an edge of the wait-for graph.
THEOREM StackIsPathHolds == Spec => []StackIsPath
<1>1. SearchInv => StackIsPath BY DEF SearchInv
<1>2. QED BY <1>1, SearchInvariant, PTL

\* detectCycle answers true exactly when a cycle of the wait-for graph can be
\* reached from the transaction that asks.
THEOREM AnswerRightHolds == Spec => []AnswerRight
<1>1. ASSUME SearchInv PROVE AnswerRight
  <2>1. CASE result = "none" BY <2>1 DEF AnswerRight
  <2>2. CASE result = "true" BY <1>1, <2>2 DEF SearchInv, Answered, AnswerRight
  <2>3. CASE result = "false"
    <3>1. start \in Finished BY <1>1, <2>3 DEF SearchInv, Answered
    <3>2. ~CanWalkForever
      BY <1>1, <3>1 DEF SearchInv, FinishedEnds, Closed, CanWalkForever
    <3>3. QED BY <2>3, <3>2 DEF AnswerRight
  <2>4. QED BY <1>1, <2>1, <2>2, <2>3 DEF SearchInv, TypeOK
<1>2. QED BY <1>1, SearchInvariant, PTL
================================================================================
