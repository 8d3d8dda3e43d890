---------------------------- MODULE DeadlockDetector ----------------------------
(***************************************************************************)
(* The depth-first search LockManager::detectCycle, one iteration of its   *)
(* loop per step.  The call stack is explicit: each activation is the      *)
(* transaction it was called for and the neighbours its loop has still to  *)
(* visit; an unordered_set is visited in any order.  The search runs under *)
(* mutex_, so the graph does not change.                                   *)
(***************************************************************************)
EXTENDS Integers, Sequences, SequencesExt

CONSTANT MaxTxn   \* bound on the number of transactions

ASSUME DetectorAssumption == MaxTxn \in Nat

Txn == 1 .. MaxTxn

VARIABLES graph,    \* waitForGraph_
          start,    \* the argument of hasDeadlock
          stack,    \* the activations of detectCycle, innermost first
          visited, inStack,
          result    \* "none" while the search runs

vars == <<graph, start, stack, visited, inStack, result>>

Activation == [txnId : Txn, todo : SUBSET Txn]

\* Type of every variable of the search.
TypeOK ==
  /\ graph \in [Txn -> SUBSET Txn]
  /\ start \in Txn
  /\ stack \in Seq(Activation)
  /\ visited \subseteq Txn
  /\ inStack \subseteq Txn
  /\ result \in {"none", "true", "false"}

Enter(t) == [txnId |-> t, todo |-> graph[t]]

\* hasDeadlock(start): two empty sets, then the outermost activation.
Init ==
  /\ graph \in [Txn -> SUBSET Txn]
  /\ start \in Txn
  /\ stack = <<Enter(start)>>
  /\ visited = {start}
  /\ inStack = {start}
  /\ result = "none"

\* Mutant: a second visit to a finished transaction counts as a cycle.
seenBefore(n) == n \in visited

closesCycle(n) == n \in inStack

\* Mutant: the iterator of the loop is not advanced.
sameNeighbour(n) == stack

\* The call stack once the loop has taken n.
advance(n) == Cons([Head(stack) EXCEPT !.todo = @ \ {n}], Tail(stack))

\* The loop takes the neighbour n: a cycle, a recursive call, or nothing to do.
iterate(n) ==
  /\ result = "none"
  /\ n \in Head(stack).todo
  /\ \/ /\ closesCycle(n)
        /\ result' = "true"
        /\ UNCHANGED <<stack, visited, inStack>>
     \/ /\ ~closesCycle(n)
        /\ n \notin visited
        /\ stack' = Cons(Enter(n), advance(n))
        /\ visited' = visited \cup {n}
        /\ inStack' = inStack \cup {n}
        /\ UNCHANGED result
     \/ /\ ~closesCycle(n)
        /\ n \in visited
        /\ stack' = advance(n)
        /\ UNCHANGED <<visited, inStack, result>>
  /\ UNCHANGED <<graph, start>>

\* Mutant: the activation returns and its transaction stays in inStack.
leaveOnStack(t) == inStack

leave(t) == inStack \ {t}

\* The loop of the innermost activation is over: it returns false.
return ==
  /\ result = "none"
  /\ Head(stack).todo = {}
  /\ inStack' = leave(Head(stack).txnId)
  /\ stack' = Tail(stack)
  /\ result' = IF Len(stack) = 1 THEN "false" ELSE result
  /\ UNCHANGED <<graph, start, visited>>

Next == (\E n \in Txn : iterate(n)) \/ return

Spec == Init /\ [][Next]_vars /\ WF_vars(Next)

-------------------------------------------------------------------------------
(* Properties *)

\* What hasDeadlock is taken to mean in LockManager: from start one can walk
\* for ever.
CanWalkForever ==
  \E S \in SUBSET Txn : start \in S /\ \A u \in S : graph[u] \cap S # {}

\* detectCycle answers true exactly when a cycle can be reached from the
\* transaction that asks.
AnswerRight == result # "none" => (result = "true" <=> CanWalkForever)

\* inStack holds the transactions of the active calls, each of which is
\* active once, and every active call is reached from the one before it.
StackIsPath ==
  result = "none" =>
    /\ inStack = {stack[i].txnId : i \in DOMAIN stack}
    /\ \A i, j \in DOMAIN stack : stack[i].txnId = stack[j].txnId => i = j
    /\ \A i \in 2 .. Len(stack) : stack[i - 1].txnId \in graph[stack[i].txnId]

\* The search ends.
SearchEnds == <>(result # "none")
================================================================================
