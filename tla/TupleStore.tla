------------------------------- MODULE TupleStore -------------------------------
(***************************************************************************)
(* What a heap file promises: a map from RIDs to tuples.  An insertion     *)
(* gives a tuple an RID that has none, a deletion takes one tuple away,    *)
(* and nothing else changes.  Pages, slots and offsets do not appear.      *)
(***************************************************************************)
CONSTANTS RID, Tuple, NoTuple

VARIABLE tuples   \* RID -> the tuple there, or NoTuple

Init == tuples = [rid \in RID |-> NoTuple]

Insert(rid, t) ==
  /\ tuples[rid] = NoTuple
  /\ tuples' = [tuples EXCEPT ![rid] = t]

Delete(rid) == tuples' = [tuples EXCEPT ![rid] = NoTuple]

Next == \E rid \in RID : Delete(rid) \/ \E t \in Tuple : Insert(rid, t)

Spec == Init /\ [][Next]_tuples
================================================================================
