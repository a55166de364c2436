----------------------------- MODULE QueueSpec ------------------------------
(***************************************************************************)
(* What module Queue promises its users: a queue as the value QueueOps     *)
(* computes, changed by one operation at a time.                           *)
(***************************************************************************)
EXTENDS QueueOps

CONSTANT Objs
VARIABLE q

Init == q = EmptyQueue

Put(obj) == q' = QueuePut(q, obj)

Get == ~QueueEmpty(q) /\ q' = QueueGet(q)

Remove(obj) == q' = QueueRemove(q, obj)

Next == Get \/ \E obj \in Objs : Put(obj) \/ Remove(obj)

Spec == Init /\ [][Next]_q
=============================================================================
