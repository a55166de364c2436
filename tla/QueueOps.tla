------------------------------ MODULE QueueOps ------------------------------
(***************************************************************************)
(* What the queues of lib/Standard/queue.sch compute, as operators on a    *)
(* record of two fields:                                                   *)
(*                                                                         *)
(*   items   the objects met by walking the cells from the queue's head    *)
(*   linked  whether the queue's tail field is the last cell of that walk  *)
(*           (TRUE by convention when the walk is empty: queue-put! never  *)
(*           looks at the tail of an empty queue)                          *)
(*                                                                         *)
(* queue-remove! unlinks a cell and never moves the tail field, so removing *)
(* the last of several cells leaves the tail on a cell that the head does  *)
(* not reach.  Module Queue models the cells themselves and is shown to    *)
(* implement these operators; module Tasking uses them for the run queue.  *)
(***************************************************************************)
EXTENDS Naturals, Sequences

(* make-queue: head and tail are both the empty list.                      *)
EmptyQueue == [items |-> << >>, linked |-> TRUE]

QueueEmpty(q) == q.items = << >>

(* Broken variant: the new cell becomes the head.                          *)
QueuePush(q, obj) == [q EXCEPT !.items = <<obj>> \o @]
(* queue-put!: an empty queue gets a fresh one-cell list; otherwise the    *)
(* new cell is hung on the tail cell, wherever that cell is.               *)
QueuePut(q, obj) ==
  IF QueueEmpty(q)
    THEN [items |-> <<obj>>, linked |-> TRUE]
    ELSE [q EXCEPT !.items = IF q.linked THEN Append(@, obj) ELSE @]

(* queue-put! of the objects of a sequence, one after the other.           *)
QueuePutAll(q, objs) ==
  IF objs = << >> THEN q
  ELSE IF QueueEmpty(q)
    THEN [items |-> objs, linked |-> TRUE]
    ELSE [q EXCEPT !.items = IF q.linked THEN @ \o objs ELSE @]

(* queue-get!: drops the first cell; the tail is reset when it was the     *)
(* only one.                                                               *)
QueueGet(q) ==
  [items |-> Tail(q.items), linked |-> q.linked \/ Len(q.items) = 1]

(* The position of the first cell that holds obj.                          *)
FirstAt(q, obj) ==
  CHOOSE i \in DOMAIN q.items :
    q.items[i] = obj /\ \A j \in 1 .. (i - 1) : q.items[j] # obj

(* queue-remove!: unlinks the first cell that holds obj, if there is one.  *)
QueueRemove(q, obj) ==
  IF \A i \in DOMAIN q.items : q.items[i] # obj
    THEN q
    ELSE LET at   == FirstAt(q, obj)
             rest == SubSeq(q.items, 1, at - 1)
                       \o SubSeq(q.items, at + 1, Len(q.items))
         IN  [items  |-> rest,
              linked |-> rest = << >> \/ (q.linked /\ at < Len(q.items))]
=============================================================================
