------------------------------- MODULE Queue --------------------------------
(***************************************************************************)
(* The mutable queues of lib/Standard/queue.sch, cell by cell.  A queue is *)
(* a record of two fields, head and tail, over a singly linked list of     *)
(* pairs.  Every operation runs under call-without-interrupts, so each is  *)
(* one step.  A cell that neither field reaches is garbage, and a later    *)
(* cons may reuse it.                                                      *)
(***************************************************************************)
EXTENDS Naturals, Sequences, FiniteSets

CONSTANTS Objs,    \* the objects that are queued
          Cells,   \* the pairs of the heap, a bound of the model
          Nil      \* the empty list

QueueAssumption == Nil \notin Cells /\ IsFiniteSet(Cells)

VARIABLES head, tail,   \* the fields of the queue record
          car, cdr      \* the fields of the pairs

vars == <<head, tail, car, cdr>>

TypeOK ==
  /\ head \in Cells \cup {Nil}
  /\ tail \in Cells \cup {Nil}
  /\ car \in [Cells -> Objs]
  /\ cdr \in [Cells -> Cells \cup {Nil}]

(* The cells on the list that starts at p, in order.                       *)
Chain(p) ==
  LET next(c) == IF c = Nil THEN Nil ELSE cdr[c]
      nth[n \in 0 .. Cardinality(Cells)] == IF n = 0 THEN p ELSE next(nth[n - 1])
      len == CHOOSE n \in DOMAIN nth :
               nth[n] = Nil /\ \A m \in 0 .. (n - 1) : nth[m] # Nil
  IN  [i \in 1 .. len |-> nth[i - 1]]

Reach(p) == {Chain(p)[i] : i \in DOMAIN Chain(p)}

(* cons returns a pair that nothing refers to.                             *)
Fresh == Cells \ (Reach(head) \cup Reach(tail))

Init ==
  /\ head = Nil /\ tail = Nil
  /\ car \in [Cells -> Objs]
  /\ cdr = [c \in Cells |-> Nil]

Cons(item, obj, cdrs) ==
  /\ car' = [car EXCEPT ![item] = obj]
  /\ cdr' = [cdrs EXCEPT ![item] = Nil]

(* Broken variants: the tail is left on the old last cell; or is set to    *)
(* the object in place of its cell.                                        *)
KeepsTail(obj) ==
  \E item \in Fresh :
    IF head = Nil
      THEN head' = item /\ tail' = item /\ Cons(item, obj, cdr)
      ELSE UNCHANGED <<head, tail>> /\ Cons(item, obj, [cdr EXCEPT ![tail] = item])
EndsWithObject(obj) ==
  \E item \in Fresh :
    /\ tail' = obj
    /\ IF head = Nil
         THEN head' = item /\ Cons(item, obj, cdr)
         ELSE UNCHANGED head /\ Cons(item, obj, [cdr EXCEPT ![tail] = item])
Put(obj) ==
  \E item \in Fresh :
    /\ tail' = item
    /\ IF head = Nil
         THEN head' = item /\ Cons(item, obj, cdr)
         ELSE UNCHANGED head /\ Cons(item, obj, [cdr EXCEPT ![tail] = item])

Get ==
  /\ head # Nil
  /\ head' = cdr[head]
  /\ tail' = IF cdr[head] = Nil THEN Nil ELSE tail
  /\ UNCHANGED <<car, cdr>>

(* Broken variant: the cells before the object's are dropped with it.      *)
RemovesUpTo(obj) ==
  LET list == Chain(head)
      hits == {i \in DOMAIN list : car[list[i]] = obj}
      at   == CHOOSE i \in hits : \A j \in hits : i <= j
  IN  IF hits = {} THEN UNCHANGED vars
      ELSE head' = cdr[list[at]] /\ UNCHANGED <<tail, car, cdr>>
(* The loop of queue-remove!: p is the first cell of the list that holds   *)
(* obj and pp the cell before it.                                          *)
Remove(obj) ==
  LET list == Chain(head)
      hits == {i \in DOMAIN list : car[list[i]] = obj}
      at   == CHOOSE i \in hits : \A j \in hits : i <= j
  IN  IF hits = {} THEN UNCHANGED vars
      ELSE /\ IF at = 1
                THEN head' = cdr[list[1]] /\ UNCHANGED cdr
                ELSE /\ cdr' = [cdr EXCEPT ![list[at - 1]] = cdr[list[at]]]
                     /\ UNCHANGED head
           /\ UNCHANGED <<tail, car>>

Next ==
  \/ \E obj \in Objs : Put(obj)
  \/ Get
  \/ \E obj \in Objs : Remove(obj)

Spec == Init /\ [][Next]_vars
-----------------------------------------------------------------------------
(* What a user of the queue sees of the cells.                             *)
View ==
  LET list == Chain(head)
  IN  [items  |-> [i \in DOMAIN list |-> car[list[i]]],
       linked |-> list = << >> \/ tail = list[Len(list)]]

Abstract == INSTANCE QueueSpec WITH q <- View

(* Every operation on the cells does to the queue's contents, and to the   *)
(* place of its tail, what the operator of QueueOps says: queue-put!,      *)
(* queue-get! and queue-remove! of queue.sch.                              *)
ImplementsQueueSpec == Abstract!Spec

(* queue-put! does (set-cdr! (tail queue) item) whenever the queue is not  *)
(* empty.  The tail is then a pair, never the empty list, and it ends its  *)
(* own list, so that the store cuts off no cell.                           *)
TailEndsItsList == head # Nil => tail # Nil /\ cdr[tail] = Nil
=============================================================================
