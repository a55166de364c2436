------------------------------ MODULE ObjectSpace ------------------------------
(***************************************************************************)
(* What the large-object space promises (los_t.h): every large object      *)
(* belongs to one generation; a collection keeps the objects it reaches,   *)
(* without moving them, in the generation it chose for each, hands each of *)
(* them out once to be scanned, and frees the others of the generations    *)
(* it collects.                                                            *)
(***************************************************************************)
EXTENDS Naturals

CONSTANTS Objects, Generations, Free

VARIABLES gen,       \* the generation of each object
          collected, \* those being collected, {} between collections
          kept,      \* objects this collection has reached
          owed       \* those of them still to be scanned
vars == <<gen, collected, kept, owed>>

Init == gen = [o \in Objects |-> Free] /\ collected = {} /\ kept = {} /\ owed = {}

Allocate(o, g) ==
  /\ gen[o] = Free /\ collected = {}
  /\ gen' = [gen EXCEPT ![o] = g] /\ UNCHANGED <<collected, kept, owed>>

Start(gs) ==
  /\ collected = {} /\ gs # {}
  /\ collected' = gs /\ UNCHANGED <<gen, kept, owed>>

(* An object is reached: where it is, or in a semispace it is moved from.  *)
Keep(o, to) ==
  /\ o \notin kept /\ gen[o] \in collected \cup {Free} /\ collected # {}
  /\ gen' = [gen EXCEPT ![o] = to]
  /\ kept' = kept \cup {o} /\ owed' = owed \cup {o} /\ UNCHANGED collected

Scan(o) == o \in owed /\ owed' = owed \ {o} /\ UNCHANGED <<gen, collected, kept>>

Finish ==
  /\ collected # {} /\ owed = {}
  /\ gen' = [o \in Objects |-> IF gen[o] \in collected /\ o \notin kept THEN Free ELSE gen[o]]
  /\ collected' = {} /\ kept' = {} /\ UNCHANGED owed

(* A generation is inserted below g.                                       *)
Insert(g) ==
  /\ gen' = [o \in Objects |-> IF gen[o] # Free /\ gen[o] >= g THEN gen[o] + 1 ELSE gen[o]]
  /\ UNCHANGED <<collected, kept, owed>>

Next ==
  \/ \E o \in Objects, g \in Generations : Allocate(o, g) \/ Keep(o, g)
  \/ \E gs \in SUBSET Generations : Start(gs)
  \/ \E o \in Objects : Scan(o)
  \/ Finish \/ \E g \in Generations : Insert(g)
Spec == Init /\ [][Next]_vars
================================================================================
