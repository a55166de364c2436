----------------------------- MODULE ObjectHeap ------------------------------
(***************************************************************************)
(* What the storage manager promises a Scheme program: a graph of objects  *)
(* that only the program's own operations change, from which objects that  *)
(* the program can no longer reach may silently disappear.  There are no   *)
(* addresses, generations or collections here.                             *)
(***************************************************************************)
CONSTANTS Objects, Fields, Roots, Nil

VARIABLES root,   \* what the program holds
          heap    \* the fields of each object, or Nil if it does not exist

Init ==
  /\ \E statics \in SUBSET Objects :
       heap = [o \in Objects |->
                 IF o \in statics THEN [f \in Fields |-> Nil] ELSE Nil]
  /\ root \in [Roots -> {o \in Objects : heap[o] # Nil} \cup {Nil}]

Allocate(r) ==
  \E o \in Objects, init \in [Fields -> {root[q] : q \in Roots} \cup {Nil}] :
    /\ heap[o] = Nil
    /\ heap' = [heap EXCEPT ![o] = init]
    /\ root' = [root EXCEPT ![r] = o]

Load(r, q, f) ==
  /\ root[q] # Nil
  /\ root' = [root EXCEPT ![r] = heap[root[q]][f]]
  /\ UNCHANGED heap

Drop(r) == root' = [root EXCEPT ![r] = Nil] /\ UNCHANGED heap

Store(q, f, r) ==
  /\ root[q] # Nil
  /\ heap' = [heap EXCEPT ![root[q]][f] = root[r]]
  /\ UNCHANGED root

(* A set of objects that holds every object the program can reach.         *)
Live(set) ==
  /\ \A r \in Roots : root[r] # Nil => root[r] \in set
  /\ \A o \in set : heap[o] # Nil /\ \A f \in Fields :
       heap[o][f] # Nil => heap[o][f] \in set

Reclaim ==
  \E kept \in SUBSET Objects :
    /\ Live(kept)
    /\ heap' = [o \in Objects |-> IF o \in kept THEN heap[o] ELSE Nil]
    /\ UNCHANGED root

Next ==
  \/ \E r \in Roots : Allocate(r) \/ Drop(r)
  \/ \E r, q \in Roots, f \in Fields : Load(r, q, f) \/ Store(q, f, r)
  \/ Reclaim

Spec == Init /\ [][Next]_<<root, heap>>
=============================================================================
