------------------------------- MODULE MCGenGC -------------------------------
(* The generational collector, and the object graph it must preserve.      *)
EXTENDS GenGC, TLC

(* A request for generation 0, or a promotion from generation 1, starts as *)
(* an evacuation of the nursery does, and asks for nothing more.           *)
NearRequests == {<<0, "promote">>, <<1, "collect">>}
(* (collect 2): the ephemeral area is passed over.                         *)
FarRequests == {<<2, "collect">>}

(* The object an address holds, and the objects by their current copies.   *)
IdOf(w) == IF w = Nil THEN Nil ELSE w[1]
Current(o) == {a \in Allocated : a[1] = o /\ fwd[a] = Nil}

(* What does not exist, or is no pointer, is told from an object and from  *)
(* its fields.                                                             *)
ASSUME GraphAssumption ==
  Nil \notin Objects /\ Nil \notin [Fields -> Objects \cup {Nil}]

Graph == INSTANCE ObjectHeap WITH
  root <- [r \in Roots |-> IdOf(mem[Globals][r])],
  heap <- [o \in Objects |->
             IF Current(o) = {} THEN Nil
             ELSE LET a == CHOOSE b \in Current(o) : TRUE
                  IN  [f \in Fields |-> IdOf(mem[a][f])]]

(* To the program a collection changes nothing but to forget objects it    *)
(* cannot reach: every step of the collector leaves the graph alone, and   *)
(* the last one reclaims only unreachable objects.                         *)
ImplementsObjectHeap == Graph!Spec

ObjectSymmetry == Permutations(Objects \ StaticObjs)
==============================================================================
