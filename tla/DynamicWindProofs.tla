-------------------------- MODULE DynamicWindProofs ---------------------------
(***************************************************************************)
(* dynamic-wind and call/cc, for any finite number of extents, any set of  *)
(* continuations and any nesting: first what they do to the interrupts,    *)
(* then the tree of extents, the thunks that ran and the places that code  *)
(* runs in.                                                                *)
(***************************************************************************)
EXTENDS DynamicWind, SequenceTheorems, FiniteSetTheorems, WellFoundedInduction, TLAPS

Sequence(s) == \E S : s \in Seq(S)

(* The control stacks are stacks.                                          *)
StacksInv ==
  /\ Sequence(stack)
  /\ saved = [k \in Konts |-> saved[k]]
  /\ \A k \in Konts : saved[k] # Nil => Sequence(saved[k].stack)

(* Interrupts are off only at the top of a rerooting that was entered with *)
(* interrupts on, and then *enable-interrupts-when-done* says so: whoever  *)
(* abandons the rerooting finds it.                                        *)
Rerooting == In("reroot") \/ In("thunk")
OffInv == plain => on \/ (Rerooting /\ Top.ticks /\ whenDone)

WindInv == StacksInv /\ OffInv

(* What a stack is after a push and after a pop.                           *)
LEMMA Pushed ==
  ASSUME NEW s, NEW e, Sequence(s)
  PROVE  /\ Sequence(Append(s, e)) /\ Append(s, e) # << >>
         /\ Append(s, e)[Len(Append(s, e))] = e
<1>1. PICK S : s \in Seq(S)  BY DEF Sequence
<1>2. s \in Seq(S \cup {e}) /\ e \in S \cup {e}  BY <1>1, SeqMonotonic
<1>3. /\ Append(s, e) \in Seq(S \cup {e})
      /\ Len(Append(s, e)) = Len(s) + 1
      /\ Append(s, e)[Len(s) + 1] = e
  BY <1>2, AppendProperties
<1>4. Append(s, e) # << >>  BY <1>2, AppendProperties
<1> QED  BY <1>3, <1>4 DEF Sequence

LEMMA Popped ==
  ASSUME NEW s, Sequence(s), s # << >>
  PROVE  Sequence(SubSeq(s, 1, Len(s) - 1))
<1>1. PICK S : s \in Seq(S)  BY DEF Sequence
<1>2. SubSeq(s, 1, Len(s) - 1) \in Seq(S)  BY <1>1
<1> QED  BY <1>2 DEF Sequence

(* A push on the stack without its top, or on any other stack, makes the   *)
(* pushed level the top.                                                   *)
LEMMA RestIsStack ==
  ASSUME StacksInv, stack # << >>
  PROVE  Sequence(Rest)
BY Popped DEF StacksInv, Rest

LEMMA InitWind == Init => WindInv
<1> SUFFICES ASSUME Init PROVE WindInv  OBVIOUS
<1>1. Sequence(stack)
  <2>1. << >> \in Seq({})  BY EmptySeq
  <2> QED  BY <2>1 DEF Init, Sequence
<1>2. StacksInv  BY <1>1 DEF Init, StacksInv
<1>3. OffInv  BY DEF Init, OffInv
<1> QED  BY <1>2, <1>3 DEF WindInv
-----------------------------------------------------------------------------
(* What reroot! leaves when it is entered with interrupts on.              *)
LEMMA RerootWind ==
  ASSUME NEW there, NEW rest, NEW ticks, StacksInv, Sequence(rest),
         plain => ticks,
         Reroot(there, rest, ticks), UNCHANGED <<saved, plain>>
  PROVE  WindInv'
<1> DEFINE level == Level("reroot", here, there, WayTo(there), ticks)
<1>1. stack' = Append(rest, level)  BY DEF Reroot
<1>2. /\ Sequence(stack') /\ stack' # << >>
      /\ stack'[Len(stack')] = level
  <2> HIDE DEF level
  <2> QED  BY <1>1, Pushed
<1>3. level.at = "reroot" /\ level.ticks = ticks  BY DEF Level
<1>4. In("reroot")' /\ (Top.ticks)' = ticks  BY <1>2, <1>3 DEF In, Top
<1>5. StacksInv'  BY <1>2 DEF StacksInv
<1>6. OffInv'  BY <1>4 DEF OffInv, Rerooting, Reroot
<1> QED  BY <1>5, <1>6 DEF WindInv

(* A step that pushes a level keeps the invariant if the level is in order *)
(* and the interrupt variables stay.                                       *)
LEMMA PushWind ==
  ASSUME NEW s, NEW level, StacksInv, Sequence(s), stack' = Append(s, level),
         UNCHANGED <<whenDone, on, saved>>,
         plain' => on \/ (level.at \in {"reroot", "thunk"} /\ level.ticks /\ whenDone)
  PROVE  WindInv'
<1>1. Sequence(stack') /\ stack' # << >> /\ stack'[Len(stack')] = level  BY Pushed
<1>2. StacksInv'  BY <1>1 DEF StacksInv
<1>3. OffInv'  BY <1>1 DEF OffInv, Rerooting, In, Top
<1> QED  BY <1>2, <1>3 DEF WindInv

(* Every step keeps the invariant.                                         *)
LEMMA StepWind == WindInv /\ [Next]_vars => WindInv'
<1> SUFFICES ASSUME WindInv, [Next]_vars PROVE WindInv'  OBVIOUS
<1> USE DEF WindInv
<1>1. CASE Move
  <2> DEFINE level == Level("thunk", Head(Top.todo), Top.back, Tail(Top.todo), Top.ticks)
  <2>1. stack' = Append(Rest, level) /\ UNCHANGED <<whenDone, on, saved, plain>>
    BY <1>1 DEF Move
  <2>2. In("reroot") /\ Sequence(Rest)  BY <1>1, RestIsStack DEF Move, In
  <2>3. level.at = "thunk" /\ level.ticks = Top.ticks  BY DEF Level
  <2>4. plain => on \/ (Top.ticks /\ whenDone)  BY DEF OffInv
  <2> HIDE DEF level
  <2> QED  BY <2>1, <2>2, <2>3, <2>4, PushWind
<1>2. CASE ThunkReturns
  <2>1. stack' = Append(Rest, Now("reroot")) /\ UNCHANGED <<whenDone, on, saved, plain>>
    BY <1>2 DEF ThunkReturns
  <2>2. In("thunk") /\ Sequence(Rest)  BY <1>2, RestIsStack DEF ThunkReturns, In
  <2>3. Now("reroot").at = "reroot" /\ Now("reroot").ticks = Top.ticks  BY DEF Now, Level
  <2>4. plain => on \/ (Top.ticks /\ whenDone)  BY DEF OffInv
  <2> QED  BY <2>1, <2>2, <2>3, <2>4, PushWind
<1>3. CASE Done
  <2>1. /\ In("reroot") /\ stack' = Rest /\ UNCHANGED <<saved, plain>>
        /\ on' = (on \/ Top.ticks)
    BY <1>3 DEF Done
  <2>2. Sequence(stack')  BY <2>1, RestIsStack DEF In
  <2>3. StacksInv'  BY <2>1, <2>2 DEF StacksInv
  <2>4. OffInv'  BY <2>1 DEF OffInv
  <2> QED  BY <2>3, <2>4
<1>4. CASE Begin
  <2>1. /\ In("before") /\ stack' = Append(Rest, Now("body"))
        /\ UNCHANGED <<whenDone, on, saved, plain>>
    BY <1>4 DEF Begin
  <2>2. Sequence(Rest)  BY <2>1, RestIsStack DEF In
  <2>3. plain => on  BY <2>1 DEF OffInv, Rerooting, In
  <2> QED  BY <2>1, <2>2, <2>3, PushWind
<1>5. CASE Exit
  <2>1. In("body") /\ Reroot(Top.back, Rest, on) /\ UNCHANGED <<saved, plain>>
    BY <1>5 DEF Exit
  <2>2. Sequence(Rest)  BY <2>1, RestIsStack DEF In
  <2>3. plain => on  BY <2>1 DEF OffInv, Rerooting, In
  <2> QED  BY <2>1, <2>2, <2>3, RerootWind
<1>6. ASSUME NEW n \in Extents, Wind(n) PROVE WindInv'
  <2> DEFINE level == Level("before", n, here, << >>, FALSE)
  <2>1. /\ stack' = Append(stack, level) /\ UNCHANGED <<whenDone, on, saved>>
        /\ ~In("reroot") /\ plain' = (plain /\ ~InThunk)
    BY <1>6 DEF Wind, Program
  <2>2. Sequence(stack)  BY DEF StacksInv
  <2>3. In("thunk") => InThunk
    <3>1. ASSUME stack # << >>  PROVE Len(stack) \in DOMAIN stack
      <4>1. PICK S : stack \in Seq(S)  BY <2>2 DEF Sequence
      <4> QED  BY <3>1, <4>1, EmptySeq, LenProperties
    <3> QED  BY <3>1 DEF In, InThunk, Top
  <2>4. plain' => on  BY <2>1, <2>3 DEF OffInv, Rerooting
  <2> HIDE DEF level
  <2> QED  BY <2>1, <2>2, <2>4, PushWind
<1>7. ASSUME NEW k \in Konts, Capture(k) PROVE WindInv'
  <2>1. /\ saved' = [saved EXCEPT ![k] = [here |-> here, stack |-> stack]]
        /\ UNCHANGED <<whenDone, on, stack, plain>>
    BY <1>7 DEF Capture
  <2>2. StacksInv'  BY <2>1 DEF StacksInv
  <2>3. OffInv'  BY <2>1 DEF OffInv, Rerooting, In, Top
  <2> QED  BY <2>2, <2>3
<1>8. ASSUME NEW k \in Konts, Throw(k) PROVE WindInv'
  <2>1. /\ Reroot(saved[k].here, saved[k].stack, on \/ whenDone)
        /\ saved[k] # Nil /\ UNCHANGED <<saved, plain>>
    BY <1>8 DEF Throw
  <2>2. Sequence(saved[k].stack)  BY <2>1 DEF StacksInv
  <2>3. plain => on \/ whenDone  BY DEF OffInv
  <2> QED  BY <2>1, <2>2, <2>3, RerootWind
<1>9. CASE UNCHANGED vars
  BY <1>9 DEF vars, StacksInv, OffInv, Rerooting, In, Top
<1> QED  BY <1>1, <1>2, <1>3, <1>4, <1>5, <1>6, <1>7, <1>8, <1>9 DEF Next
-----------------------------------------------------------------------------
(* While no thunk that reroot! runs enters an extent, a program that has   *)
(* left all rerooting behind, by returning or by throwing, has its         *)
(* interrupts on.                                                          *)
THEOREM InterruptsComeBack == Spec => []InterruptsRestored
<1>1. WindInv => InterruptsRestored
  <2> SUFFICES ASSUME WindInv, plain,
                      \A i \in DOMAIN stack : stack[i].at \in {"before", "body"}
               PROVE  on
    BY DEF InterruptsRestored, AbandonedRestores
  <2>1. PICK S : stack \in Seq(S)  BY DEF WindInv, StacksInv, Sequence
  <2>2. stack # << >> => Len(stack) \in DOMAIN stack
    BY <2>1, EmptySeq, LenProperties
  <2>3. ~Rerooting  BY <2>2 DEF Rerooting, In, Top
  <2> QED  BY <2>3 DEF WindInv, OffInv
<1> QED  BY <1>1, InitWind, StepWind, PTL DEF Spec
-----------------------------------------------------------------------------
(* A set of naturals has a least element: what an induction over the cells *)
(* of a chain amounts to.                                                  *)
LEMMA LeastNat ==
  ASSUME NEW T, T \subseteq Nat, T # {}
  PROVE  \E n \in T : \A m \in T : n <= m
<1>1. IsWellFoundedOn(OpToRel(<, Nat), Nat)  BY NatLessThanWellFounded
<1>2. PICK n \in T : \A m \in T : ~ <<m, n>> \in OpToRel(<, Nat)
  BY <1>1, WFMin, Zenon
<1>3. \A m \in T : ~(m < n)  BY <1>2 DEF OpToRel
<1> QED  BY <1>3

Bound == Cardinality(Cells)
LEMMA CellsFinite == IsFiniteSet(Cells) /\ Bound \in Nat
BY WindAssumption, FS_AddElement, FS_CardinalityType DEF Cells, Bound

(* Chain is what its recursive definition says.                            *)
LEMMA ChainUnfold ==
  ASSUME NEW f, NEW c
  PROVE  /\ Chain(f, c)[0] = c
         /\ \A i \in 1 .. Bound : Chain(f, c)[i] =
              IF Chain(f, c)[i - 1] \in DOMAIN f THEN f[Chain(f, c)[i - 1]] ELSE Nil
         /\ DOMAIN Chain(f, c) = 0 .. Bound
<1> DEFINE IsChain(h, n) ==
      h = [i \in 0 .. n |-> IF i = 0 THEN c
                            ELSE IF h[i - 1] \in DOMAIN f THEN f[h[i - 1]] ELSE Nil]
<1>1. \E h : IsChain(h, Bound)
  <2> DEFINE T == {n \in Nat : ~ \E h : IsChain(h, n)}
  <2> SUFFICES ASSUME T # {} PROVE FALSE  BY CellsFinite
  <2>1. PICK n \in T : \A m \in T : n <= m  BY LeastNat
  <2>2. n # 0
    <3>1. IsChain([i \in 0 .. 0 |-> c], 0)  OBVIOUS
    <3> QED  BY <2>1, <3>1
  <2>3. PICK h : IsChain(h, n - 1)
    <3>1. n - 1 \in Nat /\ n - 1 \notin T  BY <2>1, <2>2
    <3> QED  BY <3>1
  <2>4. IsChain([i \in 0 .. n |-> IF i < n THEN h[i]
                                  ELSE IF h[n - 1] \in DOMAIN f THEN f[h[n - 1]] ELSE Nil], n)
    BY <2>1, <2>2, <2>3
  <2> QED  BY <2>1, <2>4
<1>2. Chain(f, c) = CHOOSE h : IsChain(h, Bound)  BY DEF Chain, Bound
<1> HIDE DEF IsChain
<1>3. IsChain(Chain(f, c), Bound)  BY <1>1, <1>2
<1> QED  BY <1>3, CellsFinite DEF IsChain
-----------------------------------------------------------------------------
(* The cells that are in the tree, and those with an edge between them.    *)
Linked == {n \in Extents : parent[n] # Nil} \cup {Root}
Beside(a, b) ==
  /\ {a, b} \subseteq Linked
  /\ (a \in Extents /\ parent[a] = b) \/ (b \in Extents /\ parent[b] = a)

(* The parents make a tree of the cells, d their depths in it, a the       *)
(* extents that they lie in.                                               *)
Depths(d) ==
  /\ d \in [Linked -> Nat] /\ d[Root] = 0
  /\ \A n \in Linked : d[n] < Cardinality(Linked)
  /\ \A n \in Linked \ {Root} : parent[n] \in Linked /\ d[n] = d[parent[n]] + 1
Surrounds(a) ==
  /\ a \in [Linked -> SUBSET Linked] /\ a[Root] = {Root}
  /\ \A n \in Linked \ {Root} : a[n] = a[parent[n]] \cup {n} /\ n \notin a[parent[n]]
EnteredInv(a) == \A n \in Extents : entered[n] = IF n \in a[here] THEN 1 ELSE 0

(* Every cell but *here* points along an edge, with the thunks in the      *)
(* order of its direction; of the two cells of an edge the one farther     *)
(* from *here* points to the other; and no cell is on its own way.         *)
EdgesInv ==
  \A c \in Linked \ {here} :
    \/ c # Root /\ next[c] = parent[c] /\ car[c] = <<Before(c), After(c)>>
    \/ /\ next[c] \in Extents /\ parent[next[c]] = c
       /\ car[c] = <<After(next[c]), Before(next[c])>>
OrientedInv ==
  \A n \in Linked \ {Root} :
    \/ n # here /\ next[n] = parent[n]
    \/ parent[n] # here /\ next[parent[n]] = n
Ranks(r) ==
  /\ r \in [Linked -> Nat]
  /\ \A c \in Linked \ {here} : r[next[c]] < r[c]

TreeInv ==
  /\ here \in Linked /\ next \in [Cells -> Cells \cup {Nil}] /\ car = [c \in Cells |-> car[c]]
  /\ parent \in [Extents -> Cells \cup {Nil}] /\ entered = [n \in Extents |-> entered[n]]
  /\ EdgesInv /\ OrientedInv
  /\ \E d : Depths(d)
  /\ \E r : Ranks(r)
  /\ \E a : Surrounds(a) /\ EnteredInv(a)

LEMMA LinkedFacts ==
  /\ Linked \subseteq Cells /\ Root \in Linked /\ Root \notin Extents /\ Nil \notin Cells
  /\ Linked \ {Root} \subseteq Extents
  /\ IsFiniteSet(Linked) /\ Cardinality(Linked) \in Nat /\ Cardinality(Linked) <= Bound
<1>1. Linked \subseteq Cells  BY DEF Linked, Cells
<1> QED  BY <1>1, CellsFinite, FS_Subset, FS_CardinalityType, WindAssumption DEF Linked, Cells, Bound

LEMMA NextLinked ==
  ASSUME TreeInv, NEW c \in Linked, c # here
  PROVE  next[c] \in Linked /\ Beside(next[c], c)
<1>1. PICK d : Depths(d)  BY DEF TreeInv
<1>2. CASE c # Root /\ next[c] = parent[c]
  BY <1>1, <1>2, LinkedFacts DEF Depths, Beside
<1>3. CASE next[c] \in Extents /\ parent[next[c]] = c
  BY <1>3, LinkedFacts DEF Beside, Linked
<1> QED  BY <1>2, <1>3 DEF TreeInv, EdgesInv

(* Along its chain every cell reaches *here*, which the cells of the tree  *)
(* are too few to prevent.                                                 *)
LEMMA Reaches ==
  ASSUME TreeInv, NEW c \in Linked
  PROVE  \E far \in 0 .. Bound :
           /\ Chain(next, c)[far] = here
           /\ \A j \in 0 .. far - 1 : /\ Chain(next, c)[j] \in Linked \ {here}
                                      /\ Chain(next, c)[j + 1] = next[Chain(next, c)[j]]
<1> DEFINE hop == Chain(next, c)
<1>1. /\ hop[0] = c
      /\ \A i \in 1 .. Bound : hop[i] = IF hop[i - 1] \in DOMAIN next THEN next[hop[i - 1]] ELSE Nil
  BY ChainUnfold
<1>2. DOMAIN next = Cells /\ Linked \subseteq Cells /\ Bound \in Nat
  BY LinkedFacts, CellsFinite DEF TreeInv
<1> HIDE DEF hop
<1>3. ASSUME NEW k \in 0 .. Bound, \A j \in 0 .. k : j < k => hop[j] # here
      PROVE  \A j \in 0 .. k : hop[j] \in Linked /\ (j < k => hop[j + 1] = next[hop[j]])
  <2> DEFINE T == {j \in 0 .. k : hop[j] \notin Linked}
  <2>1. ASSUME T # {} PROVE FALSE
    <3>1. T \subseteq Nat  BY <1>2
    <3>2. PICK j \in T : \A m \in T : j <= m  BY <2>1, <3>1, LeastNat
    <3>3. j # 0 /\ j \in 0 .. k  BY <1>1, <3>2
    <3>4. j - 1 \in 0 .. k /\ j - 1 \notin T /\ j \in 1 .. Bound  BY <1>2, <3>2, <3>3
    <3>5. hop[j - 1] \in Linked \ {here}  BY <1>2, <1>3, <3>4
    <3>6. hop[j] = next[hop[j - 1]]  BY <1>1, <1>2, <3>4, <3>5
    <3> QED  BY <3>2, <3>5, <3>6, NextLinked
  <2>2. ASSUME NEW j \in 0 .. k, j < k PROVE hop[j + 1] = next[hop[j]]
    <3>1. j + 1 \in 1 .. Bound /\ (j + 1) - 1 = j  BY <1>2, <2>2
    <3>2. hop[j] \in Cells  BY <1>2, <2>1
    <3> QED  BY <1>1, <1>2, <3>1, <3>2
  <2> QED  BY <2>1, <2>2
<1>4. \E i \in 0 .. Bound : hop[i] = here
  <2> SUFFICES ASSUME \A i \in 0 .. Bound : hop[i] # here PROVE FALSE  OBVIOUS
  <2>1. PICK r : Ranks(r)  BY DEF TreeInv
  <2>2. \A j \in 0 .. Bound : hop[j] \in Linked /\ (j < Bound => hop[j + 1] = next[hop[j]])
    BY <1>2, <1>3
  <2>3. \A j \in 0 .. Bound : r[hop[j]] \in Nat /\ (j < Bound => r[hop[j + 1]] < r[hop[j]])
    BY <2>1, <2>2 DEF Ranks
  <2>4. ASSUME NEW i \in 0 .. Bound, NEW j \in 0 .. Bound, i < j PROVE r[hop[j]] < r[hop[i]]
    <3> DEFINE T == {k \in 0 .. Bound : i < k /\ ~(r[hop[k]] < r[hop[i]])}
    <3> SUFFICES ASSUME T # {} PROVE FALSE  BY <2>4
    <3>1. T \subseteq Nat  BY <1>2
    <3>2. PICK k \in T : \A m \in T : k <= m  BY <3>1, LeastNat
    <3>3. k - 1 \in 0 .. Bound /\ k - 1 \notin T /\ k \in 0 .. Bound /\ i < k  BY <1>2, <3>2
    <3>4. r[hop[k]] < r[hop[k - 1]]
      <4>1. k - 1 < Bound /\ (k - 1) + 1 = k  BY <1>2, <3>3
      <4> QED  BY <2>3, <3>3, <4>1
    <3>5. k - 1 = i \/ r[hop[k - 1]] < r[hop[i]]  BY <3>3
    <3> QED  BY <2>3, <3>2, <3>3, <3>4, <3>5
  <2>5. [j \in 0 .. Bound |-> hop[j]] \in [0 .. Bound -> Linked]  BY <2>2
  <2>6. IsFiniteSet(0 .. Bound) /\ Cardinality(0 .. Bound) = Bound + 1
    BY <1>2, FS_Interval
  <2>7. Cardinality(Linked) < Cardinality(0 .. Bound)  BY <1>2, <2>6, LinkedFacts
  <2>8. \E x, y \in 0 .. Bound : x # y /\ hop[x] = hop[y]
    <3> DEFINE h == [j \in 0 .. Bound |-> hop[j]]
    <3>1. \E x, y \in 0 .. Bound : x # y /\ h[x] = h[y]
      <4>1. h \in [0 .. Bound -> Linked]  BY <2>5
      <4> HIDE DEF h
      <4> QED  BY <2>6, <2>7, <4>1, LinkedFacts, FS_PigeonHole
    <3> QED  BY <3>1
  <2>9. PICK x \in 0 .. Bound : \E y \in 0 .. Bound : x # y /\ hop[x] = hop[y]
    BY <2>8
  <2>10. PICK y \in 0 .. Bound : x # y /\ hop[x] = hop[y]  BY <2>9
  <2> QED  BY <1>2, <2>3, <2>4, <2>10
<1>5. PICK far \in 0 .. Bound : hop[far] = here /\ \A j \in 0 .. Bound : hop[j] = here => far <= j
  <2> DEFINE T == {i \in 0 .. Bound : hop[i] = here}
  <2>1. T \subseteq Nat /\ T # {}  BY <1>2, <1>4
  <2> QED  BY <2>1, LeastNat
<1>6. \A j \in 0 .. far : j < far => hop[j] # here  BY <1>2, <1>5
<1>7. \A j \in 0 .. far : hop[j] \in Linked /\ (j < far => hop[j + 1] = next[hop[j]])
  BY <1>3, <1>6
<1> QED  BY <1>2, <1>5, <1>6, <1>7 DEF hop

(* What Chain finds around a cell is what lies around it in the tree.      *)
LEMMA AroundIs ==
  ASSUME TreeInv, NEW d, Depths(d), NEW a, Surrounds(a), NEW c \in Linked
  PROVE  Around(c) \cap Extents = a[c] \cap Extents
<1> DEFINE hop == Chain(parent, c)
<1>1. /\ hop[0] = c
      /\ \A i \in 1 .. Bound : hop[i] = IF hop[i - 1] \in DOMAIN parent THEN parent[hop[i - 1]] ELSE Nil
  BY ChainUnfold
<1>2. /\ DOMAIN parent = Extents /\ Bound \in Nat /\ d[c] \in 0 .. Bound /\ d[c] \in Nat
      /\ Nil \notin Extents /\ Root \notin Extents
  BY LinkedFacts, CellsFinite, WindAssumption DEF TreeInv, Depths
<1> HIDE DEF hop
(* Down to the depth of c the chain goes through the tree.                 *)
<1>3. \A j \in 0 .. d[c] :
        /\ hop[j] \in Linked /\ d[hop[j]] = d[c] - j
        /\ a[c] = a[hop[j]] \cup {hop[i] : i \in 0 .. j - 1}
  <2> DEFINE Holds(j) == /\ hop[j] \in Linked /\ d[hop[j]] = d[c] - j
                         /\ a[c] = a[hop[j]] \cup {hop[i] : i \in 0 .. j - 1}
             T == {j \in 0 .. d[c] : ~Holds(j)}
  <2> SUFFICES ASSUME T # {} PROVE FALSE  OBVIOUS
  <2>1. T \subseteq Nat  BY <1>2
  <2>2. PICK k \in T : \A m \in T : k <= m  BY <2>1, LeastNat
  <2>3. k # 0
    <3>1. Holds(0)  BY <1>1, <1>2
    <3> QED  BY <2>2, <3>1
  <2>4. k - 1 \in 0 .. d[c] /\ Holds(k - 1) /\ k \in 1 .. Bound /\ k \in 1 .. d[c]
    BY <1>2, <2>2, <2>3
  <2> DEFINE p == hop[k - 1]
  <2>5. p \in Linked /\ d[p] = d[c] - (k - 1) /\ p # Root
    BY <1>2, <2>4 DEF Depths
  <2>6. hop[k] = parent[p] /\ parent[p] \in Linked /\ d[p] = d[parent[p]] + 1
    BY <1>1, <1>2, <2>4, <2>5, LinkedFacts DEF Depths
  <2>7. a[p] = a[parent[p]] \cup {p}  BY <2>5 DEF Surrounds
  <2>8. {hop[i] : i \in 0 .. k - 1} = {hop[i] : i \in 0 .. (k - 1) - 1} \cup {p}
    BY <2>4
  <2>9. d[hop[k]] = d[c] - k  BY <1>2, <2>4, <2>5, <2>6 DEF Depths
  <2>10. Holds(k)  BY <2>4, <2>6, <2>7, <2>8, <2>9
  <2> QED  BY <2>2, <2>10
<1>4. a[c] = {hop[i] : i \in 0 .. d[c]}
  <2>1. hop[d[c]] \in Linked /\ d[hop[d[c]]] = 0  BY <1>2, <1>3
  <2>2. hop[d[c]] = Root
    <3>1. ASSUME hop[d[c]] # Root PROVE FALSE
      <4>1. /\ parent[hop[d[c]]] \in Linked
            /\ d[hop[d[c]]] = d[parent[hop[d[c]]]] + 1
        BY <2>1, <3>1 DEF Depths
      <4> QED  BY <2>1, <4>1 DEF Depths
    <3> QED  BY <3>1
  <2>3. a[c] = a[hop[d[c]]] \cup {hop[i] : i \in 0 .. d[c] - 1}  BY <1>2, <1>3
  <2> QED  BY <1>2, <2>2, <2>3 DEF Surrounds
(* Beyond it there is nothing more.                                        *)
<1>5. \A j \in 0 .. Bound : j > d[c] => hop[j] = Nil
  <2> DEFINE T == {j \in 0 .. Bound : j > d[c] /\ hop[j] # Nil}
  <2> SUFFICES ASSUME T # {} PROVE FALSE  OBVIOUS
  <2>1. T \subseteq Nat  BY <1>2
  <2>2. PICK k \in T : \A m \in T : k <= m  BY <2>1, LeastNat
  <2>3. k \in 1 .. Bound /\ k - 1 \in 0 .. Bound /\ k - 1 \notin T /\ hop[k] # Nil
    BY <1>2, <2>2
  <2>4. CASE k - 1 = d[c]
    <3>1. hop[k - 1] \in Linked /\ d[hop[k - 1]] = 0  BY <1>2, <1>3, <2>4
    <3>2. hop[k - 1] = Root
      <4>1. ASSUME hop[k - 1] # Root PROVE FALSE
        <5>1. parent[hop[k - 1]] \in Linked /\ d[hop[k - 1]] = d[parent[hop[k - 1]]] + 1
          BY <3>1, <4>1 DEF Depths
        <5> QED  BY <3>1, <5>1 DEF Depths
      <4> QED  BY <4>1
    <3> QED  BY <1>1, <1>2, <2>3, <3>2
  <2>5. CASE k - 1 # d[c]
    <3>1. hop[k - 1] = Nil  BY <1>2, <2>2, <2>3, <2>5
    <3> QED  BY <1>1, <1>2, <2>3, <3>1
  <2> QED  BY <2>4, <2>5
<1>6. Around(c) = {hop[i] : i \in 0 .. Bound}  BY DEF Around, Bound, hop
<1>7. ASSUME NEW n \in Extents PROVE n \in {hop[i] : i \in 0 .. Bound} <=> n \in {hop[i] : i \in 0 .. d[c]}
  BY <1>2, <1>5
<1> QED  BY <1>4, <1>6, <1>7
-----------------------------------------------------------------------------
LEMMA InitTree == Init => TreeInv
<1> SUFFICES ASSUME Init PROVE TreeInv  OBVIOUS
<1>1. Linked = {Root} /\ here = Root /\ Root \in Cells  BY DEF Init, Linked, Cells
<1>2. Depths([c \in {Root} |-> 0])
  <2>1. Cardinality(Linked) = 1  BY <1>1, FS_Singleton
  <2> QED  BY <1>1, <2>1 DEF Depths
<1>3. Ranks([c \in {Root} |-> 0])  BY <1>1 DEF Ranks
<1>4. Surrounds([c \in {Root} |-> {Root}]) /\ EnteredInv([c \in {Root} |-> {Root}])
  BY <1>1, LinkedFacts DEF Surrounds, EnteredInv, Init
<1>5. EdgesInv /\ OrientedInv  BY <1>1 DEF EdgesInv, OrientedInv
<1> QED  BY <1>1, <1>2, <1>3, <1>4, <1>5 DEF TreeInv, Init

(* The edge between *here* and a cell beside it leads to *here*.           *)
LEMMA Crossing ==
  ASSUME TreeInv, NEW t, Beside(here, t)
  PROVE  /\ t \in Linked \ {here} /\ next[t] = here
         /\ \/ t \in Extents /\ parent[t] = here /\ car[t] = <<Before(t), After(t)>>
            \/ here \in Extents /\ parent[here] = t /\ car[t] = <<After(here), Before(here)>>
<1>1. PICK d : Depths(d)  BY DEF TreeInv
<1>2. t \in Linked /\ t # here
  <2>1. ASSUME NEW n \in Extents \cap Linked PROVE parent[n] # n
    <3>1. n # Root /\ d[n] \in Nat  BY <1>1, LinkedFacts DEF Depths
    <3> QED  BY <1>1, <3>1 DEF Depths
  <2> QED  BY <2>1 DEF Beside
<1>3. next[t] = here
  BY <1>2, LinkedFacts DEF Beside, TreeInv, OrientedInv
<1> QED  BY <1>2, <1>3, LinkedFacts DEF TreeInv, EdgesInv

(* An edge that is turned around, and *here* with it.                      *)
Turned(t) ==
  /\ car'  = [car EXCEPT ![here] = Swapped(car[t]), ![t] = NoThunks]
  /\ next' = [next EXCEPT ![here] = t, ![t] = Nil]
  /\ here' = t
  /\ Run(Thunk(car[t]))
  /\ UNCHANGED parent

LEMMA TurnTree ==
  ASSUME TreeInv, NEW t, Beside(here, t), Turned(t)
  PROVE  TreeInv'
<1>1. /\ t \in Linked \ {here} /\ next[t] = here /\ t \in Cells /\ here \in Cells /\ here \in Linked
      /\ \/ t \in Extents /\ parent[t] = here /\ car[t] = <<Before(t), After(t)>>
         \/ here \in Extents /\ parent[here] = t /\ car[t] = <<After(here), Before(here)>>
  BY Crossing, LinkedFacts DEF TreeInv
<1>2. Linked' = Linked /\ UNCHANGED parent /\ here' = t  BY DEF Turned, Linked
<1>3. /\ next' \in [Cells -> Cells \cup {Nil}] /\ car' = [c \in Cells |-> car'[c]]
      /\ next'[here] = t /\ car'[here] = Swapped(car[t])
      /\ \A c \in Cells \ {here, t} : next'[c] = next[c] /\ car'[c] = car[c]
  BY <1>1 DEF Turned, TreeInv
<1>4. EdgesInv'
  <2> SUFFICES ASSUME NEW c \in Linked, c # t
               PROVE  \/ c # Root /\ next'[c] = parent[c] /\ car'[c] = <<Before(c), After(c)>>
                      \/ /\ next'[c] \in Extents /\ parent[next'[c]] = c
                         /\ car'[c] = <<After(next'[c]), Before(next'[c])>>
    BY <1>2 DEF EdgesInv
  <2>1. CASE c = here  BY <1>1, <1>3, <2>1, LinkedFacts DEF Swapped
  <2>2. CASE c # here
    <3>1. next'[c] = next[c] /\ car'[c] = car[c]  BY <1>3, <2>2, LinkedFacts
    <3> QED  BY <2>2, <3>1 DEF TreeInv, EdgesInv
  <2> QED  BY <2>1, <2>2
<1>5. OrientedInv'
  <2> SUFFICES ASSUME NEW n \in Linked \ {Root}
               PROVE  \/ n # t /\ next'[n] = parent[n]
                      \/ parent[n] # t /\ next'[parent[n]] = n
    BY <1>2 DEF OrientedInv
  <2>1. PICK d : Depths(d)  BY DEF TreeInv
  <2>2. parent[n] \in Linked /\ parent[n] \in Cells /\ n \in Cells
    BY <2>1, LinkedFacts DEF Depths
  <2>3. CASE n = here /\ parent[n] = t  BY <1>1, <1>3, <2>3
  <2>4. CASE n = t /\ parent[n] = here  BY <1>1, <1>3, <2>4
  <2>5. CASE ~(n = here /\ parent[n] = t) /\ ~(n = t /\ parent[n] = here)
    <3>1. CASE n # here /\ next[n] = parent[n]
      <4>1. n # t  BY <1>1, <2>5, <3>1
      <4> QED  BY <1>3, <2>2, <3>1, <4>1
    <3>2. CASE parent[n] # here /\ next[parent[n]] = n
      <4>1. parent[n] # t  BY <1>1, <2>5, <3>2
      <4> QED  BY <1>3, <2>2, <3>2, <4>1
    <3> QED  BY <3>1, <3>2 DEF TreeInv, OrientedInv
  <2> QED  BY <2>3, <2>4, <2>5
<1>6. \E d : Depths(d)'
  <2>1. PICK d : Depths(d)  BY DEF TreeInv
  <2>2. Depths(d)'  BY <1>2, <2>1 DEF Depths
  <2> QED  BY <2>2
<1>7. \E r : Ranks(r)'
  <2>1. PICK r : Ranks(r)  BY DEF TreeInv
  <2> DEFINE s == [c \in Linked |-> IF c = t THEN 0 ELSE r[c] + 1]
  <2>2. s \in [Linked -> Nat]  BY <2>1 DEF Ranks
  <2>3. ASSUME NEW c \in Linked, c # t PROVE s[next'[c]] < s[c]
    <3>1. CASE c = here  BY <1>1, <1>3, <2>1, <2>3, <3>1 DEF Ranks
    <3>2. CASE c # here
      <4>1. next'[c] = next[c] /\ next[c] \in Linked
        BY <1>3, <2>3, <3>2, LinkedFacts, NextLinked
      <4>2. r[next[c]] < r[c] /\ r[c] \in Nat /\ r[next[c]] \in Nat
        BY <2>1, <3>2, <4>1 DEF Ranks
      <4> QED  BY <2>3, <4>1, <4>2
    <3> QED  BY <3>1, <3>2
  <2>4. Ranks(s)'  BY <1>2, <2>2, <2>3 DEF Ranks
  <2> QED  BY <2>4
<1>8. /\ entered' = [n \in Extents |-> entered'[n]]
      /\ \E a : Surrounds(a)' /\ EnteredInv(a)'
  <2>1. PICK a : Surrounds(a) /\ EnteredInv(a)  BY DEF TreeInv
  <2>2. Surrounds(a)'  BY <1>2, <2>1 DEF Surrounds
  <2>3. CASE t \in Extents /\ parent[t] = here /\ car[t] = <<Before(t), After(t)>>
    <3>1. a[t] = a[here] \cup {t} /\ t \notin a[here]
      BY <1>1, <2>1, <2>3, LinkedFacts DEF Surrounds
    <3>2. entered' = [entered EXCEPT ![t] = entered[t] + 1]
      BY <2>3 DEF Turned, Run, Thunk, Before
    <3>3. entered' = [n \in Extents |-> entered'[n]]  BY <3>2 DEF TreeInv
    <3>4. ASSUME NEW n \in Extents PROVE entered'[n] = IF n \in a[t] THEN 1 ELSE 0
      BY <2>1, <2>3, <3>1, <3>2 DEF EnteredInv, TreeInv
    <3> QED  BY <1>2, <2>2, <3>3, <3>4 DEF EnteredInv
  <2>4. CASE here \in Extents /\ parent[here] = t /\ car[t] = <<After(here), Before(here)>>
    <3>1. a[here] = a[t] \cup {here} /\ here \notin a[t]
      BY <1>1, <2>1, <2>4, LinkedFacts DEF Surrounds
    <3>2. entered' = [entered EXCEPT ![here] = entered[here] - 1]
      BY <2>4 DEF Turned, Run, Thunk, After
    <3>3. entered' = [n \in Extents |-> entered'[n]]  BY <3>2 DEF TreeInv
    <3>4. ASSUME NEW n \in Extents PROVE entered'[n] = IF n \in a[t] THEN 1 ELSE 0
      BY <2>1, <2>4, <3>1, <3>2 DEF EnteredInv, TreeInv
    <3> QED  BY <1>2, <2>2, <3>3, <3>4 DEF EnteredInv
  <2> QED  BY <1>1, <2>3, <2>4
<1> QED
  BY <1>1, <1>2, <1>3, <1>4, <1>5, <1>6, <1>7, <1>8 DEF TreeInv

(* A cell put below *here*: a new one, or the same once more when a        *)
(* continuation captured in its before thunk is resumed.                   *)
Entered(t) ==
  /\ car'  = [car EXCEPT ![here] = <<After(t), Before(t)>>]
  /\ next' = [next EXCEPT ![here] = t]
  /\ here' = t
  /\ parent' = [parent EXCEPT ![t] = here]
  /\ Run(Before(t))

LEMMA EnterTree ==
  ASSUME TreeInv, NEW t \in Extents, parent[t] \in {Nil, here}, Entered(t)
  PROVE  /\ TreeInv'
         /\ Linked' = Linked \cup {t}
         /\ \A n \in Linked \ {Root} : parent'[n] = parent[n]
<1> DEFINE new == t \notin Linked
<1>1. here \in Linked /\ here \in Cells /\ here # Nil /\ t \in Cells /\ t # Root
  BY LinkedFacts DEF TreeInv, Cells
<1>2. t # here
  <2>1. PICK d : Depths(d)  BY DEF TreeInv
  <2>2. CASE parent[t] = here
    <3>1. t \in Linked \ {Root}  BY <1>1, <2>2 DEF Linked
    <3>2. d[t] = d[here] + 1 /\ d[here] \in Nat  BY <1>1, <2>1, <2>2, <3>1 DEF Depths
    <3> QED  BY <3>2
  <2>3. CASE parent[t] = Nil  BY <1>1, <2>3 DEF Linked
  <2> QED  BY <2>2, <2>3
<1>3. /\ Linked' = Linked \cup {t} /\ here' = t
      /\ parent' \in [Extents -> Cells \cup {Nil}] /\ parent'[t] = here
      /\ \A n \in Extents \ {t} : parent'[n] = parent[n]
      /\ t \in Linked => parent[t] = here
  BY <1>1 DEF Entered, TreeInv, Linked
<1>4. \A n \in Linked \ {Root} : parent'[n] = parent[n]  BY <1>3, LinkedFacts
<1>5. /\ next' \in [Cells -> Cells \cup {Nil}] /\ car' = [c \in Cells |-> car'[c]]
      /\ next'[here] = t /\ car'[here] = <<After(t), Before(t)>>
      /\ \A c \in Cells \ {here} : next'[c] = next[c] /\ car'[c] = car[c]
  BY <1>1 DEF Entered, TreeInv
<1>6. EdgesInv'
  <2> SUFFICES ASSUME NEW c \in Linked, c # t
               PROVE  \/ c # Root /\ next'[c] = parent'[c] /\ car'[c] = <<Before(c), After(c)>>
                      \/ /\ next'[c] \in Extents /\ parent'[next'[c]] = c
                         /\ car'[c] = <<After(next'[c]), Before(next'[c])>>
    BY <1>3 DEF EdgesInv
  <2>1. CASE c = here  BY <1>3, <1>5, <2>1
  <2>2. CASE c # here
    <3>1. next'[c] = next[c] /\ car'[c] = car[c]  BY <1>5, <2>2, LinkedFacts
    <3>2. next[c] \in Extents /\ parent[next[c]] = c => parent'[next[c]] = c
      BY <1>3, <2>2, LinkedFacts
    <3>3. c # Root => parent'[c] = parent[c]  BY <1>4
    <3> QED  BY <2>2, <3>1, <3>2, <3>3 DEF TreeInv, EdgesInv
  <2> QED  BY <2>1, <2>2
<1>7. PICK d : Depths(d)  BY DEF TreeInv
<1>8. OrientedInv'
  <2> SUFFICES ASSUME NEW n \in Linked \cup {t}, n # Root
               PROVE  \/ n # t /\ next'[n] = parent'[n]
                      \/ parent'[n] # t /\ next'[parent'[n]] = n
    BY <1>3 DEF OrientedInv
  <2>1. CASE n = t  BY <1>2, <1>3, <1>5, <2>1
  <2>2. CASE n # t
    <3>1. /\ n \in Linked \ {Root} /\ parent'[n] = parent[n] /\ parent[n] \in Linked
          /\ n \in Cells /\ parent[n] \in Cells
      BY <1>4, <1>7, <2>2, LinkedFacts DEF Depths
    <3>2. CASE n # here /\ next[n] = parent[n]  BY <1>5, <2>2, <3>1, <3>2
    <3>3. CASE parent[n] # here /\ next[parent[n]] = n
      <4>1. ASSUME parent[n] = t PROVE FALSE
        <5>1. t \in Linked \ {Root} /\ parent[t] = here  BY <1>1, <1>3, <3>1, <4>1
        <5>2. next[t] = here  BY <5>1 DEF TreeInv, OrientedInv
        <5>3. n = here /\ d[n] = d[t] + 1 /\ d[t] = d[here] + 1 /\ d[here] \in Nat
          BY <1>1, <1>7, <3>1, <3>3, <4>1, <5>1, <5>2 DEF Depths
        <5> QED  BY <5>3
      <4> QED  BY <1>5, <3>1, <3>3, <4>1
    <3> QED  BY <3>1, <3>2, <3>3 DEF TreeInv, OrientedInv
  <2> QED  BY <2>1, <2>2
<1>9. \E e : Depths(e)'
  <2>1. CASE t \in Linked
    <3>1. Depths(d)'  BY <1>3, <1>4, <1>7, <2>1 DEF Depths
    <3> QED  BY <3>1
  <2>2. CASE t \notin Linked
    <3>0. PICK e : e = [c \in Linked \cup {t} |-> IF c = t THEN d[here] + 1 ELSE d[c]]
      OBVIOUS
    <3>1. Cardinality(Linked') = Cardinality(Linked) + 1 /\ Cardinality(Linked) \in Nat
      BY <1>3, <2>2, LinkedFacts, FS_AddElement
    <3>2. Depths(e)'
      <4>1. e \in [Linked' -> Nat] /\ e[Root] = 0  BY <1>1, <1>3, <1>7, <3>0, LinkedFacts DEF Depths
      <4>2. \A n \in Linked' : e[n] < Cardinality(Linked')
        BY <1>1, <1>3, <1>7, <3>0, <3>1 DEF Depths
      <4>3. \A n \in Linked' \ {Root} : parent'[n] \in Linked' /\ e[n] = e[parent'[n]] + 1
        <5> SUFFICES ASSUME NEW n \in Linked' \ {Root}
                     PROVE  parent'[n] \in Linked' /\ e[n] = e[parent'[n]] + 1
          OBVIOUS
        <5>1. CASE n = t  BY <1>1, <1>2, <1>3, <3>0, <5>1
        <5>2. CASE n # t
          <6>1. n \in Linked \ {Root} /\ parent'[n] = parent[n]  BY <1>3, <1>4, <5>2
          <6>2. parent[n] \in Linked /\ d[n] = d[parent[n]] + 1  BY <1>7, <6>1 DEF Depths
          <6> QED  BY <1>3, <2>2, <3>0, <5>2, <6>1, <6>2
        <5> QED  BY <5>1, <5>2
      <4> QED  BY <4>1, <4>2, <4>3 DEF Depths
    <3> QED  BY <3>2
  <2> QED  BY <2>1, <2>2
<1>10. \E r : Ranks(r)'
  <2>1. PICK r : Ranks(r)  BY DEF TreeInv
  <2> DEFINE s == [c \in Linked \cup {t} |-> IF c = t THEN 0 ELSE r[c] + 1]
  <2>2. s \in [Linked \cup {t} -> Nat]  BY <2>1 DEF Ranks
  <2>3. ASSUME NEW c \in Linked, c # t PROVE s[next'[c]] < s[c]
    <3>1. CASE c = here  BY <1>1, <1>5, <2>1, <2>3, <3>1 DEF Ranks
    <3>2. CASE c # here
      <4>1. next'[c] = next[c] /\ next[c] \in Linked
        BY <1>5, <3>2, LinkedFacts, NextLinked
      <4>2. r[next[c]] < r[c] /\ r[c] \in Nat /\ r[next[c]] \in Nat
        BY <2>1, <3>2, <4>1 DEF Ranks
      <4> QED  BY <2>3, <4>1, <4>2
    <3> QED  BY <3>1, <3>2
  <2>4. Ranks(s)'  BY <1>3, <2>2, <2>3 DEF Ranks
  <2> QED  BY <2>4
<1>11. /\ entered' = [n \in Extents |-> entered'[n]]
       /\ \E a : Surrounds(a)' /\ EnteredInv(a)'
  <2>1. PICK a : Surrounds(a) /\ EnteredInv(a)  BY DEF TreeInv
  <2>2. t \notin a[here]
    BY <1>1, <1>3, <2>1 DEF Surrounds
  <2>3. entered' = [entered EXCEPT ![t] = entered[t] + 1]
    BY DEF Entered, Run, Before
  <2>4. entered' = [n \in Extents |-> entered'[n]]  BY <2>3 DEF TreeInv
  <2>0. PICK b : b = [c \in Linked \cup {t} |-> IF c = t THEN a[here] \cup {t} ELSE a[c]]
    OBVIOUS
  <2>5. Surrounds(b)'
    <3>1. b \in [Linked' -> SUBSET Linked'] /\ b[Root] = {Root}
      BY <1>1, <1>3, <2>0, <2>1, LinkedFacts DEF Surrounds
    <3>2. \A n \in Linked' \ {Root} : b[n] = b[parent'[n]] \cup {n} /\ n \notin b[parent'[n]]
      <4> SUFFICES ASSUME NEW n \in Linked' \ {Root}
                   PROVE  b[n] = b[parent'[n]] \cup {n} /\ n \notin b[parent'[n]]
        OBVIOUS
      <4>1. CASE n = t  BY <1>1, <1>2, <1>3, <2>0, <2>2, <4>1
      <4>2. CASE n # t
        <5>1. n \in Linked \ {Root} /\ parent'[n] = parent[n] /\ parent[n] \in Linked
          BY <1>3, <1>4, <1>7, <4>2 DEF Depths
        <5>2. a[n] = a[parent[n]] \cup {n} /\ n \notin a[parent[n]]
          BY <2>1, <5>1 DEF Surrounds
        <5>3. b[parent[n]] = a[parent[n]]
          <6>1. CASE parent[n] = t
            <7>1. t \in Linked \ {Root} /\ parent[t] = here  BY <1>1, <1>3, <5>1, <6>1
            <7>2. a[t] = a[here] \cup {t}  BY <2>1, <7>1 DEF Surrounds
            <7> QED  BY <2>0, <5>1, <6>1, <7>2
          <6> QED  BY <2>0, <5>1, <6>1
        <5> QED  BY <2>0, <4>2, <5>1, <5>2, <5>3
      <4> QED  BY <4>1, <4>2
    <3> QED  BY <3>1, <3>2 DEF Surrounds
  <2>6. EnteredInv(b)'
    <3>1. ASSUME NEW n \in Extents PROVE entered'[n] = IF n \in b[t] THEN 1 ELSE 0
      BY <2>0, <2>1, <2>2, <2>3 DEF EnteredInv, TreeInv
    <3> QED  BY <1>3, <3>1 DEF EnteredInv
  <2> QED  BY <2>4, <2>5, <2>6
<1>12. here' \in Linked'  BY <1>3
<1> QED
  BY <1>3, <1>4, <1>5, <1>6, <1>8, <1>9, <1>10, <1>11, <1>12 DEF TreeInv
-----------------------------------------------------------------------------
(* Where code at a level stands: a thunk that dynamic-wind calls stands    *)
(* outside of the cell it is to enter.                                     *)
Stands(l) == IF l.at = "before" THEN l.back ELSE l.cell
LevelSet  == [at : Levels, cell : Cells, back : Cells, todo : Seq(Cells), ticks : BOOLEAN]
LevelsOf(s) == {s[i] : i \in DOMAIN s}

(* Each level of a stack goes back to where the one below it stands, the   *)
(* lowest to the top level, and c is where the top stands.                 *)
Foot(s, i) == IF i = 0 THEN Root ELSE Stands(s[i])
Placed(s, c) ==
  /\ s \in Seq(LevelSet) /\ c = Foot(s, Len(s))
  /\ \A i \in 1 .. Len(s) : s[i].back = Foot(s, i - 1)
PlacesInv ==
  /\ Placed(stack, here)
  /\ saved = [k \in Konts |-> saved[k]]
  /\ \A k \in Konts : saved[k] # Nil =>
       Placed(saved[k].stack, saved[k].here) /\ saved[k] \in [here : Cells, stack : Stacks]

(* The cells w lead from a to b, edge by edge.                             *)
Walk(a, w, b) ==
  /\ w = << >> => a = b
  /\ w # << >> => Beside(a, w[1]) /\ w[Len(w)] = b
  /\ \A i \in 1 .. Len(w) - 1 : Beside(w[i], w[i + 1])

(* The levels of the stack and of the saved ones are in order: a reroot!   *)
(* has a way to go that leads to the cell it goes back to, and a cell that *)
(* is still to be entered, perhaps in several continuations, or once more, *)
(* is entered from the one cell it may lie below.                          *)
LevelOK(l) ==
  /\ l.back \in Linked
  /\ l.at # "before" => l.cell \in Linked
  /\ l.at = "before" => l.cell \in Extents /\ parent[l.cell] \in {Nil, l.back}
  /\ l.at \in {"reroot", "thunk"} => Walk(l.cell, l.todo, l.back)
InPlay ==
  LevelsOf(stack) \cup UNION {LevelsOf(saved[k].stack) : k \in {j \in Konts : saved[j] # Nil}}
Befores == {l \in InPlay : l.at = "before"}
LevelsInv ==
  /\ \A l \in InPlay : LevelOK(l)
  /\ \A l, m \in Befores : l.cell = m.cell => l.back = m.back

FlagsInv == {whenDone, on, plain} \subseteq BOOLEAN
ExtentInv == TreeInv /\ PlacesInv /\ LevelsInv /\ FlagsInv
-----------------------------------------------------------------------------
(* The way that reroot! takes to a cell of the tree leads there.           *)
LEMMA WayWalks ==
  ASSUME TreeInv, NEW there \in Linked
  PROVE  WayTo(there) \in Seq(Cells) /\ Walk(here, WayTo(there), there)
<1> DEFINE hop == Chain(next, there)
           IsFar(i) == hop[i] = here /\ \A j \in 0 .. i - 1 : hop[j] # here
<1>1. PICK far \in 0 .. Bound :
        /\ hop[far] = here
        /\ \A j \in 0 .. far - 1 : hop[j] \in Linked \ {here} /\ hop[j + 1] = next[hop[j]]
  BY Reaches
<1>2. DOMAIN hop = 0 .. Bound /\ hop[0] = there /\ Bound \in Nat
  BY ChainUnfold, CellsFinite
<1>3. WayTo(there) = LET f == CHOOSE i \in DOMAIN hop : IsFar(i) IN [j \in 1 .. f |-> hop[f - j]]
  BY DEF WayTo
<1> HIDE DEF hop
<1>4. \A i \in DOMAIN hop : IsFar(i) <=> i = far
  <2>1. IsFar(far)  BY <1>1
  <2>2. ASSUME NEW i \in DOMAIN hop, IsFar(i) PROVE i = far
    <3>1. ~(i < far)  BY <1>1, <1>2, <2>2
    <3>2. ~(far < i)  BY <1>1, <1>2, <2>2
    <3> QED  BY <1>2, <3>1, <3>2
  <2> QED  BY <2>1, <2>2
<1>5. (CHOOSE i \in DOMAIN hop : IsFar(i)) = far
  <2>1. far \in DOMAIN hop  BY <1>2
  <2> HIDE DEF IsFar
  <2> QED  BY <1>4, <2>1
<1>6. PICK w : w = [j \in 1 .. far |-> hop[far - j]]  OBVIOUS
<1>7. WayTo(there) = w  BY <1>3, <1>5, <1>6
<1>8. \A j \in 0 .. far : hop[j] \in Linked
  BY <1>1, <1>2 DEF TreeInv
<1>9. \A j \in 1 .. far : w[j] \in Linked  BY <1>2, <1>6, <1>8
<1>10. w \in Seq(Cells) /\ Len(w) = far
  <2>1. w \in [1 .. far -> Cells]  BY <1>6, <1>9, LinkedFacts
  <2> QED  BY <1>2, <2>1, SeqDef, LenProperties
<1>11. \A j \in 0 .. far - 1 : Beside(hop[j + 1], hop[j])
  <2> SUFFICES ASSUME NEW j \in 0 .. far - 1 PROVE Beside(hop[j + 1], hop[j])
    OBVIOUS
  <2>1. hop[j] \in Linked /\ hop[j] # here /\ hop[j + 1] = next[hop[j]]  BY <1>1
  <2> QED  BY <2>1, NextLinked
<1>12. w = << >> => here = there
  <2>1. w = << >> => far = 0  BY <1>10
  <2> QED  BY <1>1, <1>2, <2>1
<1>13. w # << >> => Beside(here, w[1]) /\ w[Len(w)] = there
  <2> SUFFICES ASSUME w # << >> PROVE Beside(here, w[1]) /\ w[Len(w)] = there
    OBVIOUS
  <2>1. far \in 1 .. far /\ far - 1 \in 0 .. far - 1 /\ (far - 1) + 1 = far /\ 1 \in 1 .. far
    BY <1>2, <1>10, EmptySeq
  <2>2. w[1] = hop[far - 1] /\ w[far] = hop[0]  BY <1>6, <2>1
  <2>3. Beside(hop[far], hop[far - 1])  BY <1>11, <2>1
  <2> QED  BY <1>1, <1>2, <1>10, <2>2, <2>3
<1>14. \A i \in 1 .. Len(w) - 1 : Beside(w[i], w[i + 1])
  <2> SUFFICES ASSUME NEW i \in 1 .. far - 1 PROVE Beside(w[i], w[i + 1])
    BY <1>10
  <2>1. /\ far - (i + 1) \in 0 .. far - 1 /\ (far - (i + 1)) + 1 = far - i
        /\ i \in 1 .. far /\ i + 1 \in 1 .. far
    BY <1>2
  <2>2. w[i] = hop[far - i] /\ w[i + 1] = hop[far - (i + 1)]  BY <1>6, <2>1
  <2>3. Beside(hop[(far - (i + 1)) + 1], hop[far - (i + 1)])  BY <1>11, <2>1
  <2> QED  BY <2>1, <2>2, <2>3
<1> QED  BY <1>7, <1>10, <1>12, <1>13, <1>14 DEF Walk

(* Of a way the first cell is beside its start, and the rest leads on.     *)
LEMMA WalkOn ==
  ASSUME NEW a, NEW w \in Seq(Cells), NEW b, Walk(a, w, b), w # << >>
  PROVE  Beside(a, Head(w)) /\ Tail(w) \in Seq(Cells) /\ Walk(Head(w), Tail(w), b)
<1>1. Len(w) \in Nat /\ Len(w) >= 1 /\ Head(w) = w[1]  BY EmptySeq, LenProperties
<1>2. /\ Tail(w) \in Seq(Cells) /\ Len(Tail(w)) = Len(w) - 1
      /\ \A i \in 1 .. Len(w) - 1 : Tail(w)[i] = w[i + 1]
  BY HeadTailProperties
<1>3. PICK v \in Seq(Cells) : v = Tail(w)  BY <1>2
<1>4. Len(v) = Len(w) - 1 /\ \A i \in 1 .. Len(w) - 1 : v[i] = w[i + 1]  BY <1>2, <1>3
<1>5. v = << >> => w[1] = b
  <2>1. v = << >> => Len(w) = 1  BY <1>1, <1>4
  <2> QED  BY <2>1 DEF Walk
<1>6. v # << >> => Beside(w[1], v[1]) /\ v[Len(v)] = b
  <2> SUFFICES ASSUME v # << >> PROVE Beside(w[1], v[1]) /\ v[Len(v)] = b  OBVIOUS
  <2>1. Len(w) - 1 \in 1 .. Len(w) - 1 /\ 1 \in 1 .. Len(w) - 1 /\ (Len(w) - 1) + 1 = Len(w)
    BY <1>1, <1>4, EmptySeq
  <2>2. v[1] = w[1 + 1] /\ v[Len(v)] = w[Len(w)]  BY <1>4, <2>1
  <2>3. Beside(w[1], w[1 + 1])  BY <2>1 DEF Walk
  <2> QED  BY <2>2, <2>3 DEF Walk
<1>7. \A i \in 1 .. Len(v) - 1 : Beside(v[i], v[i + 1])
  <2> SUFFICES ASSUME NEW i \in 1 .. Len(v) - 1 PROVE Beside(v[i], v[i + 1])  OBVIOUS
  <2>1. i + 1 \in 1 .. Len(w) - 1 /\ i \in 1 .. Len(w) - 1  BY <1>1, <1>4
  <2>2. v[i] = w[i + 1] /\ v[i + 1] = w[(i + 1) + 1]  BY <1>4, <2>1
  <2> QED  BY <2>1, <2>2 DEF Walk
<1> QED  BY <1>1, <1>3, <1>5, <1>6, <1>7 DEF Walk
-----------------------------------------------------------------------------
(* A level that is called from where the top of a stack stands, and one    *)
(* that returns.                                                           *)
LEMMA PushPlaced ==
  ASSUME NEW s, NEW c, Placed(s, c), NEW l \in LevelSet, l.back = c
  PROVE  Placed(Append(s, l), Stands(l)) /\ LevelsOf(Append(s, l)) = LevelsOf(s) \cup {l}
<1>1. s \in Seq(LevelSet) /\ Len(s) \in Nat /\ DOMAIN s = 1 .. Len(s)
  BY LenProperties DEF Placed
<1>2. PICK t \in Seq(LevelSet) : t = Append(s, l)  BY <1>1, AppendProperties
<1>3. /\ Len(t) = Len(s) + 1 /\ t[Len(s) + 1] = l /\ DOMAIN t = 1 .. Len(s) + 1
      /\ \A i \in 1 .. Len(s) : t[i] = s[i]
  BY <1>1, <1>2, AppendProperties, LenProperties
<1>4. ASSUME NEW i \in 0 .. Len(s) PROVE Foot(t, i) = Foot(s, i)
  <2>1. i = 0 \/ i \in 1 .. Len(s)  BY <1>1
  <2> QED  BY <1>3, <2>1 DEF Foot
<1>5. Foot(t, Len(t)) = Stands(l)  BY <1>1, <1>3 DEF Foot
<1>6. \A i \in 1 .. Len(t) : t[i].back = Foot(t, i - 1)
  <2> SUFFICES ASSUME NEW i \in 1 .. Len(t) PROVE t[i].back = Foot(t, i - 1)  OBVIOUS
  <2>1. i - 1 \in 0 .. Len(s)  BY <1>1, <1>3
  <2>2. CASE i = Len(s) + 1  BY <1>1, <1>3, <1>4, <2>1, <2>2 DEF Placed
  <2>3. CASE i # Len(s) + 1
    <3>1. i \in 1 .. Len(s)  BY <1>1, <1>3, <2>3
    <3> QED  BY <1>3, <1>4, <2>1, <3>1 DEF Placed
  <2> QED  BY <2>2, <2>3
<1>7. LevelsOf(t) = LevelsOf(s) \cup {l}
  BY <1>1, <1>3 DEF LevelsOf
<1> QED  BY <1>2, <1>5, <1>6, <1>7 DEF Placed

LEMMA PopPlaced ==
  ASSUME NEW s, NEW c, Placed(s, c), s # << >>
  PROVE  LET r == SubSeq(s, 1, Len(s) - 1)
             l == s[Len(s)]
         IN  /\ Placed(r, l.back) /\ l \in LevelSet /\ c = Stands(l)
             /\ LevelsOf(s) = LevelsOf(r) \cup {l}
<1>1. s \in Seq(LevelSet) /\ Len(s) \in Nat /\ Len(s) >= 1 /\ DOMAIN s = 1 .. Len(s)
  BY EmptySeq, LenProperties DEF Placed
<1>2. PICK r \in Seq(LevelSet) : r = SubSeq(s, 1, Len(s) - 1)
  <2>1. SubSeq(s, 1, Len(s) - 1) \in Seq(LevelSet)  BY <1>1, SubSeqProperties
  <2> QED  BY <2>1
<1>3. /\ Len(r) = Len(s) - 1 /\ \A i \in 1 .. Len(s) - 1 : r[i] = s[i]
      /\ DOMAIN r = 1 .. Len(s) - 1
  BY <1>1, <1>2, SubSeqProperties, LenProperties
<1>4. ASSUME NEW i \in 0 .. Len(s) - 1 PROVE Foot(r, i) = Foot(s, i)
  <2>1. i = 0 \/ i \in 1 .. Len(s) - 1  BY <1>1
  <2> QED  BY <1>3, <2>1 DEF Foot
<1>5. s[Len(s)] \in LevelSet /\ c = Stands(s[Len(s)]) /\ s[Len(s)].back = Foot(r, Len(r))
  <2>1. Len(s) \in 1 .. Len(s) /\ Len(s) # 0 /\ Len(r) \in 0 .. Len(s) - 1  BY <1>1, <1>3
  <2>2. c = Foot(s, Len(s)) /\ s[Len(s)].back = Foot(s, Len(s) - 1)  BY <2>1 DEF Placed
  <2> QED  BY <1>1, <1>3, <1>4, <2>1, <2>2 DEF Foot
<1>6. \A i \in 1 .. Len(r) : r[i].back = Foot(r, i - 1)
  <2> SUFFICES ASSUME NEW i \in 1 .. Len(r) PROVE r[i].back = Foot(r, i - 1)  OBVIOUS
  <2>1. i - 1 \in 0 .. Len(s) - 1 /\ i \in 1 .. Len(s) - 1 /\ i \in 1 .. Len(s)  BY <1>1, <1>3
  <2> QED  BY <1>3, <1>4, <2>1 DEF Placed
<1>7. LevelsOf(s) = LevelsOf(r) \cup {s[Len(s)]}
  BY <1>1, <1>3 DEF LevelsOf
<1> QED  BY <1>2, <1>5, <1>6, <1>7 DEF Placed
-----------------------------------------------------------------------------
(* The tree only grows: cells that are in it keep their places.            *)
Grown ==
  /\ Linked \subseteq Linked'
  /\ \A n \in Linked \ {Root} : parent'[n] = parent[n]

LEMMA WalkGrows ==
  ASSUME NEW a, NEW w, NEW b, Grown, Walk(a, w, b)
  PROVE  Walk(a, w, b)'
<1>1. ASSUME NEW x, NEW y, Beside(x, y) PROVE Beside(x, y)'
  BY <1>1, LinkedFacts DEF Grown, Beside
<1> QED  BY <1>1 DEF Walk

LEMMA LevelGrows ==
  ASSUME NEW l, Grown, LevelOK(l), l.at = "before" => parent'[l.cell] \in {Nil, l.back}
  PROVE  LevelOK(l)'
<1>1. Walk(l.cell, l.todo, l.back) => Walk(l.cell, l.todo, l.back)'  BY WalkGrows
<1> QED  BY <1>1 DEF Grown, LevelOK

(* The levels of the stack and of what is saved are in play.               *)
LEMMA PlayFacts ==
  /\ LevelsOf(stack) \subseteq InPlay
  /\ \A k \in Konts : saved[k] # Nil => LevelsOf(saved[k].stack) \subseteq InPlay
BY DEF InPlay

(* A step that calls the level m from where the stack s stands.            *)
LEMMA PushStep ==
  ASSUME PlacesInv, LevelsInv, NEW s, NEW c, Placed(s, c), LevelsOf(s) \subseteq InPlay,
         NEW m \in LevelSet, m.back = c, here' = Stands(m), stack' = Append(s, m),
         UNCHANGED saved, Grown, LevelOK(m)',
         \A l \in Befores : parent'[l.cell] \in {Nil, l.back},
         m.at = "before" => \A l \in Befores : l.cell = m.cell => l.back = m.back
  PROVE  PlacesInv' /\ LevelsInv'
<1>1. Placed(stack', here') /\ LevelsOf(stack') = LevelsOf(s) \cup {m}
  BY PushPlaced
<1>2. PlacesInv'
  <2>1. Placed(stack, here)'  BY <1>1 DEF Placed, Foot, Stands
  <2>2. ASSUME NEW k \in Konts, saved'[k] # Nil
        PROVE  Placed(saved[k].stack, saved[k].here)' /\ saved'[k] \in [here : Cells, stack : Stacks]
    <3>1. Placed(saved[k].stack, saved[k].here) /\ saved[k] \in [here : Cells, stack : Stacks]
      BY <2>2 DEF PlacesInv
    <3> QED  BY <3>1 DEF Placed, Foot, Stands
  <2>3. (saved = [k \in Konts |-> saved[k]])'  BY DEF PlacesInv
  <2> QED  BY <2>1, <2>2, <2>3 DEF PlacesInv
<1>3. InPlay' \subseteq InPlay \cup {m}
  <2> SUFFICES ASSUME NEW l \in InPlay' PROVE l \in InPlay \cup {m}  OBVIOUS
  <2>1. CASE l \in LevelsOf(stack)'
    <3>1. l \in LevelsOf(stack')  BY <2>1 DEF LevelsOf
    <3> QED  BY <1>1, <3>1
  <2>2. CASE l \notin LevelsOf(stack)'
    <3>1. PICK k \in Konts : saved'[k] # Nil /\ l \in LevelsOf(saved'[k].stack)
      BY <2>2 DEF InPlay, LevelsOf
    <3> QED  BY <3>1, PlayFacts
  <2> QED  BY <2>1, <2>2
<1>4. ASSUME NEW l \in InPlay' PROVE LevelOK(l)'
  <2>1. CASE l = m  BY <2>1
  <2>2. CASE l # m
    <3>1. l \in InPlay /\ LevelOK(l)  BY <1>3, <2>2 DEF LevelsInv
    <3>2. l.at = "before" => parent'[l.cell] \in {Nil, l.back}  BY <3>1 DEF Befores
    <3> QED  BY <3>1, <3>2, LevelGrows
  <2> QED  BY <2>1, <2>2
<1>5. ASSUME NEW k \in Befores', NEW l \in Befores', k.cell = l.cell PROVE k.back = l.back
  <2>1. /\ k \in Befores \/ (k = m /\ m.at = "before")
        /\ l \in Befores \/ (l = m /\ m.at = "before")
    BY <1>3 DEF Befores
  <2> QED  BY <1>5, <2>1 DEF LevelsInv
<1> QED  BY <1>2, <1>4, <1>5 DEF LevelsInv

(* A step that leaves the tree alone.                                      *)
LEMMA TreeStays ==
  ASSUME TreeInv, UNCHANGED tree
  PROVE  TreeInv' /\ Grown /\ Linked' = Linked
<1>1. Linked' = Linked  BY DEF tree, Linked
<1>2. EdgesInv' /\ OrientedInv'
  BY <1>1 DEF tree, TreeInv, EdgesInv, OrientedInv
<1>3. \E d : Depths(d)'
  <2>1. PICK d : Depths(d)  BY DEF TreeInv
  <2> QED  BY <1>1, <2>1 DEF tree, Depths
<1>4. \E r : Ranks(r)'
  <2>1. PICK r : Ranks(r)  BY DEF TreeInv
  <2> QED  BY <1>1, <2>1 DEF tree, Ranks
<1>5. \E a : Surrounds(a)' /\ EnteredInv(a)'
  <2>1. PICK a : Surrounds(a) /\ EnteredInv(a)  BY DEF TreeInv
  <2> QED  BY <1>1, <2>1 DEF tree, Surrounds, EnteredInv
<1>6. /\ here' \in Linked' /\ next' \in [Cells -> Cells \cup {Nil}] /\ car' = [c \in Cells |-> car'[c]]
      /\ parent' \in [Extents -> Cells \cup {Nil}] /\ entered' = [n \in Extents |-> entered'[n]]
  BY <1>1 DEF tree, TreeInv
<1> QED  BY <1>1, <1>2, <1>3, <1>4, <1>5, <1>6 DEF TreeInv, Grown, tree

(* Code stands in a cell of the tree.                                      *)
LEMMA StandsLinked ==
  ASSUME NEW s, NEW c, Placed(s, c), \A l \in LevelsOf(s) : LevelOK(l)
  PROVE  c \in Linked
<1>1. CASE s = << >>  BY <1>1, EmptySeq, LinkedFacts DEF Placed, Foot
<1>2. CASE s # << >>
  <2>1. PICK l : l \in LevelsOf(s) /\ c = Stands(l)  BY <1>2, PopPlaced
  <2> QED  BY <2>1 DEF LevelOK, Stands
<1> QED  BY <1>1, <1>2

(* reroot! from any stack, to where that stack stands.                     *)
LEMMA RerootStep ==
  ASSUME ExtentInv, NEW s, NEW c, Placed(s, c), LevelsOf(s) \subseteq InPlay,
         NEW t \in BOOLEAN, Reroot(c, s, t), UNCHANGED <<saved, plain>>
  PROVE  ExtentInv'
<1>1. TreeInv /\ PlacesInv /\ LevelsInv /\ FlagsInv  BY DEF ExtentInv
<1>2. TreeInv' /\ Grown /\ Linked' = Linked  BY <1>1, TreeStays DEF Reroot
<1>3. c \in Linked  BY <1>1, StandsLinked DEF LevelsInv
<1>4. PICK w : w = WayTo(c)  OBVIOUS
<1>5. w \in Seq(Cells) /\ Walk(here, w, c)  BY <1>1, <1>3, <1>4, WayWalks
<1>6. PICK m : m = Level("reroot", here, c, w, t)  OBVIOUS
<1>7. here \in Linked /\ here \in Cells /\ c \in Cells  BY <1>1, <1>3, LinkedFacts DEF TreeInv
<1>8. /\ m \in LevelSet /\ m.at = "reroot" /\ m.cell = here /\ m.back = c /\ m.todo = w
  BY <1>5, <1>6, <1>7 DEF Level, LevelSet, Levels
<1>9. stack' = Append(s, m) /\ here' = here  BY <1>4, <1>6 DEF Reroot, tree
<1>10. LevelOK(m)'
  <2>1. LevelOK(m)  BY <1>3, <1>5, <1>7, <1>8 DEF LevelOK
  <2> QED  BY <1>2, <1>8, <2>1, LevelGrows
<1>11. \A l \in Befores : parent'[l.cell] \in {Nil, l.back}
  BY <1>1 DEF LevelsInv, LevelOK, Befores, Reroot, tree
<1>12. here' = Stands(m)  BY <1>8, <1>9 DEF Stands
<1>13. PlacesInv' /\ LevelsInv'
  BY <1>1, <1>2, <1>8, <1>9, <1>10, <1>11, <1>12, PushStep
<1>14. FlagsInv'
  <2>1. on' = FALSE /\ whenDone' = t /\ plain' = plain  BY DEF Reroot
  <2>2. FALSE \in BOOLEAN  OBVIOUS
  <2> QED  BY <1>1, <2>1, <2>2 DEF FlagsInv
<1> QED  BY <1>2, <1>13, <1>14 DEF ExtentInv
-----------------------------------------------------------------------------
LEMMA InitExtent == Init => ExtentInv
<1> SUFFICES ASSUME Init PROVE ExtentInv  OBVIOUS
<1>1. stack = << >> /\ here = Root /\ \A k \in Konts : saved[k] = Nil  BY DEF Init
<1>2. << >> \in Seq(LevelSet) /\ Len(<< >>) = 0 /\ DOMAIN << >> = {}  BY EmptySeq, LenProperties
<1>3. PlacesInv
  <2>1. Placed(stack, here)  BY <1>1, <1>2 DEF Placed, Foot
  <2> QED  BY <1>1, <2>1 DEF PlacesInv, Init
<1>4. InPlay = {}  BY <1>1, <1>2 DEF InPlay, LevelsOf
<1>5. LevelsInv  BY <1>4 DEF LevelsInv, Befores
<1>6. FlagsInv
  <2>1. FALSE \in BOOLEAN /\ TRUE \in BOOLEAN  OBVIOUS
  <2>2. whenDone = FALSE /\ on = TRUE /\ plain = TRUE  BY DEF Init
  <2> QED  BY <2>1, <2>2 DEF FlagsInv
<1> QED  BY <1>3, <1>5, <1>6, InitTree DEF ExtentInv

(* The top of the stack and what lies below it.                            *)
LEMMA TopFacts ==
  ASSUME ExtentInv, stack # << >>
  PROVE  /\ Placed(Rest, Top.back) /\ LevelsOf(Rest) \subseteq InPlay
         /\ Top \in LevelSet /\ Top \in InPlay /\ here = Stands(Top) /\ LevelOK(Top)
<1>1. Placed(stack, here)  BY DEF ExtentInv, PlacesInv
<1>2. /\ Placed(Rest, Top.back) /\ Top \in LevelSet /\ here = Stands(Top)
      /\ LevelsOf(stack) = LevelsOf(Rest) \cup {Top}
  BY <1>1, PopPlaced DEF Rest, Top
<1> QED  BY <1>2, PlayFacts DEF ExtentInv, LevelsInv

(* A turn of the loop of reroot!.                                          *)
LEMMA MoveExtent ==
  ASSUME ExtentInv, Move
  PROVE  ExtentInv'
<1>1. TreeInv /\ PlacesInv /\ LevelsInv /\ FlagsInv  BY DEF ExtentInv
<1>2. stack # << >> /\ Top.at = "reroot" /\ Top.todo # << >>  BY DEF Move, In
<1>3. /\ Placed(Rest, Top.back) /\ LevelsOf(Rest) \subseteq InPlay
      /\ Top \in LevelSet /\ here = Top.cell /\ LevelOK(Top)
  BY <1>2, TopFacts DEF Stands
<1>4. PICK t : t = Head(Top.todo)  OBVIOUS
<1>5. Top.todo \in Seq(Cells) /\ Top.back \in Cells /\ Top.ticks \in BOOLEAN /\ Walk(here, Top.todo, Top.back)
  BY <1>2, <1>3 DEF LevelSet, LevelOK
<1>6. Beside(here, t) /\ Tail(Top.todo) \in Seq(Cells) /\ Walk(t, Tail(Top.todo), Top.back)
  BY <1>2, <1>4, <1>5, WalkOn
<1>7. Turned(t)  BY <1>4 DEF Move, Turned
<1>8. TreeInv'  BY <1>1, <1>6, <1>7, TurnTree
<1>9. Grown /\ Linked' = Linked  BY <1>7 DEF Turned, Linked, Grown
<1>10. PICK m : m = Level("thunk", t, Top.back, Tail(Top.todo), Top.ticks)  OBVIOUS
<1>11. t \in Linked /\ t \in Cells  BY <1>6, LinkedFacts DEF Beside
<1>12. /\ m \in LevelSet /\ m.at = "thunk" /\ m.cell = t /\ m.back = Top.back
       /\ m.todo = Tail(Top.todo)
  BY <1>5, <1>6, <1>10, <1>11 DEF Level, LevelSet, Levels
<1>13. stack' = Append(Rest, m) /\ here' = Stands(m) /\ UNCHANGED <<saved, plain, on, whenDone>>
  BY <1>4, <1>10, <1>12 DEF Move, Stands
<1>14. LevelOK(m)'
  <2>1. LevelOK(m)  BY <1>2, <1>3, <1>6, <1>11, <1>12 DEF LevelOK
  <2> QED  BY <1>9, <1>12, <2>1, LevelGrows
<1>15. \A l \in Befores : parent'[l.cell] \in {Nil, l.back}
  BY <1>1, <1>7 DEF LevelsInv, LevelOK, Befores, Turned
<1>16. PlacesInv' /\ LevelsInv'
  BY <1>1, <1>3, <1>9, <1>12, <1>13, <1>14, <1>15, PushStep
<1> QED  BY <1>1, <1>8, <1>13, <1>16 DEF ExtentInv, FlagsInv

(* dynamic-wind puts its cell below *here*.                                *)
LEMMA BeginExtent ==
  ASSUME ExtentInv, Begin
  PROVE  ExtentInv'
<1>1. TreeInv /\ PlacesInv /\ LevelsInv /\ FlagsInv  BY DEF ExtentInv
<1>2. stack # << >> /\ Top.at = "before"  BY DEF Begin, In
<1>3. /\ Placed(Rest, Top.back) /\ LevelsOf(Rest) \subseteq InPlay
      /\ Top \in LevelSet /\ here = Top.back /\ LevelOK(Top) /\ Top \in Befores
  BY <1>2, TopFacts DEF Stands, Befores
<1>4. PICK t : t = Top.cell  OBVIOUS
<1>5. t \in Extents /\ parent[t] \in {Nil, here}  BY <1>2, <1>3, <1>4 DEF LevelOK
<1>6. Entered(t)  BY <1>4 DEF Begin, Entered
<1>7. /\ TreeInv' /\ Linked' = Linked \cup {t}
      /\ \A n \in Linked \ {Root} : parent'[n] = parent[n]
  BY <1>1, <1>5, <1>6, EnterTree
<1>8. Grown  BY <1>7 DEF Grown
<1>9. PICK m : m = Now("body")  OBVIOUS
<1>10. t \in Linked' /\ t \in Cells /\ Top.back \in Linked'
  BY <1>3, <1>5, <1>7 DEF Cells, LevelOK
<1>11. /\ m \in LevelSet /\ m.at = "body" /\ m.cell = t /\ m.back = Top.back
  BY <1>3, <1>4, <1>9 DEF Now, Level, LevelSet, Levels
<1>12. stack' = Append(Rest, m) /\ here' = Stands(m) /\ UNCHANGED <<saved, plain, on, whenDone>>
  BY <1>4, <1>9, <1>11 DEF Begin, Stands
<1>13. LevelOK(m)'  BY <1>10, <1>11 DEF LevelOK
<1>14. ASSUME NEW l \in Befores PROVE parent'[l.cell] \in {Nil, l.back}
  <2>1. l.cell \in Extents /\ parent[l.cell] \in {Nil, l.back}
    BY <1>1 DEF LevelsInv, LevelOK, Befores
  <2>2. parent' = [parent EXCEPT ![t] = here] /\ DOMAIN parent = Extents
    BY <1>1, <1>6 DEF Entered, TreeInv
  <2>3. CASE l.cell = t
    <3>1. l.back = here  BY <1>1, <1>3, <1>4, <2>3 DEF LevelsInv
    <3> QED  BY <1>5, <2>2, <2>3, <3>1
  <2>4. CASE l.cell # t  BY <2>1, <2>2, <2>4
  <2> QED  BY <2>3, <2>4
<1>15. PlacesInv' /\ LevelsInv'
  BY <1>1, <1>3, <1>8, <1>11, <1>12, <1>13, <1>14, PushStep
<1> QED  BY <1>1, <1>7, <1>12, <1>15 DEF ExtentInv, FlagsInv

LEMMA WindExtent ==
  ASSUME ExtentInv, NEW n \in Extents, Wind(n)
  PROVE  ExtentInv'
<1>1. TreeInv /\ PlacesInv /\ LevelsInv /\ FlagsInv  BY DEF ExtentInv
<1>2. UNCHANGED tree /\ UNCHANGED <<whenDone, on, saved>> /\ plain' = (plain /\ ~InThunk)
  BY DEF Wind
<1>3. TreeInv' /\ Grown  BY <1>1, <1>2, TreeStays
<1>4. PICK m : m = Level("before", n, here, << >>, FALSE)  OBVIOUS
<1>5. << >> \in Seq(Cells) /\ FALSE \in BOOLEAN  BY EmptySeq
<1>6. here \in Linked /\ here \in Cells /\ n \in Cells  BY <1>1, LinkedFacts DEF TreeInv, Cells
<1>7. m \in LevelSet /\ m.at = "before" /\ m.cell = n /\ m.back = here
  BY <1>4, <1>5, <1>6 DEF Level, LevelSet, Levels
<1>8. stack' = Append(stack, m) /\ here' = Stands(m)
  BY <1>2, <1>4, <1>7 DEF Wind, Stands, tree
<1>9. parent[n] = Nil /\ \A l \in InPlay : l.cell # n
  BY DEF Wind, Fresh, InPlay, LevelsOf
<1>10. LevelOK(m)'
  <2>1. LevelOK(m)  BY <1>6, <1>7, <1>9 DEF LevelOK
  <2>2. parent'[n] = Nil  BY <1>2, <1>9 DEF tree
  <2> QED  BY <1>3, <1>7, <2>1, <2>2, LevelGrows
<1>11. \A l \in Befores : parent'[l.cell] \in {Nil, l.back}
  BY <1>1, <1>2 DEF LevelsInv, LevelOK, Befores, tree
<1>12. Placed(stack, here) /\ LevelsOf(stack) \subseteq InPlay  BY <1>1, PlayFacts DEF PlacesInv
<1>13. \A l \in Befores : l.cell # m.cell  BY <1>7, <1>9 DEF Befores
<1>14. PlacesInv' /\ LevelsInv'
  BY <1>1, <1>2, <1>3, <1>7, <1>8, <1>10, <1>11, <1>12, <1>13, PushStep
<1>15. FlagsInv'
  <2>1. (plain /\ ~InThunk) \in BOOLEAN  OBVIOUS
  <2> QED  BY <1>1, <1>2, <2>1 DEF FlagsInv
<1> QED  BY <1>3, <1>14, <1>15 DEF ExtentInv

(* A step that changes neither the tree nor what is in play.               *)
LEMMA SameExtent ==
  ASSUME ExtentInv, UNCHANGED tree, PlacesInv', InPlay' \subseteq InPlay, FlagsInv'
  PROVE  ExtentInv'
<1>1. TreeInv /\ LevelsInv  BY DEF ExtentInv
<1>2. TreeInv' /\ Grown  BY <1>1, TreeStays
<1>3. \A l \in InPlay' : LevelOK(l)'
  <2> SUFFICES ASSUME NEW l \in InPlay' PROVE LevelOK(l)'  OBVIOUS
  <2>1. LevelOK(l)  BY <1>1 DEF LevelsInv
  <2>2. l.at = "before" => parent'[l.cell] \in {Nil, l.back}  BY <2>1 DEF LevelOK, tree
  <2> QED  BY <1>2, <2>1, <2>2, LevelGrows
<1>4. LevelsInv'  BY <1>1, <1>3 DEF LevelsInv, Befores
<1> QED  BY <1>2, <1>4 DEF ExtentInv

LEMMA DoneExtent ==
  ASSUME ExtentInv, Done
  PROVE  ExtentInv'
<1>1. TreeInv /\ PlacesInv /\ LevelsInv /\ FlagsInv  BY DEF ExtentInv
<1>2. /\ stack # << >> /\ Top.at = "reroot" /\ Top.todo = << >> /\ stack' = Rest
      /\ UNCHANGED tree /\ UNCHANGED <<saved, plain>> /\ whenDone' = FALSE /\ on' = (on \/ Top.ticks)
  BY DEF Done, In
<1>3. /\ Placed(Rest, Top.back) /\ LevelsOf(Rest) \subseteq InPlay
      /\ here = Top.cell /\ LevelOK(Top)
  BY <1>2, TopFacts DEF Stands
<1>4. here = Top.back  BY <1>2, <1>3 DEF LevelOK, Walk
<1>5. PlacesInv'
  <2>1. Placed(stack, here)'  BY <1>2, <1>3, <1>4 DEF Placed, Foot, Stands, tree
  <2>2. ASSUME NEW k \in Konts, saved'[k] # Nil
        PROVE  Placed(saved[k].stack, saved[k].here)' /\ saved'[k] \in [here : Cells, stack : Stacks]
    BY <1>1, <1>2, <2>2 DEF PlacesInv, Placed, Foot, Stands
  <2> QED  BY <1>1, <1>2, <2>1, <2>2 DEF PlacesInv
<1>6. InPlay' \subseteq InPlay
  <2>1. LevelsOf(stack)' = LevelsOf(Rest)  BY <1>2 DEF LevelsOf
  <2> QED  BY <1>2, <1>3, <2>1 DEF InPlay, LevelsOf
<1>7. FlagsInv'
  <2>1. FALSE \in BOOLEAN /\ (on \/ Top.ticks) \in BOOLEAN  OBVIOUS
  <2> QED  BY <1>1, <1>2, <2>1 DEF FlagsInv
<1> QED  BY <1>2, <1>5, <1>6, <1>7, SameExtent

LEMMA ReturnExtent ==
  ASSUME ExtentInv, ThunkReturns
  PROVE  ExtentInv'
<1>1. TreeInv /\ PlacesInv /\ LevelsInv /\ FlagsInv  BY DEF ExtentInv
<1>2. /\ stack # << >> /\ Top.at = "thunk" /\ stack' = Append(Rest, Now("reroot"))
      /\ UNCHANGED tree /\ UNCHANGED <<whenDone, on, saved, plain>>
  BY DEF ThunkReturns, In
<1>3. /\ Placed(Rest, Top.back) /\ LevelsOf(Rest) \subseteq InPlay
      /\ Top \in LevelSet /\ here = Top.cell /\ LevelOK(Top)
  BY <1>2, TopFacts DEF Stands
<1>4. TreeInv' /\ Grown  BY <1>1, <1>2, TreeStays
<1>5. PICK m : m = Now("reroot")  OBVIOUS
<1>6. /\ m \in LevelSet /\ m.at = "reroot" /\ m.cell = Top.cell /\ m.back = Top.back
      /\ m.todo = Top.todo
  BY <1>3, <1>5 DEF Now, Level, LevelSet, Levels
<1>7. stack' = Append(Rest, m) /\ here' = Stands(m)
  BY <1>2, <1>3, <1>5, <1>6 DEF Stands, tree
<1>8. LevelOK(m)'
  <2>1. LevelOK(m)  BY <1>2, <1>3, <1>6 DEF LevelOK
  <2> QED  BY <1>4, <1>6, <2>1, LevelGrows
<1>9. \A l \in Befores : parent'[l.cell] \in {Nil, l.back}
  BY <1>1, <1>2 DEF LevelsInv, LevelOK, Befores, tree
<1>10. PlacesInv' /\ LevelsInv'
  BY <1>1, <1>2, <1>3, <1>4, <1>6, <1>7, <1>8, <1>9, PushStep
<1> QED  BY <1>1, <1>2, <1>4, <1>10 DEF ExtentInv, FlagsInv

LEMMA CaptureExtent ==
  ASSUME ExtentInv, NEW k \in Konts, Capture(k)
  PROVE  ExtentInv'
<1>1. TreeInv /\ PlacesInv /\ LevelsInv /\ FlagsInv  BY DEF ExtentInv
<1>2. /\ saved' = [saved EXCEPT ![k] = [here |-> here, stack |-> stack]]
      /\ UNCHANGED tree /\ UNCHANGED <<whenDone, on, stack, plain>>
  BY DEF Capture
<1>3. /\ saved'[k] = [here |-> here, stack |-> stack]
      /\ \A j \in Konts \ {k} : saved'[j] = saved[j]
      /\ saved' = [j \in Konts |-> saved'[j]]
  BY <1>1, <1>2 DEF PlacesInv
<1>4. Placed(stack, here) /\ stack \in Stacks /\ here \in Cells
  BY <1>1, LinkedFacts DEF PlacesInv, Placed, Stacks, LevelSet, TreeInv
<1>5. PlacesInv'
  <2>1. Placed(stack, here)'  BY <1>2, <1>4 DEF Placed, Foot, Stands, tree
  <2>2. ASSUME NEW j \in Konts, saved'[j] # Nil
        PROVE  Placed(saved[j].stack, saved[j].here)' /\ saved'[j] \in [here : Cells, stack : Stacks]
    <3>1. CASE j = k  BY <1>3, <1>4, <3>1 DEF Placed, Foot, Stands
    <3>2. CASE j # k
      <4>1. saved[j] # Nil /\ saved'[j] = saved[j]  BY <1>3, <2>2, <3>2
      <4> QED  BY <1>1, <4>1 DEF PlacesInv, Placed, Foot, Stands
    <3> QED  BY <3>1, <3>2
  <2> QED  BY <1>3, <2>1, <2>2 DEF PlacesInv
<1>6. InPlay' \subseteq InPlay
  <2> SUFFICES ASSUME NEW l \in InPlay' PROVE l \in InPlay  OBVIOUS
  <2>1. CASE l \in LevelsOf(stack)
    BY <2>1, PlayFacts
  <2>2. CASE l \notin LevelsOf(stack)
    <3>1. PICK j \in Konts : saved'[j] # Nil /\ l \in LevelsOf(saved'[j].stack)
      BY <1>2, <2>2 DEF InPlay, LevelsOf
    <3>2. j # k  BY <1>3, <2>2, <3>1
    <3> QED  BY <1>3, <3>1, <3>2, PlayFacts
  <2> QED  BY <2>1, <2>2
<1>7. FlagsInv'  BY <1>1, <1>2 DEF FlagsInv
<1> QED  BY <1>2, <1>5, <1>6, <1>7, SameExtent

(* Every step keeps the tree and the places code runs in.                  *)
LEMMA StepExtent == ExtentInv /\ [Next]_vars => ExtentInv'
<1> SUFFICES ASSUME ExtentInv, [Next]_vars PROVE ExtentInv'  OBVIOUS
<1>1. CASE Exit
  <2>1. stack # << >> /\ Reroot(Top.back, Rest, on) /\ UNCHANGED <<saved, plain>>
    BY <1>1 DEF Exit, In
  <2>2. Placed(Rest, Top.back) /\ LevelsOf(Rest) \subseteq InPlay  BY <2>1, TopFacts
  <2>3. on \in BOOLEAN  BY DEF ExtentInv, FlagsInv
  <2> QED  BY <2>1, <2>2, <2>3, RerootStep
<1>2. ASSUME NEW k \in Konts, Throw(k) PROVE ExtentInv'
  <2>1. /\ saved[k] # Nil /\ Reroot(saved[k].here, saved[k].stack, on \/ whenDone)
        /\ UNCHANGED <<saved, plain>>
    BY <1>2 DEF Throw
  <2>2. Placed(saved[k].stack, saved[k].here) /\ LevelsOf(saved[k].stack) \subseteq InPlay
    BY <2>1, PlayFacts DEF ExtentInv, PlacesInv
  <2>3. (on \/ whenDone) \in BOOLEAN  OBVIOUS
  <2> QED  BY <2>1, <2>2, <2>3, RerootStep
<1>3. CASE UNCHANGED vars
  <2>1. UNCHANGED tree /\ UNCHANGED <<stack, saved, whenDone, on, plain>>  BY <1>3 DEF vars
  <2>2. PlacesInv'  BY <2>1 DEF ExtentInv, PlacesInv, Placed, Foot, Stands, tree
  <2>3. InPlay' = InPlay  BY <2>1 DEF InPlay, LevelsOf
  <2>4. FlagsInv'  BY <2>1 DEF ExtentInv, FlagsInv
  <2> QED  BY <2>1, <2>2, <2>3, <2>4, SameExtent
<1> QED
  BY <1>1, <1>2, <1>3, MoveExtent, BeginExtent, WindExtent, DoneExtent, ReturnExtent,
     CaptureExtent DEF Next
-----------------------------------------------------------------------------
(* What the invariant says of the tree, of the thunks, of the places code  *)
(* runs in, and of the types.                                              *)
LEMMA ExtentShows == ExtentInv => WindInvariants
<1> SUFFICES ASSUME ExtentInv PROVE WindInvariants  OBVIOUS
<1>1. TreeInv /\ PlacesInv /\ LevelsInv /\ FlagsInv  BY DEF ExtentInv
<1>2. Placed(stack, here)  BY <1>1 DEF PlacesInv
<1>3. EdgesLeadHere
  <2>1. \A c \in Linked : \E i \in 0 .. Bound : Chain(next, c)[i] = here
    BY <1>1, Reaches
  <2>2. \A c \in Linked \ {here} :
           \/ c # Root /\ next[c] = parent[c] /\ car[c] = <<Before(c), After(c)>>
           \/ /\ next[c] \in Extents /\ parent[next[c]] = c
              /\ car[c] = <<After(next[c]), Before(next[c])>>
    BY <1>1 DEF TreeInv, EdgesInv
  <2> QED  BY <2>1, <2>2 DEF EdgesLeadHere, Linked, Bound
<1>4. EnteredExactly /\ \A n \in Extents : entered[n] \in 0 .. 1
  <2>1. PICK d : Depths(d)  BY <1>1 DEF TreeInv
  <2>2. PICK a : Surrounds(a) /\ EnteredInv(a)  BY <1>1 DEF TreeInv
  <2>3. Around(here) \cap Extents = a[here] \cap Extents
    BY <1>1, <2>1, <2>2, AroundIs DEF TreeInv
  <2>4. \A n \in Extents : entered[n] = IF n \in a[here] THEN 1 ELSE 0
    BY <2>2 DEF EnteredInv
  <2> QED  BY <2>3, <2>4 DEF EnteredExactly
<1>5. RunsInItsExtent
  <2>1. stack = << >> => here = Root  BY <1>2, EmptySeq DEF Placed, Foot
  <2>2. stack # << >> => here = Stands(Top)  BY TopFacts
  <2> QED  BY <2>1, <2>2 DEF RunsInItsExtent, In, Stands
<1>6. TypeOK
  <2>1. here \in Cells /\ DOMAIN car = Cells /\ next \in [Cells -> Cells \cup {Nil}]
        /\ parent \in [Extents -> Cells \cup {Nil}]
    BY <1>1, LinkedFacts DEF TreeInv
  <2>2. entered \in [Extents -> 0 .. 1]  BY <1>1, <1>4 DEF TreeInv
  <2>3. stack \in Stacks  BY <1>2 DEF Placed, Stacks, LevelSet
  <2>4. saved \in [Konts -> [here : Cells, stack : Stacks] \cup {Nil}]
    <3>1. \A k \in Konts : saved[k] \in [here : Cells, stack : Stacks] \cup {Nil}
      BY <1>1 DEF PlacesInv
    <3> QED  BY <1>1, <3>1 DEF PlacesInv
  <2> QED  BY <1>1, <2>1, <2>2, <2>3, <2>4 DEF TypeOK, FlagsInv
<1> QED  BY <1>3, <1>4, <1>5, <1>6 DEF WindInvariants

(* However the program throws about, the tree of extents keeps its edges,  *)
(* those extents are entered, and once, that *here* lies in, and code runs *)
(* in the extent that it stands in: for every finite number of extents,    *)
(* any set of continuations, and any nesting.                              *)
THEOREM ExtentsSound == Spec => []WindInvariants
<1> QED  BY InitExtent, StepExtent, ExtentShows, PTL DEF Spec
=============================================================================
