------------------------ MODULE RegionSummariesProofs ------------------------
(***************************************************************************)
(* Proofs about the summaries of summ_matrix.c, for every finite number of *)
(* objects, any number of regions and any overflows of summaries.          *)
(* ~MidPass, ~Unsummarized and ~LateRest leave out what the code may do    *)
(* and what is proved here fails for.                                      *)
(*                                                                         *)
(* The invariant IInv names a set G of objects: no pointer leads out of it,*)
(* it holds the roots and the nursery, and it is what the remembered set,  *)
(* the nursery's locations and the summaries are complete for.  All that   *)
(* the program can reach is in it.  What else is named anywhere is a       *)
(* corpse that refinement is to forget: unmarked and in a row which the    *)
(* pass has yet to scan, or in a summary which refinement waits for.       *)
(* A collection keeps nothing outside of G, and when refinement starts G   *)
(* becomes what is alive in the snapshot.                                  *)
(***************************************************************************)
EXTENDS RegionSummaries, FiniteSetTheorems, WellFoundedInduction, TLAPS

Old(o) == reg[o] > 0
Heap   == {o \in Objects : InUse(reg, o)}

(* No pointer leads out of G.                                              *)
GoodSet(G) ==
  /\ G \subseteq Heap /\ roots \subseteq G
  /\ \A o \in Objects : reg[o] = 0 => o \in G
  /\ \A o \in G : fld[o] # Nil => fld[o] \in G

(* Pointers of G across regions are remembered, those into the nursery are *)
(* in its locations, and those into a summarized region in its summary.    *)
RemInv(G) ==
  \A o \in G : Old(o) /\ Crosses(reg, fld, o) => o \in rem \/ <<o, reg[fld[o]]>> \in ssb
NurInv(G) ==
  \A o \in G : Old(o) /\ fld[o] # Nil /\ reg[fld[o]] = 0 => o \in nur \/ <<o, 0>> \in ssb
Needs(o, g) ==
  /\ fld[o] # Nil /\ reg[fld[o]] = g /\ Old(o) /\ reg[o] # g
  /\ grp[g] = "wait" \/ (grp[g] = "summzing" /\ reg[o] >= pass.cursor)
SumInv(G) ==
  \A o \in G, g \in Rgns : Needs(o, g) => cells[g][o] > 0 \/ o \in mut[g] \/ <<o, g>> \in ssb

(* What is named outside of G: f is the state of refinement.               *)
ToForget(o, f) == o \in f.unm /\ ~f.passed /\ reg[o] < pass.cursor
From(G, f) ==
  /\ \A o \in rem : Old(o) /\ (o \in G \/ ToForget(o, f))
  /\ \A o \in nur : Old(o) /\ o \in G
  /\ \A p \in ssb : Old(p[1]) /\ p[1] \in G
  /\ \A g \in Rgns, o \in Objects : cells[g][o] > 0 \/ o \in mut[g] =>
       Old(o) /\ HasSummary(grp, g) /\ (o \in G \/ g \in f.left)
Corpses(G, f) ==
  /\ f.on => \A o \in Objects : InUse(reg, o) <=> (o \in G \/ o \in f.unm)
  /\ f.on => \A o \in G : o \notin f.unm
  /\ ~f.on => f = NoRefining
Inv(G) == GoodSet(G) /\ RemInv(G) /\ NurInv(G) /\ SumInv(G) /\ From(G, ref) /\ Corpses(G, ref)

(* A column has a location once, and while it is made only of rows that    *)
(* were scanned.                                                           *)
CellInv ==
  \A g \in Rgns, o \in Objects :
    /\ cells[g][o] <= 1
    /\ grp[g] = "summzing" /\ cells[g][o] > 0 => reg[o] >= pass.cursor
PassInv == ~pass.on => pass.cursor = Fresh /\ \A g \in Rgns : grp[g] # "summzing"

Refinings == [on : BOOLEAN, unm : SUBSET Objects, passed : BOOLEAN, left : SUBSET Rgns]
IInv ==
  /\ TypeOK /\ ref \in Refinings /\ CellInv /\ PassInv
  /\ \E G \in SUBSET Objects : Inv(G)
-----------------------------------------------------------------------------
(* A set of naturals has a least element.                                  *)
LEMMA LeastNat ==
  ASSUME NEW T, T \subseteq Nat, T # {}
  PROVE  \E n \in T : \A m \in T : n <= m
<1>1. IsWellFoundedOn(OpToRel(<, Nat), Nat)  BY NatLessThanWellFounded
<1>2. PICK n \in T : \A m \in T : ~ <<m, n>> \in OpToRel(<, Nat)
  BY <1>1, WFMin, Zenon
<1>3. \A m \in T : ~(m < n)  BY <1>2 DEF OpToRel
<1> QED  BY <1>3

(* So a bounded one has a greatest element, which is the one Max chooses.  *)
LEMMA MaxFacts ==
  ASSUME NEW T, NEW n \in Nat, T \subseteq 0 .. n, T # {}
  PROVE  Max(T) \in T /\ \A m \in T : m <= Max(T)
<1> DEFINE U == {k \in Nat : \A m \in T : m <= k}
<1>1. n \in U  OBVIOUS
<1>2. PICK k \in U : \A m \in U : k <= m  BY <1>1, LeastNat
<1>3. k \in T
  <2> SUFFICES ASSUME k \notin T PROVE FALSE  OBVIOUS
  <2>1. PICK m \in T : TRUE  OBVIOUS
  <2>2. m \in Nat /\ m <= k /\ m # k /\ k \in Nat  BY <1>2, <2>1
  <2>3. k - 1 \in Nat  BY <2>2
  <2>4. \A j \in T : j <= k - 1
    <3> TAKE j \in T
    <3>1. j \in Nat /\ j <= k /\ j # k  BY <1>2
    <3> QED  BY <2>2, <3>1
  <2>5. k - 1 \in U  BY <2>3, <2>4
  <2> QED  BY <1>2, <2>2, <2>5
<1>4. \A m \in T : k >= m
  <2> TAKE m \in T
  <2>1. m \in Nat /\ k \in Nat /\ m <= k  BY <1>2
  <2> QED  BY <2>1
<1>5. PICK x : x = Max(T)  OBVIOUS
<1>6. x \in T /\ \A m \in T : x >= m  BY <1>3, <1>4, <1>5 DEF Max
<1>7. x \in Nat /\ \A m \in T : m \in Nat  BY <1>6
<1> QED  BY <1>5, <1>6, <1>7

LEMMA ObjectsFinite == IsFiniteSet(Objects) /\ Cardinality(Objects) \in Nat
BY SummariesAssumption, FS_CardinalityType

(* Reachable goes on from S along the pointers of C, as often as there are *)
(* objects.                                                                *)
Unfolds(h, f, S, C) ==
  /\ h[0] = S \ {Nil} /\ Reachable(f, S, C) = h[Cardinality(Objects)]
  /\ \A n \in 1 .. Cardinality(Objects) :
       h[n] = h[n - 1] \cup (h[n - 1] \cap C) \cup ({f[o] : o \in h[n - 1] \cap C} \ {Nil})
LEMMA ReachUnfold ==
  ASSUME NEW f, NEW S, NEW C PROVE \E h : Unfolds(h, f, S, C)
<1>0. PICK B : B = S \ {Nil}  OBVIOUS
<1> DEFINE N == Cardinality(Objects)
           Far(R) == ((R \cap C) \union ({f[o] : o \in R \cap C} \ {Nil})) \union R
           Is(h, n) == h = [i \in 0 .. n |-> IF i = 0 THEN B ELSE Far(h[i - 1])]
<1>1. \E h : Is(h, N)
  <2> DEFINE T == {n \in Nat : ~ \E h : Is(h, n)}
  <2> SUFFICES ASSUME T # {} PROVE FALSE  BY ObjectsFinite
  <2>1. PICK n \in T : \A m \in T : n <= m  BY LeastNat
  <2> HIDE DEF Far
  <2>2. n # 0
    <3>1. Is([i \in 0 .. 0 |-> B], 0)  OBVIOUS
    <3> QED  BY <2>1, <3>1
  <2>3. PICK h : Is(h, n - 1)
    <3> HIDE DEF Is
    <3>1. n \in Nat /\ n - 1 \in Nat  BY <2>1, <2>2
    <3>2. n - 1 \notin T  BY <2>1, <3>1
    <3> QED  BY <3>1, <3>2
  <2>4. Is([i \in 0 .. n |-> IF i < n THEN h[i] ELSE Far(h[n - 1])], n)
    BY <2>1, <2>2, <2>3
  <2> QED  BY <2>1, <2>4
<1>2. Reachable(f, S, C) = (CHOOSE h : Is(h, N))[N]  BY <1>0 DEF Reachable
<1>3. PICK h : h = (CHOOSE g : Is(g, N))  OBVIOUS
<1>4. Is(h, N)
  <2> HIDE DEF Is
  <2> QED  BY <1>1, <1>3
<1>5. h[0] = B /\ \A n \in 1 .. N : h[n] = Far(h[n - 1])
  <2> HIDE DEF Far
  <2> QED  BY <1>4, ObjectsFinite
<1>6. Reachable(f, S, C) = h[N]  BY <1>2, <1>3
<1>7. \A n \in 1 .. N :
        h[n] = h[n - 1] \cup (h[n - 1] \cap C) \cup ({f[o] : o \in h[n - 1] \cap C} \ {Nil})
  BY <1>5
<1> QED  BY <1>0, <1>5, <1>6, <1>7 DEF Unfolds

(* It stays in every set that holds S and that no pointer leads out of,    *)
(* and no pointer from C leads out of it.                                  *)
LEMMA ReachWithin ==
  ASSUME NEW f, NEW S, NEW C, NEW X, \A o \in S : o # Nil => o \in X,
         \A o \in X : o \in C /\ f[o] # Nil => f[o] \in X
  PROVE  Reachable(f, S, C) \subseteq X
<1> DEFINE N == Cardinality(Objects)
<1>1. PICK h : Unfolds(h, f, S, C)  BY ReachUnfold
<1> DEFINE T == {n \in 0 .. N : ~(h[n] \subseteq X)}
<1>2. ASSUME T # {} PROVE FALSE
  <2>1. T \subseteq Nat  BY ObjectsFinite
  <2>2. PICK n \in T : \A m \in T : n <= m  BY <1>2, <2>1, LeastNat
  <2>3. n # 0  BY <1>1, <2>2 DEF Unfolds
  <2>4. n \in 1 .. N /\ n - 1 \in 0 .. N /\ n - 1 \notin T  BY <2>2, <2>3, ObjectsFinite
  <2>5. h[n - 1] \subseteq X  BY <2>4
  <2>6. h[n] = h[n - 1] \cup (h[n - 1] \cap C) \cup ({f[o] : o \in h[n - 1] \cap C} \ {Nil})
    BY <1>1, <2>4 DEF Unfolds
  <2> QED  BY <2>2, <2>5, <2>6
<1>3. h[N] \subseteq X  BY <1>2, ObjectsFinite
<1> QED  BY <1>1, <1>3 DEF Unfolds

LEMMA ReachCloses ==
  ASSUME NEW f, NEW S, NEW C, \A o \in S : o # Nil => o \in Objects,
         \A o \in Objects : f[o] # Nil => f[o] \in Objects
  PROVE  /\ \A o \in S : o # Nil => o \in Reachable(f, S, C)
         /\ Reachable(f, S, C) \subseteq Objects
         /\ \A o \in Reachable(f, S, C) : o \in C /\ f[o] # Nil => f[o] \in Reachable(f, S, C)
<1> DEFINE N == Cardinality(Objects)
           Closed(R) == \A o \in R : o \in C /\ f[o] # Nil => f[o] \in R
<1>1. PICK h : Unfolds(h, f, S, C)  BY ReachUnfold
<1>0. \A n \in 1 .. N :
        h[n] = h[n - 1] \cup (h[n - 1] \cap C) \cup ({f[o] : o \in h[n - 1] \cap C} \ {Nil})
  BY <1>1 DEF Unfolds
<1>2. \A n \in 0 .. N : h[n] \subseteq Objects /\ h[0] \subseteq h[n]
  <2> DEFINE T == {n \in 0 .. N : ~(h[n] \subseteq Objects /\ h[0] \subseteq h[n])}
  <2> SUFFICES ASSUME T # {} PROVE FALSE  OBVIOUS
  <2>1. T \subseteq Nat  BY ObjectsFinite
  <2>2. PICK n \in T : \A m \in T : n <= m  BY <2>1, LeastNat
  <2>3. h[0] \subseteq Objects  BY <1>1 DEF Unfolds
  <2>4. n # 0  BY <2>2, <2>3
  <2>5. n \in 1 .. N /\ n - 1 \in 0 .. N /\ n - 1 \notin T  BY <2>2, <2>4, ObjectsFinite
  <2>6. h[n - 1] \subseteq Objects /\ h[0] \subseteq h[n - 1]  BY <2>5
  <2>7. h[n] = h[n - 1] \cup (h[n - 1] \cap C) \cup ({f[o] : o \in h[n - 1] \cap C} \ {Nil})  BY <1>0, <2>5
  <2> QED  BY <2>2, <2>6, <2>7
<1>3. \A n \in 0 .. N : n < N => n + 1 \in 1 .. N /\ (n + 1) - 1 = n  BY ObjectsFinite
<1>4. ASSUME NEW n \in 0 .. N, n < N, Closed(h[n]) PROVE h[n + 1] = h[n]
  <2>1. h[n + 1] = h[n] \cup (h[n] \cap C) \cup ({f[o] : o \in h[n] \cap C} \ {Nil})  BY <1>0, <1>3, <1>4
  <2> QED  BY <1>4, <2>1
<1>5. Closed(h[N])
  <2> SUFFICES ASSUME ~Closed(h[N]) PROVE FALSE  OBVIOUS
  <2>1. \A n \in 0 .. N : ~Closed(h[n])
    <3> SUFFICES ASSUME NEW n \in 0 .. N, Closed(h[n]) PROVE FALSE  OBVIOUS
    <3> DEFINE T == {m \in 0 .. N : n <= m /\ h[m] # h[n]}
    <3>1. T \subseteq Nat /\ N \in T  BY ObjectsFinite
    <3>2. PICK m \in T : \A k \in T : m <= k  BY <3>1, LeastNat
    <3>3. m - 1 \in 0 .. N /\ n <= m - 1 /\ m - 1 < N /\ (m - 1) + 1 = m  BY <3>2, ObjectsFinite
    <3>4. m - 1 \notin T  BY <3>2, <3>3
    <3>5. h[m - 1] = h[n]  BY <3>3, <3>4
    <3>6. h[(m - 1) + 1] = h[m - 1]  BY <1>4, <3>3, <3>5
    <3> QED  BY <3>2, <3>3, <3>5, <3>6
  <2>2. \A n \in 0 .. N : IsFiniteSet(h[n]) /\ Cardinality(h[n]) \in Nat
    BY <1>2, FS_Subset, FS_CardinalityType, ObjectsFinite
  <2>3. \A n \in 0 .. N : n <= Cardinality(h[n])
    <3> DEFINE T == {n \in 0 .. N : ~(n <= Cardinality(h[n]))}
    <3> SUFFICES ASSUME T # {} PROVE FALSE  OBVIOUS
    <3>1. T \subseteq Nat  BY ObjectsFinite
    <3>2. PICK n \in T : \A m \in T : n <= m  BY <3>1, LeastNat
    <3>3. n # 0  BY <2>2, <3>2
    <3>4. n \in 1 .. N /\ n - 1 \in 0 .. N /\ n - 1 \notin T  BY <3>2, <3>3, ObjectsFinite
    <3>5. h[n] = h[n - 1] \cup (h[n - 1] \cap C) \cup ({f[o] : o \in h[n - 1] \cap C} \ {Nil})  BY <1>0, <3>4
    <3>6. ~Closed(h[n - 1])  BY <2>1, <3>4
    <3>7. h[n - 1] \subseteq h[n] /\ h[n - 1] # h[n]  BY <3>5, <3>6
    <3>8. /\ Cardinality(h[n - 1]) <= Cardinality(h[n])
          /\ Cardinality(h[n - 1]) # Cardinality(h[n])
      <4>1. IsFiniteSet(h[n]) /\ h[n - 1] \in SUBSET h[n]  BY <2>2, <3>4, <3>7
      <4> QED  BY <3>7, <4>1, FS_Subset
    <3> QED  BY <2>2, <3>2, <3>4, <3>8
  <2>4. h[N] = Objects
    <3>1. N \in 0 .. N  BY ObjectsFinite
    <3>2. Cardinality(h[N]) <= N  BY <1>2, <3>1, FS_Subset, ObjectsFinite
    <3>3. Cardinality(h[N]) = N  BY <2>2, <2>3, <3>1, <3>2
    <3> QED  BY <1>2, <3>1, <3>3, FS_Subset, ObjectsFinite
  <2> QED  BY <2>4
<1>6. N \in 0 .. N  BY ObjectsFinite
<1>7. PICK R : R = Reachable(f, S, C) /\ R = h[N]  BY <1>1 DEF Unfolds
<1>8. \A o \in S : o # Nil => o \in h[0]  BY <1>1 DEF Unfolds
<1> QED  BY <1>2, <1>5, <1>6, <1>7, <1>8
-----------------------------------------------------------------------------
(* Objects are free, in the nursery, or in a region.                       *)
LEMMA RegFacts ==
  ASSUME TypeOK
  PROVE  /\ \A o \in Objects :
              /\ reg[o] \in Int /\ reg[o] <= Regions
              /\ InUse(reg, o) <=> (reg[o] = 0 \/ Old(o))
              /\ Old(o) => reg[o] \in Rgns /\ reg[o] # 0
              /\ reg[o] = 0 => ~Old(o)
         /\ Regions \in Nat /\ Regions >= 2
<1>1. Regions \in Nat /\ Regions >= 2  BY SummariesAssumption
<1>2. ASSUME NEW o \in Objects
      PROVE  /\ reg[o] \in Int /\ reg[o] <= Regions
             /\ InUse(reg, o) <=> (reg[o] = 0 \/ Old(o))
             /\ Old(o) => reg[o] \in Rgns /\ reg[o] # 0
             /\ reg[o] = 0 => ~Old(o)
  <2>1. PICK r \in {-1} \cup 0 .. Regions : r = reg[o]  BY DEF TypeOK, Free
  <2> QED  BY <1>1, <2>1 DEF Old, InUse, Free, Rgns
<1> QED  BY <1>1, <1>2

(* Everything that the program can reach is in G.                          *)
LEMMA LiveWithin ==
  ASSUME NEW G, GoodSet(G) PROVE Live \subseteq G
BY ReachWithin DEF Live, GoodSet

LEMMA Shows ==
  ASSUME IInv PROVE SummariesComplete /\ NothingLost /\ RemsetSound
<1>1. TypeOK /\ ref \in Refinings /\ CellInv  BY DEF IInv
<1>2. PICK G \in SUBSET Objects : Inv(G)  BY DEF IInv
<1>3. Live \subseteq G  BY <1>2, LiveWithin DEF Inv
<1>4. \A o \in G : InUse(reg, o) /\ (fld[o] # Nil => fld[o] \in G)
  BY <1>2 DEF Inv, GoodSet, Heap
<1>5. SummaryComplete
  <2> SUFFICES ASSUME NEW o \in Live, NEW g, g = reg[fld[o]], Crosses(reg, fld, o), reg[o] > 0, g > 0,
                      grp[g] = "wait" \/ (grp[g] = "summzing" /\ reg[o] >= pass.cursor)
               PROVE  cells[g][o] > 0 \/ o \in mut[g] \/ <<o, g>> \in ssb
    BY DEF SummaryComplete
  <2>1. o \in G /\ fld[o] \in G /\ fld[o] # Nil  BY <1>3, <1>4 DEF Crosses
  <2>2. g \in Rgns  BY <1>1, <2>1, RegFacts DEF Old
  <2>3. Needs(o, g)  BY <2>1 DEF Needs, Crosses, Old
  <2> QED  BY <1>2, <2>1, <2>2, <2>3 DEF Inv, SumInv
<1>6. NoDuplicates  BY <1>1 DEF NoDuplicates, CellInv
<1>7. NothingLost  BY <1>3, <1>4 DEF NothingLost
<1>8. RemsetSound
  <2> SUFFICES ASSUME NEW o \in rem, ~(ref.on /\ o \in ref.unm)
               PROVE  InUse(reg, o) /\ (fld[o] # Nil => InUse(reg, fld[o]))
    BY DEF RemsetSound
  <2>1. o \in G \/ o \in ref.unm  BY <1>2 DEF Inv, From, ToForget
  <2>2. ~ref.on => o \notin ref.unm  BY <1>2 DEF Inv, Corpses, NoRefining
  <2> QED  BY <1>4, <2>1, <2>2
<1> QED  BY <1>1, <1>5, <1>6, <1>7, <1>8 DEF SummariesComplete

LEMMA InitGood == Init => IInv
<1> SUFFICES ASSUME Init PROVE IInv  OBVIOUS
<1> USE DEF Init
<1>1. Regions \in Nat /\ Regions >= 2 /\ Nil \notin Objects  BY SummariesAssumption
<1>2. reg \in [Objects -> {Free} \cup Rgns] /\ fld \in [Objects -> Objects \cup {Nil}] /\ roots \subseteq Objects
  OBVIOUS
<1>3. \A o \in Objects : reg[o] # 0 /\ (InUse(reg, o) <=> Old(o)) /\ (reg[o] = Free \/ reg[o] \in 1 .. Regions)
  <2> TAKE o \in Objects
  <2>1. PICK r \in {-1} \cup 1 .. Regions : r = reg[o]  BY <1>2 DEF Free, Rgns
  <2> QED  BY <1>1, <2>1 DEF Old, InUse, Free
<1>4. ref = NoRefining /\ ref.on = FALSE /\ ref.unm = {} /\ ref.left = {} /\ ref.passed = FALSE
  BY DEF NoRefining
<1>5. pass.on = FALSE /\ pass.cursor = Regions + 1 /\ pass \in [on : BOOLEAN, cursor : 2 .. Fresh]
  BY <1>1 DEF Fresh
<1>6. /\ grp \in [Rgns -> {"unfilled", "filled"}]
      /\ \A g \in Rgns : grp[g] # "summzing" /\ grp[g] # "wait"
  <2>1. PICK t \in Rgns : grp = [g \in Rgns |-> IF g = t THEN "unfilled" ELSE "filled"]  OBVIOUS
  <2> QED  BY <2>1
<1>7. \A g \in Rgns, o \in Objects : cells[g][o] = 0 /\ mut[g] = {}
  BY DEF Empty
<1>8. TypeOK
  <2>1. cells \in [Rgns -> [Objects -> Nat]] /\ mut \in [Rgns -> SUBSET Objects]
    BY DEF Empty
  <2>2. rem \subseteq Objects /\ nur \subseteq Objects /\ ssb \subseteq Objects \X (0 .. Regions)
    OBVIOUS
  <2>3. reg \in [Objects -> {Free} \union 0 .. Regions]
    <3>1. Rgns \subseteq 0 .. Regions  BY DEF Rgns
    <3> QED  BY <1>2, <3>1
  <2> QED  BY <1>2, <1>4, <1>5, <1>6, <2>1, <2>2, <2>3 DEF TypeOK
<1>9. ref \in Refinings  BY <1>4 DEF Refinings, NoRefining
<1>10. CellInv /\ PassInv
  BY <1>1, <1>5, <1>6, <1>7 DEF CellInv, PassInv, Fresh
<1>11. PICK G : G = Live  OBVIOUS
<1>12. G = Heap  BY <1>11 DEF Heap
<1>13. GoodSet(G)
  <2>1. \A o \in roots : o # Nil => o \in G  BY <1>2, <1>11, ReachCloses DEF Live
  <2>2. roots \subseteq G  BY <1>1, <1>2, <2>1
  <2>3. \A o \in Objects : fld[o] # Nil => fld[o] \in G
    BY <1>2, <1>12 DEF Heap
  <2> QED  BY <1>3, <1>12, <2>2, <2>3 DEF GoodSet, Heap
<1>14. RemInv(G) /\ NurInv(G)
  <2>1. \A o \in G : o \in Objects /\ (fld[o] # Nil => fld[o] \in Objects)  BY <1>2, <1>12 DEF Heap
  <2> QED  BY <1>3, <2>1 DEF RemInv, NurInv
<1>15. SumInv(G)  BY <1>6 DEF SumInv, Needs
<1>16. From(G, ref)
  <2>1. \A o \in rem : Old(o) /\ o \in G
    BY <1>2, <1>3, <1>12 DEF Heap, Crosses
  <2> QED  BY <1>7, <2>1 DEF From
<1>17. Corpses(G, ref)  BY <1>4 DEF Corpses
<1> QED  BY <1>8, <1>9, <1>10, <1>12, <1>13, <1>14, <1>15, <1>16, <1>17 DEF IInv, Inv, Heap
-----------------------------------------------------------------------------
LEMMA DropKeeps ==
  ASSUME IInv, NEW o \in Objects, Drop(o) PROVE IInv'
<1>1. PICK G \in SUBSET Objects : Inv(G)  BY DEF IInv
<1>2. /\ UNCHANGED <<work, reg, fld, rem, ssb, nur, cells, mut, grp, pass, ref>>
      /\ roots' \subseteq roots
  BY DEF Drop
<1>3. Inv(G)'
  BY <1>1, <1>2 DEF Inv, GoodSet, RemInv, NurInv, SumInv, From, Corpses, Needs, ToForget, Old, Heap
<1>4. (TypeOK /\ ref \in Refinings /\ CellInv /\ PassInv)'
  BY <1>2 DEF IInv, TypeOK, CellInv, PassInv
<1> QED  BY <1>3, <1>4 DEF IInv

(* A new object is in the nursery and points into G.                       *)
LEMMA AllocKeeps ==
  ASSUME IInv, NEW o \in Objects, NEW v \in Objects \cup {Nil}, Alloc(o, v) PROVE IInv'
<1>1. PICK G \in SUBSET Objects : Inv(G)  BY DEF IInv
<1>2. TypeOK /\ ref \in Refinings /\ CellInv /\ PassInv  BY DEF IInv
<1>3. /\ reg[o] = Free /\ v \in Live \cup {Nil}
      /\ reg' = [reg EXCEPT ![o] = 0] /\ fld' = [fld EXCEPT ![o] = v] /\ roots' = roots \cup {o}
      /\ UNCHANGED <<rem, ssb, nur, cells, mut, grp, pass, ref>>
  BY DEF Alloc
<1>4. v # Nil => v \in G  BY <1>1, <1>3, LiveWithin DEF Inv
<1>5. o \notin G /\ ~Old(o) /\ ~InUse(reg, o)
  BY <1>1, <1>2, <1>3, RegFacts DEF Inv, GoodSet, Heap, InUse, Old, Free
<1>6. PICK H : H = G \cup {o}  OBVIOUS
<1>7. /\ \A p \in Objects : p # o => reg'[p] = reg[p] /\ fld'[p] = fld[p]
      /\ reg'[o] = 0 /\ fld'[o] = v
  BY <1>2, <1>3 DEF TypeOK
<1>8. \A p \in G : /\ p \in Objects /\ p # o /\ reg'[p] = reg[p] /\ fld'[p] = fld[p] /\ InUse(reg, p)
                   /\ fld[p] # Nil => fld[p] \in G /\ fld[p] # o /\ fld[p] \in Objects /\ reg'[fld[p]] = reg[fld[p]]
  BY <1>1, <1>5, <1>7 DEF Inv, GoodSet, Heap
<1>9. \A p \in Objects : Old(p) => p # o /\ Old(p)' /\ reg'[p] = reg[p]
  BY <1>5, <1>7 DEF Old
<1>10. ~Old(o)'  BY <1>7 DEF Old
<1>11. TypeOK'
  <2>1. 0 \in {Free} \cup 0 .. Regions  BY SummariesAssumption
  <2>2. reg' \in [Objects -> {Free} \cup 0 .. Regions] /\ fld' \in [Objects -> Objects \cup {Nil}]
    BY <1>2, <1>3, <2>1 DEF TypeOK
  <2>3. roots' \subseteq Objects  BY <1>2, <1>3 DEF TypeOK
  <2> QED  BY <1>2, <1>3, <2>2, <2>3 DEF TypeOK
<1>12. (ref \in Refinings /\ PassInv)'  BY <1>2, <1>3 DEF PassInv
<1>13. CellInv'
  <2>1. \A g \in Rgns, p \in Objects : cells[g][p] > 0 => reg'[p] = reg[p]
    BY <1>1, <1>9 DEF Inv, From
  <2> QED  BY <1>2, <1>3, <2>1 DEF CellInv
<1>14. GoodSet(H)'
  <2>1. H \subseteq Heap'  BY <1>6, <1>7, <1>8 DEF Heap, InUse, Free
  <2>2. roots' \subseteq H  BY <1>1, <1>3, <1>6 DEF Inv, GoodSet
  <2>3. \A p \in Objects : reg'[p] = 0 => p \in H
    BY <1>1, <1>6, <1>7 DEF Inv, GoodSet
  <2>4. \A p \in H : fld'[p] # Nil => fld'[p] \in H
    BY <1>4, <1>6, <1>7, <1>8
  <2> QED  BY <2>1, <2>2, <2>3, <2>4 DEF GoodSet
<1>15. \A p \in H : Old(p)' => p \in G /\ Old(p)
  BY <1>6, <1>8, <1>10 DEF Old
<1>16. RemInv(H)'
  BY <1>1, <1>3, <1>8, <1>15 DEF Inv, RemInv, Crosses
<1>17. NurInv(H)'
  BY <1>1, <1>3, <1>8, <1>15 DEF Inv, NurInv
<1>18. SumInv(H)'
  <2>1. \A p \in H, g \in Rgns : Needs(p, g)' => p \in G /\ Needs(p, g)
    BY <1>3, <1>8, <1>15 DEF Needs
  <2> QED  BY <1>1, <1>3, <2>1 DEF Inv, SumInv
<1>19. From(H, ref)'
  <2>1. \A p \in rem : p \in Objects /\ Old(p)  BY <1>1, <1>2 DEF Inv, From, TypeOK
  <2>2. \A p \in rem' : Old(p)' /\ (p \in H \/ ToForget(p, ref)')
    BY <1>1, <1>3, <1>6, <1>9, <2>1 DEF Inv, From, ToForget
  <2>3. \A p \in nur' : Old(p)' /\ p \in H
    BY <1>1, <1>2, <1>3, <1>6, <1>9 DEF Inv, From, TypeOK
  <2>4. \A p \in ssb' : Old(p[1])' /\ p[1] \in H
    BY <1>1, <1>2, <1>3, <1>6, <1>9 DEF Inv, From, TypeOK
  <2>5. \A g \in Rgns, p \in Objects : cells'[g][p] > 0 \/ p \in mut'[g] =>
          Old(p)' /\ HasSummary(grp', g) /\ (p \in H \/ g \in ref'.left)
    BY <1>1, <1>3, <1>6, <1>9 DEF Inv, From
  <2> QED  BY <2>2, <2>3, <2>4, <2>5 DEF From
<1>20. Corpses(H, ref)'
  <2>1. Corpses(G, ref) /\ ref' = ref  BY <1>1, <1>3 DEF Inv
  <2>2. InUse(reg', o) /\ \A p \in Objects : p # o => (InUse(reg', p) <=> InUse(reg, p))
    BY <1>7 DEF InUse, Free
  <2>3. ref.on => o \notin ref.unm  BY <1>5, <2>1 DEF Corpses
  <2> QED  BY <1>6, <2>1, <2>2, <2>3 DEF Corpses
<1>21. H \in SUBSET Objects  BY <1>6
<1>22. Inv(H)'  BY <1>14, <1>16, <1>17, <1>18, <1>19, <1>20 DEF Inv
<1> QED  BY <1>11, <1>12, <1>13, <1>21, <1>22 DEF IInv

(* A store makes a pointer from G into G, and logs it if it crosses.       *)
LEMMA StoreKeeps ==
  ASSUME IInv, NEW o \in Objects, NEW v \in Objects \cup {Nil}, Store(o, v) PROVE IInv'
<1>1. PICK G \in SUBSET Objects : Inv(G)  BY DEF IInv
<1>2. TypeOK /\ ref \in Refinings /\ CellInv /\ PassInv  BY DEF IInv
<1>3. /\ o \in Live /\ v \in Live \cup {Nil}
      /\ fld' = [fld EXCEPT ![o] = v]
      /\ ssb' = IF v # Nil /\ reg[o] # 0 /\ reg[o] # reg[v] THEN ssb \cup {<<o, reg[v]>>} ELSE ssb
      /\ UNCHANGED <<reg, roots, rem, nur, cells, mut, grp, pass, ref>>
  BY DEF Store
<1>4. o \in G /\ (v # Nil => v \in G)  BY <1>1, <1>3, LiveWithin DEF Inv
<1>5. (\A p \in Objects : p # o => fld'[p] = fld[p]) /\ fld'[o] = v
  BY <1>2, <1>3 DEF TypeOK
<1>6. \A p : Old(p)' = Old(p)  BY <1>3 DEF Old
<1>7. reg[o] # 0 => Old(o)
  BY <1>1, <1>2, <1>4, RegFacts DEF Inv, GoodSet, Heap
<1>8. v # Nil /\ reg[o] # 0 /\ reg[o] # reg[v] =>
        reg[v] \in 0 .. Regions
  <2>1. v # Nil => v \in Objects /\ (reg[v] = 0 \/ Old(v))
    BY <1>1, <1>2, <1>4, RegFacts DEF Inv, GoodSet, Heap
  <2>2. v # Nil => reg[v] = 0 \/ reg[v] \in 1 .. Regions
    BY <1>2, <2>1, RegFacts DEF Rgns
  <2> QED  BY <2>2, SummariesAssumption
<1>9. ssb \subseteq ssb'  BY <1>3
<1>10. TypeOK'
  <2>1. fld' \in [Objects -> Objects \cup {Nil}]  BY <1>2, <1>3 DEF TypeOK
  <2>2. ssb' \subseteq Objects \X (0 .. Regions)  BY <1>2, <1>3, <1>8 DEF TypeOK
  <2> QED  BY <1>2, <1>3, <2>1, <2>2 DEF TypeOK
<1>11. (ref \in Refinings /\ CellInv /\ PassInv)'  BY <1>2, <1>3 DEF CellInv, PassInv
<1>12. GoodSet(G)'
  <2>1. Heap' = Heap  BY <1>3 DEF Heap
  <2>2. \A p \in G : p \in Objects  OBVIOUS
  <2> QED  BY <1>1, <1>3, <1>4, <1>5, <2>1, <2>2 DEF Inv, GoodSet
<1>13. RemInv(G)'
  <2> SUFFICES ASSUME NEW p \in G, Old(p), Crosses(reg, fld', p)
               PROVE  p \in rem \/ <<p, reg[fld'[p]]>> \in ssb'
    BY <1>3, <1>6 DEF RemInv
  <2>1. CASE p # o
    BY <1>1, <1>5, <1>9, <2>1 DEF Inv, RemInv, Crosses
  <2>2. CASE p = o
    BY <1>2, <1>3, <1>5, <2>2, RegFacts DEF Crosses
  <2> QED  BY <2>1, <2>2
<1>14. NurInv(G)'
  <2> SUFFICES ASSUME NEW p \in G, Old(p), fld'[p] # Nil, reg[fld'[p]] = 0
               PROVE  p \in nur \/ <<p, 0>> \in ssb'
    BY <1>3, <1>6 DEF NurInv
  <2>1. CASE p # o
    BY <1>1, <1>5, <1>9, <2>1 DEF Inv, NurInv
  <2>2. CASE p = o
    BY <1>2, <1>3, <1>5, <2>2, RegFacts
  <2> QED  BY <2>1, <2>2
<1>15. SumInv(G)'
  <2> SUFFICES ASSUME NEW p \in G, NEW g \in Rgns, Needs(p, g)'
               PROVE  cells[g][p] > 0 \/ p \in mut[g] \/ <<p, g>> \in ssb'
    BY <1>3 DEF SumInv
  <2>1. CASE p # o
    <3>1. Needs(p, g)  BY <1>3, <1>5, <1>6, <2>1 DEF Needs
    <3> QED  BY <1>1, <1>9, <3>1 DEF Inv, SumInv
  <2>2. CASE p = o
    <3>1. v # Nil /\ reg[v] = g /\ Old(o) /\ reg[o] # g  BY <1>3, <1>5, <1>6, <2>2 DEF Needs
    <3> QED  BY <1>2, <1>3, <2>2, <3>1, RegFacts
  <2> QED  BY <2>1, <2>2
<1>16. From(G, ref)'
  <2>1. \A p \in ssb' : Old(p[1])' /\ p[1] \in G
    BY <1>1, <1>3, <1>4, <1>6, <1>7 DEF Inv, From
  <2> QED  BY <1>1, <1>3, <1>6, <2>1 DEF Inv, From, ToForget
<1>17. Corpses(G, ref)'  BY <1>1, <1>3 DEF Inv, Corpses
<1>18. Inv(G)'  BY <1>12, <1>13, <1>14, <1>15, <1>16, <1>17 DEF Inv
<1> QED  BY <1>10, <1>11, <1>18 DEF IInv
-----------------------------------------------------------------------------
(* The summaries in over are gone: refinement waits for the others, and is *)
(* over when there are none of those it waits for.                         *)
Clears(e, f, over) ==
  /\ e \in Refinings
  /\ \A g \in Rgns : g \in e.left => g \in f.left /\ g \notin over
  /\ e.on => /\ f.on /\ e.unm = f.unm /\ e.passed = f.passed
             /\ \A g \in Rgns : g \in f.left => g \in e.left \/ g \in over
  /\ ~e.on => e = NoRefining /\ (f.on => f.passed /\ \A g \in Rgns : g \in f.left => g \in over)
LEMMA NoRefiningFacts ==
  /\ NoRefining \in Refinings /\ ~NoRefining.on /\ NoRefining.unm = {} /\ ~NoRefining.passed /\ NoRefining.left = {}
  /\ \A f \in Refinings : ~f.on /\ f.unm = {} /\ ~f.passed /\ f.left = {} => f = NoRefining
<1>1. ASSUME NEW f \in Refinings, ~f.on, f.unm = {}, ~f.passed, f.left = {} PROVE f = NoRefining
  <2>1. PICK a \in BOOLEAN, U \in SUBSET Objects, b \in BOOLEAN, L \in SUBSET Rgns :
          f = [on |-> a, unm |-> U, passed |-> b, left |-> L]
    BY DEF Refinings
  <2>2. a = FALSE /\ U = {} /\ b = FALSE /\ L = {}  BY <1>1, <2>1
  <2> QED  BY <2>1, <2>2 DEF NoRefining
<1> QED  BY <1>1 DEF NoRefining, Refinings
LEMMA ClearedFacts ==
  ASSUME NEW f, f \in Refinings, ~f.on => f = NoRefining, NEW over
  PROVE  Clears(ClearedCol(f, over), f, over)
<1>1. PICK a \in BOOLEAN, U \in SUBSET Objects, b \in BOOLEAN, L \in SUBSET Rgns :
        f = [on |-> a, unm |-> U, passed |-> b, left |-> L]
  BY DEF Refinings
<1>2. PICK M \in SUBSET Rgns : M = L \ over  OBVIOUS
<1>3. PICK d : d = [on |-> a, unm |-> U, passed |-> b, left |-> M]  OBVIOUS
<1>4. ClearedCol(f, over) = IF a /\ b /\ M = {} THEN NoRefining ELSE d
  BY <1>1, <1>2, <1>3 DEF ClearedCol, Checked
<1>5. NoRefining \in Refinings /\ ~NoRefining.on /\ NoRefining.left = {}
  BY DEF NoRefining, Refinings
<1>6. d \in Refinings /\ d.on = a /\ d.unm = U /\ d.passed = b /\ d.left = M
  BY <1>3 DEF Refinings
<1>7. f.on = a /\ f.unm = U /\ f.passed = b /\ f.left = L  BY <1>1
<1>8. CASE a /\ b /\ M = {}
  BY <1>2, <1>4, <1>5, <1>7, <1>8 DEF Clears
<1>9. CASE ~(a /\ b /\ M = {})
  <2>1. ~a => d = NoRefining
    <3>1. ~a => f = NoRefining  BY <1>7
    <3>2. ~a => L = {} /\ U = {} /\ b = FALSE /\ a = FALSE  BY <3>1, <1>7 DEF NoRefining
    <3> QED  BY <1>2, <1>3, <3>2 DEF NoRefining
  <2> QED  BY <1>2, <1>4, <1>6, <1>7, <1>9, <2>1 DEF Clears
<1> QED  BY <1>8, <1>9

(* A buffer is emptied into the remembered set, the nursery's locations    *)
(* and the summary that its pointers lead into, unless that overflows.     *)
LEMMA FlushKeeps ==
  ASSUME ~LateRest, IInv, NEW g \in 0 .. Regions, Flush(g) PROVE IInv'
<1>1. PICK G \in SUBSET Objects : Inv(G)  BY DEF IInv
<1>2. TypeOK /\ ref \in Refinings /\ CellInv /\ PassInv  BY DEF IInv
<1>3. PICK locs : locs = {p[1] : p \in {q \in ssb : q[2] = g}}  OBVIOUS
<1>4. PICK over \in Overflowing(grp, {g} \cap Rgns) :
        /\ cells' = Dropped(cells, over)
        /\ grp' = Risen(grp, over)
        /\ ref' = ClearedCol(ref, over)
        /\ g \in over => mut' = [mut EXCEPT ![g] = {}]
        /\ g \notin over => mut' = [h \in Rgns |-> IF h = g /\ HasSummary(grp, g) THEN mut[h] \cup locs ELSE mut[h]]
  BY <1>3 DEF Flush
<1>5. /\ ssb' = {p \in ssb : p[2] # g} /\ rem' = rem \cup locs /\ nur' = nur \cup locs
      /\ UNCHANGED <<reg, fld, roots, pass>>
  BY <1>3 DEF Flush
<1>6. over \subseteq {g} /\ over \subseteq Rgns /\ \A h \in over : HasSummary(grp, h)
  BY <1>4 DEF Overflowing
<1>7. ssb \subseteq Objects \X (0 .. Regions) /\ \A p \in ssb : Old(p[1]) /\ p[1] \in G
  BY <1>1, <1>2 DEF TypeOK, Inv, From
<1>8. \A o \in locs : Old(o) /\ o \in G  BY <1>3, <1>7
<1>9. \A o, h : <<o, h>> \in ssb => <<o, h>> \in ssb' \/ (h = g /\ o \in locs)
  <2> SUFFICES ASSUME NEW o, NEW h, NEW p \in ssb, p = <<o, h>>
               PROVE  p \in ssb' \/ (h = g /\ o \in locs)
    OBVIOUS
  <2> QED  BY <1>3, <1>5
<1>10. /\ \A h \in Rgns : h \in over => cells'[h] = Empty /\ mut'[h] = {} /\ grp'[h] = "star"
       /\ \A h \in Rgns : h \notin over => cells'[h] = cells[h] /\ grp'[h] = grp[h]
                            /\ mut'[h] = IF h = g /\ HasSummary(grp, g) THEN mut[h] \cup locs ELSE mut[h]
  BY <1>2, <1>4, <1>6 DEF Dropped, Risen, TypeOK
<1>11. Clears(ref', ref, over)
  <2>1. ~ref.on => ref = NoRefining  BY <1>1 DEF Inv, Corpses
  <2> QED  BY <1>2, <1>4, <2>1, ClearedFacts
<1>12. /\ cells' \in [Rgns -> [Objects -> Nat]] /\ mut' \in [Rgns -> SUBSET Objects]
       /\ grp' \in [Rgns -> {"unfilled", "filled", "summzing", "wait", "star"}]
  <2>1. cells' \in [Rgns -> [Objects -> Nat]]
    BY <1>2, <1>4 DEF Dropped, Empty, TypeOK
  <2>2. locs \subseteq Objects  BY <1>8
  <2>3. mut' \in [Rgns -> SUBSET Objects]
    <3>1. CASE g \in over  BY <1>2, <1>4, <3>1 DEF TypeOK
    <3>2. CASE g \notin over  BY <1>2, <1>4, <2>2, <3>2 DEF TypeOK
    <3> QED  BY <3>1, <3>2
  <2>4. grp' \in [Rgns -> {"unfilled", "filled", "summzing", "wait", "star"}]
    BY <1>2, <1>4 DEF Risen, TypeOK
  <2> QED  BY <2>1, <2>3, <2>4
<1>13. TypeOK'
  <2>1. rem' \subseteq Objects /\ nur' \subseteq Objects /\ ssb' \subseteq Objects \X (0 .. Regions)
    BY <1>2, <1>5, <1>7, <1>8 DEF TypeOK
  <2>2. \A h \in Rgns : h \in ref'.left => HasSummary(grp', h)
    BY <1>2, <1>10, <1>11 DEF Clears, TypeOK, HasSummary
  <2>3. ref'.left \subseteq {h \in Rgns : HasSummary(grp', h)}
    BY <1>11, <2>2 DEF Clears, Refinings
  <2> QED  BY <1>2, <1>5, <1>12, <2>1, <2>3 DEF TypeOK
<1>14. \A o : Old(o)' = Old(o)  BY <1>5 DEF Old
<1>15. (ref \in Refinings /\ PassInv)'
  BY <1>2, <1>5, <1>10, <1>11 DEF Clears, PassInv
<1>16. CellInv'
  <2> SUFFICES ASSUME NEW h \in Rgns, NEW o \in Objects
               PROVE  /\ cells'[h][o] <= 1
                      /\ grp'[h] = "summzing" /\ cells'[h][o] > 0 => reg[o] >= pass.cursor
    BY <1>5 DEF CellInv
  <2>1. CASE h \in over
    <3>1. cells'[h] = Empty  BY <1>10, <2>1
    <3> QED  BY <3>1 DEF Empty
  <2>2. CASE h \notin over
    <3>1. cells'[h] = cells[h] /\ grp'[h] = grp[h]  BY <1>10, <2>2
    <3> QED  BY <1>2, <3>1 DEF CellInv
  <2> QED  BY <2>1, <2>2
<1>17. GoodSet(G)'  BY <1>1, <1>5 DEF Inv, GoodSet, Heap
<1>18. RemInv(G)'
  BY <1>1, <1>5, <1>9, <1>14 DEF Inv, RemInv
<1>19. NurInv(G)'
  BY <1>1, <1>5, <1>9, <1>14 DEF Inv, NurInv
<1>20. SumInv(G)'
  <2> SUFFICES ASSUME NEW o \in G, NEW h \in Rgns, Needs(o, h)'
               PROVE  cells'[h][o] > 0 \/ o \in mut'[h] \/ <<o, h>> \in ssb'
    BY DEF SumInv
  <2>1. h \notin over  BY <1>10 DEF Needs
  <2>2. Needs(o, h) /\ HasSummary(grp, h)  BY <1>5, <1>10, <1>14, <2>1 DEF Needs, HasSummary
  <2>3. cells[h][o] > 0 \/ o \in mut[h] \/ <<o, h>> \in ssb  BY <1>1, <2>2 DEF Inv, SumInv
  <2>4. cells'[h] = cells[h] /\ mut[h] \subseteq mut'[h] /\ (h = g => locs \subseteq mut'[h])
    BY <1>10, <2>1, <2>2
  <2> QED  BY <1>9, <2>3, <2>4
<1>21. From(G, ref)'
  <2>1. From(G, ref)  BY <1>1 DEF Inv
  <2>2. \A o \in rem' : Old(o)' /\ (o \in G \/ ToForget(o, ref)')
    <3> SUFFICES ASSUME NEW o \in rem' PROVE Old(o) /\ (o \in G \/ ToForget(o, ref)')
      BY <1>14
    <3>1. CASE o \in locs  BY <1>8, <3>1
    <3>2. CASE o \in rem
      <4>1. Old(o) /\ (o \in G \/ ToForget(o, ref))  BY <2>1, <3>2 DEF From
      <4>2. CASE ref'.on
        BY <1>5, <1>11, <4>1, <4>2 DEF Clears, ToForget
      <4>3. CASE ~ref'.on
        <5>1. ref.on => ref.passed  BY <1>11, <4>3 DEF Clears
        <5>2. ~ref.on => ref.unm = {}  BY <1>1 DEF Inv, Corpses, NoRefining
        <5> QED  BY <4>1, <5>1, <5>2 DEF ToForget
      <4> QED  BY <4>2, <4>3
    <3> QED  BY <1>5, <3>1, <3>2
  <2>3. \A o \in nur' : Old(o)' /\ o \in G  BY <1>5, <1>8, <1>14, <2>1 DEF From
  <2>4. \A p \in ssb' : Old(p[1])' /\ p[1] \in G  BY <1>5, <1>7, <1>14
  <2>5. ASSUME NEW h \in Rgns, NEW o \in Objects, cells'[h][o] > 0 \/ o \in mut'[h]
        PROVE  Old(o)' /\ HasSummary(grp', h) /\ (o \in G \/ h \in ref'.left)
    <3>1. Empty[o] = 0  BY DEF Empty
    <3>2. h \notin over  BY <1>10, <2>5, <3>1
    <3>3. CASE o \in locs /\ HasSummary(grp, h)
      BY <1>8, <1>10, <1>14, <3>2, <3>3 DEF HasSummary
    <3>4. CASE cells[h][o] > 0 \/ o \in mut[h]
      <4>1. Old(o) /\ HasSummary(grp, h) /\ (o \in G \/ h \in ref.left)
        BY <2>1, <3>4 DEF From
      <4>2. h \in ref.left => h \in ref'.left
        <5>1. CASE ref'.on  BY <1>11, <3>2, <5>1 DEF Clears
        <5>2. CASE ~ref'.on
          <6>1. ref.on => h \notin ref.left  BY <1>11, <3>2, <5>2 DEF Clears
          <6>2. ~ref.on => ref.left = {}  BY <1>1 DEF Inv, Corpses, NoRefining
          <6> QED  BY <6>1, <6>2
        <5> QED  BY <5>1, <5>2
      <4> QED  BY <1>10, <1>14, <3>2, <4>1, <4>2 DEF HasSummary
    <3> QED  BY <1>10, <2>5, <3>2, <3>3, <3>4
  <2> QED  BY <2>2, <2>3, <2>4, <2>5 DEF From
<1>22. Corpses(G, ref)'
  <2>1. Corpses(G, ref)  BY <1>1 DEF Inv
  <2> QED  BY <1>5, <1>11, <2>1 DEF Corpses, Clears
<1>23. Inv(G)'  BY <1>17, <1>18, <1>19, <1>20, <1>21, <1>22 DEF Inv
<1> QED  BY <1>13, <1>15, <1>16, <1>23 DEF IInv

(* A wave begins to summarize from the last row on.                        *)
LEMMA StartWaveKeeps ==
  ASSUME IInv, StartWave PROVE IInv'
<1>1. PICK G \in SUBSET Objects : Inv(G)  BY DEF IInv
<1>2. TypeOK /\ ref \in Refinings /\ CellInv /\ PassInv  BY DEF IInv
<1>3. /\ ~pass.on /\ grp' = Summarizing(grp, Summarizable(grp))
      /\ pass' = [on |-> TRUE, cursor |-> Fresh]
      /\ UNCHANGED <<work, reg, fld, roots, rem, ssb, nur, cells, mut, ref>>
  BY DEF StartWave
<1>4. pass.cursor = Fresh /\ pass'.cursor = Fresh /\ pass'.on = TRUE /\ \A g \in Rgns : grp[g] # "summzing"
  BY <1>2, <1>3 DEF PassInv
<1>5. \A g \in Rgns :
        /\ grp[g] \in {"filled", "star"} => grp'[g] = "summzing" /\ ~HasSummary(grp, g)
        /\ grp[g] \notin {"filled", "star"} => grp'[g] = grp[g] /\ (HasSummary(grp, g) => HasSummary(grp', g))
  BY <1>3 DEF Summarizing, Summarizable, HasSummary
<1>6. Fresh = Regions + 1 /\ Regions \in Nat /\ \A o \in Objects : Old(o) => reg[o] \in Int /\ reg[o] <= Regions
  BY <1>2, RegFacts DEF Fresh
<1>7. \A o : Old(o)' = Old(o)  BY <1>3 DEF Old
<1>8. From(G, ref)  BY <1>1 DEF Inv
<1>9. \A g \in Rgns : HasSummary(grp, g) => HasSummary(grp', g)  BY <1>5
<1>10. TypeOK'
  <2>1. grp' \in [Rgns -> {"unfilled", "filled", "summzing", "wait", "star"}]
    BY <1>2, <1>3 DEF TypeOK, Summarizing
  <2>2. pass' \in [on : BOOLEAN, cursor : 2 .. Fresh]
    BY <1>3, <1>6, SummariesAssumption DEF Fresh
  <2>3. ref'.left \subseteq {g \in Rgns : HasSummary(grp', g)}
    BY <1>2, <1>3, <1>9 DEF TypeOK
  <2> QED  BY <1>2, <1>3, <2>1, <2>2, <2>3 DEF TypeOK
<1>11. (ref \in Refinings /\ PassInv)'  BY <1>2, <1>3, <1>4 DEF PassInv
<1>12. CellInv'
  <2>1. \A g \in Rgns, o \in Objects : cells[g][o] > 0 => HasSummary(grp, g)  BY <1>8 DEF From
  <2> QED  BY <1>2, <1>3, <1>4, <1>5, <2>1 DEF CellInv
<1>13. GoodSet(G)' /\ RemInv(G)' /\ NurInv(G)'
  BY <1>1, <1>3, <1>7 DEF Inv, GoodSet, RemInv, NurInv, Heap
<1>14. SumInv(G)'
  <2> SUFFICES ASSUME NEW o \in G, NEW g \in Rgns, Needs(o, g)'
               PROVE  cells[g][o] > 0 \/ o \in mut[g] \/ <<o, g>> \in ssb
    BY <1>3 DEF SumInv
  <2>1. ~(reg[o] >= Fresh)  BY <1>6, <1>7 DEF Needs
  <2>2. Needs(o, g)  BY <1>3, <1>4, <1>5, <1>7, <2>1 DEF Needs
  <2> QED  BY <1>1, <2>2 DEF Inv, SumInv
<1>15. From(G, ref)'
  BY <1>3, <1>4, <1>7, <1>8, <1>9 DEF From, ToForget
<1>16. Corpses(G, ref)'  BY <1>1, <1>3 DEF Inv, Corpses
<1>17. Inv(G)'  BY <1>13, <1>14, <1>15, <1>16 DEF Inv
<1> QED  BY <1>10, <1>11, <1>12, <1>17 DEF IInv
-----------------------------------------------------------------------------
(* What a scan of the rows from r to the cursor does: seen are the         *)
(* locations it finds there and keeps, over the summaries that grew too    *)
(* large, n what it adds to each column.                                   *)
Seen(o, r) == o \in Keeps /\ reg[o] >= r /\ reg[o] < pass.cursor
Scans(r, over, f) ==
  /\ pass.on /\ r \in Nat /\ r >= 1 /\ r < pass.cursor
  /\ \A o \in Keeps : reg[o] < pass.cursor => reg[o] <= r
  /\ over \subseteq Rgns /\ \A g \in over : HasSummary(grp, g)
  /\ \A o : o \in rem' <=> o \in rem /\ (o \in Keeps \/ ~(reg[o] >= r /\ reg[o] < pass.cursor))
  /\ cells' \in [Rgns -> [Objects -> Nat]] /\ mut' \in [Rgns -> SUBSET Objects]
  /\ \A g \in Rgns, o \in Objects :
       /\ g \in over => cells'[g][o] = 0 /\ mut'[g] = {}
       /\ g \notin over =>
            /\ mut'[g] = mut[g]
            /\ Seen(o, r) /\ reg[fld[o]] = g /\ grp[g] = "summzing" => cells'[g][o] = cells[g][o] + 1
            /\ ~(Seen(o, r) /\ reg[fld[o]] = g /\ grp[g] = "summzing") => cells'[g][o] = cells[g][o]
  /\ Clears(ref', f, over)
  /\ r > 1 => f = ref /\ grp' = Risen(grp, over) /\ pass' = [pass EXCEPT !.cursor = r]
  /\ r = 1 => f = [ref EXCEPT !.passed = ref.on] /\ IterationComplete(Risen(grp, over))
  /\ UNCHANGED <<reg, fld, roots, ssb, nur>>

LEMMA ScanFacts ==
  ASSUME IInv, ScanRows PROVE \E r, over, f : Scans(r, over, f)
<1>1. TypeOK /\ ref \in Refinings  BY DEF IInv
<1>2. PICK G \in SUBSET Objects : Inv(G)  BY DEF IInv
<1> DEFINE below == {reg[o] : o \in {p \in Keeps : reg[p] < pass.cursor}}
           r == Max({1} \union below)
           rows == {o \in rem : reg[o] >= r /\ reg[o] < pass.cursor}
           into(g) == {o \in rows \cap Keeps : reg[fld[o]] = g /\ grp[g] = "summzing"}
           scanned == [g \in Rgns |-> [o \in Objects |-> cells[g][o] + IF o \in into(g) THEN 1 ELSE 0]]
<1>3. /\ pass.on /\ rem' = rem \ (rows \ Keeps)
      /\ \E over \in Overflowing(grp, {g \in Rgns : into(g) # {}}) :
              /\ cells' = Dropped(scanned, over)
              /\ mut' = [g \in Rgns |-> IF g \in over THEN {} ELSE mut[g]]
              /\ IF r > 1
                 THEN /\ grp' = Risen(grp, over) /\ pass' = [pass EXCEPT !.cursor = r]
                      /\ ref' = ClearedCol(ref, over)
                 ELSE /\ IterationComplete(Risen(grp, over))
                      /\ ref' = ClearedCol([ref EXCEPT !.passed = ref.on], over)
      /\ UNCHANGED <<reg, fld, roots, ssb, nur>>
  BY DEF ScanRows
<1>4. \A o \in rem : o \in Objects /\ Old(o) /\ reg[o] \in Rgns
  BY <1>1, <1>2, RegFacts DEF Inv, From, TypeOK
<1>5. PICK c : c = pass.cursor /\ c \in 2 .. Regions + 1  BY <1>1 DEF TypeOK, Fresh
<1>6. Regions \in Nat /\ Keeps \subseteq rem  BY SummariesAssumption DEF Keeps
<1>7. \A n \in below : n \in 1 .. Regions /\ n < c
  <2> SUFFICES ASSUME NEW p \in Keeps, reg[p] < pass.cursor PROVE reg[p] \in 1 .. Regions /\ reg[p] < c
    OBVIOUS
  <2> QED  BY <1>4, <1>5, <1>6 DEF Rgns
<1>8. PICK T : T = {1} \union below  OBVIOUS
<1>9. PICK x : x = r  OBVIOUS
<1>10. x \in T /\ \A m \in T : m <= x
  <2>1. T \subseteq 0 .. Regions  BY <1>6, <1>7, <1>8, SummariesAssumption
  <2>2. T # {}  BY <1>8
  <2>3. Max(T) \in T /\ \A m \in T : m <= Max(T)
    <3> HIDE DEF below
    <3> QED  BY <1>6, <2>1, <2>2, MaxFacts
  <2> QED  BY <1>8, <1>9, <2>3
<1>11. x \in Nat /\ x >= 1 /\ x < c
  BY <1>5, <1>6, <1>7, <1>8, <1>10
<1>12. \A o \in Keeps : reg[o] < c => reg[o] <= x
  BY <1>5, <1>8, <1>10
<1>13. PICK over \in Overflowing(grp, {g \in Rgns : into(g) # {}}) :
              /\ cells' = Dropped(scanned, over)
              /\ mut' = [g \in Rgns |-> IF g \in over THEN {} ELSE mut[g]]
              /\ IF r > 1
                 THEN /\ grp' = Risen(grp, over) /\ pass' = [pass EXCEPT !.cursor = r]
                      /\ ref' = ClearedCol(ref, over)
                 ELSE /\ IterationComplete(Risen(grp, over))
                      /\ ref' = ClearedCol([ref EXCEPT !.passed = ref.on], over)
  BY <1>3
<1>14. over \subseteq Rgns /\ \A g \in over : HasSummary(grp, g)
  BY <1>13 DEF Overflowing
<1>15. \A g, o : o \in into(g) <=> Seen(o, x) /\ reg[fld[o]] = g /\ grp[g] = "summzing"
  BY <1>6, <1>9 DEF Seen
<1>16. \A o : o \in rem' <=> o \in rem /\ (o \in Keeps \/ ~(reg[o] >= x /\ reg[o] < c))
  BY <1>3, <1>5, <1>9
<1>17. PICK f : f = IF x > 1 THEN ref ELSE [ref EXCEPT !.passed = ref.on]  OBVIOUS
<1>18. Clears(ref', f, over)
  <2>1. f \in Refinings  BY <1>1, <1>17 DEF Refinings
  <2>2. ~f.on => f = NoRefining
    <3>1. ~ref.on => ref = NoRefining  BY <1>2 DEF Inv, Corpses
    <3>2. f.on = ref.on  BY <1>1, <1>17 DEF Refinings
    <3>3. f.unm = ref.unm /\ f.left = ref.left /\ (f.passed = ref.passed \/ f.passed = ref.on)
      BY <1>1, <1>17 DEF Refinings
    <3> QED  BY <2>1, <3>1, <3>2, <3>3, NoRefiningFacts
  <2>3. ref' = ClearedCol(f, over)  BY <1>9, <1>13, <1>17
  <2> QED  BY <2>1, <2>2, <2>3, ClearedFacts
<1> HIDE DEF into, r
<1>19. cells' \in [Rgns -> [Objects -> Nat]] /\ mut' \in [Rgns -> SUBSET Objects]
  <2>1. \A g \in Rgns, o \in Objects : cells[g][o] \in Nat  BY <1>1 DEF TypeOK
  <2>2. scanned \in [Rgns -> [Objects -> Nat]]
    <3> SUFFICES ASSUME NEW g \in Rgns, NEW o \in Objects
                 PROVE  cells[g][o] + (IF o \in into(g) THEN 1 ELSE 0) \in Nat
      OBVIOUS
    <3> QED  BY <2>1
  <2>3. cells' \in [Rgns -> [Objects -> Nat]]
    <3> HIDE DEF scanned
    <3> QED  BY <1>13, <2>2 DEF Dropped, Empty
  <2> QED  BY <1>1, <1>13, <2>3 DEF TypeOK
<1>20. \A g \in Rgns, o \in Objects :
       /\ g \in over => cells'[g][o] = 0 /\ mut'[g] = {}
       /\ g \notin over =>
            /\ mut'[g] = mut[g]
            /\ o \in into(g) => cells'[g][o] = cells[g][o] + 1
            /\ o \notin into(g) => cells'[g][o] = cells[g][o]
  <2> SUFFICES ASSUME NEW g \in Rgns, NEW o \in Objects
               PROVE  /\ g \in over => cells'[g][o] = 0 /\ mut'[g] = {}
                      /\ g \notin over =>
                           /\ mut'[g] = mut[g]
                           /\ o \in into(g) => cells'[g][o] = cells[g][o] + 1
                           /\ o \notin into(g) => cells'[g][o] = cells[g][o]
    OBVIOUS
  <2>1. cells[g][o] \in Nat  BY <1>1 DEF TypeOK
  <2>2. scanned[g][o] = cells[g][o] + IF o \in into(g) THEN 1 ELSE 0  OBVIOUS
  <2>3. cells'[g] = IF g \in over THEN Empty ELSE scanned[g]
    <3> HIDE DEF scanned
    <3> QED  BY <1>13 DEF Dropped
  <2>4. mut'[g] = IF g \in over THEN {} ELSE mut[g]  BY <1>13
  <2> HIDE DEF scanned
  <2> QED  BY <2>1, <2>2, <2>3, <2>4 DEF Empty
<1>21. Scans(x, over, f)
  <2>1. \A g \in Rgns, o \in Objects :
       /\ g \in over => cells'[g][o] = 0 /\ mut'[g] = {}
       /\ g \notin over =>
            /\ mut'[g] = mut[g]
            /\ Seen(o, x) /\ reg[fld[o]] = g /\ grp[g] = "summzing" => cells'[g][o] = cells[g][o] + 1
            /\ ~(Seen(o, x) /\ reg[fld[o]] = g /\ grp[g] = "summzing") => cells'[g][o] = cells[g][o]
    BY <1>15, <1>20
  <2>2. x > 1 => f = ref /\ grp' = Risen(grp, over) /\ pass' = [pass EXCEPT !.cursor = x]
    BY <1>9, <1>13, <1>17
  <2>3. x = 1 => f = [ref EXCEPT !.passed = ref.on] /\ IterationComplete(Risen(grp, over))
    BY <1>9, <1>13, <1>17
  <2>4. UNCHANGED <<reg, fld, roots, ssb, nur>> /\ pass.on  BY <1>3
  <2>5. \A o : o \in rem' <=> o \in rem /\ (o \in Keeps \/ ~(reg[o] >= x /\ reg[o] < pass.cursor))
    BY <1>5, <1>16
  <2>6. \A o \in Keeps : reg[o] < pass.cursor => reg[o] <= x  BY <1>5, <1>12
  <2>7. x \in Nat /\ x >= 1 /\ x < pass.cursor  BY <1>5, <1>11
  <2> QED  BY <1>14, <1>18, <1>19, <2>1, <2>2, <2>3, <2>4, <2>5, <2>6, <2>7 DEF Scans
<1> QED  BY <1>21

(* What the end of a pass does to the groups.                              *)
Iterates(H) ==
         /\ pass'.cursor = Fresh /\ pass' = [on |-> pass'.on, cursor |-> Fresh] /\ pass'.on \in BOOLEAN
         /\ \A g \in Rgns : /\ H[g] \in {"wait", "summzing"} => grp'[g] = "wait"
                            /\ H[g] \in {"filled", "star"} => grp'[g] \in {H[g], "summzing"}
                            /\ H[g] = "unfilled" => grp'[g] = "unfilled"
                            /\ ~pass'.on => grp'[g] # "summzing"
         /\ grp' = [g \in Rgns |-> grp'[g]]
LEMMA IterationFacts == ASSUME NEW H, IterationComplete(H) PROVE Iterates(H)
<1> USE DEF Iterates
<1> DEFINE done == [g \in Rgns |-> IF H[g] = "summzing" THEN "wait" ELSE H[g]]
<1>1. CASE grp' = done /\ pass' = [on |-> FALSE, cursor |-> Fresh]
  BY <1>1
<1>2. CASE grp' = Summarizing(done, Summarizable(done)) /\ pass' = [on |-> TRUE, cursor |-> Fresh]
  BY <1>2 DEF Summarizing, Summarizable
<1> QED  BY <1>1, <1>2 DEF IterationComplete

(* A scanned row's locations are in the summaries of the pass; what is     *)
(* forgotten there is no location of G, and what is not has no corpses.    *)
LEMMA ScanRowsKeeps ==
  ASSUME IInv, ScanRows PROVE IInv'
<1>1. PICK G \in SUBSET Objects : Inv(G)  BY DEF IInv
<1>2. TypeOK /\ ref \in Refinings /\ CellInv /\ PassInv  BY DEF IInv
<1>3. PICK r, over, f : Scans(r, over, f)  BY ScanFacts
<1>4. /\ r \in Nat /\ r >= 1 /\ r < pass.cursor /\ pass.cursor \in 2 .. Fresh /\ pass.on /\ pass.cursor \in Int
      /\ Fresh = Regions + 1 /\ Regions \in Nat /\ Regions >= 2
  BY <1>2, <1>3, SummariesAssumption DEF Scans, TypeOK, Fresh
<1>5. UNCHANGED <<reg, fld, roots, ssb, nur>>  BY <1>3 DEF Scans
<1>6. \A o : Old(o)' = Old(o)  BY <1>5 DEF Old
<1>7. From(G, ref) /\ Corpses(G, ref)  BY <1>1 DEF Inv
<1>8. \A o \in rem : o \in Objects /\ Old(o) /\ reg[o] \in Int /\ reg[o] <= Regions /\ reg[o] >= 1
  BY <1>2, <1>7, RegFacts DEF From, TypeOK, Rgns
<1>9. \A o : o \in Keeps <=> o \in rem /\ ~(ref.on /\ o \in ref.unm) /\ Crosses(reg, fld, o)
  BY DEF Keeps
<1>10. ~ref.on => ref.unm = {} /\ ref.left = {} /\ ref = NoRefining  BY <1>7 DEF Corpses, NoRefining
<1>11. \A o \in Keeps : o \in rem /\ o \in G
  BY <1>7, <1>9, <1>10 DEF From, ToForget
<1>12. \A o \in rem : o \in G /\ Crosses(reg, fld, o) => o \in Keeps
  BY <1>7, <1>9 DEF Corpses
<1>13. f.on = ref.on /\ f.unm = ref.unm /\ f.left = ref.left /\ (r > 1 => f = ref)
  BY <1>2, <1>3, <1>4 DEF Scans, Refinings
<1>14. Clears(ref', f, over)  BY <1>3 DEF Scans
<1>15. ref'.on => ref'.unm = ref.unm /\ ref.on  BY <1>13, <1>14 DEF Clears
<1>16. /\ grp' \in [Rgns -> {"unfilled", "filled", "summzing", "wait", "star"}]
       /\ pass' \in [on : BOOLEAN, cursor : 2 .. Fresh]
       /\ r > 1 => pass'.on /\ pass'.cursor = r
       /\ r = 1 => pass'.cursor = Fresh
       /\ ~pass'.on => \A g \in Rgns : grp'[g] # "summzing"
       /\ \A g \in Rgns :
            /\ grp'[g] = "wait" => g \notin over /\ (grp[g] = "wait" \/ (grp[g] = "summzing" /\ r = 1))
            /\ grp'[g] = "summzing" => (r > 1 /\ g \notin over /\ grp[g] = "summzing")
                                        \/ (r = 1 /\ (g \in over \/ ~HasSummary(grp, g)))
            /\ g \notin over /\ HasSummary(grp, g) => HasSummary(grp', g)
  <2>1. \A g \in Rgns : grp[g] \in {"unfilled", "filled", "summzing", "wait", "star"}  BY <1>2 DEF TypeOK
  <2>2. PICK H : H = Risen(grp, over)  OBVIOUS
  <2>3. \A g \in Rgns : H[g] = IF g \in over THEN "star" ELSE grp[g]  BY <2>2 DEF Risen
  <2>4. CASE r > 1
    <3>1. grp' = Risen(grp, over) /\ pass' = [pass EXCEPT !.cursor = r]  BY <1>3, <2>4 DEF Scans
    <3>2. pass \in [on : BOOLEAN, cursor : 2 .. Fresh]  BY <1>2 DEF TypeOK
    <3>3. r \in 2 .. Fresh  BY <1>4, <2>4
    <3>4. pass' \in [on : BOOLEAN, cursor : 2 .. Fresh] /\ pass'.on = pass.on /\ pass'.cursor = r
      BY <3>1, <3>2, <3>3
    <3>5. grp' \in [Rgns -> {"unfilled", "filled", "summzing", "wait", "star"}]
      BY <2>1, <3>1 DEF Risen
    <3>6. \A g \in Rgns : grp'[g] = IF g \in over THEN "star" ELSE grp[g]  BY <2>2, <2>3, <3>1
    <3> QED  BY <1>4, <2>4, <3>4, <3>5, <3>6 DEF HasSummary
  <2>5. CASE r = 1
    <3>1. IterationComplete(H)  BY <1>3, <2>2, <2>5 DEF Scans
    <3>2. Iterates(H)  BY <3>1, IterationFacts
    <3>3. Fresh \in 2 .. Fresh  BY <1>4
    <3>4. pass' \in [on : BOOLEAN, cursor : 2 .. Fresh]  BY <3>2, <3>3 DEF Iterates
    <3>5. \A g \in Rgns : H[g] \in {"unfilled", "filled", "summzing", "wait", "star"}  BY <2>1, <2>3
    <3>6. \A g \in Rgns : grp'[g] \in {"unfilled", "filled", "summzing", "wait", "star"}  BY <3>2, <3>5 DEF Iterates
    <3>7. \A g \in Rgns :
            /\ grp'[g] = "wait" => H[g] \in {"wait", "summzing"}
            /\ grp'[g] = "summzing" => H[g] \in {"filled", "star"}
            /\ H[g] \in {"wait", "summzing"} => grp'[g] = "wait"
      BY <3>2, <3>5 DEF Iterates
    <3>8. \A g \in Rgns :
            /\ grp'[g] = "wait" => g \notin over /\ (grp[g] = "wait" \/ grp[g] = "summzing")
            /\ grp'[g] = "summzing" => g \in over \/ ~HasSummary(grp, g)
            /\ g \notin over /\ HasSummary(grp, g) => HasSummary(grp', g)
      BY <2>3, <3>7 DEF HasSummary
    <3>9. grp' \in [Rgns -> {"unfilled", "filled", "summzing", "wait", "star"}]
      BY <3>2, <3>6 DEF Iterates
    <3> QED  BY <2>5, <3>2, <3>4, <3>8, <3>9 DEF Iterates
  <2> QED  BY <1>4, <2>4, <2>5
<1>17. cells' \in [Rgns -> [Objects -> Nat]] /\ mut' \in [Rgns -> SUBSET Objects]
  BY <1>3 DEF Scans
<1>18. \A g \in Rgns, o \in Objects :
       /\ g \in over => cells'[g][o] = 0 /\ mut'[g] = {}
       /\ g \notin over =>
            /\ mut'[g] = mut[g]
            /\ Seen(o, r) /\ reg[fld[o]] = g /\ grp[g] = "summzing" => cells'[g][o] = cells[g][o] + 1
            /\ ~(Seen(o, r) /\ reg[fld[o]] = g /\ grp[g] = "summzing") => cells'[g][o] = cells[g][o]
  BY <1>3 DEF Scans
<1>19. \A o : o \in rem' <=> o \in rem /\ (o \in Keeps \/ ~(reg[o] >= r /\ reg[o] < pass.cursor))
  BY <1>3 DEF Scans
<1>20. \A o \in Keeps : reg[o] < pass.cursor => reg[o] <= r
  BY <1>3 DEF Scans
<1>21. TypeOK'
  <2>1. rem' \subseteq Objects  BY <1>8, <1>19
  <2>2. \A g \in Rgns : g \in ref'.left => HasSummary(grp', g)
    BY <1>2, <1>13, <1>14, <1>16 DEF TypeOK, Clears
  <2>3. ref'.left \subseteq {g \in Rgns : HasSummary(grp', g)}
    BY <1>14, <2>2 DEF Clears, Refinings
  <2> QED  BY <1>2, <1>5, <1>16, <1>17, <2>1, <2>3 DEF TypeOK
<1>22. (ref \in Refinings /\ PassInv)'
  BY <1>4, <1>14, <1>16 DEF Clears, PassInv
<1>23. \A g \in Rgns, o \in Objects : /\ cells[g][o] \in Nat /\ cells[g][o] <= 1
                                      /\ cells[g][o] > 0 \/ o \in mut[g] => Old(o) /\ HasSummary(grp, g)
                                      /\ grp[g] = "summzing" /\ cells[g][o] > 0 => reg[o] >= pass.cursor
  BY <1>2, <1>7 DEF From, TypeOK, CellInv
<1>24. CellInv'
  <2> SUFFICES ASSUME NEW g \in Rgns, NEW o \in Objects
               PROVE  /\ cells'[g][o] <= 1
                      /\ grp'[g] = "summzing" /\ cells'[g][o] > 0 => reg[o] >= pass'.cursor
    BY <1>5 DEF CellInv
  <2>1. CASE g \in over  BY <1>18, <2>1
  <2>2. CASE g \notin over /\ Seen(o, r) /\ reg[fld[o]] = g /\ grp[g] = "summzing"
    <3>1. reg[o] < pass.cursor /\ reg[o] >= r /\ reg[o] \in Int  BY <1>8, <1>11, <2>2 DEF Seen
    <3>2. ~(cells[g][o] > 0)
      <4>1. ~(reg[o] >= pass.cursor)  BY <1>4, <3>1
      <4> QED  BY <1>23, <2>2, <4>1
    <3>3. cells[g][o] = 0  BY <1>23, <3>2
    <3>4. cells'[g][o] = 1  BY <1>18, <2>2, <3>3
    <3>5. grp'[g] = "summzing" => r > 1  BY <1>16, <2>2 DEF HasSummary
    <3> QED  BY <1>16, <3>1, <3>4, <3>5
  <2>3. CASE g \notin over /\ ~(Seen(o, r) /\ reg[fld[o]] = g /\ grp[g] = "summzing")
    <3>1. cells'[g][o] = cells[g][o]  BY <1>18, <2>3
    <3>2. ASSUME grp'[g] = "summzing", cells[g][o] > 0 PROVE reg[o] >= pass'.cursor
      <4>1. HasSummary(grp, g) /\ Old(o)  BY <1>23, <3>2
      <4>2. r > 1 /\ grp[g] = "summzing"  BY <1>16, <2>3, <3>2, <4>1
      <4>3. reg[o] >= pass.cursor  BY <1>23, <3>2, <4>2
      <4>4. reg[o] \in Int  BY <1>2, RegFacts
      <4> QED  BY <1>4, <1>16, <4>2, <4>3, <4>4
    <3> QED  BY <1>23, <3>1, <3>2
  <2> QED  BY <2>1, <2>2, <2>3
<1>25. GoodSet(G)'  BY <1>1, <1>5 DEF Inv, GoodSet, Heap
<1>26. RemInv(G)'
  <2> SUFFICES ASSUME NEW o \in G, Old(o), Crosses(reg, fld, o)
               PROVE  o \in rem' \/ <<o, reg[fld[o]]>> \in ssb
    BY <1>5, <1>6 DEF RemInv
  <2> QED  BY <1>1, <1>12, <1>19 DEF Inv, RemInv
<1>27. NurInv(G)'  BY <1>1, <1>5, <1>6 DEF Inv, NurInv
<1>28. SumInv(G)'
  <2> SUFFICES ASSUME NEW o \in G, NEW g \in Rgns, Needs(o, g)'
               PROVE  cells'[g][o] > 0 \/ o \in mut'[g] \/ <<o, g>> \in ssb
    BY <1>5 DEF SumInv
  <2>0. /\ fld[o] # Nil /\ reg[fld[o]] = g /\ Old(o) /\ reg[o] # g /\ o \in Objects
        /\ grp'[g] = "wait" \/ (grp'[g] = "summzing" /\ reg[o] >= pass'.cursor)
        /\ reg[o] \in Int /\ reg[o] >= 1 /\ reg[o] <= Regions
    BY <1>2, <1>5, <1>6, RegFacts DEF Needs, Rgns
  <2>1. g \notin over /\ (grp[g] = "wait" \/ (grp[g] = "summzing" /\ reg[o] >= r))
    BY <1>4, <1>16, <2>0
  <2>2. CASE Needs(o, g)
    <3>1. cells[g][o] > 0 \/ o \in mut[g] \/ <<o, g>> \in ssb  BY <1>1, <2>2 DEF Inv, SumInv
    <3> QED  BY <1>18, <1>23, <2>0, <2>1, <3>1
  <2>3. CASE ~Needs(o, g)
    <3>1. grp[g] = "summzing" /\ reg[o] >= r /\ reg[o] < pass.cursor
      BY <1>4, <2>0, <2>1, <2>3 DEF Needs
    <3>2. CASE <<o, g>> \in ssb  BY <3>2
    <3>3. CASE <<o, g>> \notin ssb
      <4>1. o \in rem /\ Crosses(reg, fld, o)
        BY <1>1, <2>0, <3>3 DEF Inv, RemInv, Crosses
      <4>2. Seen(o, r)  BY <1>12, <3>1, <4>1 DEF Seen
      <4>3. cells'[g][o] = cells[g][o] + 1  BY <1>18, <2>0, <2>1, <3>1, <4>2
      <4> QED  BY <1>23, <2>0, <4>3
    <3> QED  BY <3>2, <3>3
  <2> QED  BY <2>2, <2>3
<1>29. From(G, ref)'
  <2>1. ASSUME NEW o \in rem' PROVE Old(o) /\ (o \in G \/ ToForget(o, ref)')
    <3>1. o \in rem /\ Old(o) /\ (o \in G \/ ToForget(o, ref))  BY <1>7, <1>19, <2>1 DEF From
    <3>2. SUFFICES ASSUME o \notin G PROVE ToForget(o, ref)'  BY <3>1
    <3>3. o \in ref.unm /\ ~ref.passed /\ reg[o] < pass.cursor /\ ref.on  BY <1>10, <3>1, <3>2 DEF ToForget
    <3>4. o \notin Keeps  BY <1>11, <3>2
    <3>5. ~(reg[o] >= r)  BY <1>19, <2>1, <3>3, <3>4
    <3>6. reg[o] \in Int /\ reg[o] >= 1 /\ reg[o] < r  BY <1>4, <1>8, <3>1, <3>5
    <3>7. r > 1  BY <1>4, <3>6
    <3>8. f = ref  BY <1>13, <3>7
    <3>9. ref'.on /\ ref'.unm = ref.unm /\ ref'.passed = ref.passed
      BY <1>14, <3>3, <3>8 DEF Clears
    <3> QED  BY <1>5, <1>16, <3>3, <3>6, <3>7, <3>9 DEF ToForget
  <2>2. ASSUME NEW g \in Rgns, NEW o \in Objects, cells'[g][o] > 0 \/ o \in mut'[g]
        PROVE  Old(o) /\ HasSummary(grp', g) /\ (o \in G \/ g \in ref'.left)
    <3>1. g \notin over  BY <1>18, <2>2
    <3>2. CASE Seen(o, r) /\ grp[g] = "summzing"
      BY <1>8, <1>11, <1>16, <3>1, <3>2 DEF Seen, HasSummary
    <3>3. CASE cells[g][o] > 0 \/ o \in mut[g]
      <4>1. Old(o) /\ HasSummary(grp, g) /\ (o \in G \/ g \in ref.left)
        BY <1>7, <3>3 DEF From
      <4>2. g \in ref.left => g \in ref'.left
        <5>1. CASE ref'.on  BY <1>13, <1>14, <3>1, <5>1 DEF Clears
        <5>2. CASE ~ref'.on
          <6>1. ref.on => g \notin ref.left  BY <1>13, <1>14, <3>1, <5>2 DEF Clears
          <6> QED  BY <1>10, <6>1
        <5> QED  BY <5>1, <5>2
      <4> QED  BY <1>16, <3>1, <4>1, <4>2
    <3> QED  BY <1>18, <2>2, <3>1, <3>2, <3>3
  <2> QED  BY <1>5, <1>6, <1>7, <2>1, <2>2 DEF From
<1>30. Corpses(G, ref)'
  BY <1>5, <1>7, <1>14, <1>15 DEF Corpses, Clears
<1>31. Inv(G)'  BY <1>25, <1>26, <1>27, <1>28, <1>29, <1>30 DEF Inv
<1> QED  BY <1>21, <1>22, <1>24, <1>31 DEF IInv
-----------------------------------------------------------------------------
(* What a collection does that keeps K of region R and the nursery: over   *)
(* are the summaries that grew too large, e the state of refinement        *)
(* without what died, f without the summaries that are gone.               *)
Dies(o, R, K) == o \in Collected(R) /\ o \notin K
Adds(o, g, K, t) ==
  o \in K /\ Crosses(reg', fld', o) /\ reg'[fld'[o]] = g /\ TakesCopies(g, t)
Moves(R, t, K) ==
  /\ \A o \in Objects :
       /\ o \in K => reg'[o] = t /\ fld'[o] = fld[o] /\ o \in Collected(R)
       /\ Dies(o, R, K) => reg'[o] = Free /\ fld'[o] = Nil
       /\ o \notin Collected(R) => reg'[o] = reg[o] /\ fld'[o] = fld[o]
  /\ \A o : o \in rem' <=> (o \in rem /\ reg[o] # R) \/ (o \in K /\ Crosses(reg', fld', o))
  /\ reg' \in [Objects -> {Free} \cup 0 .. Regions] /\ fld' \in [Objects -> Objects \cup {Nil}]
  /\ nur' = {} /\ ssb = {} /\ UNCHANGED <<roots, ssb, pass>>
  /\ grp[t] = "unfilled" /\ t # R
Columns(R, t, K, over) ==
  /\ over \subseteq Rgns /\ \A g \in over : HasSummary(grp, g)
  /\ cells' \in [Rgns -> [Objects -> Nat]] /\ mut' \in [Rgns -> SUBSET Objects]
  /\ grp' \in [Rgns -> {"unfilled", "filled", "summzing", "wait", "star"}]
  /\ \A g \in Rgns :
       /\ g = t => grp'[g] \in {"unfilled", "filled"}
       /\ g = R => grp'[g] = "unfilled"
       /\ g # t /\ g # R => grp'[g] = IF g \in over THEN "star" ELSE grp[g]
  /\ \A g \in Rgns, o \in Objects :
       /\ g \in over \/ g = R => cells'[g][o] = 0 /\ o \notin mut'[g]
       /\ g \notin over /\ g # R =>
            /\ o \in mut'[g] <=> o \in mut[g] /\ reg[o] # R
            /\ Adds(o, g, K, t) => cells'[g][o] = (IF reg[o] = R THEN 0 ELSE cells[g][o]) + 1
            /\ ~Adds(o, g, K, t) => cells'[g][o] = IF reg[o] = R THEN 0 ELSE cells[g][o]
Forgets(R, K, e, f, over) ==
  /\ e \in Refinings /\ e.on = ref.on /\ e.passed = ref.passed /\ e.left = ref.left
  /\ \A o : o \in e.unm <=> o \in ref.unm /\ ~Dies(o, R, K)
  /\ Clears(f, e, over \cup {R}) /\ Refines(f, reg', fld', grp')

LEMMA CopyFacts ==
  ASSUME IInv, NEW R \in 0 .. Regions, NEW t \in Rgns, NEW locs, Copying(R, t, locs)
  PROVE  \E K, over, e, f : K = Kept(R, locs) /\ Moves(R, t, K) /\ Columns(R, t, K, over) /\ Forgets(R, K, e, f, over)
<1>1. TypeOK /\ ref \in Refinings  BY DEF IInv
<1>2. PICK G \in SUBSET Objects : Inv(G)  BY DEF IInv
<1> DEFINE K == Kept(R, locs)
           lost == Collected(R) \ K
           moved == [o \in Objects |-> IF o \in K THEN t ELSE IF o \in lost THEN Free ELSE reg[o]]
           h == [o \in Objects |-> IF o \in lost THEN Nil ELSE fld[o]]
           across == {o \in K : Crosses(moved, h, o)}
           into(g) == {o \in across : moved[h[o]] = g /\ TakesCopies(g, t)}
           cleared == ClearedRow(R, cells)
           copied == [g \in Rgns |-> [o \in Objects |-> cleared[g][o] + IF o \in into(g) THEN 1 ELSE 0]]
<1>3. /\ ssb = {} /\ grp[t] = "unfilled" /\ t # R
      /\ reg' = moved /\ fld' = h
      /\ rem' = {o \in rem : reg[o] # R} \union across
      /\ nur' = {}
      /\ \E over \in Overflowing(grp, {g \in Rgns \ {R} : into(g) # {}}) :
              /\ cells' = Dropped(copied, over \union {R})
              /\ mut' = [g \in Rgns |-> IF g \in over \union {R} THEN {} ELSE ClearedMut(R)[g]]
              /\ \E after \in {"unfilled", "filled"} :
                    /\ after = "filled" => t \in {moved[o] : o \in Objects}
                    /\ grp' = [g \in Rgns |-> IF g = t THEN after
                                              ELSE IF g = R THEN "unfilled"
                                              ELSE Risen(grp, over)[g]]
              /\ Refines(ClearedCol([ref EXCEPT !.unm = @ \ lost], over \union {R}), moved, h, grp')
      /\ UNCHANGED <<roots, ssb, pass>>
  BY DEF Copying
<1>4. K \subseteq Collected(R)  BY DEF Kept
<1> HIDE DEF K
<1>5. Moves(R, t, K)
  <2>1. \A o \in Objects :
       /\ o \in K => reg'[o] = t /\ fld'[o] = fld[o] /\ o \in Collected(R)
       /\ Dies(o, R, K) => reg'[o] = Free /\ fld'[o] = Nil
       /\ o \notin Collected(R) => reg'[o] = reg[o] /\ fld'[o] = fld[o]
    BY <1>3, <1>4 DEF Dies
  <2>2. across = {o \in K : Crosses(reg', fld', o)}  BY <1>3
  <2>3. \A o : o \in rem' <=> (o \in rem /\ reg[o] # R) \/ (o \in K /\ Crosses(reg', fld', o))
    <3> HIDE DEF across
    <3> QED  BY <1>3, <2>2
  <2>4. reg' \in [Objects -> {Free} \cup 0 .. Regions] /\ fld' \in [Objects -> Objects \cup {Nil}]
    <3>1. t \in 0 .. Regions  BY SummariesAssumption DEF Rgns
    <3> QED  BY <1>1, <1>3, <3>1 DEF TypeOK
  <2> QED  BY <1>3, <2>1, <2>3, <2>4 DEF Moves
<1>6. PICK over \in Overflowing(grp, {g \in Rgns \ {R} : into(g) # {}}) :
              /\ cells' = Dropped(copied, over \union {R})
              /\ mut' = [g \in Rgns |-> IF g \in over \union {R} THEN {} ELSE ClearedMut(R)[g]]
              /\ \E after \in {"unfilled", "filled"} :
                    /\ after = "filled" => t \in {moved[o] : o \in Objects}
                    /\ grp' = [g \in Rgns |-> IF g = t THEN after
                                              ELSE IF g = R THEN "unfilled"
                                              ELSE Risen(grp, over)[g]]
              /\ Refines(ClearedCol([ref EXCEPT !.unm = @ \ lost], over \union {R}), moved, h, grp')
  BY <1>3
<1>7. over \subseteq Rgns /\ \A g \in over : HasSummary(grp, g)
  BY <1>6 DEF Overflowing
<1>8. PICK after \in {"unfilled", "filled"} :
        grp' = [g \in Rgns |-> IF g = t THEN after ELSE IF g = R THEN "unfilled" ELSE Risen(grp, over)[g]]
  BY <1>6
<1>9. \A g \in Rgns : Risen(grp, over)[g] = IF g \in over THEN "star" ELSE grp[g]
  BY DEF Risen
<1>10. \A g \in Rgns : grp[g] \in {"unfilled", "filled", "summzing", "wait", "star"}
  BY <1>1 DEF TypeOK
<1>11. \A g, o : o \in into(g) <=> Adds(o, g, K, t)
  <2>1. \A o : o \in across <=> o \in K /\ Crosses(reg', fld', o)  BY <1>3
  <2> HIDE DEF across
  <2>2. \A g, o : o \in into(g) <=> o \in across /\ reg'[fld'[o]] = g /\ TakesCopies(g, t)
    BY <1>3
  <2> QED  BY <2>1, <2>2 DEF Adds
<1>12. PICK e : e = [ref EXCEPT !.unm = @ \ lost]  OBVIOUS
<1>13. PICK f : f = ClearedCol(e, over \cup {R})  OBVIOUS
<1>14. Refines(f, reg', fld', grp')  BY <1>3, <1>6, <1>12, <1>13
<1> HIDE DEF into, moved, h
<1>15. Columns(R, t, K, over)
  <2>1. \A g \in Rgns, o \in Objects : cells[g][o] \in Nat  BY <1>1 DEF TypeOK
  <2>2. \A g \in Rgns, o \in Objects : cleared[g][o] = IF reg[o] = R THEN 0 ELSE cells[g][o]
    BY DEF ClearedRow
  <2> HIDE DEF cleared
  <2>3. \A g \in Rgns, o \in Objects : cleared[g][o] \in Nat  BY <2>1, <2>2
  <2>4. \A g \in Rgns, o \in Objects : copied[g][o] = cleared[g][o] + IF o \in into(g) THEN 1 ELSE 0
    OBVIOUS
  <2>5. copied \in [Rgns -> [Objects -> Nat]]
    <3> SUFFICES ASSUME NEW g \in Rgns, NEW o \in Objects
                 PROVE  cleared[g][o] + (IF o \in into(g) THEN 1 ELSE 0) \in Nat
      OBVIOUS
    <3> QED  BY <2>3
  <2> HIDE DEF copied
  <2>6. cells' = [g \in Rgns |-> IF g \in over \union {R} THEN Empty ELSE copied[g]]
    BY <1>6 DEF Dropped
  <2>7. Empty \in [Objects -> Nat] /\ \A o \in Objects : Empty[o] = 0  BY DEF Empty
  <2>8. cells' \in [Rgns -> [Objects -> Nat]]  BY <2>5, <2>6, <2>7
  <2>9. mut' = [g \in Rgns |-> IF g \in over \union {R} THEN {} ELSE {o \in mut[g] : reg[o] # R}]
    BY <1>6 DEF ClearedMut
  <2>10. \A g \in Rgns : mut[g] \subseteq Objects  BY <1>1 DEF TypeOK
  <2>11. mut' \in [Rgns -> SUBSET Objects]  BY <2>9, <2>10
  <2>12. grp' \in [Rgns -> {"unfilled", "filled", "summzing", "wait", "star"}]
    BY <1>8, <1>9, <1>10
  <2>13. \A g \in Rgns :
       /\ g = t => grp'[g] \in {"unfilled", "filled"}
       /\ g = R => grp'[g] = "unfilled"
       /\ g # t /\ g # R => grp'[g] = IF g \in over THEN "star" ELSE grp[g]
    BY <1>3, <1>8, <1>9
  <2>14. \A g \in Rgns, o \in Objects :
       /\ g \in over \/ g = R => cells'[g][o] = 0 /\ o \notin mut'[g]
       /\ g \notin over /\ g # R =>
            /\ o \in mut'[g] <=> o \in mut[g] /\ reg[o] # R
            /\ Adds(o, g, K, t) => cells'[g][o] = (IF reg[o] = R THEN 0 ELSE cells[g][o]) + 1
            /\ ~Adds(o, g, K, t) => cells'[g][o] = IF reg[o] = R THEN 0 ELSE cells[g][o]
    <3> SUFFICES ASSUME NEW g \in Rgns, NEW o \in Objects
                 PROVE
       /\ g \in over \/ g = R => cells'[g][o] = 0 /\ o \notin mut'[g]
       /\ g \notin over /\ g # R =>
            /\ o \in mut'[g] <=> o \in mut[g] /\ reg[o] # R
            /\ Adds(o, g, K, t) => cells'[g][o] = (IF reg[o] = R THEN 0 ELSE cells[g][o]) + 1
            /\ ~Adds(o, g, K, t) => cells'[g][o] = IF reg[o] = R THEN 0 ELSE cells[g][o]
      OBVIOUS
    <3>1. CASE g \in over \/ g = R
      <4>1. cells'[g] = Empty /\ mut'[g] = {}  BY <2>6, <2>9, <3>1
      <4> QED  BY <2>7, <3>1, <4>1
    <3>2. CASE g \notin over /\ g # R
      <4>1. cells'[g][o] = copied[g][o]  BY <2>6, <3>2
      <4>2. mut'[g] = {p \in mut[g] : reg[p] # R}  BY <2>9, <3>2
      <4>3. PICK c \in Nat : c = cleared[g][o]  BY <2>3
      <4>4. copied[g][o] = c + IF o \in into(g) THEN 1 ELSE 0  BY <2>4, <4>3
      <4>5. Adds(o, g, K, t) => copied[g][o] = c + 1  BY <1>11, <4>4
      <4>6. ~Adds(o, g, K, t) => copied[g][o] = c  BY <1>11, <4>4
      <4> QED  BY <2>2, <3>2, <4>1, <4>2, <4>3, <4>5, <4>6
    <3> QED  BY <3>1, <3>2
  <2> QED  BY <1>7, <2>8, <2>11, <2>12, <2>13, <2>14 DEF Columns
<1>16. Forgets(R, K, e, f, over)
  <2>1. e \in Refinings /\ e.on = ref.on /\ e.passed = ref.passed /\ e.left = ref.left /\ e.unm = ref.unm \ lost
    BY <1>1, <1>12 DEF Refinings
  <2>2. ~e.on => e = NoRefining
    <3>1. ~ref.on => ref = NoRefining  BY <1>2 DEF Inv, Corpses
    <3> QED  BY <2>1, <3>1, NoRefiningFacts
  <2>3. Clears(f, e, over \cup {R})  BY <1>13, <2>1, <2>2, ClearedFacts
  <2>4. \A o : o \in e.unm <=> o \in ref.unm /\ ~Dies(o, R, K)  BY <2>1 DEF Dies
  <2> QED  BY <1>14, <2>1, <2>3, <2>4 DEF Forgets
<1>17. K = Kept(R, locs)  BY DEF K
<1> QED  BY <1>5, <1>15, <1>16, <1>17

(* What is kept is in G, and has what the roots and G point to in the      *)
(* collected areas.                                                        *)
KeepsWell(G, R, K) ==
  /\ K \subseteq G /\ K \subseteq Collected(R)
  /\ \A o \in roots : o \in Collected(R) => o \in K
  /\ \A o \in G : fld[o] \in Collected(R) /\ (o \in Collected(R) => o \in K) => fld[o] \in K

LEMMA KeptGood ==
  ASSUME TypeOK, NEW G, GoodSet(G), NEW R, NEW locs,
         \A o \in locs : o \in Objects /\ (fld[o] \in Collected(R) => fld[o] \in G),
         \A o \in G : o \notin Collected(R) /\ fld[o] \in Collected(R) => o \in locs,
         NEW K, K = Kept(R, locs)
  PROVE  KeepsWell(G, R, K)
<1>1. PICK S : S = roots \cup {fld[o] : o \in locs}  OBVIOUS
<1>2. PICK C : C = Collected(R) /\ C \subseteq Objects  BY DEF Collected
<1>3. PICK M : M = Reachable(fld, S, C)  OBVIOUS
<1>4. K = M \cap C  BY <1>1, <1>2, <1>3 DEF Kept
<1>5. Nil \notin Objects /\ roots \subseteq Objects /\ G \subseteq Objects
      /\ \A o \in Objects : fld[o] \in Objects \cup {Nil}
  BY SummariesAssumption DEF TypeOK, GoodSet, Heap
<1>6. /\ \A o \in S : o # Nil => o \in Objects
      /\ \A o \in Objects : fld[o] # Nil => fld[o] \in Objects
  BY <1>1, <1>5
<1>7. /\ \A o \in S : o # Nil => o \in M
      /\ \A o \in M : o \in C /\ fld[o] # Nil => fld[o] \in M
  BY <1>3, <1>6, ReachCloses
<1>8. M \subseteq {o \in Objects : o \in C => o \in G}
  <2>1. PICK X : X = {o \in Objects : o \in C => o \in G}  OBVIOUS
  <2>2. \A o \in S : o # Nil => o \in X
    BY <1>1, <1>2, <1>6, <2>1 DEF GoodSet
  <2>3. \A o \in X : o \in C /\ fld[o] # Nil => fld[o] \in X
    BY <1>6, <2>1 DEF GoodSet
  <2>4. Reachable(fld, S, C) \subseteq X  BY <2>2, <2>3, ReachWithin
  <2> QED  BY <1>3, <2>1, <2>4
<1>9. K \subseteq G /\ K \subseteq C  BY <1>4, <1>8
<1>10. \A o \in roots : o \in C => o \in K  BY <1>1, <1>4, <1>5, <1>7
<1>11. ASSUME NEW o \in G, fld[o] \in C, o \in C => o \in K PROVE fld[o] \in K
  <2>1. fld[o] # Nil  BY <1>2, <1>5, <1>11
  <2>2. CASE o \in C  BY <1>4, <1>7, <1>11, <2>1, <2>2
  <2>3. CASE o \notin C
    <3>1. o \in locs  BY <1>2, <1>11, <2>3
    <3>2. fld[o] \in S  BY <1>1, <3>1
    <3> QED  BY <1>4, <1>7, <1>11, <2>1, <3>2
  <2> QED  BY <2>2, <2>3
<1> QED  BY <1>2, <1>9, <1>10, <1>11 DEF KeepsWell

(* A collection keeps the invariant, with the part of G that survives or,  *)
(* when refinement starts, with what is alive in the snapshot.             *)
LEMMA CopyKeeps ==
  ASSUME ~MidPass, IInv, NEW G \in SUBSET Objects, Inv(G), NEW R \in 0 .. Regions, NEW t \in Rgns,
         NEW K, KeepsWell(G, R, K), NEW over, NEW e, NEW f,
         Moves(R, t, K), Columns(R, t, K, over), Forgets(R, K, e, f, over)
  PROVE  IInv'
<1>1. TypeOK /\ ref \in Refinings /\ CellInv /\ PassInv  BY DEF IInv
<1>2. GoodSet(G) /\ RemInv(G) /\ NurInv(G) /\ SumInv(G) /\ From(G, ref) /\ Corpses(G, ref)  BY DEF Inv
<1>3. /\ Regions \in Nat /\ Regions >= 2 /\ Fresh = Regions + 1
      /\ t \in 1 .. Regions /\ t # Free /\ t # 0 /\ t > 0 /\ Free # 0
      /\ pass.cursor \in 2 .. Fresh
  BY <1>1, SummariesAssumption DEF Free, Rgns, Fresh, TypeOK
<1>4. \A o \in Objects :
        /\ reg[o] \in Int /\ reg[o] <= Regions
        /\ InUse(reg, o) <=> (reg[o] = 0 \/ Old(o))
        /\ Old(o) => reg[o] \in Rgns /\ reg[o] # 0
        /\ reg[o] = 0 => ~Old(o)
  BY <1>1, RegFacts
<1>5. \A o \in Objects : o \in Collected(R) <=> InUse(reg, o) /\ (reg[o] = 0 \/ reg[o] = R)
  BY DEF Collected
<1>6. \A o \in Objects :
       /\ o \in K => reg'[o] = t /\ fld'[o] = fld[o] /\ o \in Collected(R)
       /\ Dies(o, R, K) => reg'[o] = Free /\ fld'[o] = Nil
       /\ o \notin Collected(R) => reg'[o] = reg[o] /\ fld'[o] = fld[o]
  BY DEF Moves
<1>7. /\ nur' = {} /\ ssb = {} /\ ssb' = {} /\ roots' = roots /\ pass' = pass
      /\ grp[t] = "unfilled" /\ t # R
      /\ \A o : o \in rem' <=> (o \in rem /\ reg[o] # R) \/ (o \in K /\ Crosses(reg', fld', o))
  BY DEF Moves
<1>8. /\ over \subseteq Rgns /\ \A g \in over : HasSummary(grp, g)
      /\ cells' \in [Rgns -> [Objects -> Nat]] /\ mut' \in [Rgns -> SUBSET Objects]
      /\ grp' \in [Rgns -> {"unfilled", "filled", "summzing", "wait", "star"}]
      /\ \A g \in Rgns :
           /\ g = t => grp'[g] \in {"unfilled", "filled"}
           /\ g = R => grp'[g] = "unfilled"
           /\ g # t /\ g # R => grp'[g] = IF g \in over THEN "star" ELSE grp[g]
  BY DEF Columns
<1>9. \A g \in Rgns, o \in Objects :
       /\ g \in over \/ g = R => cells'[g][o] = 0 /\ o \notin mut'[g]
       /\ g \notin over /\ g # R =>
            /\ o \in mut'[g] <=> o \in mut[g] /\ reg[o] # R
            /\ Adds(o, g, K, t) => cells'[g][o] = (IF reg[o] = R THEN 0 ELSE cells[g][o]) + 1
            /\ ~Adds(o, g, K, t) => cells'[g][o] = IF reg[o] = R THEN 0 ELSE cells[g][o]
  BY DEF Columns
<1>10. /\ e \in Refinings /\ e.on = ref.on /\ e.passed = ref.passed /\ e.left = ref.left
       /\ \A o : o \in e.unm <=> o \in ref.unm /\ ~Dies(o, R, K)
       /\ Clears(f, e, over \cup {R})
  BY DEF Forgets
<1>11. Refines(f, reg', fld', grp')  BY DEF Forgets
<1>12. /\ K \subseteq G /\ K \subseteq Collected(R) /\ Collected(R) \subseteq Objects
       /\ \A o \in roots : o \in Collected(R) => o \in K
       /\ \A o \in G : fld[o] \in Collected(R) /\ (o \in Collected(R) => o \in K) => fld[o] \in K
  BY DEF KeepsWell, Collected
(* The groups: a summary that is there afterwards was there before.        *)
<1>13. \A g \in Rgns : HasSummary(grp', g) =>
         g # t /\ g # R /\ g \notin over /\ grp'[g] = grp[g]
  BY <1>8 DEF HasSummary
<1>14. \A g \in Rgns : HasSummary(grp, g) /\ g # R /\ g \notin over =>
         g # t /\ grp'[g] = grp[g] /\ HasSummary(grp', g)
  BY <1>7, <1>8 DEF HasSummary
(* Where objects are: outside of the collected areas nothing moves.        *)
<1>15. \A o \in Objects : Old(o) /\ reg[o] # R => o \notin Collected(R) /\ reg'[o] = reg[o] /\ fld'[o] = fld[o] /\ Old(o)'
  BY <1>4, <1>5, <1>6 DEF Old
<1>16. \A o \in K : o \in Objects /\ o \in G /\ reg'[o] = t /\ fld'[o] = fld[o] /\ Old(o)'
  BY <1>3, <1>6, <1>12 DEF Old
<1>17. \A o \in Objects : reg'[o] # 0
  BY <1>3, <1>4, <1>5, <1>6 DEF Dies, InUse
<1>18. \A o \in Objects : InUse(reg', o) <=> InUse(reg, o) /\ ~Dies(o, R, K)
  <2> SUFFICES ASSUME NEW o \in Objects PROVE InUse(reg', o) <=> InUse(reg, o) /\ ~Dies(o, R, K)
    OBVIOUS
  <2>1. CASE o \in K  BY <1>3, <1>5, <1>6, <2>1 DEF InUse, Dies
  <2>2. CASE Dies(o, R, K)  BY <1>6, <2>2 DEF InUse
  <2>3. CASE o \notin Collected(R)  BY <1>6, <2>3 DEF InUse, Dies
  <2> QED  BY <2>1, <2>2, <2>3 DEF Dies
<1>19. reg' \in [Objects -> {Free} \cup 0 .. Regions] /\ fld' \in [Objects -> Objects \cup {Nil}]
  BY DEF Moves
<1>20. PICK G1 \in SUBSET Objects : G1 = {o \in G : ~Dies(o, R, K)}  OBVIOUS
<1>21. \A o \in G1 : /\ o \in G /\ o \in Objects
                     /\ fld'[o] = fld[o] /\ (fld[o] # Nil => fld[o] \in G1)
                     /\ o \notin K => o \notin Collected(R) /\ reg'[o] = reg[o] /\ Old(o) /\ reg[o] # R
  <2> SUFFICES ASSUME NEW o \in G1
               PROVE  /\ o \in G /\ o \in Objects
                      /\ fld'[o] = fld[o] /\ (fld[o] # Nil => fld[o] \in G1)
                      /\ o \notin K => o \notin Collected(R) /\ reg'[o] = reg[o] /\ Old(o) /\ reg[o] # R
    OBVIOUS
  <2>1. o \in G /\ o \in Objects /\ (o \in Collected(R) => o \in K)  BY <1>20 DEF Dies
  <2>2. fld'[o] = fld[o]  BY <1>6, <2>1
  <2>3. fld[o] # Nil => fld[o] \in G  BY <1>2, <2>1 DEF GoodSet
  <2>4. fld[o] \in Collected(R) => fld[o] \in K  BY <1>12, <2>1
  <2>5. fld[o] # Nil => fld[o] \in G1  BY <1>20, <2>3, <2>4 DEF Dies
  <2>6. o \notin K => o \notin Collected(R) /\ reg'[o] = reg[o] /\ Old(o) /\ reg[o] # R
    <3>1. InUse(reg, o)  BY <1>2, <2>1 DEF GoodSet, Heap
    <3>2. o \notin K => o \notin Collected(R) /\ reg'[o] = reg[o]  BY <1>6, <2>1
    <3> QED  BY <1>4, <1>5, <2>1, <3>1, <3>2
  <2> QED  BY <2>1, <2>2, <2>5, <2>6
<1>22. K \subseteq G1  BY <1>12, <1>20 DEF Dies
<1>23. GoodSet(G1)'
  <2>1. G1 \subseteq Heap'
    BY <1>2, <1>18, <1>20 DEF GoodSet, Heap
  <2>2. roots' \subseteq G1
    BY <1>2, <1>7, <1>12, <1>20 DEF GoodSet, Dies
  <2> QED  BY <1>17, <1>21, <2>1, <2>2 DEF GoodSet
<1>24. RemInv(G1)'
  <2> SUFFICES ASSUME NEW o \in G1, Crosses(reg', fld', o) PROVE o \in rem'
    BY DEF RemInv
  <2>1. CASE o \in K  BY <1>7, <2>1
  <2>2. CASE o \notin K
    <3>1. /\ o \in G /\ o \in Objects /\ fld'[o] = fld[o] /\ o \notin Collected(R) /\ reg'[o] = reg[o]
          /\ Old(o) /\ reg[o] # R /\ fld[o] # Nil /\ fld[o] \in Objects
      BY <1>21, <2>2 DEF Crosses
    <3>2. Crosses(reg, fld, o)
      <4>1. CASE fld[o] \in Collected(R)
        BY <1>4, <1>5, <3>1, <4>1 DEF Crosses
      <4>2. CASE fld[o] \notin Collected(R)
        BY <1>6, <3>1, <4>2 DEF Crosses
      <4> QED  BY <4>1, <4>2
    <3> QED  BY <1>2, <1>7, <3>1, <3>2 DEF RemInv
  <2> QED  BY <2>1, <2>2
<1>25. NurInv(G1)'
  <2>1. \A o \in G1 : fld'[o] # Nil => fld'[o] \in Objects  BY <1>21
  <2> QED  BY <1>17, <2>1 DEF NurInv
<1>26. \A g \in Rgns, o \in Objects : cells[g][o] \in Nat
  BY <1>1 DEF TypeOK
<1>27. SumInv(G1)'
  <2> SUFFICES ASSUME NEW o \in G1, NEW g \in Rgns, Needs(o, g)'
               PROVE  cells'[g][o] > 0 \/ o \in mut'[g]
    BY DEF SumInv
  <2>1. /\ fld'[o] # Nil /\ reg'[fld'[o]] = g /\ reg'[o] # g
        /\ grp'[g] = "wait" \/ (grp'[g] = "summzing" /\ reg'[o] >= pass'.cursor)
    BY DEF Needs
  <2>2. /\ o \in G /\ o \in Objects /\ fld'[o] = fld[o] /\ fld[o] \in G1 /\ fld[o] \in Objects
    BY <1>21, <2>1
  <2>3. g # t /\ g # R /\ g \notin over /\ grp'[g] = grp[g]  BY <1>13, <2>1 DEF HasSummary
  <2>4. fld[o] \notin K /\ reg[fld[o]] = g  BY <1>16, <1>21, <2>1, <2>2, <2>3
  <2>5. CASE o \in K
    <3>1. reg'[o] = t /\ Crosses(reg', fld', o)  BY <1>16, <2>1, <2>5 DEF Crosses
    <3>2. TakesCopies(g, t)  BY <1>7, <2>1, <2>3, <3>1 DEF TakesCopies
    <3>3. Adds(o, g, K, t)  BY <2>1, <2>5, <3>1, <3>2 DEF Adds
    <3>4. cells'[g][o] = (IF reg[o] = R THEN 0 ELSE cells[g][o]) + 1  BY <1>9, <2>2, <2>3, <3>3
    <3> QED  BY <1>26, <2>2, <3>4
  <2>6. CASE o \notin K
    <3>1. reg'[o] = reg[o] /\ Old(o) /\ reg[o] # R  BY <1>21, <2>6
    <3>2. Needs(o, g)  BY <1>7, <2>1, <2>2, <2>3, <2>4, <3>1 DEF Needs
    <3>3. cells[g][o] > 0 \/ o \in mut[g]  BY <1>2, <1>7, <2>2, <3>2 DEF SumInv
    <3>4. ~Adds(o, g, K, t)  BY <2>6 DEF Adds
    <3> QED  BY <1>9, <2>2, <2>3, <3>1, <3>3, <3>4
  <2> QED  BY <2>5, <2>6
<1>28. ~ref.on => ref.unm = {} /\ ref.left = {} /\ ref = NoRefining
  BY <1>2 DEF Corpses, NoRefining
<1>29. f.on => ref.on /\ f.unm = e.unm /\ f.passed = ref.passed
               /\ \A g \in Rgns : g \in ref.left => g \in f.left \/ g \in over \/ g = R
  BY <1>10 DEF Clears
<1>30. f \in Refinings /\ \A g \in Rgns : g \in f.left => g \in ref.left /\ g \notin over /\ g # R
  BY <1>10 DEF Clears
<1>31. ~f.on => f = NoRefining /\ (ref.on => ref.passed /\ \A g \in Rgns : g \in ref.left => g \in over \/ g = R)
  BY <1>10 DEF Clears
(* What the tables name afterwards.                                        *)
<1>32. ASSUME NEW o \in rem' PROVE o \in Objects /\ Old(o)' /\ (o \in G1 \/ (f.on /\ ToForget(o, f)'))
  <2>1. CASE o \in K  BY <1>16, <1>22, <2>1
  <2>2. CASE o \in rem /\ reg[o] # R
    <3>1. Old(o) /\ (o \in G \/ ToForget(o, ref)) /\ o \in Objects  BY <1>1, <1>2, <2>2 DEF From, TypeOK
    <3>2. o \notin Collected(R) /\ reg'[o] = reg[o] /\ Old(o)'  BY <1>15, <2>2, <3>1
    <3>3. ~Dies(o, R, K)  BY <3>2 DEF Dies
    <3>4. CASE o \in G  BY <1>20, <3>1, <3>2, <3>3, <3>4
    <3>5. CASE ToForget(o, ref)
      <4>1. o \in ref.unm /\ ~ref.passed /\ reg[o] < pass.cursor  BY <3>5 DEF ToForget
      <4>2. ref.on /\ f.on  BY <1>28, <1>31, <4>1
      <4>3. o \in f.unm /\ ~f.passed  BY <1>10, <1>29, <3>3, <4>1, <4>2
      <4> QED  BY <1>7, <3>1, <3>2, <4>1, <4>2, <4>3 DEF ToForget
    <3> QED  BY <3>1, <3>4, <3>5
  <2> QED  BY <1>7, <2>1, <2>2
<1>33. ASSUME NEW g \in Rgns, NEW o \in Objects, cells'[g][o] > 0 \/ o \in mut'[g]
       PROVE  Old(o)' /\ HasSummary(grp', g) /\ (o \in G1 \/ g \in f.left)
  <2>1. g \notin over /\ g # R  BY <1>9, <1>33
  <2>2. CASE Adds(o, g, K, t)
    <3>1. o \in K /\ HasSummary(grp, g)  BY <2>2 DEF Adds, TakesCopies, HasSummary
    <3> QED  BY <1>14, <1>16, <1>22, <2>1, <3>1
  <2>3. CASE reg[o] # R /\ (cells[g][o] > 0 \/ o \in mut[g])
    <3>1. Old(o) /\ HasSummary(grp, g) /\ (o \in G \/ g \in ref.left)  BY <1>2, <2>3 DEF From
    <3>2. o \notin Collected(R) /\ Old(o)'  BY <1>15, <2>3, <3>1
    <3>3. o \in G => o \in G1  BY <1>20, <3>2 DEF Dies
    <3>4. g \in ref.left => g \in f.left  BY <1>28, <1>29, <1>31, <2>1
    <3> QED  BY <1>14, <2>1, <3>1, <3>2, <3>3, <3>4
  <2>4. ASSUME ~Adds(o, g, K, t) PROVE reg[o] # R /\ (cells[g][o] > 0 \/ o \in mut[g])
    <3>1. cells'[g][o] = IF reg[o] = R THEN 0 ELSE cells[g][o]  BY <1>9, <2>1, <2>4
    <3>2. o \in mut'[g] <=> o \in mut[g] /\ reg[o] # R  BY <1>9, <2>1
    <3> QED  BY <1>33, <3>1, <3>2
  <2> QED  BY <2>2, <2>3, <2>4
<1>34. Corpses(G1, f)'
  <2>1. ASSUME f.on PROVE \A o \in Objects : InUse(reg', o) <=> (o \in G1 \/ o \in f.unm)
    BY <1>2, <1>10, <1>18, <1>20, <1>29, <2>1 DEF Corpses
  <2>2. ASSUME f.on PROVE \A o \in G1 : o \notin f.unm
    BY <1>2, <1>10, <1>20, <1>29, <2>2 DEF Corpses
  <2> QED  BY <1>31, <2>1, <2>2 DEF Corpses
<1>35. CellInv'
  <2> SUFFICES ASSUME NEW g \in Rgns, NEW o \in Objects
               PROVE  /\ cells'[g][o] <= 1
                      /\ grp'[g] = "summzing" /\ cells'[g][o] > 0 => reg'[o] >= pass'.cursor
    BY DEF CellInv
  <2>1. CASE g \in over \/ g = R  BY <1>9, <2>1
  <2>2. CASE g \notin over /\ g # R /\ Adds(o, g, K, t)
    <3>1. o \in K /\ reg'[o] = t  BY <1>16, <2>2 DEF Adds
    <3>2. reg[o] # R => cells[g][o] = 0
      <4>1. reg[o] # R => reg[o] = 0  BY <1>5, <1>12, <3>1
      <4>2. cells[g][o] > 0 => Old(o)  BY <1>2 DEF From
      <4> QED  BY <1>4, <1>26, <4>1, <4>2
    <3>3. cells'[g][o] = 1
      <4>1. cells'[g][o] = (IF reg[o] = R THEN 0 ELSE cells[g][o]) + 1  BY <1>9, <2>2
      <4> QED  BY <3>2, <4>1
    <3>4. grp'[g] = "summzing" => t >= pass.cursor
      <4>1. grp'[g] = "summzing" => grp[g] = "summzing"  BY <1>13 DEF HasSummary
      <4>2. TakesCopies(g, t)  BY <2>2 DEF Adds
      <4> QED  BY <4>1, <4>2 DEF TakesCopies
    <3> QED  BY <1>7, <3>1, <3>3, <3>4
  <2>3. CASE g \notin over /\ g # R /\ ~Adds(o, g, K, t)
    <3>1. cells'[g][o] = IF reg[o] = R THEN 0 ELSE cells[g][o]  BY <1>9, <2>3
    <3>2. cells[g][o] <= 1 /\ (grp[g] = "summzing" /\ cells[g][o] > 0 => reg[o] >= pass.cursor)
      BY <1>1 DEF CellInv
    <3>3. cells[g][o] > 0 /\ reg[o] # R => reg'[o] = reg[o]
      BY <1>2, <1>15 DEF From
    <3>4. grp'[g] = "summzing" => grp[g] = "summzing"  BY <1>13 DEF HasSummary
    <3> QED  BY <1>7, <3>1, <3>2, <3>3, <3>4
  <2> QED  BY <2>1, <2>2, <2>3
<1>36. PassInv'
  BY <1>1, <1>7, <1>13 DEF PassInv, HasSummary
<1>37. \A o \in rem' : o \in Objects  BY <1>32
<1>38. ASSUME ref' \in Refinings, \A g \in Rgns : g \in ref'.left => HasSummary(grp', g),
              NEW H \in SUBSET Objects, Inv(H)'
       PROVE  IInv'
  <2>1. rem' \subseteq Objects /\ nur' \subseteq Objects /\ roots' \subseteq Objects
    BY <1>1, <1>7, <1>37 DEF TypeOK
  <2>2. ref'.left \subseteq {g \in Rgns : HasSummary(grp', g)}
    BY <1>38 DEF Refinings
  <2>3. TypeOK'
    BY <1>1, <1>7, <1>8, <1>19, <2>1, <2>2 DEF TypeOK
  <2> QED  BY <1>35, <1>36, <1>38, <2>3 DEF IInv
<1>39. CASE ref' = f
  <2>1. \A g \in Rgns : g \in ref'.left => HasSummary(grp', g)
    BY <1>1, <1>14, <1>30, <1>39 DEF TypeOK
  <2>2. From(G1, ref)'
    BY <1>7, <1>32, <1>33, <1>39 DEF From, ToForget
  <2>3. Corpses(G1, ref)'  BY <1>34, <1>39 DEF Corpses
  <2>4. Inv(G1)'  BY <1>23, <1>24, <1>25, <1>27, <2>2, <2>3 DEF Inv
  <2> QED  BY <1>30, <1>38, <1>39, <2>1, <2>4
<1>40. CASE /\ ~f.on /\ pass.cursor = Fresh
            /\ ref' = [on |-> TRUE, unm |-> Unmarked(reg', fld'), passed |-> FALSE,
                       left |-> {g \in Rgns : HasSummary(grp', g)}]
  <2>1. PICK M : M = Reachable(fld', roots, Objects)  OBVIOUS
  <2>2. PICK U : U = {o \in Objects : InUse(reg', o) /\ o \notin M}  OBVIOUS
  <2>3. U = Unmarked(reg', fld')  BY <2>1, <2>2 DEF Unmarked
  <2>4. PICK L \in SUBSET Rgns : L = {g \in Rgns : HasSummary(grp', g)}  OBVIOUS
  <2>5. ref' = [on |-> TRUE, unm |-> U, passed |-> FALSE, left |-> L]
    BY <1>40, <2>3, <2>4
  <2>6. ref' \in Refinings /\ ref'.on /\ ref'.unm = U /\ ~ref'.passed /\ ref'.left = L
    BY <2>2, <2>5 DEF Refinings
  <2>7. \A o \in Objects : fld'[o] # Nil => fld'[o] \in Objects  BY <1>19
  <2>8. /\ \A o \in roots : o # Nil => o \in M
        /\ M \subseteq Objects
        /\ \A o \in M : o \in Objects /\ fld'[o] # Nil => fld'[o] \in M
    <3>1. PICK h : h = fld'  OBVIOUS
    <3>2. \A o \in roots : o # Nil => o \in Objects  BY <1>1 DEF TypeOK
    <3>3. \A o \in Objects : h[o] # Nil => h[o] \in Objects  BY <2>7, <3>1
    <3>4. M = Reachable(h, roots, Objects)  BY <2>1, <3>1
    <3>5. /\ \A o \in roots : o # Nil => o \in M
          /\ M \subseteq Objects
          /\ \A o \in M : o \in Objects /\ h[o] # Nil => h[o] \in M
      BY <3>2, <3>3, <3>4, ReachCloses
    <3> QED  BY <3>1, <3>5
  <2>9. M \subseteq G1
    <3>1. PICK h : h = fld'  OBVIOUS
    <3>2. \A o \in roots : o # Nil => o \in G1  BY <1>7, <1>23 DEF GoodSet
    <3>3. \A o \in G1 : o \in Objects /\ h[o] # Nil => h[o] \in G1  BY <1>21, <3>1
    <3>4. M = Reachable(h, roots, Objects)  BY <2>1, <3>1
    <3> QED  BY <3>2, <3>3, <3>4, ReachWithin
  <2>10. \A o \in G1 : InUse(reg', o)  BY <1>23 DEF GoodSet, Heap
  <2>11. GoodSet(M)'
    <3>1. roots' \subseteq M  BY <1>1, <1>7, <2>8, SummariesAssumption DEF TypeOK
    <3>2. M \subseteq Heap'  BY <2>8, <2>9, <2>10 DEF Heap
    <3> QED  BY <1>17, <2>8, <3>1, <3>2 DEF GoodSet
  <2>12. RemInv(M)' /\ NurInv(M)' /\ SumInv(M)'
    BY <1>24, <1>25, <1>27, <2>9 DEF RemInv, NurInv, SumInv
  <2>13. \A o \in rem' : Old(o)' /\ (o \in M \/ ToForget(o, ref)')
    <3> SUFFICES ASSUME NEW o \in rem' PROVE Old(o)' /\ (o \in M \/ ToForget(o, ref)')
      OBVIOUS
    <3>1. o \in Objects /\ Old(o)' /\ o \in G1  BY <1>32, <1>40
    <3>2. InUse(reg', o)  BY <2>10, <3>1
    <3>3. reg'[o] <= Regions /\ reg'[o] \in Int
      <4>1. PICK x \in {-1} \cup 0 .. Regions : x = reg'[o]  BY <1>19, <3>1 DEF Free
      <4> QED  BY <1>3, <4>1
    <3>4. reg'[o] < pass'.cursor  BY <1>3, <1>7, <1>40, <3>3
    <3> QED  BY <2>2, <2>6, <3>1, <3>2, <3>4 DEF ToForget
  <2>14. \A g \in Rgns, o \in Objects : cells'[g][o] > 0 \/ o \in mut'[g] =>
           Old(o)' /\ HasSummary(grp', g) /\ g \in ref'.left
    BY <1>33, <2>4, <2>6
  <2>15. From(M, ref)'  BY <1>7, <2>13, <2>14 DEF From
  <2>16. Corpses(M, ref)'
    <3>1. \A o \in Objects : InUse(reg', o) <=> (o \in M \/ o \in ref'.unm)
      BY <2>2, <2>6, <2>9, <2>10
    <3>2. \A o \in M : o \notin ref'.unm  BY <2>2, <2>6
    <3> QED  BY <2>6, <3>1, <3>2 DEF Corpses
  <2>17. Inv(M)'  BY <2>11, <2>12, <2>15, <2>16 DEF Inv
  <2>18. \A g \in Rgns : g \in ref'.left => HasSummary(grp', g)  BY <2>4, <2>6
  <2> QED  BY <1>38, <2>6, <2>8, <2>17, <2>18
<1> QED  BY <1>11, <1>39, <1>40 DEF Refines
-----------------------------------------------------------------------------
(* What a summary is filtered by: a location whose object the snapshot has *)
(* no mark for is left out if it points to an unmarked object.             *)
LEMMA FilteredFacts ==
  ASSUME NEW S, NEW o PROVE o \in Filtered(S) <=> o \in S /\ (ref.on => AliveInSnapshot(o))
BY DEF Filtered

(* The locations of a minor collection: all that points into the nursery.  *)
LEMMA MinorKeeps ==
  ASSUME ~MidPass, IInv, NEW t \in Rgns, Minor(t) PROVE IInv'
<1>1. PICK G \in SUBSET Objects : Inv(G)  BY DEF IInv
<1>2. TypeOK /\ GoodSet(G) /\ NurInv(G) /\ From(G, ref)  BY <1>1 DEF IInv, Inv
<1>3. PICK locs : locs = nur  OBVIOUS
<1>4. Copying(0, t, locs)  BY <1>3 DEF Minor
<1>5. 0 \in 0 .. Regions  BY SummariesAssumption
<1>6. PICK K, over, e, f : K = Kept(0, locs) /\ Moves(0, t, K) /\ Columns(0, t, K, over) /\ Forgets(0, K, e, f, over)
  BY <1>4, <1>5, CopyFacts
<1>7. ssb = {}  BY <1>6 DEF Moves
<1>8. \A o \in locs : o \in Objects /\ (fld[o] \in Collected(0) => fld[o] \in G)
  BY <1>2, <1>3, SummariesAssumption DEF From, GoodSet, Heap, Collected
<1>9. \A o \in G : o \notin Collected(0) /\ fld[o] \in Collected(0) => o \in locs
  <2> SUFFICES ASSUME NEW o \in G, o \notin Collected(0), fld[o] \in Collected(0) PROVE o \in nur
    BY <1>3
  <2>1. reg[fld[o]] = 0 /\ fld[o] # Nil  BY SummariesAssumption DEF Collected
  <2>2. InUse(reg, o) /\ o \in Objects  BY <1>2 DEF GoodSet, Heap
  <2>3. Old(o)  BY <1>2, <2>2, RegFacts DEF Collected
  <2> QED  BY <1>2, <1>7, <2>1, <2>3 DEF NurInv
<1>10. KeepsWell(G, 0, K)  BY <1>2, <1>6, <1>8, <1>9, KeptGood
<1> QED  BY <1>1, <1>5, <1>6, <1>10, CopyKeeps

(* The locations of a collection by summary: the summary has all of G that *)
(* points into the region, and filtering takes none of them, for what G    *)
(* points to is marked.                                                    *)
LEMMA MajorKeeps ==
  ASSUME ~MidPass, IInv, NEW R \in Rgns, NEW t \in Rgns, Major(R, t) PROVE IInv'
<1>1. PICK G \in SUBSET Objects : Inv(G)  BY DEF IInv
<1>2. TypeOK /\ GoodSet(G) /\ NurInv(G) /\ SumInv(G) /\ From(G, ref) /\ Corpses(G, ref)
  BY <1>1 DEF IInv, Inv
<1>3. PICK locs : locs = SummaryOf(R)  OBVIOUS
<1>4. grp[R] = "wait" /\ Copying(R, t, locs)  BY <1>3 DEF Major
<1>5. R \in 0 .. Regions  BY SummariesAssumption DEF Rgns
<1>6. PICK K, over, e, f : K = Kept(R, locs) /\ Moves(R, t, K) /\ Columns(R, t, K, over) /\ Forgets(R, K, e, f, over)
  BY <1>4, <1>5, CopyFacts
<1>7. ssb = {}  BY <1>6 DEF Moves
<1>8. PICK C : C = {o \in Objects : cells[R][o] > 0}  OBVIOUS
<1>9. locs = (nur \ mut[R]) \union Filtered(mut[R]) \union Filtered(C \ (mut[R] \union nur))
  BY <1>3, <1>8 DEF SummaryOf
<1>10. \A o : o \in locs <=> \/ o \in nur /\ o \notin mut[R]
                             \/ o \in mut[R] /\ (ref.on => AliveInSnapshot(o))
                             \/ o \in C /\ o \notin mut[R] /\ o \notin nur /\ (ref.on => AliveInSnapshot(o))
  BY <1>9, FilteredFacts
<1>11. \A o \in Objects : o \in C <=> cells[R][o] > 0  BY <1>8
<1>12. \A o \in Objects : o \in Collected(R) <=> InUse(reg, o) /\ (reg[o] = 0 \/ reg[o] = R)
  BY DEF Collected
<1>13. \A o \in Objects : fld[o] \in Objects \cup {Nil} /\ (reg[o] = 0 => o \in G)
  BY <1>2 DEF TypeOK, GoodSet
<1>14. C \subseteq Objects /\ Collected(R) \subseteq Objects /\ mut[R] \subseteq Objects /\ nur \subseteq Objects
  BY <1>2, <1>8 DEF Collected, TypeOK
<1>15. \A o \in locs : o \in Objects /\ (fld[o] \in Collected(R) => fld[o] \in G)
  <2> SUFFICES ASSUME NEW o \in locs, fld[o] \in Collected(R), o \in Objects PROVE fld[o] \in G
    BY <1>10, <1>14
  <2>1. fld[o] \in Objects /\ InUse(reg, fld[o]) /\ fld[o] # Nil  BY <1>12, <1>14, SummariesAssumption
  <2>2. CASE o \in G  BY <1>2, <2>1, <2>2 DEF GoodSet
  <2>3. CASE o \notin G
    <3>1. o \notin nur /\ (o \in mut[R] \/ o \in C)  BY <1>2, <1>10, <2>3 DEF From
    <3>2. R \in ref.left  BY <1>2, <1>11, <2>3, <3>1 DEF From
    <3>3. ref.on  BY <1>2, <3>2 DEF Corpses, NoRefining
    <3>4. reg[fld[o]] = 0 \/ fld[o] \notin ref.unm  BY <1>10, <3>1, <3>3 DEF AliveInSnapshot
    <3> QED  BY <1>2, <1>13, <2>1, <3>3, <3>4 DEF Corpses
  <2> QED  BY <2>2, <2>3
<1>16. \A o \in G : o \notin Collected(R) /\ fld[o] \in Collected(R) => o \in locs
  <2> SUFFICES ASSUME NEW o \in G, o \notin Collected(R), fld[o] \in Collected(R) PROVE o \in locs
    OBVIOUS
  <2>1. o \in Objects /\ InUse(reg, o) /\ fld[o] \in Objects /\ fld[o] # Nil /\ fld[o] \in G
    BY <1>2, <1>14, SummariesAssumption DEF GoodSet, Heap
  <2>2. Old(o) /\ reg[o] # R /\ (reg[fld[o]] = 0 \/ reg[fld[o]] = R)  BY <1>2, <1>12, <2>1, RegFacts
  <2>3. ref.on => AliveInSnapshot(o)  BY <1>2, <2>1 DEF Corpses, AliveInSnapshot
  <2>4. CASE reg[fld[o]] = 0
    <3>1. o \in nur  BY <1>2, <1>7, <2>1, <2>2, <2>4 DEF NurInv
    <3> QED  BY <1>10, <2>3, <3>1
  <2>5. CASE reg[fld[o]] = R
    <3>1. Needs(o, R)  BY <1>4, <2>1, <2>2, <2>5 DEF Needs
    <3>2. o \in C \/ o \in mut[R]  BY <1>2, <1>7, <1>11, <2>1, <3>1 DEF SumInv
    <3> QED  BY <1>10, <2>3, <3>2
  <2> QED  BY <2>2, <2>4, <2>5
<1>17. KeepsWell(G, R, K)  BY <1>2, <1>6, <1>15, <1>16, KeptGood
<1> QED  BY <1>1, <1>5, <1>6, <1>17, CopyKeeps

(* A region without a summary is collected by the remembered set, outside  *)
(* of refinement, when no corpses are remembered.                          *)
LEMMA MajorWithoutKeeps ==
  ASSUME ~MidPass, ~Unsummarized, IInv, NEW R \in Rgns, NEW t \in Rgns, MajorWithout(R, t) PROVE IInv'
<1>1. PICK G \in SUBSET Objects : Inv(G)  BY DEF IInv
<1>2. TypeOK /\ GoodSet(G) /\ RemInv(G) /\ From(G, ref) /\ Corpses(G, ref)
  BY <1>1 DEF IInv, Inv
<1>3. PICK locs : locs = RemsetFor(R)  OBVIOUS
<1>4. ~ref.on /\ Copying(R, t, locs)  BY <1>3 DEF MajorWithout
<1>5. R \in 0 .. Regions  BY SummariesAssumption DEF Rgns
<1>6. PICK K, over, e, f : K = Kept(R, locs) /\ Moves(R, t, K) /\ Columns(R, t, K, over) /\ Forgets(R, K, e, f, over)
  BY <1>4, <1>5, CopyFacts
<1>7. ssb = {}  BY <1>6 DEF Moves
<1>8. \A o : o \in locs <=> o \in rem /\ reg[o] # R  BY <1>3 DEF RemsetFor
<1>9. ref.unm = {}  BY <1>2, <1>4 DEF Corpses, NoRefining
<1>10. \A o \in locs : o \in Objects /\ (fld[o] \in Collected(R) => fld[o] \in G)
  <2> SUFFICES ASSUME NEW o \in locs PROVE o \in Objects /\ (fld[o] \in Collected(R) => fld[o] \in G)
    OBVIOUS
  <2>1. o \in G  BY <1>2, <1>8, <1>9 DEF From, ToForget
  <2> QED  BY <1>2, <2>1, SummariesAssumption DEF GoodSet, Heap, Collected
<1>11. \A o \in G : o \notin Collected(R) /\ fld[o] \in Collected(R) => o \in locs
  <2> SUFFICES ASSUME NEW o \in G, o \notin Collected(R), fld[o] \in Collected(R) PROVE o \in locs
    OBVIOUS
  <2>1. o \in Objects /\ InUse(reg, o) /\ fld[o] # Nil
    BY <1>2, SummariesAssumption DEF GoodSet, Heap, Collected
  <2>2. Old(o) /\ reg[o] # R /\ reg[o] # 0  BY <1>2, <2>1, RegFacts DEF Collected
  <2>3. Crosses(reg, fld, o)  BY <2>1, <2>2 DEF Crosses, Collected
  <2> QED  BY <1>2, <1>7, <1>8, <2>2, <2>3 DEF RemInv
<1>12. KeepsWell(G, R, K)  BY <1>2, <1>6, <1>10, <1>11, KeptGood
<1> QED  BY <1>1, <1>5, <1>6, <1>12, CopyKeeps
-----------------------------------------------------------------------------
LEMMA StepKeeps ==
  ASSUME ~MidPass, ~Unsummarized, ~LateRest, IInv, [Next]_vars PROVE IInv'
<1>1. CASE UNCHANGED vars
  <2>1. PICK G \in SUBSET Objects : Inv(G)  BY DEF IInv
  <2>2. Inv(G)'
    BY <1>1, <2>1 DEF vars, Inv, GoodSet, RemInv, NurInv, SumInv, From, Corpses, Needs, ToForget, Old, Heap
  <2>3. (TypeOK /\ ref \in Refinings /\ CellInv /\ PassInv)'
    BY <1>1 DEF vars, IInv, TypeOK, CellInv, PassInv
  <2> QED  BY <2>2, <2>3 DEF IInv
<1>2. ASSUME NEW o \in Objects, Drop(o) PROVE IInv'  BY <1>2, DropKeeps
<1>3. ASSUME NEW o \in Objects, NEW v \in Objects \cup {Nil}, Alloc(o, v) PROVE IInv'  BY <1>3, AllocKeeps
<1>4. ASSUME NEW o \in Objects, NEW v \in Objects \cup {Nil}, Store(o, v) PROVE IInv'  BY <1>4, StoreKeeps
<1>5. ASSUME NEW g \in 0 .. Regions, Flush(g) PROVE IInv'  BY <1>5, FlushKeeps
<1>6. CASE StartWave  BY <1>6, StartWaveKeeps
<1>7. CASE ScanRows  BY <1>7, ScanRowsKeeps
<1>8. ASSUME NEW t \in Rgns, Minor(t) PROVE IInv'  BY <1>8, MinorKeeps
<1>9. ASSUME NEW t \in Rgns, NEW R \in Rgns, Major(R, t) PROVE IInv'  BY <1>9, MajorKeeps
<1>10. ASSUME NEW t \in Rgns, NEW R \in Rgns, MajorWithout(R, t) PROVE IInv'  BY <1>10, MajorWithoutKeeps
<1> QED  BY <1>1, <1>2, <1>3, <1>4, <1>5, <1>6, <1>7, <1>8, <1>9, <1>10 DEF Next

Hypotheses == ~MidPass /\ ~Unsummarized /\ ~LateRest
LEMMA Invariant == ASSUME Hypotheses PROVE Spec => []IInv
<1>1. Init => IInv  BY InitGood
<1>2. IInv /\ [Next]_vars => IInv'  BY StepKeeps DEF Hypotheses
<1> QED  BY <1>1, <1>2, PTL DEF Spec

(* A summary that is used, and what is done of one that is being made,     *)
(* names every location of a reachable object that points into its region, *)
(* each once, whatever the program stores and the collector moves between  *)
(* the scans (sm_build_summaries_by_scanning, sm_add_ssb_elems_to_summary, *)
(* sm_points_across_callback).                                             *)
THEOREM SummariesStayComplete == ASSUME Hypotheses PROVE Spec => []SummariesComplete
<1>1. IInv => SummariesComplete  BY Shows
<1> QED  BY <1>1, Invariant, PTL

(* No collection of the nursery, of a region by its summary or of one by   *)
(* the remembered set takes an object that the program can reach.          *)
THEOREM NothingIsLost == ASSUME Hypotheses PROVE Spec => []NothingLost
<1>1. IInv => NothingLost  BY Shows
<1> QED  BY <1>1, Invariant, PTL

(* What is remembered and not unmarked is in the heap and points into it:  *)
(* refinement has forgotten the other corpses when the snapshot is         *)
(* discarded (struct refining of summ_matrix.c).                           *)
THEOREM RemsetStaysSound == ASSUME Hypotheses PROVE Spec => []RemsetSound
<1>1. IInv => RemsetSound  BY Shows
<1> QED  BY <1>1, Invariant, PTL
=============================================================================
