------------------------ MODULE SnapshotMarkerProofs ------------------------
(***************************************************************************)
(* Proofs about the incremental marker of smircy.c, for every finite       *)
(* number of objects of any size, of regions and of roots, for any depth   *)
(* of the marker's stacks and any window of large objects.  ~LateStatic    *)
(* leaves out the objects that allocate_nonmoving makes while a marker     *)
(* runs: the code does not mark those, and what is proved here fails.      *)
(*                                                                         *)
(* The invariant IInv has four parts.  TypeInv says of what kind each      *)
(* variable is.  ContextOK is about a marker alone: what is on its stacks  *)
(* is marked and in the heap, and the thread of each region links exactly  *)
(* the entries of its objects, newest first.  StageInv is the order of     *)
(* the phases.  MarkInv names two sets of objects: All, which the          *)
(* remembered set is good for, and Snap, which the marker covers; both     *)
(* hold all that the program can reach, and no pointer leads out of        *)
(* either.  While marks are made, Snap is covered if every set that holds  *)
(* what the marker has yet to look at, and that no pointer between         *)
(* unmarked objects leads out of, has the unmarked objects of Snap.  So a  *)
(* step keeps the invariant if each such set of the new state is, with     *)
(* what the step marked, such a set of the old one; paths need no          *)
(* induction.                                                              *)
(*                                                                         *)
(* Lemmas about the operators come first (folds, threads, reachability),   *)
(* then what each operation does to a marker, then one lemma per action.   *)
(***************************************************************************)
EXTENDS MCSnapshotMarker, SequenceTheorems, FiniteSetTheorems, WellFoundedInduction, TLAPS

Gens == 1 .. MaxRegions + 1
Kept(o) == gen[o] # Free
Nursery == {o \in Objects : gen[o] = 0}

(* Of the positions E of a stack, p is the last one before n, or 0.        *)
LastBefore(E, n, p) == p \in E \cup {0} /\ p < n /\ \A m \in E : m < n => m <= p

(* The positions of the entries of one region, and the threads through     *)
(* them: the head is the last entry, each links to the one before it.      *)
StackOn(c, g, r) == {n \in DOMAIN c.stack : c.stack[n].val # Nil /\ g[c.stack[n].val] = r}
LosOn(c, g, r)   == {n \in DOMAIN c.los : c.los[n].obj # Nil /\ g[c.los[n].obj] = r}
Threaded(E, seq, head) ==
  /\ E \subseteq 1 .. Len(seq) /\ LastBefore(E, Len(seq) + 1, head)
  /\ \A n \in E : LastBefore(E, n, seq[n].next)

(* What a marker's context is, if g tells where objects are: an entry is   *)
(* of a marked object that is in a region or static.                       *)
Entry    == [val : Objects \cup {Nil}, next : Nat]
LosEntry == [obj : Objects \cup {Nil}, index : Nat \ {0}, next : Nat]
Stages   == {"none", "construction", "refinement", "completed"}
Context  == [stage : Stages, marked : SUBSET Objects,
             stack : Seq(Entry), head : [Gens -> Nat], seg : BOOLEAN,
             los : Seq(LosEntry), losHead : [Gens -> Nat], losSeg : BOOLEAN]
EntriesOK(c, g) ==
  /\ \A n \in DOMAIN c.stack : c.stack[n].val # Nil =>
       c.stack[n].val \in c.marked /\ g[c.stack[n].val] \in Gens
  /\ \A n \in DOMAIN c.los : c.los[n].obj # Nil =>
       /\ c.los[n].obj \in c.marked /\ g[c.los[n].obj] \in Gens
       /\ c.los[n].index <= Size[c.los[n].obj]
  /\ c.stack # << >> => c.seg
  /\ c.los # << >> => c.losSeg
ContextOK(c, g) ==
  /\ c \in Context /\ EntriesOK(c, g)
  /\ \A r \in Gens : /\ Threaded(StackOn(c, g, r), c.stack, c.head[r])
                     /\ Threaded(LosOn(c, g, r), c.los, c.losHead[r])

(* What the marker has yet to scan: objects on the stack, cursors, and the *)
(* pointers in either and in the log.                                      *)
Vals(c)   == {c.stack[n].val : n \in DOMAIN c.stack} \ {Nil}
Items(c)  == {<<c.los[n].obj, c.los[n].index>> : n \in {m \in DOMAIN c.los : c.los[m].obj # Nil}}
Ahead(c, f, log) ==
  (UNION {Targets(f, o) : o \in Vals(c)}) \cup log
    \cup ((UNION {{f[e[1]][i] : i \in e[2] .. Size[e[1]]} : e \in Items(c)}) \ {Nil})

(* X holds all that the marker is still going to mark.                     *)
White(c, g) == {o \in Objects : g[o] >= 1} \ c.marked
ToMark(X, c, g, f, log) ==
  /\ Ahead(c, f, log) \cap White(c, g) \subseteq X
  /\ \A x \in X \cap White(c, g) : Targets(f, x) \cap White(c, g) \subseteq X

(* A set of objects that no pointer leads out of, with what the program    *)
(* holds, all of the nursery, and every pointer across remembered.         *)
Sound(S) ==
  /\ S \subseteq Objects /\ roots \subseteq S /\ Nursery \subseteq S
  /\ \A o \in S : Kept(o) /\ Targets(field, o) \subseteq S
  /\ \A o \in S : Old(o) /\ PointsAcross(o, gen, field) => o \in remset

(* What refinement is about to drop from the remembered set.               *)
Dropped == {o \in remset : mk.stage = "refinement" /\ gen[o] <= cursor /\ o \notin mk.marked}

(* All is what the remembered set is good for, Snap what the marker covers:*)
(* while it makes marks those outside the nursery that it has not marked   *)
(* yet are to be marked, afterwards there are none.                        *)
MarkInv(All, Snap) ==
  /\ Sound(All) /\ Sound(Snap) /\ Snap \subseteq All /\ remset \ Dropped \subseteq All
  /\ mk.stage = "none" => \A o \in Objects : Kept(o) => o \in All
  /\ mk.stage # "none" => mk.marked \subseteq Snap
  /\ satb \subseteq Snap
  /\ mk.stage \in {"refinement", "completed"} =>
       All = Snap /\ \A o \in Snap : Old(o) => o \in mk.marked
  /\ mk.stage = "construction" =>
       \A X \in SUBSET Objects : ToMark(X, mk, gen, field, satb) =>
         \A o \in Snap : Old(o) => o \in mk.marked \cup X

TypeInv ==
  /\ gen \in [Objects -> Free .. MaxRegions + 1] /\ \A o \in Objects : gen[o] <= Static
  /\ field = [o \in Objects |-> field[o]]
  /\ \A o \in Objects : field[o] \in [Slots(o) -> Objects \cup {Nil}]
  /\ \A o \in Objects : gen[o] = Free => Targets(field, o) = {}
  /\ roots \subseteq Objects
  /\ remset \subseteq {o \in Objects : Old(o)} /\ satb \subseteq {o \in Objects : Old(o)}
  /\ mk.marked \subseteq {o \in Objects : Old(o)}
  /\ nrgn \in Regions .. MaxRegions /\ cursor \in 0 .. Static
  /\ phase \in {"mutate", "step"}

(* In which order the phases come.                                         *)
StageInv ==
  /\ mk.stage # "construction" => StackEmpty(mk) /\ satb = {}
  /\ phase = "step" => Nursery = {} /\ satb = {} /\ mk.stage \in {"construction", "refinement"}
  /\ phase = "mutate" /\ mk.stage = "construction" => mk.seg \/ mk.losSeg
  /\ mk.stage = "refinement" => cursor >= 1

IInv ==
  /\ TypeInv /\ ContextOK(mk, gen) /\ StageInv
  /\ \E All, Snap \in SUBSET Objects : MarkInv(All, Snap)
-----------------------------------------------------------------------------
(* A set of naturals has a least element: an induction over what follows   *)
(* takes the least counterexample.                                         *)
LEMMA LeastNat ==
  ASSUME NEW T, T \subseteq Nat, T # {}
  PROVE  \E n \in T : \A m \in T : n <= m
<1>1. IsWellFoundedOn(OpToRel(<, Nat), Nat)  BY NatLessThanWellFounded
<1>2. PICK n \in T : \A m \in T : ~ <<m, n>> \in OpToRel(<, Nat)
  BY <1>1, WFMin, Zenon
<1>3. \A m \in T : ~(m < n)  BY <1>2 DEF OpToRel
<1> QED  BY <1>3

(* There are finitely many objects.                                        *)
LEMMA ObjectsFinite == IsFiniteSet(Objects) /\ Cardinality(Objects) \in Nat
BY MarkerAssumption, FS_CardinalityType

(* Reach goes on from S along the pointers, as often as there are objects. *)
LEMMA ReachUnfold ==
  ASSUME NEW S, NEW f, NEW D
  PROVE  \E more :
           /\ more[0] = S /\ Reach(S, f, D) = more[Cardinality(Objects)]
           /\ \A n \in 1 .. Cardinality(Objects) :
                more[n] = more[n - 1] \cup UNION {Targets(f, o) : o \in more[n - 1] \cap D}
<1> DEFINE N == Cardinality(Objects)
           Far(R) == R \cup UNION {Targets(f, o) : o \in R \cap D}
           Is(h, n) == h = [i \in 0 .. n |-> IF i = 0 THEN S ELSE Far(h[i - 1])]
<1>1. \E h : Is(h, N)
  <2> DEFINE T == {n \in Nat : ~ \E h : Is(h, n)}
  <2> SUFFICES ASSUME T # {} PROVE FALSE  BY ObjectsFinite
  <2>1. PICK n \in T : \A m \in T : n <= m  BY LeastNat
  <2> HIDE DEF Far
  <2>2. n # 0
    <3>1. Is([i \in 0 .. 0 |-> S], 0)  OBVIOUS
    <3> QED  BY <2>1, <3>1
  <2>3. PICK h : Is(h, n - 1)
    <3> HIDE DEF Is
    <3>1. n \in Nat /\ n - 1 \in Nat  BY <2>1, <2>2
    <3>2. n - 1 \notin T  BY <2>1, <3>1
    <3> QED  BY <3>1, <3>2
  <2>4. Is([i \in 0 .. n |-> IF i < n THEN h[i] ELSE Far(h[n - 1])], n)
    BY <2>1, <2>2, <2>3
  <2> QED  BY <2>1, <2>4
<1>2. Reach(S, f, D) = (CHOOSE h : Is(h, N))[N]  BY DEF Reach
<1>3. PICK h : h = (CHOOSE g : Is(g, N))  OBVIOUS
<1>4. Is(h, N)
  <2> HIDE DEF Is
  <2> QED  BY <1>1, <1>3
<1>5. h[0] = S /\ \A n \in 1 .. N : h[n] = Far(h[n - 1])
  <2> HIDE DEF Far
  <2> QED  BY <1>4, ObjectsFinite
<1> QED  BY <1>2, <1>3, <1>5

(* It stays in every set that holds S and that no pointer leads out of,    *)
(* and no pointer leads out of it.                                         *)
LEMMA ReachWithin ==
  ASSUME NEW S, NEW f, NEW D, NEW X, S \subseteq X,
         \A o \in X \cap D : Targets(f, o) \subseteq X
  PROVE  Reach(S, f, D) \subseteq X
<1> DEFINE N == Cardinality(Objects)
<1>1. PICK more :
        /\ more[0] = S /\ Reach(S, f, D) = more[N]
        /\ \A n \in 1 .. N : more[n] = more[n - 1] \cup UNION {Targets(f, o) : o \in more[n - 1] \cap D}
  BY ReachUnfold
<1> DEFINE T == {n \in 0 .. N : ~(more[n] \subseteq X)}
<1>2. ASSUME T # {} PROVE FALSE
  <2>1. T \subseteq Nat  BY ObjectsFinite
  <2>2. PICK n \in T : \A m \in T : n <= m  BY <1>2, <2>1, LeastNat
  <2>3. n # 0  BY <1>1, <2>2
  <2>4. n \in 1 .. N /\ n - 1 \in 0 .. N /\ n - 1 \notin T  BY <2>2, <2>3, ObjectsFinite
  <2>5. more[n - 1] \subseteq X  BY <2>4
  <2>6. more[n] = more[n - 1] \cup UNION {Targets(f, o) : o \in more[n - 1] \cap D}  BY <1>1, <2>4
  <2> QED  BY <2>2, <2>5, <2>6
<1> QED  BY <1>1, <1>2, ObjectsFinite

(* What Reach finds holds S, and no pointer from D leads out of it.        *)
LEMMA ReachCloses ==
  ASSUME NEW S \in SUBSET Objects, NEW f, NEW D,
         \A o \in Objects : Targets(f, o) \subseteq Objects
  PROVE  /\ S \subseteq Reach(S, f, D) /\ Reach(S, f, D) \subseteq Objects
         /\ \A o \in Reach(S, f, D) \cap D : Targets(f, o) \subseteq Reach(S, f, D)
<1> DEFINE N == Cardinality(Objects)
<1>1. PICK more :
        /\ more[0] = S /\ Reach(S, f, D) = more[N]
        /\ \A n \in 1 .. N : more[n] = more[n - 1] \cup UNION {Targets(f, o) : o \in more[n - 1] \cap D}
  BY ReachUnfold
<1> DEFINE Closed(R) == \A o \in R \cap D : Targets(f, o) \subseteq R
<1>2. \A n \in 0 .. N : more[n] \subseteq Objects /\ S \subseteq more[n]
  <2> DEFINE T == {n \in 0 .. N : ~(more[n] \subseteq Objects /\ S \subseteq more[n])}
  <2> SUFFICES ASSUME T # {} PROVE FALSE  OBVIOUS
  <2>1. T \subseteq Nat  BY ObjectsFinite
  <2>2. PICK n \in T : \A m \in T : n <= m  BY <2>1, LeastNat
  <2>3. n # 0  BY <1>1, <2>2
  <2>4. n \in 1 .. N /\ n - 1 \in 0 .. N /\ n - 1 \notin T  BY <2>2, <2>3, ObjectsFinite
  <2>5. more[n] = more[n - 1] \cup UNION {Targets(f, o) : o \in more[n - 1] \cap D}  BY <1>1, <2>4
  <2> QED  BY <2>2, <2>4, <2>5
<1>3. \A n \in 0 .. N : n < N => n + 1 \in 1 .. N /\ (n + 1) - 1 = n  BY ObjectsFinite
<1>4. ASSUME NEW n \in 0 .. N, n < N, Closed(more[n]) PROVE more[n + 1] = more[n]
  <2>1. more[n + 1] = more[n] \cup UNION {Targets(f, o) : o \in more[n] \cap D}  BY <1>1, <1>3, <1>4
  <2> QED  BY <1>4, <2>1
<1>5. Closed(more[N])
  <2> SUFFICES ASSUME ~Closed(more[N]) PROVE FALSE  OBVIOUS
  <2>1. \A n \in 0 .. N : ~Closed(more[n])
    <3> SUFFICES ASSUME NEW n \in 0 .. N, Closed(more[n]) PROVE FALSE  OBVIOUS
    <3> DEFINE T == {m \in 0 .. N : n <= m /\ more[m] # more[n]}
    <3>1. T \subseteq Nat /\ N \in T  BY ObjectsFinite
    <3>2. PICK m \in T : \A k \in T : m <= k  BY <3>1, LeastNat
    <3>3. m - 1 \in 0 .. N /\ n <= m - 1 /\ m - 1 < N /\ (m - 1) + 1 = m  BY <3>2, ObjectsFinite
    <3>4. m - 1 \notin T  BY <3>2, <3>3
    <3>5. more[m - 1] = more[n]  BY <3>3, <3>4
    <3>6. more[(m - 1) + 1] = more[m - 1]  BY <1>4, <3>3, <3>5
    <3> QED  BY <3>2, <3>3, <3>5, <3>6
  <2>2. \A n \in 0 .. N : IsFiniteSet(more[n]) /\ Cardinality(more[n]) \in Nat
    BY <1>2, FS_Subset, FS_CardinalityType, ObjectsFinite
  <2>3. \A n \in 0 .. N : n <= Cardinality(more[n])
    <3> DEFINE T == {n \in 0 .. N : ~(n <= Cardinality(more[n]))}
    <3> SUFFICES ASSUME T # {} PROVE FALSE  OBVIOUS
    <3>1. T \subseteq Nat  BY ObjectsFinite
    <3>2. PICK n \in T : \A m \in T : n <= m  BY <3>1, LeastNat
    <3>3. n # 0  BY <2>2, <3>2
    <3>4. n \in 1 .. N /\ n - 1 \in 0 .. N /\ n - 1 \notin T  BY <3>2, <3>3, ObjectsFinite
    <3>5. more[n] = more[n - 1] \cup UNION {Targets(f, o) : o \in more[n - 1] \cap D}  BY <1>1, <3>4
    <3>6. ~Closed(more[n - 1])  BY <2>1, <3>4
    <3>7. more[n - 1] \subseteq more[n] /\ more[n - 1] # more[n]
      BY <3>5, <3>6
    <3>8. /\ Cardinality(more[n - 1]) <= Cardinality(more[n])
          /\ Cardinality(more[n - 1]) # Cardinality(more[n])
      <4>1. IsFiniteSet(more[n]) /\ more[n - 1] \in SUBSET more[n]  BY <2>2, <3>4, <3>7
      <4> QED  BY <3>7, <4>1, FS_Subset
    <3> QED  BY <2>2, <3>2, <3>4, <3>8
  <2>4. more[N] = Objects
    <3>1. N \in 0 .. N  BY ObjectsFinite
    <3>2. Cardinality(more[N]) <= N  BY <1>2, <3>1, FS_Subset, ObjectsFinite
    <3>3. Cardinality(more[N]) = N  BY <2>2, <2>3, <3>1, <3>2
    <3> QED  BY <1>2, <3>1, <3>3, FS_Subset, ObjectsFinite
  <2> QED  BY <2>4
<1>6. N \in 0 .. N  BY ObjectsFinite
<1> QED  BY <1>1, <1>2, <1>5, <1>6

(* PushAll pushes one object after the other.                              *)
Pushes(c, g, os, d) == d[0] = c /\ \A n \in 1 .. Len(os) : d[n] = Push(d[n - 1], g, os[n])

(* PushAll, one push after the other.                                      *)
LEMMA PushAllUnfold ==
  ASSUME NEW c, NEW g, NEW os, Len(os) \in Nat
  PROVE  \E d : Pushes(c, g, os, d) /\ PushAll(c, g, os) = d[Len(os)]
<1> DEFINE Then(e, n) == Push(e, g, os[n])
           Is(h, n) == h = [i \in 0 .. n |-> IF i = 0 THEN c ELSE Then(h[i - 1], i)]
<1>1. \E h : Is(h, Len(os))
  <2> DEFINE T == {n \in Nat : ~ \E h : Is(h, n)}
  <2> SUFFICES ASSUME T # {} PROVE FALSE  OBVIOUS
  <2>1. PICK n \in T : \A m \in T : n <= m  BY LeastNat
  <2> HIDE DEF Then
  <2>2. n # 0
    <3>1. Is([i \in 0 .. 0 |-> c], 0)  OBVIOUS
    <3> QED  BY <2>1, <3>1
  <2>3. PICK h : Is(h, n - 1)
    <3> HIDE DEF Is
    <3>1. n \in Nat /\ n - 1 \in Nat  BY <2>1, <2>2
    <3>2. n - 1 \notin T  BY <2>1, <3>1
    <3> QED  BY <3>1, <3>2
  <2>4. Is([i \in 0 .. n |-> IF i < n THEN h[i] ELSE Then(h[n - 1], n)], n)
    BY <2>1, <2>2, <2>3
  <2> QED  BY <2>1, <2>4
<1>2. PushAll(c, g, os) = (CHOOSE h : Is(h, Len(os)))[Len(os)]  BY DEF PushAll
<1>3. PICK h : h = (CHOOSE e : Is(e, Len(os)))  OBVIOUS
<1>4. Is(h, Len(os))
  <2> HIDE DEF Is
  <2> QED  BY <1>1, <1>3
<1>5. h[0] = c /\ \A n \in 1 .. Len(os) : h[n] = Then(h[n - 1], n)
  <2> HIDE DEF Then
  <2> QED  BY <1>4
<1>6. /\ h[0] = c /\ PushAll(c, g, os) = h[Len(os)]
      /\ \A n \in 1 .. Len(os) : h[n] = Push(h[n - 1], g, os[n])
  BY <1>2, <1>3, <1>5
<1> QED  BY <1>6, Zenon DEF Pushes

(* PushAgain, one entry after the other.                                   *)
LEMMA PushAgainUnfold ==
  ASSUME NEW c, NEW g, NEW os, Len(os) \in Nat
  PROVE  \E d :
           /\ d[0] = c /\ PushAgain(c, g, os) = d[Len(os)]
           /\ \A n \in 1 .. Len(os) : d[n] = IF os[n].val = Nil THEN d[n - 1] ELSE ForciblyPush(d[n - 1], g, os[n].val)
<1> DEFINE Then(e, n) == IF os[n].val = Nil THEN e ELSE ForciblyPush(e, g, os[n].val)
           Is(h, n) == h = [i \in 0 .. n |-> IF i = 0 THEN c ELSE Then(h[i - 1], i)]
<1>1. \E h : Is(h, Len(os))
  <2> DEFINE T == {n \in Nat : ~ \E h : Is(h, n)}
  <2> SUFFICES ASSUME T # {} PROVE FALSE  OBVIOUS
  <2>1. PICK n \in T : \A m \in T : n <= m  BY LeastNat
  <2> HIDE DEF Then
  <2>2. n # 0
    <3>1. Is([i \in 0 .. 0 |-> c], 0)  OBVIOUS
    <3> QED  BY <2>1, <3>1
  <2>3. PICK h : Is(h, n - 1)
    <3> HIDE DEF Is
    <3>1. n \in Nat /\ n - 1 \in Nat  BY <2>1, <2>2
    <3>2. n - 1 \notin T  BY <2>1, <3>1
    <3> QED  BY <3>1, <3>2
  <2>4. Is([i \in 0 .. n |-> IF i < n THEN h[i] ELSE Then(h[n - 1], n)], n)
    BY <2>1, <2>2, <2>3
  <2> QED  BY <2>1, <2>4
<1>2. PushAgain(c, g, os) = (CHOOSE h : Is(h, Len(os)))[Len(os)]  BY DEF PushAgain
<1>3. PICK h : h = (CHOOSE e : Is(e, Len(os)))  OBVIOUS
<1>4. Is(h, Len(os))
  <2> HIDE DEF Is
  <2> QED  BY <1>1, <1>3
<1>5. h[0] = c /\ \A n \in 1 .. Len(os) : h[n] = Then(h[n - 1], n)
  <2> HIDE DEF Then
  <2> QED  BY <1>4
<1>6. /\ h[0] = c /\ PushAgain(c, g, os) = h[Len(os)]
      /\ \A n \in 1 .. Len(os) : h[n] = IF os[n].val = Nil THEN h[n - 1] ELSE ForciblyPush(h[n - 1], g, os[n].val)
  BY <1>2, <1>3, <1>5
<1> QED  BY <1>6

(* LosPushAgain, one entry after the other.                                *)
LEMMA LosPushAgainUnfold ==
  ASSUME NEW c, NEW g, NEW os, Len(os) \in Nat
  PROVE  \E d :
           /\ d[0] = c /\ LosPushAgain(c, g, os) = d[Len(os)]
           /\ \A n \in 1 .. Len(os) : d[n] = IF os[n].obj = Nil THEN d[n - 1] ELSE LosPush(d[n - 1], g, os[n].obj, os[n].index)
<1> DEFINE Then(e, n) == IF os[n].obj = Nil THEN e ELSE LosPush(e, g, os[n].obj, os[n].index)
           Is(h, n) == h = [i \in 0 .. n |-> IF i = 0 THEN c ELSE Then(h[i - 1], i)]
<1>1. \E h : Is(h, Len(os))
  <2> DEFINE T == {n \in Nat : ~ \E h : Is(h, n)}
  <2> SUFFICES ASSUME T # {} PROVE FALSE  OBVIOUS
  <2>1. PICK n \in T : \A m \in T : n <= m  BY LeastNat
  <2> HIDE DEF Then
  <2>2. n # 0
    <3>1. Is([i \in 0 .. 0 |-> c], 0)  OBVIOUS
    <3> QED  BY <2>1, <3>1
  <2>3. PICK h : Is(h, n - 1)
    <3> HIDE DEF Is
    <3>1. n \in Nat /\ n - 1 \in Nat  BY <2>1, <2>2
    <3>2. n - 1 \notin T  BY <2>1, <3>1
    <3> QED  BY <3>1, <3>2
  <2>4. Is([i \in 0 .. n |-> IF i < n THEN h[i] ELSE Then(h[n - 1], n)], n)
    BY <2>1, <2>2, <2>3
  <2> QED  BY <2>1, <2>4
<1>2. LosPushAgain(c, g, os) = (CHOOSE h : Is(h, Len(os)))[Len(os)]  BY DEF LosPushAgain
<1>3. PICK h : h = (CHOOSE e : Is(e, Len(os)))  OBVIOUS
<1>4. Is(h, Len(os))
  <2> HIDE DEF Is
  <2> QED  BY <1>1, <1>3
<1>5. h[0] = c /\ \A n \in 1 .. Len(os) : h[n] = Then(h[n - 1], n)
  <2> HIDE DEF Then
  <2> QED  BY <1>4
<1>6. /\ h[0] = c /\ LosPushAgain(c, g, os) = h[Len(os)]
      /\ \A n \in 1 .. Len(os) : h[n] = IF os[n].obj = Nil THEN h[n - 1] ELSE LosPush(h[n - 1], g, os[n].obj, os[n].index)
  BY <1>2, <1>3, <1>5
<1> QED  BY <1>6

(* The positions that the links from n lead to.                            *)
Follows(seq, from) ==
  /\ from[0] = << >>
  /\ \A n \in 1 .. Len(seq) : from[n] =
       <<n>> \o (IF seq[n].next \in 0 .. n - 1 THEN from[seq[n].next] ELSE << >>)

(* A thread whose links are in order visits exactly its entries.           *)
LEMMA ThreadUnfold ==
  ASSUME NEW seq, Len(seq) \in Nat, NEW first
  PROVE  \E from : Follows(seq, from) /\ Thread(seq, first) = from[first]
<1> DEFINE Then(e, n) == <<n>> \o (IF seq[n].next \in 0 .. n - 1 THEN e[seq[n].next] ELSE << >>)
           Is(h, n) == h = [i \in 0 .. n |-> IF i = 0 THEN << >> ELSE Then(h, i)]
<1>0. ASSUME NEW d, NEW e, NEW i, \A j \in 0 .. i - 1 : d[j] = e[j] PROVE Then(d, i) = Then(e, i)
  BY <1>0
<1>1. \E h : Is(h, Len(seq))
  <2> DEFINE T == {n \in Nat : ~ \E h : Is(h, n)}
  <2> SUFFICES ASSUME T # {} PROVE FALSE  OBVIOUS
  <2>1. PICK n \in T : \A m \in T : n <= m  BY LeastNat
  <2> HIDE DEF Then
  <2>2. n # 0
    <3>1. Is([i \in 0 .. 0 |-> << >>], 0)  OBVIOUS
    <3> QED  BY <2>1, <3>1
  <2>3. PICK h : Is(h, n - 1)
    <3> HIDE DEF Is
    <3>1. n \in Nat /\ n - 1 \in Nat  BY <2>1, <2>2
    <3>2. n - 1 \notin T  BY <2>1, <3>1
    <3> QED  BY <3>1, <3>2
  <2>4. PICK k : k = [i \in 0 .. n |-> IF i < n THEN h[i] ELSE Then(h, n)]  OBVIOUS
  <2>5. Is(k, n)
    <3>1. \A i \in 0 .. n - 1 : k[i] = h[i]  BY <2>1, <2>4
    <3>2. k[0] = << >> /\ DOMAIN k = 0 .. n
      <4>1. 0 \in 0 .. n - 1 /\ 0 \in 0 .. n  BY <2>1, <2>2
      <4> QED  BY <2>3, <2>4, <3>1, <4>1
    <3>3. ASSUME NEW i \in 1 .. n PROVE k[i] = Then(k, i)
      <4>1. \A j \in 0 .. i - 1 : k[j] = h[j]  BY <2>1, <3>1
      <4>2. Then(k, i) = Then(h, i)  BY <1>0, <4>1
      <4>3. CASE i = n  BY <2>1, <2>4, <4>2, <4>3
      <4>4. CASE i # n
        <5>1. i \in 0 .. n - 1 /\ i # 0  BY <2>1, <4>4
        <5>2. h[i] = Then(h, i)  BY <2>3, <5>1
        <5> QED  BY <3>1, <4>2, <5>1, <5>2
      <4> QED  BY <4>3, <4>4
    <3>4. \A i \in 0 .. n : i = 0 \/ i \in 1 .. n  BY <2>1
    <3>5. \A i \in 0 .. n : k[i] = IF i = 0 THEN << >> ELSE Then(k, i)  BY <3>2, <3>3, <3>4
    <3>6. k = [i \in 0 .. n |-> k[i]]  BY <2>4
    <3> QED  BY <3>5, <3>6
  <2> QED  BY <2>1, <2>5
<1>2. Thread(seq, first) = (CHOOSE h : Is(h, Len(seq)))[first]  BY DEF Thread
<1>3. PICK h : h = (CHOOSE e : Is(e, Len(seq)))  OBVIOUS
<1>4. Is(h, Len(seq))
  <2> HIDE DEF Is
  <2> QED  BY <1>1, <1>3
<1>5. h[0] = << >> /\ \A n \in 1 .. Len(seq) : h[n] = Then(h, n)
  <2> HIDE DEF Then
  <2> QED  BY <1>4
<1>6. /\ h[0] = << >> /\ Thread(seq, first) = h[first]
      /\ \A n \in 1 .. Len(seq) : h[n] =
           <<n>> \o (IF seq[n].next \in 0 .. n - 1 THEN h[seq[n].next] ELSE << >>)
  BY <1>2, <1>3, <1>5
<1> QED  BY <1>6, Zenon DEF Follows

(* The walk along a thread visits exactly its entries.                     *)
LEMMA ThreadVisits ==
  ASSUME NEW seq, Len(seq) \in Nat, NEW E \in SUBSET (1 .. Len(seq)), NEW first,
         LastBefore(E, Len(seq) + 1, first),
         \A n \in E : LastBefore(E, n, seq[n].next)
  PROVE  Thread(seq, first) \in Seq(E) /\ ToSet(Thread(seq, first)) = E
<1>1. PICK from : Follows(seq, from) /\ Thread(seq, first) = from[first]
  BY ThreadUnfold
<1> DEFINE UpTo(n) == {m \in E : m <= n}
           Good(n) == from[n] \in Seq(E) /\ ToSet(from[n]) = UpTo(n)
<1>0. \A n \in E : n \in Nat /\ n >= 1 /\ n <= Len(seq) /\ n \in 1 .. Len(seq)  OBVIOUS
<1>2. \A n \in E \cup {0} : Good(n)
  <2> DEFINE T == {n \in E \cup {0} : ~Good(n)}
  <2> SUFFICES ASSUME T # {} PROVE FALSE  OBVIOUS
  <2>1. T \subseteq Nat
    <3>1. E \cup {0} \subseteq Nat  BY <1>0
    <3> HIDE DEF Good
    <3> QED  BY <3>1, Zenon
  <2>2. PICK n \in T : \A m \in T : n <= m  BY <2>1, LeastNat
  <2>3. Good(0)
    <3>1. << >> \in Seq(E) /\ DOMAIN << >> = {}  BY EmptySeq, LenProperties
    <3>2. \A m \in E : ~(m <= 0)  BY <1>0
    <3>3. UpTo(0) = {}  BY <3>2
    <3> QED  BY <1>1, <3>1, <3>3 DEF ToSet, Follows
  <2>4. n \in E /\ n \in 1 .. Len(seq)  BY <1>0, <2>2, <2>3
  <2>5. PICK p : p = seq[n].next  OBVIOUS
  <2>6. p \in E \cup {0} /\ p < n /\ \A m \in E : m < n => m <= p  BY <2>4, <2>5 DEF LastBefore
  <2>7. p \in 0 .. n - 1  BY <1>0, <2>4, <2>6
  <2>8. Good(p)  BY <2>2, <2>4, <2>6
  <2>9. from[n] = <<n>> \o from[p]  BY <1>1, <2>4, <2>5, <2>7 DEF Follows
  <2>10. <<n>> \in Seq(E) /\ Len(<<n>>) = 1 /\ <<n>>[1] = n  BY <2>4
  <2>11. PICK t \in Seq(E) : t = from[p]  BY <2>8
  <2>12. PICK s : s = <<n>> \o t  OBVIOUS
  <2>13. /\ s \in Seq(E) /\ Len(s) = 1 + Len(t) /\ Len(t) \in Nat
         /\ \A i \in 1 .. 1 + Len(t) : s[i] = IF i <= 1 THEN n ELSE t[i - 1]
    BY <2>10, <2>12, ConcatProperties, LenProperties
  <2>14. DOMAIN s = 1 .. 1 + Len(t) /\ DOMAIN t = 1 .. Len(t)  BY <2>13, LenProperties
  <2>15. ToSet(s) = {n} \cup ToSet(t)
    <3>1. ToSet(s) \subseteq {n} \cup ToSet(t)
      <4> SUFFICES ASSUME NEW i \in 1 .. 1 + Len(t) PROVE s[i] \in {n} \cup ToSet(t)
        BY <2>14 DEF ToSet
      <4>1. CASE i = 1  BY <2>13, <4>1
      <4>2. CASE i # 1
        <5>1. i - 1 \in 1 .. Len(t)  BY <2>13, <4>2
        <5> QED  BY <2>13, <2>14, <4>2, <5>1 DEF ToSet
      <4> QED  BY <4>1, <4>2
    <3>2. n \in ToSet(s)
      <4>1. 1 \in 1 .. 1 + Len(t)  BY <2>13
      <4> QED  BY <2>13, <2>14, <4>1 DEF ToSet
    <3>3. ASSUME NEW i \in 1 .. Len(t) PROVE t[i] \in ToSet(s)
      <4>1. i + 1 \in 1 .. 1 + Len(t) /\ ~(i + 1 <= 1) /\ (i + 1) - 1 = i  BY <2>13
      <4>2. s[i + 1] = t[i]  BY <2>13, <4>1
      <4> QED  BY <2>14, <4>1, <4>2 DEF ToSet
    <3> QED  BY <2>14, <3>1, <3>2, <3>3 DEF ToSet
  <2>16. UpTo(n) = {n} \cup UpTo(p)
    <3>1. \A m \in E : m <= n <=> m = n \/ m <= p
      <4>1. n \in Nat /\ p \in Nat /\ p < n /\ \A m \in E : m < n => m <= p  BY <1>0, <2>4, <2>6
      <4> QED  BY <1>0, <4>1
    <3> QED  BY <2>4, <3>1
  <2>17. Good(n)  BY <2>8, <2>9, <2>11, <2>12, <2>13, <2>15, <2>16
  <2> QED  BY <2>2, <2>17
<1>3. first \in E \cup {0} /\ UpTo(first) = E  BY <1>0 DEF LastBefore
<1> QED  BY <1>1, <1>2, <1>3

(* The stack without its top.                                              *)
LEMMA FrontFacts ==
  ASSUME NEW S, NEW s \in Seq(S), s # << >>
  PROVE  /\ Len(s) \in Nat /\ Len(s) >= 1
         /\ Last(s) = s[Len(s)] /\ Last(s) \in S
         /\ Front(s) \in Seq(S) /\ Len(Front(s)) = Len(s) - 1
         /\ \A i \in 1 .. Len(s) - 1 : Front(s)[i] = s[i]
<1>1. Len(s) \in Nat /\ Len(s) >= 1  BY EmptySeq
<1>2. \A i \in 1 .. Len(s) : s[i] \in S  BY ElementOfSeq
<1>3. \A i \in 1 .. Len(s) - 1 : s[i] \in S  BY <1>1, <1>2
<1>4. /\ SubSeq(s, 1, Len(s) - 1) \in Seq(S)
      /\ Len(SubSeq(s, 1, Len(s) - 1)) = IF 1 <= Len(s) - 1 THEN Len(s) - 1 - 1 + 1 ELSE 0
      /\ \A i \in 1 .. Len(s) - 1 - 1 + 1 : SubSeq(s, 1, Len(s) - 1)[i] = s[1 + i - 1]
  <2>1. 1 \in Int /\ Len(s) - 1 \in Int  BY <1>1
  <2> QED  BY <1>3, <2>1, SubSeqProperties
<1>5. Len(Front(s)) = Len(s) - 1
  <2>1. PICK l \in Nat : l = Len(s)  BY <1>1
  <2>2. (IF 1 <= l - 1 THEN l - 1 - 1 + 1 ELSE 0) = l - 1  BY <1>1, <2>1
  <2> QED  BY <1>4, <2>1, <2>2 DEF Front
<1>6. \A i \in 1 .. Len(s) - 1 : Front(s)[i] = s[i]  BY <1>1, <1>4 DEF Front
<1>7. Last(s) = s[Len(s)] /\ Last(s) \in S
  <2>1. Len(s) \in 1 .. Len(s)  BY <1>1
  <2> QED  BY <1>2, <2>1 DEF Last
<1> QED  BY <1>1, <1>4, <1>5, <1>6, <1>7 DEF Front

(* The objects of a set in some order.                                     *)
LEMMA SetToSeqFacts ==
  ASSUME NEW S \in SUBSET Objects
  PROVE  SetToSeq(S) \in Seq(S) /\ ToSet(SetToSeq(S)) = S
<1>1. IsFiniteSet(S) /\ Cardinality(S) \in Nat  BY ObjectsFinite, FS_Subset, FS_CardinalityType
<1>2. PICK n \in Nat : n = Cardinality(S)  BY <1>1
<1>3. \E f \in [1 .. n -> S] : IsInjective(f)
  BY <1>1, <1>2, FS_CardinalityType DEF ExistsBijection, Bijection, Injection
<1>4. PICK f : f = SetToSeq(S)  OBVIOUS
<1>5. f \in [1 .. n -> S] /\ IsInjective(f)  BY <1>2, <1>3, <1>4 DEF SetToSeq
<1> DEFINE T == {f[i] : i \in 1 .. n}
<1>6. T = S
  <2>1. f \in [1 .. n -> T]
    <3>1. DOMAIN f = 1 .. n /\ f = [i \in 1 .. n |-> f[i]]  BY <1>5
    <3> QED  BY <3>1
  <2>2. f \in Bijection(1 .. n, T)
    BY <1>5, <2>1 DEF Bijection, Injection, Surjection
  <2>3. Cardinality(T) = n  BY <2>2, FS_CountingElements DEF ExistsBijection
  <2>4. T \subseteq S  BY <1>5
  <2> QED  BY <1>1, <1>2, <2>3, <2>4, FS_Subset
<1>7. f \in Seq(S) /\ DOMAIN f = 1 .. n  BY <1>5, SeqDef
<1> QED  BY <1>4, <1>6, <1>7 DEF ToSet

-----------------------------------------------------------------------------
(* Threads: an entry is pushed on the thread that leads to it or on        *)
(* another one, the last entry is popped, and entries are killed.          *)
LEMMA ThreadedPush ==
  ASSUME NEW T, NEW s \in Seq(T), NEW e \in T, NEW E, NEW head, Threaded(E, s, head), e.next = head
  PROVE  Threaded(E \cup {Len(s) + 1}, Append(s, e), Len(s) + 1)
<1>1. /\ Len(s) \in Nat /\ Len(Append(s, e)) = Len(s) + 1
      /\ \A i \in 1 .. Len(s) : Append(s, e)[i] = s[i]
      /\ Append(s, e)[Len(s) + 1] = e
  BY AppendProperties, LenProperties
<1>2. PICK t : t = Append(s, e)  OBVIOUS
<1> DEFINE l == Len(s)
<1>3. E \subseteq 1 .. l /\ LastBefore(E, l + 1, head) /\ \A n \in E : LastBefore(E, n, s[n].next)
  BY <1>2 DEF Threaded
<1>4. PICK F : F = E \cup {l + 1}  OBVIOUS
<1>5. \A n \in E : n \in Nat /\ n < l + 1  BY <1>3
<1>6. \A n \in E : LastBefore(F, n, t[n].next)
  <2>1. \A n \in E : t[n] = s[n]  BY <1>1, <1>2, <1>3
  <2> QED  BY <1>3, <1>4, <1>5, <2>1 DEF LastBefore
<1>7. LastBefore(F, l + 1, t[l + 1].next)
  <2>1. t[l + 1] = e  BY <1>1, <1>2
  <2> QED  BY <1>3, <1>4, <1>5, <2>1 DEF LastBefore
<1>8. LastBefore(F, l + 2, l + 1) /\ F \subseteq 1 .. l + 1
  <2>1. PICK k \in Nat : k = l  BY <1>1
  <2>2. ASSUME NEW n \in F PROVE n \in 1 .. k + 1
    <3>1. CASE n = k + 1  BY <2>1, <3>1
    <3>2. CASE n \in 1 .. k  BY <2>1, <3>2
    <3>3. n = k + 1 \/ n \in 1 .. k  BY <1>3, <1>4, <2>1
    <3> QED  BY <3>1, <3>2, <3>3
  <2>3. \A m \in F : m <= k + 1  BY <2>2
  <2>4. k + 1 \in F /\ k + 1 < k + 2  BY <1>4, <2>1
  <2> QED  BY <2>1, <2>2, <2>3, <2>4 DEF LastBefore
<1>9. Len(t) = l + 1 /\ (l + 1) + 1 = l + 2  BY <1>1, <1>2
<1> QED  BY <1>2, <1>4, <1>6, <1>7, <1>8, <1>9 DEF Threaded

(* A push does not disturb the threads of the other regions,               *)
LEMMA ThreadedPushOther ==
  ASSUME NEW T, NEW s \in Seq(T), NEW e \in T, NEW E, NEW head, Threaded(E, s, head)
  PROVE  Threaded(E, Append(s, e), head)
<1>1. /\ Len(s) \in Nat /\ Len(Append(s, e)) = Len(s) + 1
      /\ \A i \in 1 .. Len(s) : Append(s, e)[i] = s[i]
  BY AppendProperties, LenProperties
<1>2. PICK l, t : l = Len(s) /\ t = Append(s, e)  OBVIOUS
<1> QED  BY <1>1, <1>2 DEF Threaded, LastBefore

(* a pop leaves the popped entry's thread at its link,                     *)
LEMMA ThreadedPop ==
  ASSUME NEW T, NEW s \in Seq(T), s # << >>, NEW E, NEW head, Threaded(E, s, head), Len(s) \in E
  PROVE  Threaded(E \ {Len(s)}, Front(s), s[Len(s)].next)
<1>1. /\ Len(s) \in Nat /\ Len(s) >= 1 /\ Len(Front(s)) = Len(s) - 1
      /\ \A i \in 1 .. Len(s) - 1 : Front(s)[i] = s[i]
  BY FrontFacts
<1>2. PICK t : t = Front(s)  OBVIOUS
<1> DEFINE l == Len(s)
<1>3. E \subseteq 1 .. l /\ l \in E /\ \A n \in E : LastBefore(E, n, s[n].next)
  BY <1>2 DEF Threaded
<1>4. PICK F : F = E \ {l}  OBVIOUS
<1>5. \A n \in F : n \in 1 .. l - 1 /\ n \in E /\ n < l  BY <1>2, <1>3, <1>4
<1>6. \A n \in F : LastBefore(F, n, t[n].next)
  <2>1. \A n \in F : t[n] = s[n]  BY <1>1, <1>2, <1>5
  <2>2. ASSUME NEW n \in F PROVE LastBefore(F, n, s[n].next)
    <3>1. LastBefore(E, n, s[n].next) /\ n < l /\ l \in Nat /\ n \in Nat  BY <1>3, <1>5
    <3>2. s[n].next \in E \cup {0} /\ s[n].next < n  BY <3>1 DEF LastBefore
    <3>3. s[n].next # l  BY <3>1, <3>2
    <3> QED  BY <1>4, <3>1, <3>3 DEF LastBefore
  <2> QED  BY <2>1, <2>2
<1>7. LastBefore(F, (l - 1) + 1, s[l].next)
  <2>1. LastBefore(E, l, s[l].next) /\ s[l].next # l  BY <1>1, <1>2, <1>3 DEF LastBefore
  <2>2. (l - 1) + 1 = l  BY <1>2
  <2> QED  BY <1>4, <2>1, <2>2 DEF LastBefore
<1>8. F \subseteq 1 .. l - 1  BY <1>5
<1>9. Len(t) = l - 1  BY <1>1, <1>2
<1> QED  BY <1>2, <1>4, <1>6, <1>7, <1>8, <1>9 DEF Threaded

(* and the others as they are;                                             *)
LEMMA ThreadedPopOther ==
  ASSUME NEW T, NEW s \in Seq(T), s # << >>, NEW E, NEW head, Threaded(E, s, head), Len(s) \notin E
  PROVE  Threaded(E, Front(s), head)
<1>1. /\ Len(s) \in Nat /\ Len(s) >= 1 /\ Len(Front(s)) = Len(s) - 1
      /\ \A i \in 1 .. Len(s) - 1 : Front(s)[i] = s[i]
  BY FrontFacts
<1>2. PICK l, t : l = Len(s) /\ t = Front(s)  OBVIOUS
<1> QED  BY <1>1, <1>2 DEF Threaded, LastBefore

(* a thread depends on the links of its own entries only.                  *)
LEMMA ThreadedKept ==
  ASSUME NEW s, NEW t, Len(t) = Len(s), NEW E, NEW head, Threaded(E, s, head),
         \A n \in E : t[n].next = s[n].next
  PROVE  Threaded(E, t, head)
BY DEF Threaded

(* A region without entries has the empty thread.                          *)
LEMMA ThreadedNone ==
  ASSUME NEW s, Len(s) \in Nat
  PROVE  Threaded({}, s, 0)
BY DEF Threaded, LastBefore

(* o is pushed, marked or not.                                             *)
PushEntry(c, g, o) ==
  [c EXCEPT !.marked = @ \cup {o}, !.seg = TRUE,
            !.stack = Append(@, [val |-> o, next |-> c.head[g[o]]]),
            !.head = [@ EXCEPT ![g[o]] = Len(c.stack) + 1]]

(* d is c with the objects of N marked and those of V on the stack.        *)
Extends(c, d, N, V) ==
  /\ d.marked = c.marked \cup N /\ Vals(d) = Vals(c) \cup V
  /\ d.los = c.los /\ d.losSeg = c.losSeg /\ d.stage = c.stage /\ (c.seg => d.seg)

(* What ContextOK says, field by field.                                    *)
LEMMA ContextFacts ==
  ASSUME NEW c, NEW g, ContextOK(c, g)
  PROVE  /\ c.stage \in Stages /\ c.marked \subseteq Objects /\ c.seg \in BOOLEAN /\ c.losSeg \in BOOLEAN
         /\ c.stack \in Seq(Entry) /\ c.head \in [Gens -> Nat]
         /\ c.los \in Seq(LosEntry) /\ c.losHead \in [Gens -> Nat]
         /\ Len(c.stack) \in Nat /\ DOMAIN c.stack = 1 .. Len(c.stack)
         /\ Len(c.los) \in Nat /\ DOMAIN c.los = 1 .. Len(c.los)
         /\ \A n \in 1 .. Len(c.stack) : c.stack[n] \in Entry
         /\ \A n \in 1 .. Len(c.los) : c.los[n] \in LosEntry
<1>1. c \in Context  BY DEF ContextOK
<1>2. c.stack \in Seq(Entry) /\ c.los \in Seq(LosEntry)  BY <1>1 DEF Context
<1>3. /\ Len(c.stack) \in Nat /\ DOMAIN c.stack = 1 .. Len(c.stack)
      /\ \A n \in 1 .. Len(c.stack) : c.stack[n] \in Entry
  BY <1>2, LenProperties, ElementOfSeq
<1>4. /\ Len(c.los) \in Nat /\ DOMAIN c.los = 1 .. Len(c.los)
      /\ \A n \in 1 .. Len(c.los) : c.los[n] \in LosEntry
  BY <1>2, LenProperties, ElementOfSeq
<1> QED  BY <1>1, <1>2, <1>3, <1>4 DEF Context

(* What is on the stacks is marked and in the heap, and a cursor is within *)
(* its object.                                                             *)
LEMMA ValsFacts ==
  ASSUME NEW c, NEW g, ContextOK(c, g)
  PROVE  /\ Vals(c) \subseteq c.marked /\ \A v \in Vals(c) : v \in Objects /\ g[v] \in Gens
         /\ \A e \in Items(c) : \E o \in c.marked : \E i \in Nat \ {0} :
               e = <<o, i>> /\ o \in Objects /\ g[o] \in Gens /\ i <= Size[o]
         /\ \A e \in Items(c) : /\ e[1] \in c.marked /\ e[1] \in Objects /\ g[e[1]] \in Gens
                                /\ e[2] \in Nat \ {0} /\ e[2] <= Size[e[1]]
<1>1. EntriesOK(c, g) /\ c.marked \subseteq Objects  BY ContextFacts DEF ContextOK
<1>2. \A n \in DOMAIN c.los : c.los[n] \in LosEntry  BY ContextFacts
<1>3. \A v \in Vals(c) : v \in c.marked /\ g[v] \in Gens  BY <1>1 DEF Vals, EntriesOK
<1>4. ASSUME NEW e \in Items(c)
      PROVE  \E o \in c.marked : \E i \in Nat \ {0} :
               e = <<o, i>> /\ o \in Objects /\ g[o] \in Gens /\ i <= Size[o]
  <2>1. PICK n \in DOMAIN c.los : c.los[n].obj # Nil /\ e = <<c.los[n].obj, c.los[n].index>>
    BY DEF Items
  <2> QED  BY <1>1, <1>2, <2>1 DEF EntriesOK, LosEntry
<1> QED  BY <1>1, <1>3, <1>4

(* Push puts an entry on the stack and its position at the head of a       *)
(* thread.                                                                 *)
LEMMA PushEntryFacts ==
  ASSUME NEW c, NEW g, ContextOK(c, g), NEW o \in Objects, g[o] \in Gens
  PROVE  ContextOK(PushEntry(c, g, o), g) /\ Extends(c, PushEntry(c, g, o), {o}, {o})
<1>0. o # Nil  BY MarkerAssumption
<1>1. PICK d : d = PushEntry(c, g, o)  OBVIOUS
<1>2. PICK e : e = [val |-> o, next |-> c.head[g[o]]]  OBVIOUS
<1>3. PICK l \in Nat : l = Len(c.stack)  BY ContextFacts
<1>4. e \in Entry /\ e.val = o /\ e.next = c.head[g[o]]  BY <1>2, ContextFacts DEF Entry
<1>5. /\ d.stack = Append(c.stack, e) /\ d.marked = c.marked \cup {o} /\ d.seg = TRUE
      /\ d.head = [c.head EXCEPT ![g[o]] = l + 1]
      /\ d.los = c.los /\ d.losHead = c.losHead /\ d.losSeg = c.losSeg /\ d.stage = c.stage
  BY <1>1, <1>2, <1>3 DEF PushEntry, ContextOK, Context
<1>6. /\ d.stack \in Seq(Entry) /\ Len(d.stack) = l + 1 /\ DOMAIN d.stack = 1 .. l + 1
      /\ \A i \in 1 .. l : d.stack[i] = c.stack[i]
      /\ d.stack[l + 1] = e
  BY <1>3, <1>4, <1>5, ContextFacts, AppendProperties, LenProperties
<1>7. d \in Context
  <2>1. d.head \in [Gens -> Nat] /\ d.marked \subseteq Objects  BY <1>3, <1>5, ContextFacts
  <2>2. c \in Context  BY DEF ContextOK
  <2> QED  BY <1>1, <1>5, <1>6, <2>1, <2>2 DEF Context, PushEntry
<1>8. \A i \in 1 .. l + 1 : i = l + 1 \/ i \in 1 .. l  BY <1>3
<1>9. EntriesOK(c, g)  BY DEF ContextOK
<1>10. DOMAIN c.stack = 1 .. l  BY <1>3, ContextFacts
<1>11. EntriesOK(d, g)
  <2>1. \A n \in DOMAIN d.stack : d.stack[n].val # Nil =>
          d.stack[n].val \in d.marked /\ g[d.stack[n].val] \in Gens
    BY <1>4, <1>5, <1>6, <1>8, <1>9, <1>10 DEF EntriesOK
  <2> QED  BY <1>5, <1>9, <2>1 DEF EntriesOK
<1>12. \A r \in Gens : StackOn(d, g, r) = IF r = g[o] THEN StackOn(c, g, r) \cup {l + 1} ELSE StackOn(c, g, r)
  <2>1. 1 .. l + 1 = (1 .. l) \cup {l + 1}  BY <1>3
  <2>2. ASSUME NEW r \in Gens PROVE StackOn(d, g, r) = StackOn(c, g, r) \cup {n \in {l + 1} : g[o] = r}
    BY <1>0, <1>4, <1>6, <1>10, <2>1 DEF StackOn
  <2> QED  BY <2>2
<1>13. ASSUME NEW r \in Gens PROVE Threaded(StackOn(d, g, r), d.stack, d.head[r])
  <2>1. Threaded(StackOn(c, g, r), c.stack, c.head[r])  BY DEF ContextOK
  <2>2. CASE r = g[o]
    <3>1. Threaded(StackOn(c, g, r) \cup {Len(c.stack) + 1}, Append(c.stack, e), Len(c.stack) + 1)
      BY <1>4, <2>1, <2>2, ContextFacts, ThreadedPush
    <3>2. d.head[r] = l + 1  BY <1>5, <2>2, ContextFacts
    <3> QED  BY <1>3, <1>5, <1>12, <2>2, <3>1, <3>2
  <2>3. CASE r # g[o]
    <3>1. Threaded(StackOn(c, g, r), Append(c.stack, e), c.head[r])
      BY <1>4, <2>1, ContextFacts, ThreadedPushOther
    <3>2. d.head[r] = c.head[r]  BY <1>5, <2>3, ContextFacts
    <3> QED  BY <1>5, <1>12, <2>3, <3>1, <3>2
  <2> QED  BY <2>2, <2>3
<1>14. \A r \in Gens : Threaded(LosOn(d, g, r), d.los, d.losHead[r])  BY <1>5 DEF ContextOK, LosOn
<1>15. ContextOK(d, g)  BY <1>7, <1>11, <1>13, <1>14 DEF ContextOK
<1>16. Vals(d) = Vals(c) \cup {o}
  <2>1. {d.stack[n].val : n \in 1 .. l + 1} = {c.stack[n].val : n \in 1 .. l} \cup {o}
    <3>1. l + 1 \in 1 .. l + 1 /\ \A i \in 1 .. l : i \in 1 .. l + 1  BY <1>3
    <3> QED  BY <1>4, <1>6, <1>8, <3>1
  <2> QED  BY <1>0, <1>6, <1>10, <2>1 DEF Vals
<1> QED  BY <1>1, <1>5, <1>15, <1>16 DEF Extends

(* Pushing once and again is pushing more.                                 *)
LEMMA ExtendsTrans ==
  ASSUME NEW c, NEW d, NEW e, NEW M, NEW N, NEW V, NEW W, Extends(c, d, M, V), Extends(d, e, N, W)
  PROVE  Extends(c, e, M \cup N, V \cup W)
BY DEF Extends

(* What Push keeps and adds.                                               *)
LEMMA PushFacts ==
  ASSUME NEW c, NEW g, ContextOK(c, g), NEW o \in Objects \cup {Nil}, o # Nil => g[o] \in Gens,
         NEW N, N = {o} \ {Nil}, NEW V, V = {o} \ ({Nil} \cup c.marked)
  PROVE  ContextOK(Push(c, g, o), g) /\ Extends(c, Push(c, g, o), N, V)
<1>1. CASE o = Nil  BY <1>1 DEF Push, Extends
<1>2. CASE o # Nil /\ o \in c.marked  BY <1>2 DEF Push, Extends
<1>3. CASE o # Nil /\ o \notin c.marked
  <2>1. Push(c, g, o) = PushEntry(c, g, o)  BY <1>3 DEF Push, PushEntry
  <2>2. ContextOK(PushEntry(c, g, o), g) /\ Extends(c, PushEntry(c, g, o), {o}, {o})
    BY <1>3, PushEntryFacts
  <2>3. N = {o} /\ V = {o}  BY <1>3
  <2> QED  BY <2>1, <2>2, <2>3
<1> QED  BY <1>1, <1>2, <1>3

(* What ForciblyPush keeps and adds: o is on the stack, whether it was     *)
(* marked or not.                                                          *)
LEMMA ForciblyPushFacts ==
  ASSUME NEW c, NEW g, ContextOK(c, g), NEW o \in Objects, g[o] \in Gens
  PROVE  ContextOK(ForciblyPush(c, g, o), g) /\ Extends(c, ForciblyPush(c, g, o), {o}, {o})
<1>1. o # Nil  BY MarkerAssumption
<1>2. PICK d : d = [c EXCEPT !.marked = @ \ {o}]  OBVIOUS
<1>3. /\ d.marked = c.marked \ {o} /\ d.stack = c.stack /\ d.head = c.head /\ o \notin d.marked
  BY <1>2 DEF ContextOK, Context
<1>4. ForciblyPush(c, g, o) = Push(d, g, o)  BY <1>2 DEF ForciblyPush
<1>5. Push(d, g, o) = [d EXCEPT !.marked = @ \cup {o}, !.seg = TRUE,
            !.stack = Append(@, [val |-> o, next |-> d.head[g[o]]]),
            !.head = [@ EXCEPT ![g[o]] = Len(d.stack) + 1]]
  BY <1>1, <1>3 DEF Push
<1>6. (c.marked \ {o}) \cup {o} = c.marked \cup {o}  OBVIOUS
<1>7. Push(d, g, o) = PushEntry(c, g, o)
  BY <1>2, <1>3, <1>5, <1>6 DEF PushEntry, ContextOK, Context
<1> QED  BY <1>4, <1>7, PushEntryFacts

(* PushAll marks them all, and pushes those that were not marked.          *)
LEMMA PushAllFacts ==
  ASSUME NEW c, NEW g, ContextOK(c, g), NEW os, Len(os) \in Nat,
         \A n \in 1 .. Len(os) : os[n] \in Objects \cup {Nil} /\ (os[n] # Nil => g[os[n]] \in Gens),
         NEW N, N = {os[n] : n \in 1 .. Len(os)} \ {Nil}, NEW V, V = N \ c.marked
  PROVE  ContextOK(PushAll(c, g, os), g) /\ Extends(c, PushAll(c, g, os), N, V)
<1>1. PICK d : Pushes(c, g, os, d) /\ PushAll(c, g, os) = d[Len(os)]
  BY PushAllUnfold
<1> DEFINE M(n) == {os[i] : i \in 1 .. n} \ {Nil}
           Good(n) == ContextOK(d[n], g) /\ Extends(c, d[n], M(n), M(n) \ c.marked)
<1>2. \A n \in 0 .. Len(os) : Good(n)
  <2> DEFINE T == {n \in 0 .. Len(os) : ~Good(n)}
  <2> SUFFICES ASSUME T # {} PROVE FALSE  OBVIOUS
  <2>1. T \subseteq Nat
    <3> HIDE DEF Good
    <3> QED  OBVIOUS
  <2>2. PICK n \in T : \A m \in T : n <= m  BY <2>1, LeastNat
  <2>3. Good(0)
    <3>1. M(0) = {}  OBVIOUS
    <3> QED  BY <1>1, <3>1 DEF Extends, Pushes
  <2> HIDE DEF Good
  <2>4. n \in 1 .. Len(os) /\ n - 1 \in 0 .. Len(os)  BY <2>2, <2>3
  <2>5. Good(n - 1)  BY <2>2, <2>4
  <2>6. d[n] = Push(d[n - 1], g, os[n])  BY <1>1, <2>4 DEF Pushes
  <2>7. ContextOK(d[n - 1], g) /\ os[n] \in Objects \cup {Nil} /\ (os[n] # Nil => g[os[n]] \in Gens)
    BY <2>4, <2>5 DEF Good
  <2>8. PICK A : A = {os[n]} \ {Nil}  OBVIOUS
  <2>9. PICK B : B = {os[n]} \ ({Nil} \cup d[n - 1].marked)  OBVIOUS
  <2>10. ContextOK(d[n], g) /\ Extends(d[n - 1], d[n], A, B)  BY <2>6, <2>7, <2>8, <2>9, PushFacts
  <2>11. PICK L : L = M(n - 1)  OBVIOUS
  <2>12. M(n) = L \cup A
    <3>1. 1 .. n = (1 .. n - 1) \cup {n}  BY <2>4
    <3> QED  BY <2>8, <2>11, <3>1
  <2> HIDE DEF M
  <2>13. Extends(c, d[n - 1], L, L \ c.marked)  BY <2>5, <2>11 DEF Good
  <2>14. PICK W : W = L \ c.marked  OBVIOUS
  <2>15. Extends(c, d[n], L \cup A, W \cup B)  BY <2>10, <2>13, <2>14, ExtendsTrans
  <2>16. d[n - 1].marked = c.marked \cup L  BY <2>13 DEF Extends
  <2>17. W \cup B = (L \cup A) \ c.marked  BY <2>8, <2>9, <2>14, <2>16
  <2>18. Good(n)  BY <2>10, <2>12, <2>15, <2>17 DEF Good
  <2> QED  BY <2>2, <2>18
<1>3. M(Len(os)) = N /\ Good(Len(os))
  <2>1. Len(os) \in 0 .. Len(os)  OBVIOUS
  <2> HIDE DEF Good
  <2> QED  BY <1>2, <2>1
<1> QED  BY <1>1, <1>3

(* What PushAgain keeps and adds: each of the entries is back.             *)
LEMMA PushAgainFacts ==
  ASSUME NEW c, NEW g, ContextOK(c, g), NEW es, Len(es) \in Nat,
         \A n \in 1 .. Len(es) : es[n].val # Nil => es[n].val \in Objects /\ g[es[n].val] \in Gens,
         NEW N, N = {es[n].val : n \in 1 .. Len(es)} \ {Nil}
  PROVE  ContextOK(PushAgain(c, g, es), g) /\ Extends(c, PushAgain(c, g, es), N, N)
<1>1. PICK d : /\ d[0] = c /\ PushAgain(c, g, es) = d[Len(es)]
               /\ \A n \in 1 .. Len(es) : d[n] =
                    IF es[n].val = Nil THEN d[n - 1] ELSE ForciblyPush(d[n - 1], g, es[n].val)
  BY PushAgainUnfold
<1> DEFINE M(n) == {es[i].val : i \in 1 .. n} \ {Nil}
           Good(n) == ContextOK(d[n], g) /\ Extends(c, d[n], M(n), M(n))
<1>2. \A n \in 0 .. Len(es) : Good(n)
  <2> DEFINE T == {n \in 0 .. Len(es) : ~Good(n)}
  <2> SUFFICES ASSUME T # {} PROVE FALSE  OBVIOUS
  <2>1. T \subseteq Nat
    <3> HIDE DEF Good
    <3> QED  OBVIOUS
  <2>2. PICK n \in T : \A m \in T : n <= m  BY <2>1, LeastNat
  <2>3. Good(0)
    <3>1. M(0) = {}  OBVIOUS
    <3> QED  BY <1>1, <3>1 DEF Extends
  <2> HIDE DEF Good
  <2>4. n \in 1 .. Len(es) /\ n - 1 \in 0 .. Len(es)  BY <2>2, <2>3
  <2>5. Good(n - 1)  BY <2>2, <2>4
  <2>6. d[n] = IF es[n].val = Nil THEN d[n - 1] ELSE ForciblyPush(d[n - 1], g, es[n].val)  BY <1>1, <2>4
  <2>8. M(n) = M(n - 1) \cup ({es[n].val} \ {Nil})
    <3>1. 1 .. n = (1 .. n - 1) \cup {n}  BY <2>4
    <3> QED  BY <3>1
  <2> HIDE DEF M
  <2>9. Good(n)
    <3>1. CASE es[n].val = Nil
      <4>1. M(n) = M(n - 1)  BY <2>8, <3>1
      <4> QED  BY <2>5, <2>6, <3>1, <4>1 DEF Good
    <3>2. CASE es[n].val # Nil
      <4>1. /\ ContextOK(d[n], g)
            /\ Extends(d[n - 1], d[n], {es[n].val}, {es[n].val})
        BY <2>4, <2>5, <2>6, <3>2, ForciblyPushFacts DEF Good
      <4>2. M(n) = M(n - 1) \cup {es[n].val}  BY <2>8, <3>2
      <4> QED  BY <2>5, <4>1, <4>2, ExtendsTrans DEF Good
    <3> QED  BY <3>1, <3>2
  <2> QED  BY <2>2, <2>9
<1>3. M(Len(es)) = N /\ Good(Len(es))
  <2>1. Len(es) \in 0 .. Len(es)  OBVIOUS
  <2> HIDE DEF Good
  <2> QED  BY <1>2, <2>1
<1> QED  BY <1>1, <1>3

(* d is c with the cursors I pushed as well.                               *)
LosExtends(c, d, I) ==
  /\ Items(d) = Items(c) \cup I
  /\ d.marked = c.marked /\ d.stack = c.stack /\ d.seg = c.seg /\ d.stage = c.stage
  /\ c.losSeg => d.losSeg

(* The same for cursors on large objects.                                  *)
LEMMA LosExtendsTrans ==
  ASSUME NEW c, NEW d, NEW e, NEW I, NEW J, LosExtends(c, d, I), LosExtends(d, e, J)
  PROVE  LosExtends(c, e, I \cup J)
BY DEF LosExtends

(* What LosPush keeps and adds.                                            *)
LEMMA LosPushFacts ==
  ASSUME NEW c, NEW g, ContextOK(c, g), NEW o \in Objects, g[o] \in Gens, o \in c.marked,
         NEW i \in Nat \ {0}, i <= Size[o], NEW I, I = {<<o, i>>}
  PROVE  ContextOK(LosPush(c, g, o, i), g) /\ LosExtends(c, LosPush(c, g, o, i), I)
<1>0. o # Nil  BY MarkerAssumption
<1>1. PICK d : d = LosPush(c, g, o, i)  OBVIOUS
<1>2. PICK e : e = [obj |-> o, index |-> i, next |-> c.losHead[g[o]]]  OBVIOUS
<1>3. PICK l \in Nat : l = Len(c.los)  BY ContextFacts
<1>4. e \in LosEntry /\ e.obj = o /\ e.index = i /\ e.next = c.losHead[g[o]]
  BY <1>2, ContextFacts DEF LosEntry
<1>5. /\ d.los = Append(c.los, e) /\ d.losSeg = TRUE
      /\ d.losHead = [c.losHead EXCEPT ![g[o]] = l + 1]
      /\ d.marked = c.marked /\ d.stack = c.stack /\ d.head = c.head /\ d.seg = c.seg /\ d.stage = c.stage
  BY <1>1, <1>2, <1>3 DEF LosPush, ContextOK, Context
<1>6. /\ d.los \in Seq(LosEntry) /\ Len(d.los) = l + 1 /\ DOMAIN d.los = 1 .. l + 1
      /\ \A j \in 1 .. l : d.los[j] = c.los[j]
      /\ d.los[l + 1] = e
  BY <1>3, <1>4, <1>5, ContextFacts, AppendProperties, LenProperties
<1>7. d \in Context
  <2>1. d.losHead \in [Gens -> Nat]  BY <1>3, <1>5, ContextFacts
  <2>2. c \in Context  BY DEF ContextOK
  <2> QED  BY <1>1, <1>5, <1>6, <2>1, <2>2 DEF Context, LosPush
<1>8. \A j \in 1 .. l + 1 : j = l + 1 \/ j \in 1 .. l  BY <1>3
<1>9. EntriesOK(c, g)  BY DEF ContextOK
<1>10. DOMAIN c.los = 1 .. l  BY <1>3, ContextFacts
<1>11. EntriesOK(d, g)
  <2>1. \A n \in DOMAIN d.los : d.los[n].obj # Nil =>
          /\ d.los[n].obj \in d.marked /\ g[d.los[n].obj] \in Gens
          /\ d.los[n].index <= Size[d.los[n].obj]
    BY <1>4, <1>5, <1>6, <1>8, <1>9, <1>10 DEF EntriesOK
  <2> QED  BY <1>5, <1>9, <2>1 DEF EntriesOK
<1>12. \A r \in Gens : LosOn(d, g, r) = IF r = g[o] THEN LosOn(c, g, r) \cup {l + 1} ELSE LosOn(c, g, r)
  <2>1. 1 .. l + 1 = (1 .. l) \cup {l + 1}  BY <1>3
  <2>2. ASSUME NEW r \in Gens PROVE LosOn(d, g, r) = LosOn(c, g, r) \cup {n \in {l + 1} : g[o] = r}
    BY <1>0, <1>4, <1>6, <1>10, <2>1 DEF LosOn
  <2> QED  BY <2>2
<1>13. ASSUME NEW r \in Gens PROVE Threaded(LosOn(d, g, r), d.los, d.losHead[r])
  <2>1. Threaded(LosOn(c, g, r), c.los, c.losHead[r])  BY DEF ContextOK
  <2>2. CASE r = g[o]
    <3>1. Threaded(LosOn(c, g, r) \cup {Len(c.los) + 1}, Append(c.los, e), Len(c.los) + 1)
      BY <1>4, <2>1, <2>2, ContextFacts, ThreadedPush
    <3>2. d.losHead[r] = l + 1  BY <1>5, <2>2, ContextFacts
    <3> QED  BY <1>3, <1>5, <1>12, <2>2, <3>1, <3>2
  <2>3. CASE r # g[o]
    <3>1. Threaded(LosOn(c, g, r), Append(c.los, e), c.losHead[r])
      BY <1>4, <2>1, ContextFacts, ThreadedPushOther
    <3>2. d.losHead[r] = c.losHead[r]  BY <1>5, <2>3, ContextFacts
    <3> QED  BY <1>5, <1>12, <2>3, <3>1, <3>2
  <2> QED  BY <2>2, <2>3
<1>14. \A r \in Gens : Threaded(StackOn(d, g, r), d.stack, d.head[r])  BY <1>5 DEF ContextOK, StackOn
<1>15. ContextOK(d, g)  BY <1>7, <1>11, <1>13, <1>14 DEF ContextOK
<1>16. Items(d) = Items(c) \cup {<<o, i>>}
  <2>1. {m \in DOMAIN d.los : d.los[m].obj # Nil} = {m \in DOMAIN c.los : c.los[m].obj # Nil} \cup {l + 1}
    <3>1. l + 1 \in 1 .. l + 1 /\ \A j \in 1 .. l : j \in 1 .. l + 1  BY <1>3
    <3> QED  BY <1>0, <1>4, <1>6, <1>8, <1>10, <3>1
  <2> QED  BY <1>4, <1>6, <1>10, <2>1 DEF Items
<1> QED  BY <1>1, <1>5, <1>15, <1>16 DEF LosExtends

(* What LosPushAgain keeps and adds.                                       *)
LEMMA LosPushAgainFacts ==
  ASSUME NEW c, NEW g, ContextOK(c, g), NEW es, Len(es) \in Nat,
         \A n \in 1 .. Len(es) : es[n].obj # Nil =>
           /\ es[n].obj \in Objects /\ g[es[n].obj] \in Gens /\ es[n].obj \in c.marked
           /\ es[n].index \in Nat \ {0} /\ es[n].index <= Size[es[n].obj],
         NEW I, I = {<<es[n].obj, es[n].index>> : n \in {m \in 1 .. Len(es) : es[m].obj # Nil}}
  PROVE  ContextOK(LosPushAgain(c, g, es), g) /\ LosExtends(c, LosPushAgain(c, g, es), I)
<1>1. PICK d : /\ d[0] = c /\ LosPushAgain(c, g, es) = d[Len(es)]
               /\ \A n \in 1 .. Len(es) : d[n] =
                    IF es[n].obj = Nil THEN d[n - 1] ELSE LosPush(d[n - 1], g, es[n].obj, es[n].index)
  BY LosPushAgainUnfold
<1> DEFINE M(n) == {<<es[i].obj, es[i].index>> : i \in {m \in 1 .. n : es[m].obj # Nil}}
           Good(n) == ContextOK(d[n], g) /\ LosExtends(c, d[n], M(n))
<1>2. \A n \in 0 .. Len(es) : Good(n)
  <2> DEFINE T == {n \in 0 .. Len(es) : ~Good(n)}
  <2> SUFFICES ASSUME T # {} PROVE FALSE  OBVIOUS
  <2>1. T \subseteq Nat
    <3> HIDE DEF Good
    <3> QED  OBVIOUS
  <2>2. PICK n \in T : \A m \in T : n <= m  BY <2>1, LeastNat
  <2>3. Good(0)
    <3>1. M(0) = {}  OBVIOUS
    <3> QED  BY <1>1, <3>1 DEF LosExtends
  <2> HIDE DEF Good
  <2>4. n \in 1 .. Len(es) /\ n - 1 \in 0 .. Len(es)  BY <2>2, <2>3
  <2>5. Good(n - 1)  BY <2>2, <2>4
  <2>6. d[n] = IF es[n].obj = Nil THEN d[n - 1] ELSE LosPush(d[n - 1], g, es[n].obj, es[n].index)
    BY <1>1, <2>4
  <2>7. 1 .. n = (1 .. n - 1) \cup {n}  BY <2>4
  <2>8. Good(n)
    <3>1. CASE es[n].obj = Nil
      <4>1. M(n) = M(n - 1)  BY <2>7, <3>1
      <4> QED  BY <2>5, <2>6, <3>1, <4>1 DEF Good
    <3>2. CASE es[n].obj # Nil
      <4>1. PICK o \in Objects, i \in Nat \ {0} : o = es[n].obj /\ i = es[n].index
        BY <2>4, <3>2
      <4>0. g[o] \in Gens /\ i <= Size[o]  BY <2>4, <3>2, <4>1
      <4>2. ContextOK(d[n - 1], g) /\ o \in d[n - 1].marked
        BY <2>4, <2>5, <3>2, <4>1 DEF Good, LosExtends
      <4>3. PICK J : J = {<<o, i>>}  OBVIOUS
      <4>4. ContextOK(d[n], g) /\ LosExtends(d[n - 1], d[n], J)
        <5>1. PICK b : b = d[n - 1]  OBVIOUS
        <5>2. d[n] = LosPush(b, g, o, i)  BY <2>6, <3>2, <4>1, <5>1
        <5>3. ContextOK(b, g) /\ o \in b.marked  BY <4>2, <5>1
        <5>4. ContextOK(LosPush(b, g, o, i), g) /\ LosExtends(b, LosPush(b, g, o, i), J)
          BY <4>0, <4>3, <5>3, LosPushFacts
        <5> QED  BY <5>1, <5>2, <5>4
      <4>5. PICK L : L = M(n - 1)  OBVIOUS
      <4>6. M(n) = L \cup J
        <5>1. {m \in 1 .. n : es[m].obj # Nil} = {m \in 1 .. n - 1 : es[m].obj # Nil} \cup {n}
          BY <2>7, <3>2
        <5> QED  BY <4>1, <4>3, <4>5, <5>1
      <4> HIDE DEF M
      <4>7. LosExtends(c, d[n], L \cup J)  BY <2>5, <4>4, <4>5, LosExtendsTrans DEF Good
      <4> QED  BY <4>4, <4>6, <4>7 DEF Good
    <3> QED  BY <3>1, <3>2
  <2> QED  BY <2>2, <2>8
<1>3. M(Len(es)) = I /\ Good(Len(es))
  <2>1. Len(es) \in 0 .. Len(es)  OBVIOUS
  <2> HIDE DEF Good
  <2> QED  BY <1>2, <2>1
<1> QED  BY <1>1, <1>3

(* The entry on top of a stack is taken off.                               *)
WithoutTop(c, g) ==
  LET e == Last(c.stack)
      d == [c EXCEPT !.stack = Front(@)]
  IN  IF e.val = Nil THEN d ELSE [d EXCEPT !.head = [@ EXCEPT ![g[e.val]] = e.next]]

WithoutLosTop(c, g) ==
  LET e == Last(c.los)
      d == [c EXCEPT !.los = Front(@), !.seg = FALSE]
  IN  IF e.obj = Nil THEN d ELSE [d EXCEPT !.losHead = [@ EXCEPT ![g[e.obj]] = e.next]]

(* A marker without the top of its stack.                                  *)
LEMMA WithoutTopFacts ==
  ASSUME NEW c, NEW g, ContextOK(c, g), c.stack # << >>, NEW d, d = WithoutTop(c, g)
  PROVE  /\ ContextOK(d, g) /\ Vals(c) = Vals(d) \cup ({Last(c.stack).val} \ {Nil})
         /\ d.marked = c.marked /\ d.los = c.los /\ d.seg = c.seg /\ d.losSeg = c.losSeg /\ d.stage = c.stage
         /\ Last(c.stack).val \in Objects \cup {Nil}
         /\ Last(c.stack).val # Nil => Last(c.stack).val \in c.marked /\ g[Last(c.stack).val] \in Gens
<1>1. PICK l \in Nat : l = Len(c.stack)  BY ContextFacts
<1>2. PICK e : e = Last(c.stack)  OBVIOUS
<1>3. /\ l >= 1 /\ e = c.stack[l] /\ e \in Entry /\ Front(c.stack) \in Seq(Entry)
      /\ Len(Front(c.stack)) = l - 1 /\ \A i \in 1 .. l - 1 : Front(c.stack)[i] = c.stack[i]
  <2>1. c.stack \in Seq(Entry)  BY ContextFacts
  <2> QED  BY <1>1, <1>2, <2>1, FrontFacts
<1>4. DOMAIN Front(c.stack) = 1 .. l - 1  BY <1>3, LenProperties
<1>5. DOMAIN c.stack = 1 .. l /\ EntriesOK(c, g) /\ c.marked \subseteq Objects
  BY <1>1, ContextFacts DEF ContextOK
<1>6. l \in 1 .. l /\ \A i \in 1 .. l : i = l \/ i \in 1 .. l - 1  BY <1>3
<1>7. e.val \in Objects \cup {Nil} /\ e.next \in Nat  BY <1>3 DEF Entry
<1>8. e.val # Nil => e.val \in c.marked /\ g[e.val] \in Gens  BY <1>3, <1>5, <1>6 DEF EntriesOK
<1>9. /\ d.stack = Front(c.stack) /\ d.marked = c.marked /\ d.los = c.los /\ d.losHead = c.losHead
      /\ d.seg = c.seg /\ d.losSeg = c.losSeg /\ d.stage = c.stage
      /\ d.head = IF e.val = Nil THEN c.head ELSE [c.head EXCEPT ![g[e.val]] = e.next]
  BY <1>2 DEF WithoutTop, ContextOK, Context
<1>10. d \in Context
  <2>1. c \in Context  BY DEF ContextOK
  <2>2. d.head \in [Gens -> Nat]
    <3>1. c.head \in [Gens -> Nat]  BY ContextFacts
    <3>2. CASE e.val = Nil  BY <1>9, <3>1, <3>2
    <3>3. CASE e.val # Nil
      <4>1. d.head = [c.head EXCEPT ![g[e.val]] = e.next]  BY <1>9, <3>3
      <4> QED  BY <1>7, <3>1, <4>1
    <3> QED  BY <3>2, <3>3
  <2>3. CASE e.val = Nil  BY <1>2, <1>3, <1>9, <2>1, <2>2, <2>3 DEF WithoutTop, Context
  <2>4. CASE e.val # Nil  BY <1>2, <1>3, <1>9, <2>1, <2>2, <2>4 DEF WithoutTop, Context
  <2> QED  BY <2>3, <2>4
<1>11. EntriesOK(d, g)
  <2>1. \A n \in DOMAIN d.stack : n \in DOMAIN c.stack /\ d.stack[n] = c.stack[n]
    BY <1>1, <1>3, <1>4, <1>5, <1>9
  <2>2. c.stack # << >> => c.seg  BY <1>5 DEF EntriesOK
  <2> QED  BY <1>5, <1>9, <2>1, <2>2 DEF EntriesOK
<1>12. \A r \in Gens : StackOn(d, g, r) = StackOn(c, g, r) \ {l}
  <2>1. 1 .. l - 1 = (1 .. l) \ {l}  BY <1>1
  <2> QED  BY <1>3, <1>4, <1>5, <1>9, <2>1 DEF StackOn
<1>13. ASSUME NEW r \in Gens PROVE Threaded(StackOn(d, g, r), d.stack, d.head[r])
  <2>1. Threaded(StackOn(c, g, r), c.stack, c.head[r])  BY DEF ContextOK
  <2>2. l \in StackOn(c, g, r) <=> e.val # Nil /\ g[e.val] = r  BY <1>3, <1>5, <1>6 DEF StackOn
  <2>3. CASE l \in StackOn(c, g, r)
    <3>1. Threaded(StackOn(c, g, r) \ {Len(c.stack)}, Front(c.stack), c.stack[Len(c.stack)].next)
      BY <1>1, <2>1, <2>3, ContextFacts, ThreadedPop
    <3>2. d.head[r] = e.next  BY <1>9, <2>2, <2>3, ContextFacts
    <3> QED  BY <1>1, <1>3, <1>9, <1>12, <3>1, <3>2
  <2>4. CASE l \notin StackOn(c, g, r)
    <3>1. Threaded(StackOn(c, g, r), Front(c.stack), c.head[r])
      BY <1>1, <2>1, <2>4, ContextFacts, ThreadedPopOther
    <3>2. d.head[r] = c.head[r]  BY <1>8, <1>9, <2>2, <2>4, ContextFacts
    <3>3. StackOn(d, g, r) = StackOn(c, g, r)  BY <1>12, <2>4
    <3> QED  BY <1>9, <3>1, <3>2, <3>3
  <2> QED  BY <2>3, <2>4
<1>14. \A r \in Gens : Threaded(LosOn(d, g, r), d.los, d.losHead[r])  BY <1>9 DEF ContextOK, LosOn
<1>15. ContextOK(d, g)  BY <1>10, <1>11, <1>13, <1>14 DEF ContextOK
<1>16. Vals(c) = Vals(d) \cup ({e.val} \ {Nil})
  <2>1. {c.stack[n].val : n \in 1 .. l} = {d.stack[n].val : n \in 1 .. l - 1} \cup {e.val}
    <3>1. \A i \in 1 .. l - 1 : i \in 1 .. l  BY <1>1
    <3> QED  BY <1>3, <1>6, <1>9, <3>1
  <2> QED  BY <1>4, <1>5, <1>9, <2>1 DEF Vals
<1> QED  BY <1>2, <1>7, <1>8, <1>9, <1>15, <1>16

(* A marker without its last cursor.                                       *)
LEMMA WithoutLosTopFacts ==
  ASSUME NEW c, NEW g, ContextOK(c, g), c.stack = << >>, c.los # << >>, NEW d, d = WithoutLosTop(c, g),
         NEW I, I = IF Last(c.los).obj = Nil THEN {} ELSE {<<Last(c.los).obj, Last(c.los).index>>}
  PROVE  /\ ContextOK(d, g) /\ Items(c) = Items(d) \cup I
         /\ d.marked = c.marked /\ d.stack = c.stack /\ d.losSeg = c.losSeg /\ d.stage = c.stage
         /\ Last(c.los).obj # Nil =>
              /\ Last(c.los).obj \in Objects /\ Last(c.los).obj \in c.marked /\ g[Last(c.los).obj] \in Gens
              /\ Last(c.los).index \in Nat \ {0} /\ Last(c.los).index <= Size[Last(c.los).obj]
<1>1. PICK l \in Nat : l = Len(c.los)  BY ContextFacts
<1>2. PICK e : e = Last(c.los)  OBVIOUS
<1>3. /\ l >= 1 /\ e = c.los[l] /\ e \in LosEntry /\ Front(c.los) \in Seq(LosEntry)
      /\ Len(Front(c.los)) = l - 1 /\ \A i \in 1 .. l - 1 : Front(c.los)[i] = c.los[i]
  BY <1>1, <1>2, ContextFacts, FrontFacts
<1>4. DOMAIN Front(c.los) = 1 .. l - 1  BY <1>3, LenProperties
<1>5. DOMAIN c.los = 1 .. l /\ EntriesOK(c, g) /\ c.marked \subseteq Objects
  BY <1>1, ContextFacts DEF ContextOK
<1>6. l \in 1 .. l /\ \A i \in 1 .. l : i = l \/ i \in 1 .. l - 1  BY <1>3
<1>7. e.obj \in Objects \cup {Nil} /\ e.index \in Nat \ {0} /\ e.next \in Nat  BY <1>3 DEF LosEntry
<1>8. e.obj # Nil => e.obj \in c.marked /\ g[e.obj] \in Gens /\ e.index <= Size[e.obj]
  BY <1>3, <1>5, <1>6 DEF EntriesOK
<1>9. /\ d.los = Front(c.los) /\ d.marked = c.marked /\ d.stack = c.stack /\ d.head = c.head
      /\ d.seg = FALSE /\ d.losSeg = c.losSeg /\ d.stage = c.stage
      /\ d.losHead = IF e.obj = Nil THEN c.losHead ELSE [c.losHead EXCEPT ![g[e.obj]] = e.next]
  BY <1>2 DEF WithoutLosTop, ContextOK, Context
<1>10. d \in Context
  <2>1. c \in Context  BY DEF ContextOK
  <2>2. d.losHead \in [Gens -> Nat]
    <3>1. c.losHead \in [Gens -> Nat]  BY ContextFacts
    <3>2. CASE e.obj = Nil  BY <1>9, <3>1, <3>2
    <3>3. CASE e.obj # Nil
      <4>1. d.losHead = [c.losHead EXCEPT ![g[e.obj]] = e.next]  BY <1>9, <3>3
      <4> QED  BY <1>7, <3>1, <4>1
    <3> QED  BY <3>2, <3>3
  <2>3. CASE e.obj = Nil  BY <1>2, <1>3, <1>9, <2>1, <2>2, <2>3 DEF WithoutLosTop, Context
  <2>4. CASE e.obj # Nil  BY <1>2, <1>3, <1>9, <2>1, <2>2, <2>4 DEF WithoutLosTop, Context
  <2> QED  BY <2>3, <2>4
<1>11. EntriesOK(d, g)
  <2>1. \A n \in DOMAIN d.los : n \in DOMAIN c.los /\ d.los[n] = c.los[n]
    BY <1>1, <1>3, <1>4, <1>5, <1>9
  <2>2. c.los # << >> => c.losSeg  BY <1>5 DEF EntriesOK
  <2> QED  BY <1>5, <1>9, <2>1, <2>2 DEF EntriesOK
<1>12. \A r \in Gens : LosOn(d, g, r) = LosOn(c, g, r) \ {l}
  <2>1. 1 .. l - 1 = (1 .. l) \ {l}  BY <1>1
  <2> QED  BY <1>3, <1>4, <1>5, <1>9, <2>1 DEF LosOn
<1>13. ASSUME NEW r \in Gens PROVE Threaded(LosOn(d, g, r), d.los, d.losHead[r])
  <2>1. Threaded(LosOn(c, g, r), c.los, c.losHead[r])  BY DEF ContextOK
  <2>2. l \in LosOn(c, g, r) <=> e.obj # Nil /\ g[e.obj] = r  BY <1>3, <1>5, <1>6 DEF LosOn
  <2>3. CASE l \in LosOn(c, g, r)
    <3>1. Threaded(LosOn(c, g, r) \ {Len(c.los)}, Front(c.los), c.los[Len(c.los)].next)
      BY <1>1, <2>1, <2>3, ContextFacts, ThreadedPop
    <3>2. d.losHead[r] = e.next  BY <1>9, <2>2, <2>3, ContextFacts
    <3> QED  BY <1>1, <1>3, <1>9, <1>12, <3>1, <3>2
  <2>4. CASE l \notin LosOn(c, g, r)
    <3>1. Threaded(LosOn(c, g, r), Front(c.los), c.losHead[r])
      BY <1>1, <2>1, <2>4, ContextFacts, ThreadedPopOther
    <3>2. d.losHead[r] = c.losHead[r]  BY <1>8, <1>9, <2>2, <2>4, ContextFacts
    <3>3. LosOn(d, g, r) = LosOn(c, g, r)  BY <1>12, <2>4
    <3> QED  BY <1>9, <3>1, <3>2, <3>3
  <2> QED  BY <2>3, <2>4
<1>14. \A r \in Gens : Threaded(StackOn(d, g, r), d.stack, d.head[r])  BY <1>9 DEF ContextOK, StackOn
<1>15. ContextOK(d, g)  BY <1>10, <1>11, <1>13, <1>14 DEF ContextOK
<1>16. Items(c) = Items(d) \cup I
  <2>1. {m \in 1 .. l : c.los[m].obj # Nil}
          = {m \in 1 .. l - 1 : d.los[m].obj # Nil} \cup {m \in {l} : e.obj # Nil}
    <3>1. \A i \in 1 .. l - 1 : i \in 1 .. l /\ d.los[i] = c.los[i]  BY <1>1, <1>3, <1>9
    <3> QED  BY <1>3, <1>6, <3>1
  <2>2. \A i \in 1 .. l - 1 : d.los[i] = c.los[i]  BY <1>3, <1>9
  <2>3. CASE e.obj = Nil
    <3>1. I = {}  BY <1>2, <2>3
    <3> QED  BY <1>4, <1>5, <1>9, <2>1, <2>2, <2>3, <3>1 DEF Items
  <2>4. CASE e.obj # Nil
    <3>1. I = {<<c.los[l].obj, c.los[l].index>>}  BY <1>2, <1>3, <2>4
    <3>2. {m \in 1 .. l : c.los[m].obj # Nil} = {m \in 1 .. l - 1 : d.los[m].obj # Nil} \cup {l}
      BY <2>1, <2>4
    <3> QED  BY <1>4, <1>5, <1>9, <2>2, <3>1, <3>2 DEF Items
  <2> QED  BY <2>3, <2>4
<1> QED  BY <1>2, <1>7, <1>8, <1>9, <1>15, <1>16

Fields == \A o \in Objects : field[o] \in [Slots(o) -> Objects \cup {Nil}]

(* The pointers of an object are its targets.                              *)
LEMMA FieldFacts ==
  ASSUME Fields, NEW o \in Objects
  PROVE  /\ Size[o] \in Nat \ {0} /\ field[o] \in Seq(Objects \cup {Nil}) /\ Len(field[o]) = Size[o]
         /\ \A i \in 1 .. Size[o] : field[o][i] \in Objects \cup {Nil}
         /\ Targets(field, o) = {field[o][i] : i \in 1 .. Size[o]} \ {Nil}
         /\ Targets(field, o) \subseteq Objects
<1>1. Size[o] \in Nat \ {0}  BY MarkerAssumption
<1>2. field[o] \in [1 .. Size[o] -> Objects \cup {Nil}]  BY DEF Fields, Slots
<1>3. field[o] \in Seq(Objects \cup {Nil})  BY <1>1, <1>2, SeqDef
<1>4. Len(field[o]) = Size[o]  BY <1>1, <1>2, <1>3, LenProperties
<1> QED  BY <1>1, <1>2, <1>3, <1>4 DEF Targets, Slots

(* Where an object comes from that the marker has yet to look at.          *)
LEMMA AheadCases ==
  ASSUME NEW c, NEW f, NEW log, NEW a
  PROVE  a \in Ahead(c, f, log) <=>
           \/ \E v \in Vals(c) : a \in Targets(f, v)
           \/ a \in log
           \/ a # Nil /\ \E e \in Items(c) : \E i \in e[2] .. Size[e[1]] : a = f[e[1]][i]
<1> DEFINE A == UNION {Targets(f, o) : o \in Vals(c)}
           B == UNION {{f[e[1]][i] : i \in e[2] .. Size[e[1]]} : e \in Items(c)}
<1>1. a \in A <=> \E v \in Vals(c) : a \in Targets(f, v)  OBVIOUS
<1>2. a \in B <=> \E e \in Items(c) : \E i \in e[2] .. Size[e[1]] : a = f[e[1]][i]  OBVIOUS
<1>3. Ahead(c, f, log) = A \cup log \cup (B \ {Nil})  BY DEF Ahead
<1> HIDE DEF A, B
<1> QED  BY <1>1, <1>2, <1>3

(* From c to d the marker has marked some of what was ahead, and what those *)
(* point to is marked or ahead.                                            *)
Advance(c, d, f, log) ==
  /\ c.marked \subseteq d.marked /\ Ahead(c, f, log) \subseteq d.marked \cup Ahead(d, f, log)
  /\ \A x \in d.marked \ c.marked : Targets(f, x) \subseteq d.marked \cup Ahead(d, f, log)

(* What covers what there is still to mark covered it before, together     *)
(* with the marks.                                                         *)
LEMMA AdvanceCovers ==
  ASSUME NEW c, NEW d, NEW g, NEW f, NEW log, Advance(c, d, f, log),
         NEW X, ToMark(X, d, g, f, log), NEW Y, Y = X \cup d.marked
  PROVE  ToMark(Y, c, g, f, log)
<1>1. White(d, g) \subseteq White(c, g) /\ \A o \in White(c, g) : o \in d.marked \/ o \in White(d, g)
  BY DEF White, Advance
<1>2. ASSUME NEW x \in Y \cap White(c, g), NEW t \in Targets(f, x) \cap White(c, g)
      PROVE  t \in Y
  <2>1. CASE x \in d.marked
    <3>1. x \notin c.marked  BY <1>2 DEF White
    <3>2. t \in d.marked \cup Ahead(d, f, log)  BY <1>2, <2>1, <3>1 DEF Advance
    <3> QED  BY <1>1, <1>2, <3>2 DEF ToMark
  <2>2. CASE x \notin d.marked  BY <1>1, <1>2, <2>2 DEF ToMark
  <2> QED  BY <2>1, <2>2
<1>3. ASSUME NEW a \in Ahead(c, f, log) \cap White(c, g) PROVE a \in Y
  BY <1>1, <1>3 DEF ToMark, Advance
<1> QED  BY <1>2, <1>3 DEF ToMark

(* smircy_progress scans the object on top: what was ahead is ahead or     *)
(* marked.                                                                 *)
LEMMA PopFacts ==
  ASSUME Fields, NEW c, ContextOK(c, gen), c.stack # << >>, NEW log,
         \A o \in c.marked : \A t \in Targets(field, o) : gen[t] \in Gens,
         NEW d, d = Pop(c)
  PROVE  /\ ContextOK(d, gen) /\ Advance(c, d, field, log) /\ d.stage = c.stage
         /\ c.seg => d.seg
         /\ c.losSeg => d.losSeg
         /\ \A x \in d.marked \ c.marked :
              x \in Objects /\ gen[x] \in Gens /\ \E o \in c.marked : x \in Targets(field, o)
<1>1. PICK b : b = WithoutTop(c, gen)  OBVIOUS
<1>2. PICK o \in Objects \cup {Nil} : o = Last(c.stack).val  BY <1>1, WithoutTopFacts
<1>3. /\ ContextOK(b, gen) /\ Vals(c) = Vals(b) \cup ({o} \ {Nil})
      /\ b.marked = c.marked /\ b.los = c.los /\ b.seg = c.seg /\ b.losSeg = c.losSeg /\ b.stage = c.stage
      /\ o # Nil => o \in c.marked /\ gen[o] \in Gens
  BY <1>1, <1>2, WithoutTopFacts
<1>4. Items(b) = Items(c)  BY <1>3 DEF Items
<1>5. CASE o = Nil
  <2>1. d = b  BY <1>1, <1>2, <1>5 DEF Pop, WithoutTop
  <2>2. Vals(d) = Vals(c)  BY <1>3, <1>5, <2>1
  <2>3. Ahead(c, field, log) \subseteq Ahead(d, field, log)
    <3> SUFFICES ASSUME NEW a \in Ahead(c, field, log) PROVE a \in Ahead(d, field, log)  OBVIOUS
    <3> QED  BY <1>4, <2>1, <2>2, AheadCases
  <2> QED  BY <1>3, <2>1, <2>3 DEF Advance
<1>6. CASE o # Nil
  <2>1. d = Constituents(b, o)  BY <1>1, <1>2, <1>6 DEF Pop, WithoutTop
  <2>2. o \in Objects /\ gen[o] \in Gens /\ o \in b.marked  BY <1>3, <1>6
  <2>3. CASE Size[o] > Window
    <3>1. d = LosPush(b, gen, o, 1)  BY <2>1, <2>3 DEF Constituents
    <3>2. PICK I : I = {<<o, 1>>}  OBVIOUS
    <3>3. 1 \in Nat \ {0} /\ 1 <= Size[o]  BY <2>2, FieldFacts
    <3>4. ContextOK(d, gen) /\ LosExtends(b, d, I)  BY <1>3, <2>2, <3>1, <3>2, <3>3, LosPushFacts
    <3>5. /\ Items(d) = Items(b) \cup I /\ d.marked = b.marked /\ d.stack = b.stack
          /\ d.seg = b.seg /\ d.stage = b.stage /\ (b.losSeg => d.losSeg)
      BY <3>4 DEF LosExtends
    <3>6. Vals(d) = Vals(b)  BY <3>5 DEF Vals
    <3>7. Targets(field, o) \subseteq Ahead(d, field, log)
      <4> SUFFICES ASSUME NEW a \in Targets(field, o) PROVE a \in Ahead(d, field, log)  OBVIOUS
      <4>1. PICK i \in 1 .. Size[o] : a = field[o][i] /\ a # Nil  BY <2>2, FieldFacts
      <4>2. PICK e \in Items(d) : e = <<o, 1>>  BY <3>2, <3>5
      <4>3. e[1] = o /\ e[2] = 1  BY <4>2
      <4> QED  BY <4>1, <4>3, AheadCases
    <3>8. Ahead(c, field, log) \subseteq Ahead(d, field, log)
      <4> SUFFICES ASSUME NEW a \in Ahead(c, field, log) PROVE a \in Ahead(d, field, log)  OBVIOUS
      <4>1. \A v \in Vals(c) : v \in Vals(d) \/ v = o  BY <1>3, <3>6
      <4>2. \A e \in Items(c) : e \in Items(d)  BY <1>4, <3>5
      <4> QED  BY <3>7, <4>1, <4>2, AheadCases
    <3> QED  BY <1>3, <3>4, <3>5, <3>8 DEF Advance
  <2>4. CASE ~(Size[o] > Window)
    <3>0. PICK os : os = field[o]  OBVIOUS
    <3>1. d = PushAll(b, gen, os)  BY <2>1, <2>4, <3>0 DEF Constituents
    <3>2. PICK N : N = {os[i] : i \in 1 .. Len(os)} \ {Nil}  OBVIOUS
    <3>3. N = Targets(field, o)  BY <2>2, <3>0, <3>2, FieldFacts
    <3>4. \A i \in 1 .. Len(os) : os[i] \in Objects \cup {Nil} /\ (os[i] # Nil => gen[os[i]] \in Gens)
      <4>1. \A i \in 1 .. Len(os) : os[i] \in Objects \cup {Nil}  BY <2>2, <3>0, FieldFacts
      <4>2. \A t \in N : gen[t] \in Gens  BY <1>3, <2>2, <3>3
      <4> QED  BY <3>2, <4>1, <4>2
    <3>5. Len(os) \in Nat  BY <2>2, <3>0, FieldFacts
    <3>6. PICK V : V = N \ b.marked  OBVIOUS
    <3>7. ContextOK(d, gen) /\ Extends(b, d, N, V)
      BY <1>3, <3>1, <3>2, <3>4, <3>5, <3>6, PushAllFacts
    <3>8. /\ d.marked = b.marked \cup N /\ Vals(d) = Vals(b) \cup V
          /\ d.los = b.los /\ d.losSeg = b.losSeg /\ d.stage = b.stage /\ (b.seg => d.seg)
      BY <3>7 DEF Extends
    <3>9. Items(d) = Items(c)  BY <1>3, <3>8 DEF Items
    <3>10. Ahead(c, field, log) \subseteq d.marked \cup Ahead(d, field, log)
      <4> SUFFICES ASSUME NEW a \in Ahead(c, field, log), a \notin N PROVE a \in Ahead(d, field, log)
        BY <3>8
      <4>1. \A v \in Vals(c) : v \in Vals(d) \/ v = o  BY <1>3, <3>8
      <4> QED  BY <3>3, <3>9, <4>1, AheadCases
    <3>11. ASSUME NEW x \in d.marked \ c.marked
           PROVE  /\ x \in Objects /\ gen[x] \in Gens /\ Targets(field, x) \subseteq Ahead(d, field, log)
                  /\ \E v \in c.marked : x \in Targets(field, v)
      <4>1. x \in N /\ x \in Vals(d)  BY <1>3, <3>6, <3>8, <3>11
      <4>2. x \in Objects /\ gen[x] \in Gens  BY <3>7, <4>1, ValsFacts
      <4>3. o \in c.marked /\ x \in Targets(field, o)  BY <1>3, <2>2, <3>3, <4>1
      <4>4. Targets(field, x) \subseteq Ahead(d, field, log)  BY <4>1, AheadCases
      <4> QED  BY <4>2, <4>3, <4>4
    <3> QED  BY <1>3, <3>7, <3>8, <3>10, <3>11 DEF Advance
  <2> QED  BY <2>3, <2>4
<1> QED  BY <1>5, <1>6

(* A window of a large object: likewise, and the cursor moves on.          *)
LEMMA FillFromLosFacts ==
  ASSUME Fields, NEW c, ContextOK(c, gen), c.stack = << >>, c.los # << >>, NEW log,
         \A o \in c.marked : \A t \in Targets(field, o) : gen[t] \in Gens,
         NEW d, d = FillFromLos(c)
  PROVE  /\ ContextOK(d, gen) /\ Advance(c, d, field, log) /\ d.stage = c.stage /\ d.losSeg
         /\ \A x \in d.marked \ c.marked :
              x \in Objects /\ gen[x] \in Gens /\ \E o \in c.marked : x \in Targets(field, o)
<1>1. PICK b : b = WithoutLosTop(c, gen)  OBVIOUS
<1>2. PICK o, m : o = Last(c.los).obj /\ m = Last(c.los).index  OBVIOUS
<1>3. PICK I : I = IF o = Nil THEN {} ELSE {<<o, m>>}  OBVIOUS
<1>4. /\ ContextOK(b, gen) /\ Items(c) = Items(b) \cup I
      /\ b.marked = c.marked /\ b.stack = c.stack /\ b.losSeg = c.losSeg /\ b.stage = c.stage
      /\ o # Nil => /\ o \in Objects /\ o \in c.marked /\ gen[o] \in Gens
                    /\ m \in Nat \ {0} /\ m <= Size[o]
  BY <1>1, <1>2, <1>3, WithoutLosTopFacts
<1>5. Vals(b) = Vals(c)  BY <1>4 DEF Vals
<1>6. c.losSeg  BY DEF ContextOK, EntriesOK
<1>7. CASE o = Nil
  <2>1. d = b  BY <1>1, <1>2, <1>7 DEF FillFromLos, WithoutLosTop
  <2>2. Items(d) = Items(c)  BY <1>3, <1>4, <1>7, <2>1
  <2>3. Ahead(c, field, log) \subseteq Ahead(d, field, log)
    <3> SUFFICES ASSUME NEW a \in Ahead(c, field, log) PROVE a \in Ahead(d, field, log)  OBVIOUS
    <3> QED  BY <1>5, <2>1, <2>2, AheadCases
  <2> QED  BY <1>4, <1>6, <2>1, <2>3 DEF Advance
<1>8. CASE o # Nil
  <2>0. o \in Objects /\ gen[o] \in Gens /\ o \in b.marked /\ m \in Nat \ {0} /\ m <= Size[o]  BY <1>4, <1>8
  <2>1. Size[o] \in Nat \ {0} /\ Window \in Nat \ {0}  BY <2>0, FieldFacts, MarkerAssumption
  <2>2. PICK limit : limit = IF m + Window - 1 < Size[o] THEN m + Window - 1 ELSE Size[o]  OBVIOUS
  <2>3. limit \in Nat /\ m <= limit /\ limit <= Size[o]  BY <2>0, <2>1, <2>2
  <2>4. PICK os : os = SubSeq(field[o], m, limit)  OBVIOUS
  <2>5. PICK w : w = PushAll(b, gen, os)  OBVIOUS
  <2>6. d = IF limit < Size[o] THEN LosPush(w, gen, o, limit + 1) ELSE w
    BY <1>1, <1>2, <1>8, <2>2, <2>4, <2>5 DEF FillFromLos, WithoutLosTop
  <2>7. /\ Len(os) \in Nat /\ Len(os) = limit - m + 1
        /\ \A i \in 1 .. limit - m + 1 : os[i] = field[o][m + i - 1]
    <3>1. \A i \in m .. limit : field[o][i] \in Objects \cup {Nil}
      <4>1. \A i \in m .. limit : i \in 1 .. Size[o]  BY <2>0, <2>1, <2>3
      <4> QED  BY <2>0, <4>1, FieldFacts
    <3>2. m \in Int /\ limit \in Int  BY <2>0, <2>3
    <3>3. Len(os) = IF m <= limit THEN limit - m + 1 ELSE 0  BY <2>4, <3>1, <3>2, SubSeqProperties
    <3>4. \A i \in 1 .. limit - m + 1 : os[i] = field[o][m + i - 1]  BY <2>4, <3>1, <3>2, SubSeqProperties
    <3> QED  BY <2>0, <2>3, <3>3, <3>4
  <2>8. PICK N : N = {os[i] : i \in 1 .. Len(os)} \ {Nil}  OBVIOUS
  <2>9. N = {field[o][i] : i \in m .. limit} \ {Nil}
    <3>1. ASSUME NEW i \in 1 .. Len(os) PROVE \E j \in m .. limit : os[i] = field[o][j]
      <4>1. m + i - 1 \in m .. limit  BY <2>0, <2>3, <2>7
      <4> QED  BY <2>7, <4>1
    <3>2. ASSUME NEW j \in m .. limit PROVE \E i \in 1 .. Len(os) : os[i] = field[o][j]
      <4>1. j - m + 1 \in 1 .. limit - m + 1 /\ m + (j - m + 1) - 1 = j  BY <2>0, <2>3
      <4> QED  BY <2>7, <4>1
    <3> DEFINE B == {field[o][i] : i \in m .. limit}
    <3>3. \A a \in N : a \in B /\ a # Nil  BY <2>8, <3>1
    <3>4. \A b1 \in B \ {Nil} : b1 \in N
      <4> SUFFICES ASSUME NEW j \in m .. limit, field[o][j] # Nil PROVE field[o][j] \in N  OBVIOUS
      <4>1. PICK i \in 1 .. Len(os) : os[i] = field[o][j]  BY <3>2
      <4> QED  BY <2>8, <4>1
    <3> HIDE DEF B
    <3>5. N = B \ {Nil}  BY <3>3, <3>4
    <3> QED  BY <3>5 DEF B
  <2>10. N \subseteq Targets(field, o)
    <3>1. \A i \in m .. limit : i \in 1 .. Size[o]  BY <2>0, <2>1, <2>3
    <3> QED  BY <2>0, <2>9, <3>1, FieldFacts
  <2>11. \A i \in 1 .. Len(os) : os[i] \in Objects \cup {Nil} /\ (os[i] # Nil => gen[os[i]] \in Gens)
    <3>1. \A t \in N : t \in Objects /\ gen[t] \in Gens  BY <1>4, <2>0, <2>10, FieldFacts
    <3> QED  BY <2>8, <3>1
  <2>12. PICK V : V = N \ b.marked  OBVIOUS
  <2>13. ContextOK(w, gen) /\ Extends(b, w, N, V)
    BY <1>4, <2>5, <2>7, <2>8, <2>11, <2>12, PushAllFacts
  <2>14. /\ w.marked = b.marked \cup N /\ Vals(w) = Vals(b) \cup V
         /\ w.los = b.los /\ w.losSeg = b.losSeg /\ w.stage = b.stage
    BY <2>13 DEF Extends
  <2>15. Items(w) = Items(b)  BY <2>14 DEF Items
  <2>16. PICK J : J = IF limit < Size[o] THEN {<<o, limit + 1>>} ELSE {}  OBVIOUS
  <2>17. /\ ContextOK(d, gen) /\ Items(d) = Items(w) \cup J
         /\ d.marked = w.marked /\ Vals(d) = Vals(w) /\ d.stage = w.stage /\ d.losSeg
    <3>1. CASE limit < Size[o]
      <4>1. d = LosPush(w, gen, o, limit + 1)  BY <2>6, <3>1
      <4>2. limit + 1 \in Nat \ {0} /\ limit + 1 <= Size[o] /\ o \in w.marked
        BY <2>0, <2>1, <2>3, <2>14, <3>1
      <4>3. PICK i \in Nat \ {0} : i = limit + 1  BY <4>2
      <4>4. J = {<<o, i>>}  BY <2>16, <3>1, <4>3
      <4>5. ContextOK(d, gen) /\ LosExtends(w, d, J)
        BY <2>0, <2>13, <4>1, <4>2, <4>3, <4>4, LosPushFacts
      <4>6. Vals(d) = Vals(w)  BY <4>5 DEF Vals, LosExtends
      <4> QED  BY <1>4, <1>6, <2>14, <4>5, <4>6 DEF LosExtends
    <3>2. CASE ~(limit < Size[o])
      <4>1. d = w /\ J = {}  BY <2>6, <2>16, <3>2
      <4> QED  BY <1>4, <1>6, <2>13, <2>14, <4>1
    <3> QED  BY <3>1, <3>2
  <2>18. ASSUME NEW i \in m .. Size[o], field[o][i] # Nil
         PROVE  field[o][i] \in d.marked \cup Ahead(d, field, log)
    <3>1. CASE i \in m .. limit  BY <2>9, <2>14, <2>17, <2>18, <3>1
    <3>2. CASE i \notin m .. limit
      <4>1. i \in limit + 1 .. Size[o] /\ limit < Size[o]  BY <2>0, <2>1, <2>3, <3>2
      <4>2. PICK e \in Items(d) : e = <<o, limit + 1>>  BY <2>16, <2>17, <4>1
      <4>3. e[1] = o /\ e[2] = limit + 1  BY <4>2
      <4> QED  BY <2>18, <4>1, <4>3, AheadCases
    <3> QED  BY <3>1, <3>2
  <2>19. Ahead(c, field, log) \subseteq d.marked \cup Ahead(d, field, log)
    <3> SUFFICES ASSUME NEW a \in Ahead(c, field, log) PROVE a \in d.marked \cup Ahead(d, field, log)
      OBVIOUS
    <3>1. \A v \in Vals(c) : v \in Vals(d)  BY <1>5, <2>14, <2>17
    <3>2. \A e \in Items(c) : e \in Items(d) \/ e = <<o, m>>  BY <1>3, <1>4, <1>8, <2>15, <2>17
    <3>3. CASE \E v \in Vals(c) : a \in Targets(field, v)  BY <3>1, <3>3, AheadCases
    <3>4. CASE a \in log  BY <3>4, AheadCases
    <3>5. CASE a # Nil /\ \E e \in Items(c) : \E i \in e[2] .. Size[e[1]] : a = field[e[1]][i]
      <4>1. PICK e \in Items(c) : \E i \in e[2] .. Size[e[1]] : a = field[e[1]][i]  BY <3>5
      <4>2. CASE e \in Items(d)  BY <3>5, <4>1, <4>2, AheadCases
      <4>3. CASE e = <<o, m>>
        <5>1. e[1] = o /\ e[2] = m  BY <4>3
        <5>2. PICK i \in m .. Size[o] : a = field[o][i]  BY <4>1, <5>1
        <5> QED  BY <2>18, <3>5, <5>2
      <4> QED  BY <3>2, <4>2, <4>3
    <3> QED  BY <3>3, <3>4, <3>5, AheadCases
  <2>20. ASSUME NEW x \in d.marked \ c.marked
         PROVE  /\ x \in Objects /\ gen[x] \in Gens /\ Targets(field, x) \subseteq Ahead(d, field, log)
                /\ \E v \in c.marked : x \in Targets(field, v)
    <3>1. x \in Vals(d) /\ x \in N  BY <1>4, <2>12, <2>14, <2>17, <2>20
    <3>2. x \in Objects /\ gen[x] \in Gens  BY <2>17, <3>1, ValsFacts
    <3>3. o \in c.marked /\ x \in Targets(field, o)  BY <1>4, <2>0, <2>10, <3>1
    <3>4. Targets(field, x) \subseteq Ahead(d, field, log)  BY <3>1, AheadCases
    <3> QED  BY <3>2, <3>3, <3>4
  <2> QED  BY <1>4, <2>14, <2>17, <2>19, <2>20 DEF Advance
<1> QED  BY <1>7, <1>8

(* The entries of a region at positions E and F are killed.                *)
Killed(c, r, E, F) ==
  [c EXCEPT !.stack = [n \in DOMAIN @ |-> IF n \in E THEN [@[n] EXCEPT !.val = Nil] ELSE @[n]],
            !.los = [n \in DOMAIN @ |-> IF n \in F THEN [@[n] EXCEPT !.obj = Nil] ELSE @[n]],
            !.head = [@ EXCEPT ![r] = 0], !.losHead = [@ EXCEPT ![r] = 0]]

(* The objects that entries are of.                                        *)
Entered(c) == Vals(c) \cup {e[1] : e \in Items(c)}

ValsAt(c, E)  == {c.stack[n].val : n \in E}
ItemsAt(c, F) == {<<c.los[n].obj, c.los[n].index>> : n \in F}

(* The entries of the collected region, out of both stacks and its         *)
(* threads.                                                                *)
LEMMA KilledFacts ==
  ASSUME NEW c, NEW g, ContextOK(c, g), NEW r \in Gens, NEW h,
         \A v \in Entered(c) : g[v] # r => h[v] = g[v],
         NEW E, E = StackOn(c, g, r), NEW F, F = LosOn(c, g, r), NEW d, d = Killed(c, r, E, F)
  PROVE  /\ ContextOK(d, h) /\ d.marked = c.marked /\ d.stage = c.stage
         /\ d.seg = c.seg /\ d.losSeg = c.losSeg
         /\ Vals(c) = Vals(d) \cup ValsAt(c, E) /\ Items(c) = Items(d) \cup ItemsAt(c, F)
<1>0. c \in Context /\ EntriesOK(c, g)  BY DEF ContextOK
<1>1. PICK l \in Nat, k \in Nat : l = Len(c.stack) /\ k = Len(c.los)  BY ContextFacts
<1>2. DOMAIN c.stack = 1 .. l /\ DOMAIN c.los = 1 .. k  BY <1>1, ContextFacts
<1>3. /\ d.stack = [n \in 1 .. l |-> IF n \in E THEN [c.stack[n] EXCEPT !.val = Nil] ELSE c.stack[n]]
      /\ d.los = [n \in 1 .. k |-> IF n \in F THEN [c.los[n] EXCEPT !.obj = Nil] ELSE c.los[n]]
      /\ d.head = [c.head EXCEPT ![r] = 0] /\ d.losHead = [c.losHead EXCEPT ![r] = 0]
      /\ d.marked = c.marked /\ d.seg = c.seg /\ d.losSeg = c.losSeg /\ d.stage = c.stage
  BY <1>0, <1>2 DEF Killed, Context
<1>4. ASSUME NEW n \in 1 .. l
      PROVE  /\ d.stack[n] \in Entry /\ d.stack[n].next = c.stack[n].next
             /\ n \in E => d.stack[n].val = Nil
             /\ n \notin E => d.stack[n].val = c.stack[n].val
  <2>1. c.stack[n] \in Entry  BY <1>1, ContextFacts
  <2>2. CASE n \in E
    <3>1. d.stack[n] = [c.stack[n] EXCEPT !.val = Nil]  BY <1>3, <2>2
    <3> QED  BY <2>1, <2>2, <3>1 DEF Entry
  <2>3. CASE n \notin E
    <3>1. d.stack[n] = c.stack[n]  BY <1>3, <2>3
    <3> QED  BY <2>1, <2>3, <3>1 DEF Entry
  <2> QED  BY <2>2, <2>3
<1>40. ASSUME NEW n \in 1 .. k
      PROVE  /\ d.los[n] \in LosEntry /\ d.los[n].next = c.los[n].next
             /\ d.los[n].index = c.los[n].index
             /\ n \in F => d.los[n].obj = Nil
             /\ n \notin F => d.los[n].obj = c.los[n].obj
  <2>1. c.los[n] \in LosEntry  BY <1>1, ContextFacts
  <2>2. CASE n \in F
    <3>1. d.los[n] = [c.los[n] EXCEPT !.obj = Nil]  BY <1>3, <2>2
    <3> QED  BY <2>1, <2>2, <3>1 DEF LosEntry
  <2>3. CASE n \notin F
    <3>1. d.los[n] = c.los[n]  BY <1>3, <2>3
    <3> QED  BY <2>1, <2>3, <3>1 DEF LosEntry
  <2> QED  BY <2>2, <2>3
<1>5. /\ d.stack \in Seq(Entry) /\ Len(d.stack) = l /\ DOMAIN d.stack = 1 .. l
      /\ d.los \in Seq(LosEntry) /\ Len(d.los) = k /\ DOMAIN d.los = 1 .. k
  <2>1. d.stack \in [1 .. l -> Entry] /\ d.los \in [1 .. k -> LosEntry]  BY <1>3, <1>4, <1>40
  <2>2. d.stack \in Seq(Entry) /\ d.los \in Seq(LosEntry)  BY <2>1, SeqDef
  <2> QED  BY <2>1, <2>2, LenProperties
<1>6. d \in Context
  <2>1. d.head \in [Gens -> Nat] /\ d.losHead \in [Gens -> Nat]  BY <1>3, ContextFacts
  <2>2. d = [c EXCEPT !.stack = d.stack, !.los = d.los, !.head = d.head, !.losHead = d.losHead]
    BY <1>0, <1>2, <1>3 DEF Killed, Context
  <2> QED  BY <1>0, <1>5, <2>1, <2>2 DEF Context
<1>7. /\ E = {n \in 1 .. l : c.stack[n].val # Nil /\ g[c.stack[n].val] = r}
      /\ F = {n \in 1 .. k : c.los[n].obj # Nil /\ g[c.los[n].obj] = r}
  BY <1>2 DEF StackOn, LosOn
<1>8. \A n \in 1 .. l : c.stack[n].val # Nil =>
        /\ c.stack[n].val \in c.marked /\ g[c.stack[n].val] \in Gens
        /\ g[c.stack[n].val] # r => h[c.stack[n].val] = g[c.stack[n].val]
  <2>1. \A n \in 1 .. l : c.stack[n].val # Nil => c.stack[n].val \in Entered(c)
    BY <1>2 DEF Entered, Vals
  <2> QED  BY <1>0, <1>2, <2>1 DEF EntriesOK
<1>9. \A n \in 1 .. k : c.los[n].obj # Nil =>
        /\ c.los[n].obj \in c.marked /\ g[c.los[n].obj] \in Gens
        /\ g[c.los[n].obj] # r => h[c.los[n].obj] = g[c.los[n].obj]
        /\ c.los[n].index <= Size[c.los[n].obj]
  <2>1. ASSUME NEW n \in 1 .. k, c.los[n].obj # Nil PROVE c.los[n].obj \in Entered(c)
    <3>1. PICK e \in Items(c) : e = <<c.los[n].obj, c.los[n].index>>  BY <1>2, <2>1 DEF Items
    <3>2. e[1] = c.los[n].obj  BY <3>1
    <3> QED  BY <3>2 DEF Entered
  <2> QED  BY <1>0, <1>2, <2>1 DEF EntriesOK
<1>80. ASSUME NEW n \in 1 .. l, d.stack[n].val # Nil
       PROVE  /\ n \notin E /\ d.stack[n].val = c.stack[n].val /\ g[c.stack[n].val] # r
              /\ c.stack[n].val \in c.marked /\ h[c.stack[n].val] = g[c.stack[n].val]
              /\ h[c.stack[n].val] \in Gens
  <2>1. n \notin E /\ d.stack[n].val = c.stack[n].val  BY <1>4, <1>80
  <2>2. g[c.stack[n].val] # r  BY <1>7, <1>80, <2>1
  <2> QED  BY <1>8, <1>80, <2>1, <2>2
<1>90. ASSUME NEW n \in 1 .. k, d.los[n].obj # Nil
       PROVE  /\ n \notin F /\ d.los[n].obj = c.los[n].obj /\ d.los[n].index = c.los[n].index
              /\ g[c.los[n].obj] # r
              /\ c.los[n].obj \in c.marked /\ h[c.los[n].obj] = g[c.los[n].obj]
              /\ h[c.los[n].obj] \in Gens /\ c.los[n].index <= Size[c.los[n].obj]
  <2>1. n \notin F /\ d.los[n].obj = c.los[n].obj /\ d.los[n].index = c.los[n].index  BY <1>40, <1>90
  <2>2. g[c.los[n].obj] # r  BY <1>7, <1>90, <2>1
  <2> QED  BY <1>9, <1>90, <2>1, <2>2
<1>10. EntriesOK(d, h)
  <2>1. \A n \in DOMAIN d.stack : d.stack[n].val # Nil =>
          d.stack[n].val \in d.marked /\ h[d.stack[n].val] \in Gens
    BY <1>3, <1>5, <1>80
  <2>2. \A n \in DOMAIN d.los : d.los[n].obj # Nil =>
          /\ d.los[n].obj \in d.marked /\ h[d.los[n].obj] \in Gens
          /\ d.los[n].index <= Size[d.los[n].obj]
    BY <1>3, <1>5, <1>90
  <2>3. (d.stack # << >> => c.stack # << >>) /\ (d.los # << >> => c.los # << >>)
    <3>1. c.stack = << >> => l = 0  BY <1>1, EmptySeq
    <3>2. c.los = << >> => k = 0  BY <1>1, EmptySeq
    <3>3. (l = 0 => d.stack = << >>) /\ (k = 0 => d.los = << >>)  BY <1>5, EmptySeq
    <3> QED  BY <3>1, <3>2, <3>3
  <2> QED  BY <1>0, <1>3, <2>1, <2>2, <2>3 DEF EntriesOK
<1>11. ASSUME NEW q \in Gens PROVE Threaded(StackOn(d, h, q), d.stack, d.head[q])
  <2>1. Threaded(StackOn(c, g, q), c.stack, c.head[q])  BY DEF ContextOK
  <2>2. CASE q = r
    <3>1. StackOn(d, h, q) = {}
      <4> SUFFICES ASSUME NEW n \in StackOn(d, h, q) PROVE FALSE  OBVIOUS
      <4>1. n \in 1 .. l /\ d.stack[n].val # Nil /\ h[d.stack[n].val] = q  BY <1>5 DEF StackOn
      <4> QED  BY <1>80, <2>2, <4>1
    <3>2. d.head[q] = 0  BY <1>3, <2>2, ContextFacts
    <3>3. Threaded({}, d.stack, 0)  BY <1>1, <1>5, ThreadedNone
    <3> QED  BY <3>1, <3>2, <3>3
  <2>3. CASE q # r
    <3>1. StackOn(d, h, q) = StackOn(c, g, q)
      <4>1. ASSUME NEW n \in StackOn(d, h, q) PROVE n \in StackOn(c, g, q)
        <5>1. n \in 1 .. l /\ d.stack[n].val # Nil /\ h[d.stack[n].val] = q  BY <1>5, <4>1 DEF StackOn
        <5> QED  BY <1>2, <1>80, <5>1 DEF StackOn
      <4>2. ASSUME NEW n \in StackOn(c, g, q) PROVE n \in StackOn(d, h, q)
        <5>1. n \in 1 .. l /\ c.stack[n].val # Nil /\ g[c.stack[n].val] = q  BY <1>2, <4>2 DEF StackOn
        <5>2. n \notin E /\ h[c.stack[n].val] = q  BY <1>7, <1>8, <2>3, <5>1
        <5> QED  BY <1>4, <1>5, <5>1, <5>2 DEF StackOn
      <4> QED  BY <4>1, <4>2
    <3>2. d.head[q] = c.head[q]  BY <1>3, <2>3, ContextFacts
    <3>3. Len(d.stack) = Len(c.stack) /\ \A n \in StackOn(c, g, q) : d.stack[n].next = c.stack[n].next
      BY <1>1, <1>2, <1>4, <1>5 DEF StackOn
    <3> QED  BY <2>1, <3>1, <3>2, <3>3, ThreadedKept
  <2> QED  BY <2>2, <2>3
<1>12. ASSUME NEW q \in Gens PROVE Threaded(LosOn(d, h, q), d.los, d.losHead[q])
  <2>1. Threaded(LosOn(c, g, q), c.los, c.losHead[q])  BY DEF ContextOK
  <2>2. CASE q = r
    <3>1. LosOn(d, h, q) = {}
      <4> SUFFICES ASSUME NEW n \in LosOn(d, h, q) PROVE FALSE  OBVIOUS
      <4>1. n \in 1 .. k /\ d.los[n].obj # Nil /\ h[d.los[n].obj] = q  BY <1>5 DEF LosOn
      <4> QED  BY <1>90, <2>2, <4>1
    <3>2. d.losHead[q] = 0  BY <1>3, <2>2, ContextFacts
    <3>3. Threaded({}, d.los, 0)  BY <1>1, <1>5, ThreadedNone
    <3> QED  BY <3>1, <3>2, <3>3
  <2>3. CASE q # r
    <3>1. LosOn(d, h, q) = LosOn(c, g, q)
      <4>1. ASSUME NEW n \in LosOn(d, h, q) PROVE n \in LosOn(c, g, q)
        <5>1. n \in 1 .. k /\ d.los[n].obj # Nil /\ h[d.los[n].obj] = q  BY <1>5, <4>1 DEF LosOn
        <5> QED  BY <1>2, <1>90, <5>1 DEF LosOn
      <4>2. ASSUME NEW n \in LosOn(c, g, q) PROVE n \in LosOn(d, h, q)
        <5>1. n \in 1 .. k /\ c.los[n].obj # Nil /\ g[c.los[n].obj] = q  BY <1>2, <4>2 DEF LosOn
        <5>2. n \notin F /\ h[c.los[n].obj] = q  BY <1>7, <1>9, <2>3, <5>1
        <5> QED  BY <1>40, <1>5, <5>1, <5>2 DEF LosOn
      <4> QED  BY <4>1, <4>2
    <3>2. d.losHead[q] = c.losHead[q]  BY <1>3, <2>3, ContextFacts
    <3>3. Len(d.los) = Len(c.los) /\ \A n \in LosOn(c, g, q) : d.los[n].next = c.los[n].next
      BY <1>1, <1>2, <1>40, <1>5 DEF LosOn
    <3> QED  BY <2>1, <3>1, <3>2, <3>3, ThreadedKept
  <2> QED  BY <2>2, <2>3
<1>13. Vals(c) = Vals(d) \cup {c.stack[n].val : n \in E}
  <2>1. Vals(c) = {c.stack[n].val : n \in 1 .. l} \ {Nil}  BY <1>2 DEF Vals
  <2>2. Vals(d) = {d.stack[n].val : n \in 1 .. l} \ {Nil}  BY <1>5 DEF Vals
  <2>3. \A n \in 1 .. l : (n \in E => d.stack[n].val = Nil) /\ (n \notin E => d.stack[n].val = c.stack[n].val)
    BY <1>4
  <2>4. \A n \in E : n \in 1 .. l /\ c.stack[n].val # Nil  BY <1>7
  <2> QED  BY <2>1, <2>2, <2>3, <2>4
<1>14. Items(c) = Items(d) \cup {<<c.los[n].obj, c.los[n].index>> : n \in F}
  <2>1. {n \in DOMAIN c.los : c.los[n].obj # Nil} = {n \in DOMAIN d.los : d.los[n].obj # Nil} \cup F
    BY <1>2, <1>40, <1>5, <1>7
  <2>2. \A n \in DOMAIN d.los : d.los[n].obj # Nil =>
          d.los[n].obj = c.los[n].obj /\ d.los[n].index = c.los[n].index
    BY <1>40, <1>5
  <2> QED  BY <2>1, <2>2 DEF Items
<1>15. ContextOK(d, h)  BY <1>6, <1>10, <1>11, <1>12 DEF ContextOK
<1> QED  BY <1>3, <1>13, <1>14, <1>15 DEF ValsAt, ItemsAt

(* The entries of a region that was collected are pushed again for where   *)
(* their objects are now: nothing else about the context changes.          *)
LEMMA RequeueFacts ==
  ASSUME NEW c, NEW g, ContextOK(c, g), NEW r \in Gens, NEW h,
         \A v \in Entered(c) : (g[v] # r => h[v] = g[v]) /\ h[v] \in Gens,
         NEW d, d = Requeue(c, r, h)
  PROVE  /\ ContextOK(d, h) /\ Vals(d) = Vals(c) /\ Items(d) = Items(c)
         /\ d.marked = c.marked /\ d.stage = c.stage
         /\ c.seg => d.seg
         /\ c.losSeg => d.losSeg
<1>1. PICK E, F : E = StackOn(c, g, r) /\ F = LosOn(c, g, r)  OBVIOUS
<1>2. PICK dead, deadLos : dead = Thread(c.stack, c.head[r]) /\ deadLos = Thread(c.los, c.losHead[r])
  OBVIOUS
<1>3. dead \in Seq(E) /\ ToSet(dead) = E
  <2>1. Threaded(E, c.stack, c.head[r])  BY <1>1 DEF ContextOK
  <2>2. Len(c.stack) \in Nat  BY ContextFacts
  <2> QED  BY <1>2, <2>1, <2>2, ThreadVisits DEF Threaded
<1>4. deadLos \in Seq(F) /\ ToSet(deadLos) = F
  <2>1. Threaded(F, c.los, c.losHead[r])  BY <1>1 DEF ContextOK
  <2>2. Len(c.los) \in Nat  BY ContextFacts
  <2> QED  BY <1>2, <2>1, <2>2, ThreadVisits DEF Threaded
<1>5. PICK b : b = Killed(c, r, E, F)  OBVIOUS
<1>6. /\ ContextOK(b, h) /\ b.marked = c.marked /\ b.stage = c.stage
      /\ b.seg = c.seg /\ b.losSeg = c.losSeg
      /\ Vals(c) = Vals(b) \cup ValsAt(c, E) /\ Items(c) = Items(b) \cup ItemsAt(c, F)
  <2>1. \A v \in Entered(c) : g[v] # r => h[v] = g[v]  OBVIOUS
  <2>2. E = StackOn(c, g, r) /\ F = LosOn(c, g, r) /\ b = Killed(c, r, E, F)  BY <1>1, <1>5
  <2> QED  BY <2>1, <2>2, KilledFacts
<1>7. PICK es, fs : /\ es = [n \in DOMAIN dead |-> c.stack[dead[n]]]
                    /\ fs = [n \in DOMAIN deadLos |-> c.los[deadLos[n]]]
  OBVIOUS
<1>8. d = LosPushAgain(PushAgain(b, h, es), h, fs)
  BY <1>2, <1>3, <1>4, <1>5, <1>7 DEF Requeue, Killed
<1>9. \A n \in E : /\ n \in DOMAIN c.stack /\ c.stack[n].val # Nil
                   /\ c.stack[n].val \in Vals(c)
  BY <1>1 DEF StackOn, Vals
<1>10. \A n \in F : /\ n \in DOMAIN c.los /\ c.los[n].obj # Nil
                    /\ <<c.los[n].obj, c.los[n].index>> \in Items(c)
  BY <1>1 DEF LosOn, Items
<1>11. /\ Len(dead) \in Nat /\ DOMAIN dead = 1 .. Len(dead) /\ DOMAIN es = 1 .. Len(dead)
       /\ \A n \in 1 .. Len(dead) : dead[n] \in E /\ es[n] = c.stack[dead[n]]
  BY <1>3, <1>7, LenProperties, ElementOfSeq
<1>12. /\ Len(deadLos) \in Nat /\ DOMAIN deadLos = 1 .. Len(deadLos) /\ DOMAIN fs = 1 .. Len(deadLos)
       /\ \A n \in 1 .. Len(deadLos) : deadLos[n] \in F /\ fs[n] = c.los[deadLos[n]]
  BY <1>4, <1>7, LenProperties, ElementOfSeq
<1>13. Len(es) = Len(dead) /\ Len(fs) = Len(deadLos)
  <2>1. es \in [1 .. Len(dead) -> Entry]
    <3>1. \A n \in 1 .. Len(dead) : es[n] \in Entry  BY <1>9, <1>11, ContextFacts
    <3> QED  BY <1>7, <1>11, <3>1
  <2>2. fs \in [1 .. Len(deadLos) -> LosEntry]
    <3>1. ASSUME NEW n \in 1 .. Len(deadLos) PROVE fs[n] \in LosEntry
      <4>1. deadLos[n] \in DOMAIN c.los /\ fs[n] = c.los[deadLos[n]]  BY <1>10, <1>12
      <4> QED  BY <4>1, ContextFacts
    <3> QED  BY <1>7, <1>12, <3>1
  <2>3. es \in Seq(Entry) /\ fs \in Seq(LosEntry)  BY <1>11, <1>12, <2>1, <2>2, SeqDef
  <2>4. DOMAIN es = 1 .. Len(es) /\ DOMAIN fs = 1 .. Len(fs) /\ Len(es) \in Nat /\ Len(fs) \in Nat
    BY <2>3, LenProperties
  <2>5. \A m, n \in Nat : 1 .. m = 1 .. n => m = n
    <3> SUFFICES ASSUME NEW m \in Nat, NEW n \in Nat, 1 .. m = 1 .. n, m < n PROVE FALSE  OBVIOUS
    <3>1. n \in 1 .. n /\ n \notin 1 .. m  OBVIOUS
    <3> QED  BY <3>1
  <2> QED  BY <1>11, <1>12, <2>4, <2>5
<1>14. PICK N : N = {es[n].val : n \in 1 .. Len(es)} \ {Nil}  OBVIOUS
<1>15. N = ValsAt(c, E)
  <2>1. \A n \in E : \E m \in 1 .. Len(dead) : dead[m] = n  BY <1>3, <1>11 DEF ToSet
  <2>2. \A m \in 1 .. Len(es) : es[m].val = c.stack[dead[m]].val /\ dead[m] \in E  BY <1>11, <1>13
  <2>3. \A v \in N : v \in {c.stack[n].val : n \in E}  BY <1>14, <2>2
  <2>4. ASSUME NEW n \in E PROVE c.stack[n].val \in N
    <3>1. PICK m \in 1 .. Len(es) : dead[m] = n  BY <1>13, <2>1
    <3>2. es[m].val = c.stack[n].val /\ c.stack[n].val # Nil  BY <1>9, <2>2, <3>1
    <3> QED  BY <1>14, <3>1, <3>2
  <2> QED  BY <2>3, <2>4 DEF ValsAt
<1>16. PICK p : p = PushAgain(b, h, es)  OBVIOUS
<1>17. ContextOK(p, h) /\ Extends(b, p, N, N)
  <2>1. ASSUME NEW n \in 1 .. Len(es) PROVE es[n].val \in Objects /\ h[es[n].val] \in Gens
    <3>1. es[n].val \in Vals(c)  BY <1>9, <1>11, <1>13
    <3> QED  BY <3>1, ValsFacts DEF Entered
  <2>2. Len(es) \in Nat  BY <1>11, <1>13
  <2> QED  BY <1>6, <1>14, <1>16, <2>1, <2>2, PushAgainFacts
<1>18. /\ Vals(p) = Vals(c) /\ p.marked = c.marked /\ p.los = b.los /\ p.stage = c.stage
       /\ p.losSeg = c.losSeg /\ (c.seg => p.seg)
  <2>1. N \subseteq c.marked  BY <1>9, <1>15, ValsFacts DEF ValsAt
  <2> QED  BY <1>6, <1>15, <1>17, <2>1 DEF Extends
<1>19. Items(p) = Items(b)  BY <1>18 DEF Items
<1>20. PICK I : I = {<<fs[n].obj, fs[n].index>> : n \in {m \in 1 .. Len(fs) : fs[m].obj # Nil}}  OBVIOUS
<1>21. I = ItemsAt(c, F)
  <2>1. \A n \in F : \E m \in 1 .. Len(deadLos) : deadLos[m] = n  BY <1>4, <1>12 DEF ToSet
  <2>2. \A m \in 1 .. Len(fs) : fs[m] = c.los[deadLos[m]] /\ deadLos[m] \in F  BY <1>12, <1>13
  <2>3. {m \in 1 .. Len(fs) : fs[m].obj # Nil} = 1 .. Len(fs)  BY <1>10, <2>2
  <2>4. \A e \in I : e \in {<<c.los[n].obj, c.los[n].index>> : n \in F}  BY <1>20, <2>2, <2>3
  <2>5. ASSUME NEW n \in F PROVE <<c.los[n].obj, c.los[n].index>> \in I
    <3>1. PICK m \in 1 .. Len(fs) : deadLos[m] = n  BY <1>13, <2>1
    <3>2. fs[m] = c.los[n]  BY <2>2, <3>1
    <3> QED  BY <1>20, <2>3, <3>1, <3>2
  <2> QED  BY <2>4, <2>5 DEF ItemsAt
<1>22. ContextOK(d, h) /\ LosExtends(p, d, I)
  <2>1. ASSUME NEW n \in 1 .. Len(fs)
        PROVE  /\ fs[n].obj \in Objects /\ h[fs[n].obj] \in Gens /\ fs[n].obj \in p.marked
               /\ fs[n].index \in Nat \ {0} /\ fs[n].index <= Size[fs[n].obj]
    <3>1. PICK e \in Items(c) : e = <<fs[n].obj, fs[n].index>>  BY <1>10, <1>12, <1>13
    <3>2. e[1] = fs[n].obj /\ e[2] = fs[n].index  BY <3>1
    <3>3. e[1] \in Entered(c)  BY <3>1 DEF Entered
    <3> QED  BY <1>18, <3>1, <3>2, <3>3, ValsFacts
  <2>2. Len(fs) \in Nat  BY <1>12, <1>13
  <2> QED  BY <1>8, <1>16, <1>17, <1>20, <2>1, <2>2, LosPushAgainFacts
<1>23. Items(d) = Items(c)  BY <1>6, <1>19, <1>21, <1>22 DEF LosExtends
<1>24. Vals(d) = Vals(p)  BY <1>22 DEF LosExtends, Vals
<1> QED  BY <1>18, <1>22, <1>23, <1>24 DEF LosExtends

(* What either stack has entries of is marked and in the heap.             *)
LEMMA EnteredFacts ==
  ASSUME NEW c, NEW g, ContextOK(c, g)
  PROVE  \A v \in Entered(c) : v \in c.marked /\ v \in Objects /\ g[v] \in Gens
BY ValsFacts DEF Entered

(* What a context is depends on where the objects of its entries are, and  *)
(* on their being marked.                                                  *)
LEMMA Relocated ==
  ASSUME NEW c, NEW g, ContextOK(c, g), NEW h, \A v \in Entered(c) : h[v] = g[v],
         NEW M \in SUBSET Objects, Entered(c) \subseteq M, NEW d, d = [c EXCEPT !.marked = M]
  PROVE  /\ ContextOK(d, h) /\ d.marked = M /\ Vals(d) = Vals(c) /\ Items(d) = Items(c)
         /\ d.stage = c.stage /\ d.seg = c.seg /\ d.losSeg = c.losSeg
         /\ d.stack = c.stack /\ d.los = c.los
<1>0. c \in Context /\ EntriesOK(c, g)  BY DEF ContextOK
<1>1. /\ d.stack = c.stack /\ d.los = c.los /\ d.head = c.head /\ d.losHead = c.losHead
      /\ d.marked = M /\ d.seg = c.seg /\ d.losSeg = c.losSeg /\ d.stage = c.stage
      /\ d \in Context
  BY <1>0 DEF Context
<1>2. Vals(d) = Vals(c) /\ Items(d) = Items(c)  BY <1>1 DEF Vals, Items
<1>3. \A n \in DOMAIN c.stack : c.stack[n].val # Nil =>
        /\ c.stack[n].val \in M /\ h[c.stack[n].val] = g[c.stack[n].val]
  <2>1. \A n \in DOMAIN c.stack : c.stack[n].val # Nil => c.stack[n].val \in Entered(c)
    BY DEF Entered, Vals
  <2> QED  BY <2>1
<1>4. \A n \in DOMAIN c.los : c.los[n].obj # Nil =>
        /\ c.los[n].obj \in M /\ h[c.los[n].obj] = g[c.los[n].obj]
  <2>1. ASSUME NEW n \in DOMAIN c.los, c.los[n].obj # Nil PROVE c.los[n].obj \in Entered(c)
    <3>1. PICK e \in Items(c) : e = <<c.los[n].obj, c.los[n].index>>  BY <2>1 DEF Items
    <3>2. e[1] = c.los[n].obj  BY <3>1
    <3> QED  BY <3>2 DEF Entered
  <2> QED  BY <2>1
<1>5. EntriesOK(d, h)  BY <1>0, <1>1, <1>3, <1>4 DEF EntriesOK
<1>6. \A r \in Gens : StackOn(d, h, r) = StackOn(c, g, r) /\ LosOn(d, h, r) = LosOn(c, g, r)
  BY <1>1, <1>3, <1>4 DEF StackOn, LosOn
<1>7. \A r \in Gens : /\ Threaded(StackOn(d, h, r), d.stack, d.head[r])
                      /\ Threaded(LosOn(d, h, r), d.los, d.losHead[r])
  BY <1>1, <1>6 DEF ContextOK
<1> QED  BY <1>1, <1>2, <1>5, <1>7 DEF ContextOK

(* A marker is as good where every object on its stacks stays in its       *)
(* region.                                                                 *)
LEMMA SamePlace ==
  ASSUME NEW c, NEW g, ContextOK(c, g), NEW h, \A v \in Entered(c) : h[v] = g[v]
  PROVE  ContextOK(c, h)
<1>1. c \in Context /\ c.marked \in SUBSET Objects  BY DEF ContextOK, Context
<1>2. c = [c EXCEPT !.marked = c.marked]  BY <1>1 DEF Context
<1>3. Entered(c) \subseteq c.marked  BY EnteredFacts
<1> QED  BY <1>1, <1>2, <1>3, Relocated

(* Both stacks are empty, and the segments go.                             *)
Emptied(c, s) == [c EXCEPT !.seg = FALSE, !.losSeg = FALSE, !.stage = s]
(* Empty stacks are threaded by empty threads, so the stage may change.    *)
LEMMA EmptyContext ==
  ASSUME NEW c, NEW g, ContextOK(c, g), c.stack = << >>, c.los = << >>,
         NEW s \in Stages, NEW d, d = Emptied(c, s)
  PROVE  /\ ContextOK(d, g) /\ d.marked = c.marked /\ d.stage = s /\ StackEmpty(d)
         /\ Vals(c) = {} /\ Items(c) = {}
<1>0. c \in Context  BY DEF ContextOK
<1>1. /\ d.stack = c.stack /\ d.los = c.los /\ d.head = c.head /\ d.losHead = c.losHead
      /\ d.marked = c.marked /\ d.seg = FALSE /\ d.losSeg = FALSE /\ d.stage = s
  BY <1>0 DEF Context, Emptied
<1>2. d \in Context
  <2>1. FALSE \in BOOLEAN  OBVIOUS
  <2> QED  BY <1>0, <2>1 DEF Context, Emptied
<1>3. EntriesOK(d, g)  BY <1>1 DEF ContextOK, EntriesOK
<1>4. \A r \in Gens : StackOn(d, g, r) = StackOn(c, g, r) /\ LosOn(d, g, r) = LosOn(c, g, r)
  BY <1>1 DEF StackOn, LosOn
<1>5. \A r \in Gens : /\ Threaded(StackOn(d, g, r), d.stack, d.head[r])
                      /\ Threaded(LosOn(d, g, r), d.los, d.losHead[r])
  BY <1>1, <1>4 DEF ContextOK
<1>6. DOMAIN << >> = {}  BY EmptySeq, LenProperties
<1>7. Vals(c) = {} /\ Items(c) = {}  BY <1>6 DEF Vals, Items
<1> QED  BY <1>1, <1>2, <1>3, <1>5, <1>7 DEF ContextOK, StackEmpty

(* A record of these parts is a context.                                   *)
LEMMA ContextRecord ==
  ASSUME NEW s \in Stages, NEW m \in SUBSET Objects, NEW e \in Seq(Entry), NEW h \in [Gens -> Nat],
         NEW b \in BOOLEAN, NEW f \in Seq(LosEntry), NEW k \in [Gens -> Nat], NEW w \in BOOLEAN
  PROVE  [stage |-> s, marked |-> m, stack |-> e, head |-> h, seg |-> b,
          los |-> f, losHead |-> k, losSeg |-> w] \in Context
BY DEF Context

(* A new marker is good.                                                   *)
LEMMA NewContext ==
  ASSUME NEW g, NEW s \in Stages, NEW d, d = [NoContext EXCEPT !.stage = s]
  PROVE  /\ ContextOK(d, g) /\ d.marked = {} /\ d.stage = s /\ d.stack = << >> /\ d.los = << >>
         /\ ~d.seg /\ ~d.losSeg /\ Vals(d) = {} /\ Items(d) = {}
<1>1. /\ d.stack = << >> /\ d.los = << >> /\ d.marked = {} /\ d.seg = FALSE /\ d.losSeg = FALSE
      /\ d.stage = s /\ d.head = [q \in Gens |-> 0] /\ d.losHead = [q \in Gens |-> 0]
  BY DEF NoContext, Gens
<1>2. << >> \in Seq(Entry) /\ << >> \in Seq(LosEntry) /\ FALSE \in BOOLEAN  OBVIOUS
<1>3. d \in Context
  <2> DEFINE z == [q \in Gens |-> 0]
  <2>1. z \in [Gens -> Nat]  OBVIOUS
  <2>2. {} \in SUBSET Objects  OBVIOUS
  <2>3. d = [stage |-> s, marked |-> {}, stack |-> << >>, head |-> z, seg |-> FALSE,
             los |-> << >>, losHead |-> z, losSeg |-> FALSE]
    BY DEF NoContext, Gens
  <2> HIDE DEF z
  <2>4. PICK e, m : e = << >> /\ m = {}  OBVIOUS
  <2>5. e \in Seq(Entry) /\ e \in Seq(LosEntry) /\ m \in SUBSET Objects  BY <1>2, <2>2, <2>4
  <2>6. PICK b \in BOOLEAN : b = FALSE  OBVIOUS
  <2>7. d = [stage |-> s, marked |-> m, stack |-> e, head |-> z, seg |-> b,
             los |-> e, losHead |-> z, losSeg |-> b]
    BY <2>3, <2>4, <2>6
  <2>8. [stage |-> s, marked |-> m, stack |-> e, head |-> z, seg |-> b,
         los |-> e, losHead |-> z, losSeg |-> b] \in Context
    BY <2>1, <2>5, <2>6, ContextRecord
  <2> QED  BY <2>7, <2>8
<1>4. DOMAIN << >> = {} /\ Len(<< >>) = 0  BY EmptySeq, LenProperties
<1>5. EntriesOK(d, g) /\ Vals(d) = {} /\ Items(d) = {}
  BY <1>1, <1>4 DEF EntriesOK, Vals, Items
<1>6. ASSUME NEW r \in Gens
      PROVE  /\ Threaded(StackOn(d, g, r), d.stack, d.head[r])
             /\ Threaded(LosOn(d, g, r), d.los, d.losHead[r])
  <2>1. StackOn(d, g, r) = {} /\ LosOn(d, g, r) = {}  BY <1>1, <1>4 DEF StackOn, LosOn
  <2>2. d.head[r] = 0 /\ d.losHead[r] = 0  BY <1>1
  <2>3. Threaded({}, << >>, 0)  BY <1>4, ThreadedNone
  <2> QED  BY <1>1, <2>1, <2>2, <2>3
<1>7. ContextOK(d, g)  BY <1>3, <1>5, <1>6 DEF ContextOK
<1> QED  BY <1>1, <1>5, <1>7

(* What TypeInv says of pointers, places and the sets of objects.          *)
LEMMA TypeFacts ==
  ASSUME TypeInv
  PROVE  /\ Fields
         /\ MaxRegions \in Nat /\ nrgn \in Nat /\ nrgn >= 1 /\ nrgn <= MaxRegions /\ Static = nrgn + 1
         /\ \A o \in Objects : gen[o] \in Int /\ gen[o] >= -1 /\ gen[o] <= Static
         /\ \A o \in Objects : gen[o] >= 1 => gen[o] \in Gens
         /\ \A o \in Objects : Targets(field, o) \subseteq Objects
<1>1. MaxRegions \in Nat /\ Regions \in Nat \ {0}  BY MarkerAssumption
<1>2. nrgn \in Nat /\ nrgn >= 1 /\ nrgn <= MaxRegions /\ Static = nrgn + 1
  <2>1. nrgn \in Regions .. MaxRegions  BY DEF TypeInv
  <2> QED  BY <1>1, <2>1 DEF Static
<1>3. \A o \in Objects : gen[o] \in Int /\ gen[o] >= -1 /\ gen[o] <= Static
  BY <1>1 DEF TypeInv, Free
<1>4. Fields  BY DEF TypeInv, Fields
<1>5. \A o \in Objects : gen[o] >= 1 => gen[o] \in Gens  BY <1>1, <1>2, <1>3 DEF Gens
<1> QED  BY <1>1, <1>2, <1>3, <1>4, <1>5, FieldFacts

(* Init.                                                                   *)
LEMMA InitGood == ASSUME Init PROVE IInv
<1>1. TypeInv
  <2>1. \A o \in Objects : Targets(field, o) = {}  BY DEF Init, Targets, Slots
  <2>2. MaxRegions \in Nat /\ Regions \in Nat \ {0} /\ MaxRegions >= Regions  BY MarkerAssumption
  <2>3. \A o \in Objects : gen[o] = -1 /\ ~Old(o)  BY DEF Init, Free, Old
  <2>4. gen \in [Objects -> Free .. MaxRegions + 1]  BY <2>2 DEF Init, Free
  <2>5. \A o \in Objects : gen[o] <= Static  BY <2>2, <2>3 DEF Init, Static
  <2>6. field = [o \in Objects |-> field[o]] /\ \A o \in Objects : field[o] \in [Slots(o) -> Objects \cup {Nil}]
    BY DEF Init
  <2>7. mk.marked = {}  BY DEF Init, NoContext
  <2>8. nrgn \in Regions .. MaxRegions /\ cursor \in 0 .. Static  BY <2>2 DEF Init, Static
  <2> QED  BY <2>1, <2>4, <2>5, <2>6, <2>7, <2>8 DEF Init, TypeInv
<1>2. mk = [NoContext EXCEPT !.stage = "none"]
  <2> DEFINE z == [q \in Gens |-> 0]
  <2>0. PICK s, d : s = "none" /\ d = [NoContext EXCEPT !.stage = s]  OBVIOUS
  <2>1. d = [stage |-> s, marked |-> {}, stack |-> << >>, head |-> z, seg |-> FALSE,
             los |-> << >>, losHead |-> z, losSeg |-> FALSE]
    BY <2>0 DEF NoContext, Gens
  <2>2. NoContext = [stage |-> s, marked |-> {}, stack |-> << >>, head |-> z, seg |-> FALSE,
             los |-> << >>, losHead |-> z, losSeg |-> FALSE]
    BY <2>0 DEF NoContext, Gens
  <2> HIDE DEF z
  <2> QED  BY <2>0, <2>1, <2>2 DEF Init
<1>3. /\ ContextOK(mk, gen) /\ mk.marked = {} /\ mk.stage = "none" /\ mk.stack = << >> /\ mk.los = << >>
      /\ ~mk.seg /\ ~mk.losSeg
  <2>1. "none" \in Stages  BY DEF Stages
  <2> QED  BY <1>2, <2>1, NewContext
<1>4. StageInv  BY <1>3 DEF StageInv, StackEmpty, Init
<1>5. MarkInv({}, {})
  <2>1. \A o \in Objects : ~Kept(o) /\ gen[o] = -1  BY DEF Init, Kept, Free
  <2>2. Sound({})  BY <2>1 DEF Sound, Nursery, Init
  <2> QED  BY <1>3, <2>1, <2>2 DEF MarkInv, Init
<1>6. {} \in SUBSET Objects  OBVIOUS
<1> QED  BY <1>1, <1>3, <1>4, <1>5, <1>6 DEF IInv

(* A name that is allocated joins both sets.                               *)
LEMMA AllocateKeeps ==
  ASSUME IInv, NEW o \in Objects, Unused(o), Take(o), NEW q,
         q = 0 \/ (q = Static /\ mk.stage = "none"),
         gen' = [gen EXCEPT ![o] = q], UNCHANGED <<field, remset, nrgn, satb, mk, cursor, phase>>
  PROVE  IInv'
<1>0. TypeInv /\ ContextOK(mk, gen) /\ StageInv  BY DEF IInv
<1> USE TypeFacts
<1>1. PICK All \in SUBSET Objects, Snap \in SUBSET Objects : MarkInv(All, Snap)  BY DEF IInv
<1>2. PICK A, S : A = All \cup {o} /\ S = Snap \cup {o}  OBVIOUS
<1>3. gen[o] = -1 /\ ~Old(o) /\ o # Nil  BY MarkerAssumption DEF Unused, Free, Old
<1>4. \A x \in Objects : x # o => gen'[x] = gen[x]  BY <1>0 DEF TypeInv
<1>5. gen'[o] = q  BY <1>0 DEF TypeInv
<1>6. q \in Int /\ q >= 0 /\ q <= Static /\ q \in Free .. MaxRegions + 1 /\ q # Free
  BY <1>0 DEF Free
<1>7. \A x \in Objects : o \notin Targets(field, x) /\ Targets(field, x)' = Targets(field, x)
  BY DEF Unused, Targets, Slots
<1>8. Targets(field, o) = {}  BY <1>0 DEF TypeInv, Unused
<1>9. TypeInv'
  <2>1. gen' \in [Objects -> Free .. MaxRegions + 1]  BY <1>0, <1>6 DEF TypeInv
  <2>2. Static' = Static  BY DEF Static
  <2>3. \A x \in Objects : gen'[x] <= Static'  BY <1>0, <1>4, <1>5, <1>6, <2>2
  <2>4. \A x \in Objects : Old(x) => Old(x)'  BY <1>3, <1>4 DEF Old
  <2>5. \A x \in Objects : gen'[x] = Free => gen[x] = Free  BY <1>4, <1>5, <1>6
  <2>6. roots' \subseteq Objects  BY <1>0 DEF TypeInv, Take
  <2>7. \A x \in Objects : gen'[x] = Free => Targets(field, x)' = {}  BY <1>0, <1>7, <2>5 DEF TypeInv
  <2> QED  BY <1>0, <2>1, <2>2, <2>3, <2>4, <2>6, <2>7 DEF TypeInv
<1>10. ContextOK(mk, gen)'
  <2>1. \A v \in Entered(mk) : v \in Objects /\ gen[v] >= 1
    <3>1. \A v \in Entered(mk) : v \in Objects /\ gen[v] \in Gens  BY <1>0, EnteredFacts
    <3> QED  BY <3>1 DEF Gens
  <2>2. \A v \in Entered(mk) : gen'[v] = gen[v]  BY <1>3, <1>4, <2>1
  <2>3. PICK h : h = gen'  OBVIOUS
  <2>5. ContextOK(mk, gen) /\ \A v \in Entered(mk) : h[v] = gen[v]  BY <1>0, <2>2, <2>3
  <2>4. ContextOK(mk, h)
    <3> HIDE DEF IInv
    <3>1. PICK c, g : c = mk /\ g = gen  OBVIOUS
    <3>2. ContextOK(c, g) /\ \A v \in Entered(c) : h[v] = g[v]  BY <2>5, <3>1
    <3>3. ContextOK(c, h)  BY <3>2, SamePlace
    <3> QED  BY <3>1, <3>3
  <2> QED  BY <2>3, <2>4
<1>11. StageInv'
  <2>1. phase = "mutate"  BY DEF Take
  <2>2. Static' = Static  BY DEF Static
  <2> QED  BY <1>0, <2>1 DEF StageInv, StackEmpty
<1>12. ASSUME NEW B \in SUBSET Objects, Sound(B), NEW C, C = B \cup {o} PROVE Sound(C)'
  <2>1. roots' \subseteq C  BY <1>12 DEF Sound, Take
  <2>2. Nursery' \subseteq C  BY <1>4, <1>12 DEF Sound, Nursery
  <2>3. ASSUME NEW x \in C PROVE Kept(x)' /\ Targets(field, x)' \subseteq C
    <3>1. CASE x = o  BY <1>5, <1>6, <1>7, <1>8, <3>1 DEF Kept
    <3>2. CASE x # o  BY <1>4, <1>7, <1>12, <2>3, <3>2 DEF Sound, Kept
    <3> QED  BY <3>1, <3>2
  <2>4. ASSUME NEW x \in C, Old(x)', PointsAcross(x, gen, field)' PROVE x \in remset'
    <3>1. PICK t \in Targets(field, x) : gen'[t] # gen'[x] /\ gen'[t] # Static
      BY <1>7, <1>12, <2>4 DEF PointsAcross, Static
    <3>2. x # o  BY <1>8, <3>1
    <3>3. x \in Objects /\ t \in Objects /\ t # o  BY <1>0, <1>7, <1>12, <3>1, <3>2
    <3>4. Old(x) /\ PointsAcross(x, gen, field)
      BY <1>4, <2>4, <3>1, <3>2, <3>3 DEF Old, PointsAcross
    <3> QED  BY <1>12, <2>4, <3>2, <3>4 DEF Sound
  <2> QED  BY <1>12, <2>1, <2>2, <2>3, <2>4 DEF Sound
<1>13. MarkInv(A, S)'
  <2>1. Sound(A)' /\ Sound(S)' /\ S \subseteq A  BY <1>1, <1>2, <1>12 DEF MarkInv
  <2>2. (remset \ Dropped)' \subseteq A
    <3>1. remset \subseteq Objects /\ o \notin remset  BY <1>0, <1>3 DEF TypeInv
    <3>2. Dropped' = Dropped
      <4>1. \A x \in remset : gen'[x] = gen[x]  BY <1>4, <3>1
      <4> QED  BY <4>1 DEF Dropped
    <3> QED  BY <1>1, <1>2, <3>2 DEF MarkInv
  <2>3. mk.stage = "none" => \A x \in Objects : Kept(x)' => x \in A
    BY <1>1, <1>2, <1>4 DEF MarkInv, Kept
  <2>4. mk.stage # "none" => mk.marked \subseteq S  BY <1>1, <1>2 DEF MarkInv
  <2>5. satb \subseteq S  BY <1>1, <1>2 DEF MarkInv
  <2>6. ASSUME mk.stage # "none", NEW x \in S, Old(x)' PROVE x \in Snap /\ Old(x)
    <3>1. x # o  BY <1>5, <2>6 DEF Old
    <3> QED  BY <1>2, <1>4, <2>6, <3>1 DEF Old
  <2>7. mk.stage \in {"refinement", "completed"} => A = S /\ \A x \in S : Old(x)' => x \in mk.marked
    BY <1>1, <1>2, <2>6 DEF MarkInv
  <2>8. ASSUME mk.stage = "construction", NEW X \in SUBSET Objects, ToMark(X, mk, gen, field, satb)'
        PROVE  \A x \in S : Old(x)' => x \in mk.marked \cup X
    <3>1. White(mk, gen)' = White(mk, gen)
      <4>1. q = 0  BY <2>8
      <4> QED  BY <1>3, <1>4, <1>5, <4>1 DEF White, Old
    <3>2. ToMark(X, mk, gen, field, satb)
      BY <2>8, <3>1 DEF ToMark
    <3> QED  BY <1>1, <2>6, <2>8, <3>2 DEF MarkInv
  <2> QED  BY <2>1, <2>2, <2>3, <2>4, <2>5, <2>7, <2>8 DEF MarkInv
<1>14. A \in SUBSET Objects /\ S \in SUBSET Objects  BY <1>2
<1> QED  BY <1>9, <1>10, <1>11, <1>13, <1>14 DEF IInv

(* Alloc: the new object is in the nursery.                                *)
LEMMA AllocKeeps == ASSUME IInv, NEW o \in Objects, Alloc(o) PROVE IInv'
BY AllocateKeeps DEF Alloc

(* AllocStatic, only while no marker runs.                                 *)
LEMMA AllocStaticKeeps ==
  ASSUME ~LateStatic, IInv, NEW o \in Objects, AllocStatic(o) PROVE IInv'
BY AllocateKeeps DEF AllocStatic

(* What the program holds is in every sound set: it may hold more of one.  *)
LEMMA RootsKeep ==
  ASSUME IInv, roots' \subseteq Objects, \A S \in SUBSET Objects : Sound(S) => roots' \subseteq S,
         UNCHANGED <<gen, field, remset, nrgn, satb, mk, cursor, phase>>
  PROVE  IInv'
<1>1. TypeInv /\ ContextOK(mk, gen) /\ StageInv  BY DEF IInv
<1>2. PICK All \in SUBSET Objects, Snap \in SUBSET Objects : MarkInv(All, Snap)  BY DEF IInv
<1>3. TypeInv'  BY <1>1 DEF TypeInv, Old, Static, Slots, Targets
<1>4. ContextOK(mk, gen)'  BY <1>1
<1>5. StageInv'  BY <1>1 DEF StageInv, StackEmpty, Nursery
<1>6. ASSUME NEW S \in SUBSET Objects, Sound(S) PROVE Sound(S)'
  BY <1>6 DEF Sound, Nursery, Kept, Old, PointsAcross, Targets, Static, Slots
<1>7. Dropped' = Dropped  BY DEF Dropped
<1>8. \A X \in SUBSET Objects : ToMark(X, mk, gen, field, satb)' = ToMark(X, mk, gen, field, satb)  OBVIOUS
<1>9. Sound(All) /\ Sound(Snap)  BY <1>2 DEF MarkInv
<1>10. MarkInv(All, Snap)'
  BY <1>2, <1>6, <1>7, <1>8, <1>9 DEF MarkInv, Kept, Old
<1> QED  BY <1>2, <1>3, <1>4, <1>5, <1>10 DEF IInv

(* Load: the object was reachable before.                                  *)
LEMMA LoadKeeps ==
  ASSUME IInv, NEW x \in Objects, NEW i \in Slots(x), Load(x, i) PROVE IInv'
<1>1. TypeInv  BY DEF IInv
<1>2. field[x][i] \in Targets(field, x) /\ x \in roots /\ roots' = roots \cup {field[x][i]}
  BY DEF Load, Take, Targets
<1>3. roots' \subseteq Objects  BY <1>1, <1>2, TypeFacts DEF TypeInv
<1>4. \A S \in SUBSET Objects : Sound(S) => roots' \subseteq S  BY <1>2 DEF Sound
<1>5. UNCHANGED <<gen, field, remset, nrgn, satb, mk, cursor, phase>>  BY DEF Load
<1> QED  BY <1>3, <1>4, <1>5, RootsKeep

(* Drop: less is reachable.                                                *)
LEMMA DropKeeps ==
  ASSUME IInv, NEW o \in Objects, Drop(o) PROVE IInv'
<1>1. TypeInv  BY DEF IInv
<1>2. roots' \subseteq roots  BY DEF Drop
<1>3. roots' \subseteq Objects  BY <1>1, <1>2 DEF TypeInv
<1>4. \A S \in SUBSET Objects : Sound(S) => roots' \subseteq S  BY <1>2 DEF Sound
<1>5. UNCHANGED <<gen, field, remset, nrgn, satb, mk, cursor, phase>>  BY DEF Drop
<1> QED  BY <1>3, <1>4, <1>5, RootsKeep

(* A store: the pointer it overwrites is logged, or is from or to the      *)
(* nursery, where the marker does not look.                                *)
LEMMA StoreKeeps ==
  ASSUME IInv, NEW x \in Objects, NEW i \in Slots(x), NEW y \in Objects \cup {Nil}, Store(x, i, y)
  PROVE  IInv'
<1>0. TypeInv /\ ContextOK(mk, gen) /\ StageInv  BY DEF IInv
<1>1. PICK All \in SUBSET Objects, Snap \in SUBSET Objects : MarkInv(All, Snap)  BY DEF IInv
<1>2. PICK old : old = field[x][i]  OBVIOUS
<1>3. /\ phase = "mutate" /\ x \in roots /\ y \in roots \cup {Nil}
      /\ gen' = gen /\ roots' = roots /\ nrgn' = nrgn /\ mk' = mk /\ cursor' = cursor /\ phase' = phase
  BY DEF Store
<1>4. PICK f : f = field' /\ f = [field EXCEPT ![x][i] = y]  BY DEF Store
<1>5. /\ f = [o \in Objects |-> f[o]]
      /\ \A o \in Objects : o # x => f[o] = field[o]
      /\ \A j \in Slots(x) : j # i => f[x][j] = field[x][j]
      /\ f[x][i] = y /\ f[x] \in [Slots(x) -> Objects \cup {Nil}]
  <2>1. field = [o \in Objects |-> field[o]] /\ field[x] \in [Slots(x) -> Objects \cup {Nil}]
    BY <1>0 DEF TypeInv
  <2> QED  BY <1>4, <2>1
<1>6. /\ \A o \in Objects : o # x => Targets(f, o) = Targets(field, o)
      /\ \A t \in Targets(f, x) : t \in Targets(field, x) \/ t = y
      /\ \A t \in Targets(field, x) : t \in Targets(f, x) \/ t = old
  BY <1>2, <1>5 DEF Targets
<1>7. Kept(x) /\ x \in All /\ x \in Snap
  BY <1>1, <1>3 DEF MarkInv, Sound
<1>8. old # Nil => old \in Targets(field, x) /\ old \in All /\ old \in Snap /\ Kept(old) /\ old \in Objects
  <2>1. old # Nil => old \in Targets(field, x)  BY <1>2 DEF Targets
  <2> QED  BY <1>1, <1>7, <2>1 DEF MarkInv, Sound
<1>9. satb' = IF SatbLogs(x, old) THEN satb \cup {old} ELSE satb  BY <1>2 DEF Store
<1>10. remset' = IF y # Nil /\ gen[x] # 0 /\ gen[y] # gen[x] /\ gen[y] # Static
                 THEN remset \cup {x} ELSE remset
  BY DEF Store
<1>11. \A o \in Objects : Kept(o) => gen[o] >= 0 /\ (gen[o] # 0 => Old(o))
  <2>1. \A o \in Objects : gen[o] \in Int /\ gen[o] >= -1  BY <1>0, TypeFacts
  <2> QED  BY <2>1 DEF Kept, Free, Old
<1>12. TypeInv'
  <2>1. \A o \in Objects : f[o] \in [Slots(o) -> Objects \cup {Nil}]
    BY <1>0, <1>5 DEF TypeInv
  <2>2. \A o \in Objects : gen[o] = Free => Targets(f, o) = {}
    BY <1>0, <1>6, <1>7 DEF TypeInv, Kept
  <2>3. satb' \subseteq {o \in Objects : Old(o)}
    BY <1>0, <1>8, <1>9, <1>11 DEF TypeInv, SatbLogs
  <2>4. remset' \subseteq {o \in Objects : Old(o)}
    BY <1>0, <1>7, <1>10, <1>11 DEF TypeInv
  <2>5. \A o : Slots(o)' = Slots(o)  BY DEF Slots
  <2>6. \A o : Targets(field, o)' = Targets(f, o)  BY <1>4, <2>5 DEF Targets
  <2>7. Static' = Static /\ (\A o : Old(o)' = Old(o))  BY <1>3 DEF Static, Old
  <2> QED  BY <1>0, <1>3, <1>4, <1>5, <2>1, <2>2, <2>3, <2>4, <2>5, <2>6, <2>7 DEF TypeInv
<1>13. ContextOK(mk, gen)'  BY <1>0, <1>3
<1>14. StageInv'
  <2>1. mk.stage # "construction" => satb' = satb  BY <1>9 DEF SatbLogs
  <2> QED  BY <1>0, <1>3, <2>1 DEF StageInv, StackEmpty
<1>15. ASSUME NEW S \in SUBSET Objects, Sound(S) PROVE Sound(S)'
  <2>1. Targets(f, x) \subseteq S /\ x \in S
    <3>1. x \in S /\ (y # Nil => y \in S)  BY <1>3, <1>15 DEF Sound
    <3>2. Nil \notin Targets(f, x)  BY DEF Targets
    <3> QED  BY <1>6, <1>15, <3>1, <3>2 DEF Sound
  <2>2. \A o \in S : Kept(o) /\ Targets(f, o) \subseteq S
    BY <1>6, <1>15, <2>1 DEF Sound
  <2>3. ASSUME NEW o \in S, Old(o), PointsAcross(o, gen, f) PROVE o \in remset'
    <3>1. PICK t \in Targets(f, o) : gen[t] # gen[o] /\ gen[t] # Static  BY <2>3 DEF PointsAcross
    <3>2. CASE t \in Targets(field, o)
      <4>1. PointsAcross(o, gen, field)  BY <3>1, <3>2 DEF PointsAcross
      <4> QED  BY <1>10, <1>15, <2>3, <4>1 DEF Sound
    <3>3. CASE t \notin Targets(field, o)
      <4>1. o = x /\ t = y /\ t # Nil  BY <1>6, <3>1, <3>3, <1>15 DEF Targets
      <4>2. gen[x] # 0
        <5>1. gen[x] >= 1  BY <2>3, <4>1 DEF Old
        <5> QED  BY <5>1
      <4> QED  BY <1>10, <3>1, <4>1, <4>2
    <3> QED  BY <3>2, <3>3
  <2>4. \A o : Targets(field, o)' = Targets(f, o)  BY <1>4 DEF Targets, Slots
  <2>5. \A o : PointsAcross(o, gen, field)' = PointsAcross(o, gen, f)
    BY <1>3, <1>4, <2>4 DEF PointsAcross, Static
  <2> QED  BY <1>3, <1>15, <2>2, <2>3, <2>4, <2>5 DEF Sound, Nursery, Kept, Old
<1>16. (remset \ Dropped)' \subseteq All
  <2>1. \A o \in remset' : o \in remset \/ o = x  BY <1>10
  <2>2. \A o \in remset : o \in Dropped => o \in Dropped'  BY <1>3, <1>10 DEF Dropped
  <2> QED  BY <1>1, <1>7, <2>1, <2>2 DEF MarkInv
<1>17. satb' \subseteq Snap  BY <1>1, <1>8, <1>9 DEF MarkInv, SatbLogs
<1>18. ASSUME mk.stage = "construction", NEW X \in SUBSET Objects, ToMark(X, mk, gen, f, satb')
       PROVE  ToMark(X, mk, gen, field, satb)
  <2> DEFINE W == White(mk, gen)
  <2>1. \A o \in Objects : o \in W => gen[o] >= 1  BY DEF White
  <2>2. Ahead(mk, f, satb') \cap W \subseteq X  BY <1>18 DEF ToMark
  <2>3. ASSUME gen[x] # 0, old \in W PROVE old \in X
    <3>1. old \in Objects /\ gen[old] # 0 /\ old # Nil
      <4>1. old \in Objects  BY <2>3 DEF White
      <4>2. gen[old] >= 1  BY <2>1, <2>3, <4>1
      <4> QED  BY <4>1, <4>2, MarkerAssumption
    <3>2. old \in satb'  BY <1>9, <1>18, <2>3, <3>1 DEF SatbLogs
    <3>3. old \in Ahead(mk, f, satb')  BY <3>2, AheadCases
    <3> QED  BY <2>2, <2>3, <3>3
  <2>4. \A v \in mk.marked : v \in Objects /\ gen[v] # 0
    <3>1. \A v \in mk.marked : v \in Objects /\ gen[v] >= 1  BY <1>0 DEF TypeInv, Old
    <3> QED  BY <3>1
  <2>5. ASSUME NEW a \in Ahead(mk, field, satb), a \in W PROVE a \in X
    <3>1. CASE \E v \in Vals(mk) : a \in Targets(field, v)
      <4>1. PICK v \in Vals(mk) : a \in Targets(field, v)  BY <3>1
      <4>2. v \in mk.marked /\ v \in Objects  BY <1>0, ValsFacts
      <4>3. CASE a \in Targets(f, v)
        <5>1. a \in Ahead(mk, f, satb')  BY <4>1, <4>3, AheadCases
        <5> QED  BY <2>2, <2>5, <5>1
      <4>4. CASE a \notin Targets(f, v)
        <5>1. v = x /\ a = old  BY <1>6, <4>1, <4>2, <4>4
        <5> QED  BY <2>3, <2>4, <2>5, <4>2, <5>1
      <4> QED  BY <4>3, <4>4
    <3>2. CASE a \in satb
      <4>1. a \in satb'  BY <1>9, <3>2
      <4>2. a \in Ahead(mk, f, satb')  BY <4>1, AheadCases
      <4> QED  BY <2>2, <2>5, <4>2
    <3>3. CASE a # Nil /\ \E e \in Items(mk) : \E j \in e[2] .. Size[e[1]] : a = field[e[1]][j]
      <4>1. PICK e \in Items(mk) : \E j \in e[2] .. Size[e[1]] : a = field[e[1]][j]  BY <3>3
      <4>2. PICK j \in e[2] .. Size[e[1]] : a = field[e[1]][j]  BY <4>1
      <4>3. e[1] \in mk.marked /\ e[1] \in Objects /\ e[2] \in Nat \ {0}  BY <1>0, ValsFacts
      <4>4. CASE a = f[e[1]][j]
        <5>1. a \in Ahead(mk, f, satb')  BY <3>3, <4>2, <4>4, AheadCases
        <5> QED  BY <2>2, <2>5, <5>1
      <4>5. CASE a # f[e[1]][j]
        <5>1. e[1] = x  BY <1>5, <4>2, <4>3, <4>5
        <5>2. j \in Slots(x)
          <6>1. Size[x] \in Nat  BY MarkerAssumption
          <6> QED  BY <4>2, <4>3, <5>1, <6>1 DEF Slots
        <5>3. j = i  BY <1>5, <4>2, <4>5, <5>1, <5>2
        <5>4. a = old  BY <1>2, <4>2, <5>1, <5>3
        <5> QED  BY <2>3, <2>4, <2>5, <4>3, <5>1, <5>4
      <4> QED  BY <4>4, <4>5
    <3> QED  BY <3>1, <3>2, <3>3, AheadCases
  <2>6. ASSUME NEW w \in X \cap W, NEW t \in Targets(field, w) \cap W PROVE t \in X
    <3>1. CASE t \in Targets(f, w)  BY <1>18, <2>6, <3>1 DEF ToMark
    <3>2. CASE t \notin Targets(f, w)
      <4>1. w \in Objects  BY DEF White
      <4>2. w = x /\ t = old  BY <1>6, <3>2, <4>1
      <4>3. gen[x] # 0
        <5>1. gen[x] >= 1  BY <2>1, <2>6, <4>2
        <5> QED  BY <5>1
      <4> QED  BY <2>3, <4>2, <4>3
    <3> QED  BY <3>1, <3>2
  <2> QED  BY <2>5, <2>6 DEF ToMark
<1>19. MarkInv(All, Snap)'
  <2>1. Sound(All)' /\ Sound(Snap)'  BY <1>1, <1>15 DEF MarkInv
  <2>2. mk'.stage = "construction" =>
          \A X \in SUBSET Objects : ToMark(X, mk, gen, field, satb)' =>
            \A o \in Snap : Old(o)' => o \in mk'.marked \cup X
    <3> SUFFICES ASSUME mk.stage = "construction", NEW X \in SUBSET Objects, ToMark(X, mk, gen, field, satb)'
                 PROVE  \A o \in Snap : Old(o)' => o \in mk.marked \cup X
      BY <1>3
    <3>1. ToMark(X, mk, gen, f, satb')  BY <1>3, <1>4
    <3>2. ToMark(X, mk, gen, field, satb)  BY <1>18, <3>1
    <3> QED  BY <1>1, <1>3, <3>2 DEF MarkInv, Old
  <2> QED  BY <1>1, <1>3, <1>16, <1>17, <2>1, <2>2 DEF MarkInv, Kept, Old
<1> QED  BY <1>1, <1>12, <1>13, <1>14, <1>19 DEF IInv

(* The threads move with the static area.                                  *)
LEMMA ExpandGnosFacts ==
  ASSUME NEW c, NEW g, ContextOK(c, g), nrgn \in Nat, nrgn + 2 <= MaxRegions + 1, NEW h,
         \A v \in Entered(c) : g[v] <= nrgn + 1 /\ h[v] = IF g[v] = nrgn + 1 THEN nrgn + 2 ELSE g[v],
         NEW d, d = ExpandGnos(c)
  PROVE  /\ ContextOK(d, h) /\ Vals(d) = Vals(c) /\ Items(d) = Items(c)
         /\ d.marked = c.marked /\ d.stage = c.stage /\ d.seg = c.seg /\ d.losSeg = c.losSeg
         /\ d.stack = c.stack /\ d.los = c.los
<1>0. c \in Context /\ EntriesOK(c, g) /\ MaxRegions \in Nat  BY MarkerAssumption DEF ContextOK
<1>1. /\ c.head \in [Gens -> Nat] /\ c.losHead \in [Gens -> Nat] /\ Len(c.stack) \in Nat /\ Len(c.los) \in Nat
      /\ c.stack \in Seq(Entry) /\ c.los \in Seq(LosEntry)
  BY ContextFacts
<1>2. PICK s, t : s = Shifted(c.head) /\ t = Shifted(c.losHead)  OBVIOUS
<1>3. ASSUME NEW q \in [Gens -> Nat], NEW p, p = Shifted(q)
      PROVE  /\ p \in [Gens -> Nat] /\ p[nrgn + 1] = 0
             /\ \A r \in Gens : (r <= nrgn => p[r] = q[r]) /\ (r > nrgn + 1 => r - 1 \in Gens /\ p[r] = q[r - 1])
  <2>1. \A r \in Gens : r > nrgn + 1 => r - 1 \in Gens  BY <1>0 DEF Gens
  <2>2. nrgn + 1 \in Gens /\ Gens \subseteq Nat  BY <1>0 DEF Gens
  <2>3. p = [r \in Gens |-> IF r <= nrgn THEN q[r] ELSE IF r = nrgn + 1 THEN 0 ELSE q[r - 1]]
    BY <1>3 DEF Shifted
  <2>4. \A r \in Gens : p[r] \in Nat
    <3> SUFFICES ASSUME NEW r \in Gens PROVE p[r] \in Nat  OBVIOUS
    <3>1. CASE r <= nrgn  BY <2>3, <3>1
    <3>2. CASE r = nrgn + 1  BY <2>3, <3>2
    <3>3. CASE r > nrgn + 1  BY <2>1, <2>2, <2>3, <3>3
    <3> QED  BY <2>2, <3>1, <3>2, <3>3
  <2>5. p \in [Gens -> Nat]  BY <2>3, <2>4
  <2> QED  BY <2>1, <2>2, <2>3, <2>5
<1>4. /\ d.stack = c.stack /\ d.los = c.los /\ d.head = s /\ d.losHead = t
      /\ d.marked = c.marked /\ d.seg = c.seg /\ d.losSeg = c.losSeg /\ d.stage = c.stage
  BY <1>0, <1>2 DEF ExpandGnos, Context
<1>5. s \in [Gens -> Nat] /\ t \in [Gens -> Nat]  BY <1>1, <1>2, <1>3
<1>6. d \in Context
  <2>1. d = [c EXCEPT !.head = s, !.losHead = t]  BY <1>2 DEF ExpandGnos
  <2> QED  BY <1>0, <1>5, <2>1 DEF Context
<1>7. Vals(d) = Vals(c) /\ Items(d) = Items(c)  BY <1>4 DEF Vals, Items
<1>8. \A n \in DOMAIN c.stack : c.stack[n].val # Nil => c.stack[n].val \in Entered(c)
  BY DEF Entered, Vals
<1>9. ASSUME NEW n \in DOMAIN c.los, c.los[n].obj # Nil PROVE c.los[n].obj \in Entered(c)
  <2>1. PICK e \in Items(c) : e = <<c.los[n].obj, c.los[n].index>>  BY <1>9 DEF Items
  <2>2. e[1] = c.los[n].obj  BY <2>1
  <2> QED  BY <2>2 DEF Entered
<1>10. \A v \in Entered(c) : g[v] \in Gens /\ h[v] \in Gens
  <2>1. nrgn + 2 \in Gens  BY <1>0 DEF Gens
  <2>2. \A v \in Entered(c) : g[v] \in Gens  BY EnteredFacts
  <2> QED  BY <2>1, <2>2
<1>11. EntriesOK(d, h)
  <2>1. \A n \in DOMAIN c.stack : c.stack[n].val # Nil => h[c.stack[n].val] \in Gens  BY <1>8, <1>10
  <2>2. \A n \in DOMAIN c.los : c.los[n].obj # Nil => h[c.los[n].obj] \in Gens  BY <1>9, <1>10
  <2> QED  BY <1>0, <1>4, <2>1, <2>2 DEF EntriesOK
<1>12. ASSUME NEW r \in Gens
       PROVE  /\ Threaded(StackOn(d, h, r), d.stack, d.head[r])
              /\ Threaded(LosOn(d, h, r), d.los, d.losHead[r])
  <2>0. r \in Nat /\ \A v \in Entered(c) : g[v] \in Nat  BY <1>10 DEF Gens
  <2>1. CASE r <= nrgn
    <3>1. \A v \in Entered(c) : h[v] = r <=> g[v] = r  BY <2>0, <2>1
    <3>2. StackOn(d, h, r) = StackOn(c, g, r)  BY <1>4, <1>8, <3>1 DEF StackOn
    <3>3. LosOn(d, h, r) = LosOn(c, g, r)  BY <1>4, <1>9, <3>1 DEF LosOn
    <3>4. d.head[r] = c.head[r] /\ d.losHead[r] = c.losHead[r]  BY <1>1, <1>2, <1>3, <1>4, <2>1
    <3> QED  BY <1>4, <3>2, <3>3, <3>4 DEF ContextOK
  <2>2. CASE r = nrgn + 1
    <3>1. \A v \in Entered(c) : h[v] # r  BY <2>0, <2>2
    <3>2. StackOn(d, h, r) = {} /\ LosOn(d, h, r) = {}  BY <1>4, <1>8, <1>9, <3>1 DEF StackOn, LosOn
    <3>3. d.head[r] = 0 /\ d.losHead[r] = 0  BY <1>1, <1>2, <1>3, <1>4, <2>2
    <3>4. Threaded({}, c.stack, 0) /\ Threaded({}, c.los, 0)  BY <1>1, ThreadedNone
    <3> QED  BY <1>4, <3>2, <3>3, <3>4
  <2>3. CASE r > nrgn + 1
    <3>0. r - 1 \in Gens /\ d.head[r] = c.head[r - 1] /\ d.losHead[r] = c.losHead[r - 1]
      BY <1>1, <1>2, <1>3, <1>4, <2>3
    <3>1. \A v \in Entered(c) : h[v] = r <=> g[v] = r - 1  BY <2>0, <2>3
    <3>2. StackOn(d, h, r) = StackOn(c, g, r - 1)  BY <1>4, <1>8, <3>1 DEF StackOn
    <3>3. LosOn(d, h, r) = LosOn(c, g, r - 1)  BY <1>4, <1>9, <3>1 DEF LosOn
    <3> QED  BY <1>4, <3>0, <3>2, <3>3 DEF ContextOK
  <2> QED  BY <2>0, <2>1, <2>2, <2>3
<1>13. ContextOK(d, h)  BY <1>6, <1>11, <1>12 DEF ContextOK
<1> QED  BY <1>4, <1>7, <1>13

(* Grow: the static area moves up, and its threads with it.                *)
LEMMA GrowKeeps == ASSUME IInv, Grow PROVE IInv'
<1>0. TypeInv /\ ContextOK(mk, gen) /\ StageInv  BY DEF IInv
<1>1. PICK All \in SUBSET Objects, Snap \in SUBSET Objects : MarkInv(All, Snap)  BY DEF IInv
<1>2. /\ phase = "mutate" /\ phase' = phase /\ nrgn < MaxRegions /\ nrgn' = nrgn + 1
      /\ mk' = ExpandGnos(mk) /\ field' = field /\ roots' = roots /\ remset' = remset /\ satb' = satb
      /\ gen' = [o \in Objects |-> IF gen[o] = Static THEN nrgn + 2 ELSE gen[o]]
      /\ cursor' = IF cursor = Static THEN nrgn + 2 ELSE cursor
  BY DEF Grow
<1>3. PICK h, d : h = gen' /\ d = mk'  OBVIOUS
<1>4. /\ MaxRegions \in Nat /\ nrgn \in Nat /\ nrgn >= 1 /\ Static = nrgn + 1 /\ Static' = nrgn + 2
      /\ nrgn + 2 <= MaxRegions + 1
      /\ \A o \in Objects : gen[o] \in Int /\ gen[o] >= -1 /\ gen[o] <= nrgn + 1
  <2>1. Static' = nrgn + 1 + 1  BY <1>2 DEF Static
  <2> QED  BY <1>0, <1>2, <2>1, TypeFacts
<1>5. \A o \in Objects : h[o] = IF gen[o] = nrgn + 1 THEN nrgn + 2 ELSE gen[o]  BY <1>2, <1>3, <1>4
<1>6. /\ \A o \in Objects : (h[o] >= 1 <=> gen[o] >= 1) /\ (h[o] = 0 <=> gen[o] = 0) /\ (h[o] = -1 <=> gen[o] = -1)
      /\ \A o \in Objects : h[o] \in Int /\ h[o] >= -1 /\ h[o] <= nrgn + 2
      /\ \A o, t \in Objects : h[o] = h[t] <=> gen[o] = gen[t]
      /\ \A o \in Objects : h[o] = nrgn + 2 <=> gen[o] = nrgn + 1
  BY <1>4, <1>5
<1>7. /\ ContextOK(d, h) /\ Vals(d) = Vals(mk) /\ Items(d) = Items(mk)
      /\ d.marked = mk.marked /\ d.stage = mk.stage /\ d.seg = mk.seg /\ d.losSeg = mk.losSeg
      /\ d.stack = mk.stack /\ d.los = mk.los
  <2>1. PICK c, g : c = mk /\ g = gen  OBVIOUS
  <2>2. \A v \in Entered(c) : g[v] <= nrgn + 1 /\ h[v] = IF g[v] = nrgn + 1 THEN nrgn + 2 ELSE g[v]
    <3>1. \A v \in Entered(c) : v \in Objects  BY <1>0, <2>1, EnteredFacts
    <3> QED  BY <1>4, <1>5, <2>1, <3>1
  <2>3. ContextOK(c, g) /\ d = ExpandGnos(c)  BY <1>0, <1>2, <1>3, <2>1
  <2> QED  BY <1>4, <2>1, <2>2, <2>3, ExpandGnosFacts
<1>8. /\ \A o \in Objects : Old(o)' <=> Old(o)
      /\ \A o \in Objects : Kept(o)' <=> Kept(o)
      /\ Nursery' = Nursery
  BY <1>3, <1>6 DEF Old, Kept, Free, Nursery
<1>9. \A o : Targets(field, o)' = Targets(field, o)  BY <1>2 DEF Targets, Slots
<1>10. TypeInv'
  <2>1. gen' \in [Objects -> Free .. MaxRegions + 1] /\ \A o \in Objects : gen'[o] <= Static'
    <3>1. \A o \in Objects : h[o] \in Free .. MaxRegions + 1  BY <1>4, <1>6 DEF Free
    <3>2. h = [o \in Objects |-> h[o]]  BY <1>2, <1>3
    <3>3. h \in [Objects -> Free .. MaxRegions + 1]  BY <3>1, <3>2
    <3> QED  BY <1>3, <1>4, <1>6, <3>3
  <2>2. \A o \in Objects : field[o] \in [Slots(o)' -> Objects \cup {Nil}]  BY <1>0 DEF TypeInv, Slots
  <2>3. nrgn' \in Regions .. MaxRegions
    <3>1. nrgn \in Regions .. MaxRegions /\ Regions \in Nat  BY <1>0, MarkerAssumption DEF TypeInv
    <3> QED  BY <1>2, <1>4, <3>1
  <2>4. cursor' \in 0 .. Static'
    <3>1. cursor \in 0 .. nrgn + 1  BY <1>0, <1>4 DEF TypeInv
    <3> QED  BY <1>2, <1>4, <3>1
  <2>5. \A o \in Objects : gen'[o] = Free => Targets(field, o)' = {}
    BY <1>0, <1>3, <1>6, <1>9 DEF TypeInv, Free
  <2> QED  BY <1>0, <1>2, <1>3, <1>7, <1>8, <2>1, <2>2, <2>3, <2>4, <2>5 DEF TypeInv
<1>11. ContextOK(mk, gen)'  BY <1>3, <1>7
<1>12. StageInv'
  <2>1. mk.stage = "refinement" => cursor' >= 1  BY <1>0, <1>2, <1>4 DEF StageInv
  <2>2. StackEmpty(mk)' <=> StackEmpty(mk)  BY <1>3, <1>7 DEF StackEmpty
  <2> QED  BY <1>0, <1>2, <1>3, <1>7, <1>8, <2>1, <2>2 DEF StageInv
<1>13. \A o \in Objects : Targets(field, o) \subseteq Objects  BY <1>0, TypeFacts
<1>14. \A o \in Objects : PointsAcross(o, gen, field)' <=> PointsAcross(o, gen, field)
  <2> SUFFICES ASSUME NEW o \in Objects
               PROVE  PointsAcross(o, gen, field)' <=> PointsAcross(o, gen, field)
    OBVIOUS
  <2>1. \A t \in Targets(field, o) : /\ h[t] # h[o] <=> gen[t] # gen[o]
                                     /\ h[t] # nrgn + 2 <=> gen[t] # nrgn + 1
    BY <1>6, <1>13
  <2> QED  BY <1>3, <1>4, <1>9, <2>1 DEF PointsAcross
<1>15. ASSUME NEW S \in SUBSET Objects, Sound(S) PROVE Sound(S)'
  BY <1>2, <1>8, <1>9, <1>14, <1>15 DEF Sound
<1>16. Dropped' = Dropped
  <2>1. \A o \in Objects : h[o] <= cursor' <=> gen[o] <= cursor
    <3>1. cursor \in 0 .. nrgn + 1  BY <1>0, <1>4 DEF TypeInv
    <3> QED  BY <1>2, <1>4, <1>5, <3>1
  <2>2. remset \subseteq Objects  BY <1>0 DEF TypeInv
  <2> QED  BY <1>2, <1>3, <1>7, <2>1, <2>2 DEF Dropped
<1>17. ASSUME NEW X \in SUBSET Objects, ToMark(X, mk, gen, field, satb)' PROVE ToMark(X, mk, gen, field, satb)
  <2>1. ToMark(X, d, h, field, satb)
    <3>1. \A o : Slots(o)' = Slots(o)  BY DEF Slots
    <3>2. ToMark(X, mk, gen, field, satb)' = ToMark(X, d, h, field, satb)
      BY <1>2, <1>3, <1>9 DEF ToMark, Ahead, White
    <3> QED  BY <1>17, <3>2
  <2>2. White(d, h) = White(mk, gen)  BY <1>6, <1>7 DEF White
  <2>3. Ahead(d, field, satb) = Ahead(mk, field, satb)  BY <1>7 DEF Ahead
  <2> QED  BY <2>1, <2>2, <2>3 DEF ToMark
<1>18. MarkInv(All, Snap)'
  <2>1. Sound(All)' /\ Sound(Snap)'  BY <1>1, <1>15 DEF MarkInv
  <2>2. mk'.stage = mk.stage /\ mk'.marked = mk.marked  BY <1>3, <1>7
  <2>3. mk.stage = "construction" =>
          \A X \in SUBSET Objects : ToMark(X, mk, gen, field, satb)' =>
            \A o \in Snap : Old(o)' => o \in mk.marked \cup X
    BY <1>1, <1>8, <1>17 DEF MarkInv
  <2>4. (mk.stage = "none" => \A o \in Objects : Kept(o)' => o \in All)
    BY <1>1, <1>8 DEF MarkInv
  <2>5. mk.stage \in {"refinement", "completed"} =>
       All = Snap /\ \A o \in Snap : Old(o)' => o \in mk.marked
    BY <1>1, <1>8 DEF MarkInv
  <2> QED  BY <1>1, <1>2, <1>16, <2>1, <2>2, <2>3, <2>4, <2>5 DEF MarkInv
<1> QED  BY <1>10, <1>11, <1>12, <1>18 DEF IInv

(* A marker that only changes its stage is as good as before.              *)
LEMMA NewStage ==
  ASSUME NEW c, NEW g, ContextOK(c, g), NEW s \in Stages, NEW d, d = [c EXCEPT !.stage = s]
  PROVE  /\ ContextOK(d, g) /\ d.marked = c.marked /\ d.stage = s
         /\ d.stack = c.stack /\ d.los = c.los /\ d.seg = c.seg /\ d.losSeg = c.losSeg
<1>0. c \in Context  BY DEF ContextOK
<1>1. /\ d.stack = c.stack /\ d.los = c.los /\ d.head = c.head /\ d.losHead = c.losHead
      /\ d.marked = c.marked /\ d.seg = c.seg /\ d.losSeg = c.losSeg /\ d.stage = s /\ d \in Context
  BY <1>0 DEF Context
<1>2. EntriesOK(d, g)  BY <1>1 DEF ContextOK, EntriesOK
<1>3. \A r \in Gens : StackOn(d, g, r) = StackOn(c, g, r) /\ LosOn(d, g, r) = LosOn(c, g, r)
  BY <1>1 DEF StackOn, LosOn
<1>4. \A r \in Gens : /\ Threaded(StackOn(d, g, r), d.stack, d.head[r])
                      /\ Threaded(LosOn(d, g, r), d.los, d.losHead[r])
  BY <1>1, <1>3 DEF ContextOK
<1> QED  BY <1>1, <1>2, <1>4 DEF ContextOK

(* Sound does not depend on the marker.                                    *)
LEMMA SoundKept ==
  ASSUME UNCHANGED <<gen, field, roots, nrgn>>, NEW S, Sound(S), S \cap remset \subseteq remset'
  PROVE  Sound(S)'
<1>1. \A o : Targets(field, o)' = Targets(field, o)  BY DEF Targets, Slots
<1>2. \A o : PointsAcross(o, gen, field)' = PointsAcross(o, gen, field)
  BY <1>1 DEF PointsAcross, Static
<1> QED  BY <1>1, <1>2 DEF Sound, Nursery, Kept, Old

(* What does not touch the heap keeps its type.                            *)
LEMMA TypeKept ==
  ASSUME TypeInv, UNCHANGED <<gen, field, roots, nrgn, satb>>, remset' \subseteq remset,
         mk'.marked \subseteq {o \in Objects : Old(o)}, cursor' \in 0 .. Static, phase' \in {"mutate", "step"}
  PROVE  TypeInv'
<1>1. \A o : Targets(field, o)' = Targets(field, o) /\ Slots(o)' = Slots(o)  BY DEF Targets, Slots
<1>2. Static' = Static /\ \A o : Old(o)' = Old(o)  BY DEF Static, Old
<1> QED  BY <1>1, <1>2 DEF TypeInv

(* What UnmarkedOnlyShrinks says of a step.                                *)
Shrinks == mk.stage = "construction" => Unmarked' \subseteq Unmarked

(* Progress: scanning the top keeps the cover.                             *)
LEMMA ProgressKeeps == ASSUME IInv, Progress PROVE IInv' /\ Shrinks
<1>0. TypeInv /\ ContextOK(mk, gen) /\ StageInv  BY DEF IInv
<1>1. PICK All \in SUBSET Objects, Snap \in SUBSET Objects : MarkInv(All, Snap)  BY DEF IInv
<1>2. /\ phase = "step" /\ phase' \in {"step", "mutate"} /\ UNCHANGED <<gen, field, roots, nrgn, remset, satb, cursor>>
      /\ \/ mk.stack # << >> /\ mk' = Pop(mk)
         \/ mk.stack = << >> /\ mk.los # << >> /\ mk' = FillFromLos(mk)
  BY DEF Progress, heap
<1>3. Nursery = {} /\ satb = {} /\ mk.stage = "construction"
  BY <1>0, <1>2 DEF StageInv, StackEmpty
<1>4. mk.marked \subseteq Snap /\ Sound(Snap) /\ Sound(All)  BY <1>1, <1>3 DEF MarkInv
<1>5. \A o \in Snap : \A t \in Targets(field, o) : t \in Snap /\ gen[t] \in Gens
  <2>1. ASSUME NEW t \in Snap PROVE gen[t] \in Gens
    <3>1. t \in Objects /\ Kept(t)  BY <1>4 DEF Sound
    <3>2. gen[t] \in Int /\ gen[t] >= -1 /\ gen[t] # 0 /\ gen[t] # -1
      BY <1>0, <1>3, <3>1, TypeFacts DEF Kept, Nursery, Free
    <3>3. gen[t] >= 1  BY <3>2
    <3> QED  BY <1>0, <3>1, <3>3, TypeFacts
  <2> QED  BY <1>4, <2>1 DEF Sound
<1>6. PICK d : d = mk'  OBVIOUS
<1>7. \A o \in mk.marked : \A t \in Targets(field, o) : gen[t] \in Gens  BY <1>4, <1>5
<1>8. Fields  BY <1>0, TypeFacts
<1>9. /\ ContextOK(d, gen) /\ Advance(mk, d, field, satb) /\ d.stage = mk.stage /\ (d.seg \/ d.losSeg)
      /\ \A x \in d.marked \ mk.marked :
           x \in Objects /\ gen[x] \in Gens /\ \E o \in mk.marked : x \in Targets(field, o)
  <2>0. PICK c, log : c = mk /\ log = satb  OBVIOUS
  <2>1. ContextOK(c, gen) /\ \A o \in c.marked : \A t \in Targets(field, o) : gen[t] \in Gens  BY <1>0, <1>7, <2>0
  <2>2. CASE c.stack # << >>
    <3>1. d = Pop(c)  BY <1>2, <1>6, <2>0, <2>2
    <3>2. c.seg  BY <2>1, <2>2 DEF ContextOK, EntriesOK
    <3>3. /\ ContextOK(d, gen) /\ Advance(c, d, field, log) /\ d.stage = c.stage /\ d.seg
          /\ \A x \in d.marked \ c.marked :
               x \in Objects /\ gen[x] \in Gens /\ \E o \in c.marked : x \in Targets(field, o)
      BY <1>8, <2>1, <2>2, <3>1, <3>2, PopFacts
    <3> QED  BY <2>0, <3>3
  <2>3. CASE c.stack = << >>
    <3>1. d = FillFromLos(c) /\ c.los # << >>  BY <1>2, <1>6, <2>0, <2>3
    <3>3. /\ ContextOK(d, gen) /\ Advance(c, d, field, log) /\ d.stage = c.stage /\ d.losSeg
          /\ \A x \in d.marked \ c.marked :
               x \in Objects /\ gen[x] \in Gens /\ \E o \in c.marked : x \in Targets(field, o)
      BY <1>8, <2>1, <2>3, <3>1, FillFromLosFacts
    <3> QED  BY <2>0, <3>3
  <2> QED  BY <2>2, <2>3
<1>10. mk.marked \subseteq d.marked /\ d.marked \subseteq Snap
  <2>1. mk.marked \subseteq d.marked  BY <1>9 DEF Advance
  <2> QED  BY <1>4, <1>5, <1>9, <2>1
<1>11. TypeInv'
  <2>1. \A x \in d.marked : x \in Objects /\ Old(x)
    <3>1. \A x \in d.marked \ mk.marked : x \in Objects /\ Old(x)  BY <1>9 DEF Gens, Old
    <3> QED  BY <1>0, <3>1 DEF TypeInv
  <2>2. cursor' \in 0 .. Static  BY <1>0, <1>2 DEF TypeInv
  <2> QED  BY <1>0, <1>2, <1>6, <2>1, <2>2, TypeKept
<1>12. ContextOK(mk, gen)'  BY <1>2, <1>6, <1>9
<1>13. StageInv'  BY <1>2, <1>3, <1>6, <1>9 DEF StageInv, Nursery
<1>14. Sound(All)' /\ Sound(Snap)'  BY <1>2, <1>4, SoundKept
<1>15. Dropped' = {} /\ Dropped = {}  BY <1>3, <1>6, <1>9 DEF Dropped
<1>16. ASSUME NEW X \in SUBSET Objects, ToMark(X, mk, gen, field, satb)'
       PROVE  \A o \in Snap : Old(o) => o \in d.marked \cup X
  <2>1. ToMark(X, d, gen, field, satb)  BY <1>2, <1>6, <1>16
  <2>2. PICK Y : Y = X \cup d.marked  OBVIOUS
  <2>3. PICK c, log : c = mk /\ log = satb  OBVIOUS
  <2>4. Advance(c, d, field, log) /\ ToMark(X, d, gen, field, log)  BY <1>9, <2>1, <2>3
  <2>5. ToMark(Y, c, gen, field, log)  BY <2>2, <2>4, AdvanceCovers
  <2>6. ToMark(Y, mk, gen, field, satb)  BY <2>3, <2>5
  <2>7. Y \in SUBSET Objects  BY <1>10, <2>2
  <2>8. \A o \in Snap : Old(o) => o \in mk.marked \cup Y  BY <1>1, <1>3, <2>6, <2>7 DEF MarkInv
  <2> QED  BY <1>10, <2>2, <2>8
<1>17. MarkInv(All, Snap)'
  <2>1. \A o : Old(o)' = Old(o)  BY <1>2 DEF Old
  <2>2. mk'.stage = "construction" /\ mk'.marked = d.marked  BY <1>3, <1>6, <1>9
  <2> QED  BY <1>1, <1>2, <1>10, <1>14, <1>15, <1>16, <2>1, <2>2 DEF MarkInv
<1>18. Shrinks  BY <1>2, <1>6, <1>10 DEF Shrinks, Unmarked, Old
<1> QED  BY <1>1, <1>11, <1>12, <1>13, <1>17, <1>18 DEF IInv

(* Nothing is left to scan, so nothing is left to mark: from now on both   *)
(* sets are what the marks cover.                                          *)
LEMMA UnderflowKeeps == ASSUME IInv, Underflow PROVE IInv'
<1>0. TypeInv /\ ContextOK(mk, gen) /\ StageInv  BY DEF IInv
<1>1. PICK All \in SUBSET Objects, Snap \in SUBSET Objects : MarkInv(All, Snap)  BY DEF IInv
<1>2. /\ phase = "step" /\ phase' = "mutate" /\ UNCHANGED <<gen, field, roots, nrgn, remset, satb>>
      /\ mk.stack = << >> /\ mk.los = << >>
      /\ mk' = [mk EXCEPT !.seg = FALSE, !.losSeg = FALSE, !.stage = IF @ = "construction" THEN "refinement" ELSE @]
      /\ cursor' = IF mk.stage = "construction" THEN Static ELSE cursor
  BY DEF Underflow, heap
<1>3. Nursery = {} /\ satb = {} /\ mk.stage \in {"construction", "refinement"}
  BY <1>0, <1>2 DEF StageInv
<1>4. PICK d : d = mk'  OBVIOUS
<1>5. /\ ContextOK(d, gen) /\ d.marked = mk.marked /\ d.stage = "refinement" /\ StackEmpty(d)
      /\ Vals(mk) = {} /\ Items(mk) = {}
  <2>1. PICK c, s : c = mk /\ s = "refinement"  OBVIOUS
  <2>2. s \in Stages  BY <2>1 DEF Stages
  <2>3. d = Emptied(c, s)
    <3>1. s = IF mk.stage = "construction" THEN "refinement" ELSE mk.stage  BY <1>3, <2>1
    <3> QED  BY <1>2, <1>4, <2>1, <3>1 DEF Emptied
  <2>4. ContextOK(c, gen) /\ c.stack = << >> /\ c.los = << >>  BY <1>0, <1>2, <2>1
  <2>5. ContextOK(d, gen) /\ d.marked = c.marked /\ d.stage = s /\ StackEmpty(d) /\ Vals(c) = {} /\ Items(c) = {}
    BY <2>2, <2>3, <2>4, EmptyContext
  <2> QED  BY <2>1, <2>5
<1>6. \A o \in Snap : Old(o) => o \in mk.marked
  <2>1. CASE mk.stage = "refinement"  BY <1>1, <2>1 DEF MarkInv
  <2>2. CASE mk.stage = "construction"
    <3>1. ASSUME NEW a \in Ahead(mk, field, satb) PROVE FALSE  BY <1>3, <1>5, <3>1, AheadCases
    <3>2. ToMark({}, mk, gen, field, satb)  BY <3>1 DEF ToMark
    <3>3. {} \in SUBSET Objects  OBVIOUS
    <3>4. \A o \in Snap : Old(o) => o \in mk.marked \cup {}  BY <1>1, <2>2, <3>2, <3>3 DEF MarkInv
    <3> QED  BY <3>4
  <2> QED  BY <1>3, <2>1, <2>2
<1>7. Sound(Snap) /\ mk.marked \subseteq Snap  BY <1>1, <1>3 DEF MarkInv
<1>8. Static >= 1 /\ Static \in Nat /\ cursor \in 0 .. Static  BY <1>0, TypeFacts DEF TypeInv
<1>9. TypeInv'
  <2>1. cursor' \in 0 .. Static  BY <1>2, <1>8
  <2>2. mk'.marked \subseteq {o \in Objects : Old(o)}  BY <1>0, <1>4, <1>5 DEF TypeInv
  <2> QED  BY <1>0, <1>2, <2>1, <2>2, TypeKept
<1>10. ContextOK(mk, gen)'  BY <1>2, <1>4, <1>5
<1>11. StageInv'
  <2>1. cursor' >= 1  BY <1>0, <1>2, <1>3, <1>8 DEF StageInv
  <2> QED  BY <1>2, <1>3, <1>4, <1>5, <2>1 DEF StageInv
<1>12. (remset \ Dropped)' \subseteq Snap
  <2>1. CASE mk.stage = "construction"
    <3>1. \A o \in remset : gen[o] <= cursor'
      <4>1. \A o \in remset : o \in Objects  BY <1>0 DEF TypeInv
      <4> QED  BY <1>0, <1>2, <2>1, <4>1, TypeFacts
    <3>2. \A o \in remset' \ Dropped' : o \in mk.marked  BY <1>2, <1>4, <1>5, <3>1 DEF Dropped
    <3> QED  BY <1>7, <3>2
  <2>2. CASE mk.stage = "refinement"
    <3>1. Dropped' = Dropped  BY <1>2, <1>4, <1>5, <2>2 DEF Dropped
    <3>2. All = Snap  BY <1>1, <2>2 DEF MarkInv
    <3> QED  BY <1>1, <1>2, <3>1, <3>2 DEF MarkInv
  <2> QED  BY <1>3, <2>1, <2>2
<1>13. MarkInv(Snap, Snap)'
  <2>1. Sound(Snap)'  BY <1>2, <1>7, SoundKept
  <2>2. \A o : Old(o)' = Old(o)  BY <1>2 DEF Old
  <2>3. mk'.stage = "refinement" /\ mk'.marked = mk.marked /\ satb' = {}  BY <1>2, <1>3, <1>4, <1>5
  <2> QED  BY <1>6, <1>7, <1>12, <2>1, <2>2, <2>3 DEF MarkInv
<1> QED  BY <1>9, <1>10, <1>11, <1>13 DEF IInv

(* Refine: what is dropped is not marked, so it is not in either set.      *)
LEMMA RefineKeeps == ASSUME IInv, Refine PROVE IInv'
<1>0. TypeInv /\ ContextOK(mk, gen) /\ StageInv  BY DEF IInv
<1>1. PICK All \in SUBSET Objects, Snap \in SUBSET Objects : MarkInv(All, Snap)  BY DEF IInv
<1>2. /\ phase = "mutate" /\ phase' = phase /\ UNCHANGED <<gen, field, roots, nrgn, satb>>
      /\ mk.stage = "refinement" /\ cursor' = cursor - 1
      /\ remset' = {o \in remset : gen[o] # cursor \/ o \in mk.marked}
      /\ mk' = [mk EXCEPT !.stage = IF cursor = 1 THEN "completed" ELSE @]
  BY DEF Refine, heap
<1>3. All = Snap /\ (\A o \in Snap : Old(o) => o \in mk.marked) /\ mk.marked \subseteq Snap /\ Sound(Snap)
  BY <1>1, <1>2 DEF MarkInv
<1>4. StackEmpty(mk) /\ satb = {} /\ cursor >= 1 /\ cursor \in 0 .. Static /\ Static \in Nat
  BY <1>0, <1>2, TypeFacts DEF StageInv, TypeInv
<1>5. PICK d, s : d = mk' /\ s = IF cursor = 1 THEN "completed" ELSE "refinement"  OBVIOUS
<1>6. /\ ContextOK(d, gen) /\ d.marked = mk.marked /\ d.stage = s /\ StackEmpty(d)
  <2>1. PICK c : c = mk  OBVIOUS
  <2>2. s \in Stages  BY <1>5 DEF Stages
  <2>3. d = [c EXCEPT !.stage = s]  BY <1>2, <1>5, <2>1
  <2>4. ContextOK(c, gen)  BY <1>0, <2>1
  <2>5. /\ ContextOK(d, gen) /\ d.marked = c.marked /\ d.stage = s
        /\ d.stack = c.stack /\ d.los = c.los /\ d.seg = c.seg /\ d.losSeg = c.losSeg
    BY <2>2, <2>3, <2>4, NewStage
  <2> QED  BY <1>4, <2>1, <2>5 DEF StackEmpty
<1>7. TypeInv'
  <2>1. cursor' \in 0 .. Static  BY <1>2, <1>4
  <2>2. mk'.marked \subseteq {o \in Objects : Old(o)}  BY <1>0, <1>5, <1>6 DEF TypeInv
  <2>3. phase' \in {"mutate", "step"}  BY <1>2
  <2>4. remset' \subseteq remset  BY <1>2
  <2> QED  BY <1>0, <1>2, <2>1, <2>2, <2>3, <2>4, TypeKept
<1>8. ContextOK(mk, gen)'  BY <1>2, <1>5, <1>6
<1>9. StageInv'
  <2>1. s = "refinement" => cursor' >= 1
    <3>1. s = "refinement" => cursor # 1  BY <1>5
    <3> QED  BY <1>2, <1>4, <3>1
  <2>2. s \in {"refinement", "completed"}  BY <1>5
  <2> QED  BY <1>2, <1>4, <1>5, <1>6, <2>1, <2>2 DEF StageInv
<1>10. (remset \ Dropped)' \subseteq Snap
  <2> SUFFICES ASSUME NEW o \in remset', o \notin Dropped' PROVE o \in Snap  OBVIOUS
  <2>1. CASE o \in mk.marked  BY <1>3, <2>1
  <2>2. CASE o \notin mk.marked
    <3>1. o \in remset /\ gen[o] # cursor  BY <1>2, <2>2
    <3>2. gen[o] \in Int /\ gen[o] >= 1
      <4>1. o \in Objects /\ Old(o)  BY <1>0, <3>1 DEF TypeInv
      <4> QED  BY <1>0, <4>1, TypeFacts DEF Old
    <3>3. ~(s = "refinement" /\ gen[o] <= cursor - 1)  BY <1>2, <1>5, <1>6, <2>2 DEF Dropped
    <3>4. ~(gen[o] <= cursor)
      <4>1. cursor \in Int  BY <1>4
      <4>2. CASE s = "refinement"  BY <3>1, <3>2, <3>3, <4>1, <4>2
      <4>3. CASE s # "refinement"
        <5>1. cursor = 1  BY <1>5, <4>3
        <5> QED  BY <3>1, <3>2, <5>1
      <4> QED  BY <4>2, <4>3
    <3>5. o \notin Dropped  BY <3>4 DEF Dropped
    <3> QED  BY <1>1, <1>3, <3>1, <3>5 DEF MarkInv
  <2> QED  BY <2>1, <2>2
<1>11. MarkInv(Snap, Snap)'
  <2>1. Sound(Snap)'
    <3>1. \A o \in Snap \cap remset : o \in remset'
      <4>1. \A o \in remset : Old(o)  BY <1>0 DEF TypeInv
      <4> QED  BY <1>2, <1>3, <4>1
    <3>2. Snap \cap remset \subseteq remset'  BY <3>1
    <3> QED  BY <1>2, <1>3, <3>2, SoundKept
  <2>2. \A o : Old(o)' = Old(o)  BY <1>2 DEF Old
  <2>3. mk'.stage \in {"refinement", "completed"} /\ mk'.marked = mk.marked /\ satb' = {}
    BY <1>2, <1>4, <1>5, <1>6
  <2> QED  BY <1>3, <1>10, <2>1, <2>2, <2>3 DEF MarkInv
<1> QED  BY <1>7, <1>8, <1>9, <1>11 DEF IInv

(* The sequence in which the members of a set are pushed has them and no   *)
(* others.                                                                 *)
LEMMA SetPushed ==
  ASSUME NEW S \in SUBSET Objects, NEW os, os = SetToSeq(S)
  PROVE  /\ Len(os) \in Nat /\ S = {os[n] : n \in 1 .. Len(os)} \ {Nil}
         /\ \A n \in 1 .. Len(os) : os[n] \in S
<1>1. os \in Seq(S) /\ ToSet(os) = S  BY SetToSeqFacts
<1>2. Len(os) \in Nat /\ DOMAIN os = 1 .. Len(os)  BY <1>1, LenProperties
<1>3. S = {os[n] : n \in 1 .. Len(os)}  BY <1>1, <1>2 DEF ToSet
<1>4. Nil \notin S  BY MarkerAssumption
<1> QED  BY <1>2, <1>3, <1>4

(* The log is pushed before a collection.                                  *)
LEMMA FlushedFacts ==
  ASSUME IInv, phase = "mutate", NEW c, c = Flushed
  PROVE  /\ ContextOK(c, gen) /\ c.marked = mk.marked \cup satb
         /\ Vals(c) = Vals(mk) \cup (satb \ mk.marked) /\ Items(c) = Items(mk)
         /\ c.stage = mk.stage /\ (mk.seg \/ mk.losSeg => c.seg \/ c.losSeg)
         /\ mk.stage # "construction" => c = mk
<1>0. TypeInv /\ ContextOK(mk, gen) /\ StageInv  BY DEF IInv
<1>1. CASE mk.stage # "construction"
  <2>1. c = mk /\ satb = {}  BY <1>0, <1>1 DEF Flushed, StageInv
  <2> QED  BY <1>0, <2>1
<1>2. CASE mk.stage = "construction"
  <2>1. PICK os : os = SetToSeq(satb)  OBVIOUS
  <2>2. PICK b, N : b = mk /\ N = satb  OBVIOUS
  <2>10. PICK V : V = N \ b.marked  OBVIOUS
  <2>3. c = PushAll(b, gen, os)
    <3>1. ~StackEmpty(mk)  BY <1>0, <1>2 DEF StageInv, StackEmpty
    <3> QED  BY <1>2, <2>1, <2>2, <3>1 DEF Flushed
  <2>4. N \in SUBSET Objects /\ \A o \in N : gen[o] \in Gens
    BY <1>0, <2>2, TypeFacts DEF TypeInv, Old
  <2>5. /\ Len(os) \in Nat /\ N = {os[n] : n \in 1 .. Len(os)} \ {Nil}
        /\ \A n \in 1 .. Len(os) : os[n] \in N
    <3>1. os = SetToSeq(N)  BY <2>1, <2>2
    <3> QED  BY <2>4, <3>1, SetPushed
  <2>6. \A n \in 1 .. Len(os) : os[n] \in Objects \cup {Nil} /\ (os[n] # Nil => gen[os[n]] \in Gens)
    BY <2>4, <2>5
  <2>7. ContextOK(b, gen)  BY <1>0, <2>2
  <2>8. ContextOK(c, gen) /\ Extends(b, c, N, V)
    <3>1. Len(os) \in Nat  BY <2>5
    <3>2. N = {os[n] : n \in 1 .. Len(os)} \ {Nil}  BY <2>5
    <3> HIDE DEF IInv
    <3> QED  BY <2>3, <2>6, <2>7, <2>10, <3>1, <3>2, PushAllFacts
  <2>9. Items(c) = Items(b)  BY <2>8 DEF Extends, Items
  <2> QED  BY <1>2, <2>2, <2>8, <2>9, <2>10 DEF Extends
<1> QED  BY <1>1, <1>2

(* Empty stacks stay empty when a region is collected.                     *)
LEMMA RequeueEmpty ==
  ASSUME NEW c, NEW g, ContextOK(c, g), StackEmpty(c), NEW r \in Gens, NEW h, NEW d, d = Requeue(c, r, h)
  PROVE  StackEmpty(d)
<1>0. c \in Context /\ c.stack = << >> /\ c.los = << >> /\ ~c.seg /\ ~c.losSeg
  BY DEF StackEmpty, ContextOK
<1>1. Len(<< >>) = 0 /\ DOMAIN << >> = {} /\ << >> \in Seq({})  BY EmptySeq, LenProperties
<1>2. c.head[r] = 0 /\ c.losHead[r] = 0
  <2>1. /\ Threaded(StackOn(c, g, r), c.stack, c.head[r])
        /\ Threaded(LosOn(c, g, r), c.los, c.losHead[r])
    BY DEF ContextOK
  <2>2. StackOn(c, g, r) = {} /\ LosOn(c, g, r) = {}  BY <1>0, <1>1 DEF StackOn, LosOn
  <2> QED  BY <2>1, <2>2 DEF Threaded, LastBefore
<1>3. PICK k : k = Thread(<< >>, 0)  OBVIOUS
<1>4. k = << >>
  <2>1. \E from : Follows(<< >>, from) /\ Thread(<< >>, 0) = from[0]
    <3>1. PICK s : s = << >>  OBVIOUS
    <3>2. Len(s) \in Nat  BY <1>1, <3>1
    <3>3. \E from : Follows(s, from) /\ Thread(s, 0) = from[0]  BY <3>2, ThreadUnfold
    <3> QED  BY <3>1, <3>3
  <2> QED  BY <1>3, <2>1 DEF Follows
<1>5. PICK b : b = Killed(c, r, ToSet(k), ToSet(k))  OBVIOUS
<1>6. PICK es, fs : es = [n \in DOMAIN k |-> c.stack[k[n]]] /\ fs = [n \in DOMAIN k |-> c.los[k[n]]]  OBVIOUS
<1>7. d = LosPushAgain(PushAgain(b, h, es), h, fs)
  <2>1. Thread(c.stack, c.head[r]) = k /\ Thread(c.los, c.losHead[r]) = k  BY <1>0, <1>2, <1>3
  <2> QED  BY <1>5, <1>6, <2>1 DEF Requeue, Killed
<1>8. Len(es) = 0 /\ Len(fs) = 0
  <2>1. es \in [1 .. 0 -> {}] /\ fs \in [1 .. 0 -> {}]  BY <1>1, <1>4, <1>6
  <2>2. es \in Seq({}) /\ fs \in Seq({}) /\ DOMAIN es = 1 .. 0 /\ DOMAIN fs = 1 .. 0  BY <2>1, SeqDef
  <2> QED  BY <2>2, LenProperties
<1>9. PICK p : p = PushAgain(b, h, es)  OBVIOUS
<1>10. p = b
  <2>1. Len(es) \in Nat  BY <1>8
  <2>2. PICK q : q[0] = b /\ PushAgain(b, h, es) = q[Len(es)]  BY <2>1, PushAgainUnfold
  <2> QED  BY <1>8, <1>9, <2>2
<1>11. d = b
  <2>1. Len(fs) \in Nat  BY <1>8
  <2>2. PICK q : q[0] = p /\ LosPushAgain(p, h, fs) = q[Len(fs)]  BY <2>1, LosPushAgainUnfold
  <2> QED  BY <1>7, <1>8, <1>9, <1>10, <2>2
<1>12. b.seg = c.seg /\ b.losSeg = c.losSeg /\ DOMAIN b.stack = {} /\ DOMAIN b.los = {}
       /\ b.stack \in [1 .. 0 -> {}] /\ b.los \in [1 .. 0 -> {}]
  BY <1>0, <1>1, <1>5 DEF Killed, Context
<1>13. b.stack = << >> /\ b.los = << >>
  <2>1. b.stack \in Seq({}) /\ b.los \in Seq({}) /\ DOMAIN b.stack = 1 .. 0 /\ DOMAIN b.los = 1 .. 0
    BY <1>12, SeqDef
  <2>2. Len(b.stack) = 0 /\ Len(b.los) = 0  BY <2>1, LenProperties
  <2> QED  BY <2>1, <2>2, EmptySeq
<1> QED  BY <1>0, <1>11, <1>12, <1>13 DEF StackEmpty

(* The threads of a region visit its entries.                              *)
LEMMA ThreadsVisit ==
  ASSUME NEW c, NEW g, ContextOK(c, g), NEW r \in Gens
  PROVE  /\ ToSet(Thread(c.stack, c.head[r])) = StackOn(c, g, r)
         /\ ToSet(Thread(c.los, c.losHead[r])) = LosOn(c, g, r)
<1>0. Len(c.stack) \in Nat /\ Len(c.los) \in Nat  BY ContextFacts
<1>1. PICK E, F : E = StackOn(c, g, r) /\ F = LosOn(c, g, r)  OBVIOUS
<1>2. ToSet(Thread(c.stack, c.head[r])) = E
  <2>1. Threaded(E, c.stack, c.head[r])  BY <1>1 DEF ContextOK
  <2>2. PICK s, k : s = c.stack /\ k = c.head[r]  OBVIOUS
  <2>3. /\ Len(s) \in Nat /\ E \in SUBSET (1 .. Len(s)) /\ LastBefore(E, Len(s) + 1, k)
        /\ \A n \in E : LastBefore(E, n, s[n].next)
    BY <1>0, <2>1, <2>2 DEF Threaded
  <2>4. ToSet(Thread(s, k)) = E  BY <2>3, ThreadVisits
  <2> QED  BY <2>2, <2>4
<1>3. ToSet(Thread(c.los, c.losHead[r])) = F
  <2>1. Threaded(F, c.los, c.losHead[r])  BY <1>1 DEF ContextOK
  <2>2. PICK s, k : s = c.los /\ k = c.losHead[r]  OBVIOUS
  <2>3. /\ Len(s) \in Nat /\ F \in SUBSET (1 .. Len(s)) /\ LastBefore(F, Len(s) + 1, k)
        /\ \A n \in F : LastBefore(F, n, s[n].next)
    BY <1>0, <2>1, <2>2 DEF Threaded
  <2>4. ToSet(Thread(s, k)) = F  BY <2>3, ThreadVisits
  <2> QED  BY <2>2, <2>4
<1> QED  BY <1>1, <1>2, <1>3

(* StackOf and LosOf are the objects on the stacks that are in the region. *)
LEMMA EntriesFound ==
  ASSUME NEW c, ContextOK(c, gen), NEW r \in Gens
  PROVE  /\ StackOf(c, r) \cup LosOf(c, r) \subseteq Entered(c)
         /\ \A v \in Entered(c) : gen[v] = r => v \in StackOf(c, r) \cup LosOf(c, r)
<1>1. PICK E, F : E = StackOn(c, gen, r) /\ F = LosOn(c, gen, r)  OBVIOUS
<1>2. ToSet(Thread(c.stack, c.head[r])) = E /\ ToSet(Thread(c.los, c.losHead[r])) = F
  BY <1>1, ThreadsVisit
<1>4. StackOf(c, r) = {c.stack[n].val : n \in E}  BY <1>2 DEF StackOf
<1>5. LosOf(c, r) = {c.los[n].obj : n \in F}  BY <1>2 DEF LosOf
<1>6. StackOf(c, r) \subseteq Entered(c)  BY <1>1, <1>4 DEF StackOn, Entered, Vals
<1>7. LosOf(c, r) \subseteq Entered(c)
  <2> SUFFICES ASSUME NEW n \in F PROVE c.los[n].obj \in Entered(c)  BY <1>5
  <2>1. n \in DOMAIN c.los /\ c.los[n].obj # Nil  BY <1>1 DEF LosOn
  <2>2. PICK e \in Items(c) : e = <<c.los[n].obj, c.los[n].index>>  BY <2>1 DEF Items
  <2>3. e[1] = c.los[n].obj  BY <2>2
  <2> QED  BY <2>3 DEF Entered
<1>8. ASSUME NEW v \in Entered(c), gen[v] = r PROVE v \in StackOf(c, r) \cup LosOf(c, r)
  <2>1. CASE v \in Vals(c)
    <3>1. PICK n \in DOMAIN c.stack : v = c.stack[n].val /\ v # Nil  BY <2>1 DEF Vals
    <3>2. n \in E  BY <1>1, <1>8, <3>1 DEF StackOn
    <3> QED  BY <1>4, <3>1, <3>2
  <2>2. CASE \E e \in Items(c) : v = e[1]
    <3>1. PICK n \in DOMAIN c.los : c.los[n].obj # Nil /\ v = <<c.los[n].obj, c.los[n].index>>[1]
      BY <2>2 DEF Items
    <3>2. v = c.los[n].obj  BY <3>1
    <3>3. n \in F  BY <1>1, <1>8, <3>1, <3>2 DEF LosOn
    <3> QED  BY <1>5, <3>2, <3>3
  <2> QED  BY <2>1, <2>2 DEF Entered
<1> QED  BY <1>6, <1>7, <1>8

(* A collection: of the objects D of some generations the objects K are    *)
(* moved to a region, the others are freed.                                *)
Moves(D, K, to) ==
  /\ K \subseteq D /\ D \subseteq Objects /\ Nursery \subseteq D /\ to \in 1 .. nrgn
  /\ \A o \in D : gen[o] \in 0 .. nrgn /\ \A x \in Objects \ D : gen[o] # gen[x]
  /\ gen' = [o \in Objects |-> IF o \in K THEN to ELSE IF o \in D THEN Free ELSE gen[o]]
  /\ field' = [o \in Objects |-> IF gen'[o] = Free THEN [i \in Slots(o) |-> Nil] ELSE field[o]]
  /\ remset' = (remset \ D) \cup {o \in K : PointsAcross(o, gen', field')}
  /\ satb' = {} /\ UNCHANGED <<roots, nrgn, cursor>>
  /\ roots \cap D \subseteq K /\ \A o \in K : Targets(field, o) \cap D \subseteq K
Leaves(S, D, K) == \A x \in S \ D : Targets(field, x) \cap D \subseteq K

(* K is what is reached from start.                                        *)
Traced(K, start, D) ==
  /\ start \cap D \subseteq K
  /\ \A X \in SUBSET Objects :
       start \cap D \subseteq X /\ (\A o \in X : Targets(field, o) \subseteq X) => K \subseteq X

(* An evacuation moves what it keeps out of the regions it collects.       *)
LEMMA EvacuateMoves ==
  ASSUME TypeInv, NEW cset \in SUBSET (0 .. nrgn), 0 \in cset, NEW to \in 1 .. nrgn, NEW start,
         Evacuate(cset, to, start), roots \subseteq start, satb' = {}, UNCHANGED <<roots, nrgn, cursor>>,
         NEW D, D = {o \in Objects : gen[o] \in cset}
  PROVE  \E K : Moves(D, K, to) /\ Traced(K, start, D)
<1>0. \A o \in Objects : Targets(field, o) \subseteq Objects  BY TypeFacts
<1>1. PICK S : S = start \cap D  OBVIOUS
<1>2. PICK K : K = Reach(S, field, D) \cap D  OBVIOUS
<1>3. /\ S \subseteq Reach(S, field, D)
      /\ \A o \in Reach(S, field, D) \cap D : Targets(field, o) \subseteq Reach(S, field, D)
  <2>1. S \in SUBSET Objects  BY <1>1
  <2>2. PICK f : f = field  OBVIOUS
  <2>3. \A o \in Objects : Targets(f, o) \subseteq Objects  BY <1>0, <2>2
  <2>4. /\ S \subseteq Reach(S, f, D) /\ Reach(S, f, D) \subseteq Objects
        /\ \A o \in Reach(S, f, D) \cap D : Targets(f, o) \subseteq Reach(S, f, D)
    BY <2>1, <2>3, ReachCloses
  <2> QED  BY <2>2, <2>4
<1>4. S \subseteq K /\ K \subseteq D /\ \A o \in K : Targets(field, o) \cap D \subseteq K
  BY <1>1, <1>2, <1>3
<1>5. ASSUME NEW X \in SUBSET Objects, S \subseteq X, \A o \in X : Targets(field, o) \subseteq X
      PROVE  K \subseteq X
  <2>1. PICK f : f = field  OBVIOUS
  <2>2. \A o \in X \cap D : Targets(f, o) \subseteq X  BY <1>5, <2>1
  <2>3. Reach(S, f, D) \subseteq X  BY <1>5, <2>2, ReachWithin
  <2> QED  BY <1>2, <2>1, <2>3
<1>6. /\ gen' = [o \in Objects |-> IF o \in K THEN to ELSE IF o \in D THEN Free ELSE gen[o]]
      /\ field' = [o \in Objects |-> IF gen'[o] = Free THEN [i \in Slots(o) |-> Nil] ELSE field[o]]
      /\ remset' = {o \in remset : gen[o] \notin cset} \cup {o \in K : PointsAcross(o, gen', field')}
  <2>1. K = Reach(start \cap {o \in Objects : gen[o] \in cset}, field, {o \in Objects : gen[o] \in cset})
              \cap {o \in Objects : gen[o] \in cset}
    BY <1>1, <1>2
  <2>2. PICK g : g = [o \in Objects |-> IF o \in K THEN to ELSE IF o \in D THEN Free ELSE gen[o]]  OBVIOUS
  <2>3. PICK f : f = [o \in Objects |-> IF g[o] = Free THEN [i \in Slots(o) |-> Nil] ELSE field[o]]  OBVIOUS
  <2>4. gen' = g /\ field' = f /\ remset' = {o \in remset : gen[o] \notin cset} \cup {o \in K : PointsAcross(o, g, f)}
    BY <2>1, <2>2, <2>3 DEF Evacuate
  <2> QED  BY <2>2, <2>3, <2>4
<1>7. {o \in remset : gen[o] \notin cset} = remset \ D  BY DEF TypeInv
<1>8. Nursery \subseteq D  BY DEF Nursery
<1>9. \A o \in D : gen[o] \in 0 .. nrgn /\ \A x \in Objects \ D : gen[o] # gen[x]  OBVIOUS
<1>10. Moves(D, K, to)  BY <1>1, <1>4, <1>6, <1>7, <1>8, <1>9 DEF Moves
<1>11. Traced(K, start, D)  BY <1>1, <1>4, <1>5 DEF Traced
<1> QED  BY <1>10, <1>11

(* What a move of objects does to places, pointers and the remembered set. *)
LEMMA MovesFacts ==
  ASSUME TypeInv, NEW D, NEW K, NEW to, Moves(D, K, to), NEW g, g = gen', NEW f, f = field'
  PROVE  /\ \A o \in Objects : g[o] \in Int /\ g[o] >= -1 /\ g[o] <= Static /\ g[o] # 0
         /\ \A o \in Objects : (o \in K => g[o] = to) /\ (o \in D \ K => g[o] = -1) /\ (o \notin D => g[o] = gen[o])
         /\ \A o \in Objects : g[o] >= 1 => g[o] \in Gens
         /\ \A o \in Objects : g[o] # Free => Targets(f, o) = Targets(field, o) /\ f[o] = field[o]
         /\ \A o \in Objects : g[o] = Free => Targets(f, o) = {}
         /\ Static' = Static /\ Nursery' = {} /\ to \in Gens /\ to >= 1
<1>0. /\ \A o \in Objects : gen[o] \in Int /\ gen[o] >= -1 /\ gen[o] <= Static
      /\ nrgn \in Nat /\ nrgn >= 1 /\ nrgn <= MaxRegions /\ Static = nrgn + 1 /\ MaxRegions \in Nat
      /\ \A o \in Objects : gen[o] >= 1 => gen[o] \in Gens
  BY TypeFacts
<1>1. to \in Nat /\ to >= 1 /\ to <= nrgn /\ K \subseteq D /\ D \subseteq Objects /\ Nursery \subseteq D  BY <1>0 DEF Moves
<1>2. \A o \in Objects : (o \in K => g[o] = to) /\ (o \in D \ K => g[o] = -1) /\ (o \notin D => g[o] = gen[o])
  BY <1>1 DEF Moves, Free
<1>3. \A o \in Objects : g[o] \in Int /\ g[o] >= -1 /\ g[o] <= Static /\ g[o] # 0
  <2>1. \A o \in Objects : o \notin D => gen[o] # 0  BY <1>1 DEF Nursery
  <2> QED  BY <1>0, <1>1, <1>2, <2>1
<1>4. to \in Gens  BY <1>0, <1>1 DEF Gens
<1>5. \A o \in Objects : g[o] >= 1 => g[o] \in Gens  BY <1>0, <1>2, <1>3, <1>4
<1>6. \A o \in Objects : g[o] # Free => f[o] = field[o]  BY DEF Moves
<1>7. ASSUME NEW o \in Objects, g[o] = Free PROVE Targets(f, o) = {}
  <2>1. f[o] = [i \in Slots(o) |-> Nil]  BY <1>7 DEF Moves
  <2> QED  BY <2>1 DEF Targets
<1>8. \A o \in Objects : g[o] # Free => Targets(f, o) = Targets(field, o)  BY <1>6 DEF Targets
<1>9. Static' = Static /\ Nursery' = {}  BY <1>3 DEF Moves, Static, Nursery
<1> QED  BY <1>1, <1>2, <1>3, <1>4, <1>5, <1>6, <1>7, <1>8, <1>9

(* A move keeps the types.                                                 *)
LEMMA MovesType ==
  ASSUME TypeInv, NEW D, NEW K, NEW to, Moves(D, K, to), \A o \in mk'.marked : o \in Objects /\ gen'[o] >= 1,
         phase' \in {"mutate", "step"}
  PROVE  TypeInv'
<1>1. PICK g, f : g = gen' /\ f = field'  OBVIOUS
<1>2. /\ \A o \in Objects : g[o] \in Int /\ g[o] >= -1 /\ g[o] <= Static /\ g[o] # 0
      /\ \A o \in Objects : (o \in K => g[o] = to) /\ (o \in D \ K => g[o] = -1) /\ (o \notin D => g[o] = gen[o])
      /\ \A o \in Objects : g[o] # Free => Targets(f, o) = Targets(field, o) /\ f[o] = field[o]
      /\ \A o \in Objects : g[o] = Free => Targets(f, o) = {}
      /\ Static' = Static /\ to >= 1
  BY <1>1, MovesFacts
<1>3. nrgn \in Nat /\ nrgn <= MaxRegions /\ Static = nrgn + 1 /\ MaxRegions \in Nat  BY TypeFacts
<1>4. gen' \in [Objects -> Free .. MaxRegions + 1] /\ \A o \in Objects : gen'[o] <= Static'
  <2>1. g = [o \in Objects |-> g[o]]
    <3>1. g = [o \in Objects |-> IF o \in K THEN to ELSE IF o \in D THEN Free ELSE gen[o]]  BY <1>1 DEF Moves
    <3> QED  BY <3>1
  <2>2. \A o \in Objects : g[o] \in Free .. MaxRegions + 1  BY <1>2, <1>3 DEF Free
  <2>3. g \in [Objects -> Free .. MaxRegions + 1]  BY <2>1, <2>2
  <2> QED  BY <1>1, <1>2, <2>3
<1>5. f = [o \in Objects |-> f[o]] /\ \A o \in Objects : f[o] \in [Slots(o) -> Objects \cup {Nil}]
  <2>1. f = [o \in Objects |-> IF g[o] = Free THEN [i \in Slots(o) |-> Nil] ELSE field[o]]  BY <1>1 DEF Moves
  <2>2. f = [o \in Objects |-> f[o]]  BY <2>1
  <2>3. ASSUME NEW o \in Objects PROVE f[o] \in [Slots(o) -> Objects \cup {Nil}]
    <3>1. CASE g[o] = Free  BY <2>1, <3>1
    <3>2. CASE g[o] # Free  BY <2>1, <3>2 DEF TypeInv
    <3> QED  BY <3>1, <3>2
  <2> QED  BY <2>2, <2>3
<1>6. \A o : Slots(o)' = Slots(o) /\ Targets(field, o)' = Targets(f, o)  BY <1>1 DEF Slots, Targets
<1>7. remset' \subseteq {o \in Objects : gen'[o] >= 1}
  <2>1. \A o \in remset : o \in Objects /\ gen[o] >= 1  BY DEF TypeInv, Old
  <2>2. \A o \in remset' : (o \in remset /\ o \notin D) \/ o \in K  BY DEF Moves
  <2>3. K \subseteq Objects  BY DEF Moves
  <2> QED  BY <1>1, <1>2, <2>1, <2>2, <2>3
<1>8. /\ roots' \subseteq Objects /\ satb' = {} /\ nrgn' \in Regions .. MaxRegions
      /\ cursor' \in 0 .. Static'
  BY <1>2 DEF Moves, TypeInv
<1>9. \A o \in Objects : gen'[o] = Free => Targets(field, o)' = {}  BY <1>1, <1>2, <1>6
<1>10. remset' \subseteq {o \in Objects : Old(o)'} /\ mk'.marked \subseteq {o \in Objects : Old(o)'}
  BY <1>7 DEF Old
<1> QED  BY <1>1, <1>4, <1>5, <1>6, <1>8, <1>9, <1>10 DEF TypeInv

(* What a move leaves of a sound set is sound.                             *)
LEMMA MovesSound ==
  ASSUME TypeInv, NEW D, NEW K, NEW to, Moves(D, K, to), NEW S \in SUBSET Objects, Sound(S), Leaves(S, D, K),
         NEW T, T = {o \in S : gen'[o] # Free}
  PROVE  Sound(T)'
<1>1. PICK g, f : g = gen' /\ f = field'  OBVIOUS
<1>2. /\ \A o \in Objects : g[o] \in Int /\ g[o] >= -1 /\ g[o] <= Static /\ g[o] # 0
      /\ \A o \in Objects : (o \in K => g[o] = to) /\ (o \in D \ K => g[o] = -1) /\ (o \notin D => g[o] = gen[o])
      /\ \A o \in Objects : g[o] # Free => Targets(f, o) = Targets(field, o)
      /\ Static' = Static /\ Nursery' = {} /\ to >= 1
  BY <1>1, MovesFacts
<1>3. /\ K \subseteq D /\ D \subseteq Objects /\ roots' = roots /\ roots \cap D \subseteq K
      /\ \A o \in K : Targets(field, o) \cap D \subseteq K
      /\ Static = nrgn + 1 /\ nrgn \in Nat /\ \A o \in D : gen[o] \in 0 .. nrgn
      /\ \A o \in D : \A x \in Objects \ D : gen[o] # gen[x]
  BY TypeFacts DEF Moves
<1>4. /\ roots \subseteq S /\ \A o \in S : Kept(o) /\ Targets(field, o) \subseteq S
      /\ \A o \in S : Old(o) /\ PointsAcross(o, gen, field) => o \in remset
  BY DEF Sound
<1>5. \A o \in S : o \in T <=> o \notin D \/ o \in K
  <2>1. \A o \in S : o \in Objects /\ gen[o] # -1  BY <1>4 DEF Kept, Free
  <2> SUFFICES ASSUME NEW o \in S PROVE o \in T <=> o \notin D \/ o \in K  OBVIOUS
  <2>2. o \in T <=> g[o] # -1  BY <1>1 DEF Free
  <2>3. o \in Objects /\ g[o] \in Int  BY <1>2
  <2>4. CASE o \in K
    <3>1. g[o] >= 1  BY <1>2, <2>3, <2>4
    <3> QED  BY <2>2, <2>3, <2>4, <3>1
  <2>5. CASE o \notin K  BY <1>2, <2>1, <2>2, <2>3, <2>5
  <2> QED  BY <2>4, <2>5
<1>6. roots' \subseteq T  BY <1>3, <1>4, <1>5
<1>7. \A o \in T : g[o] # Free /\ Targets(f, o) \subseteq T
  <2> SUFFICES ASSUME NEW o \in T, NEW t \in Targets(f, o) PROVE t \in T  BY <1>1
  <2>1. o \in S /\ o \in Objects /\ g[o] # Free  BY <1>1
  <2>2. t \in Targets(field, o) /\ t \in S  BY <1>2, <1>4, <2>1
  <2>3. t \in D => t \in K
    <3>1. CASE o \in D  BY <1>3, <1>5, <2>1, <2>2, <3>1
    <3>2. CASE o \notin D  BY <2>1, <2>2, <3>2 DEF Leaves
    <3> QED  BY <3>1, <3>2
  <2> QED  BY <1>5, <2>2, <2>3
<1>8. ASSUME NEW o \in T, g[o] >= 1, PointsAcross(o, gen, field)' PROVE o \in remset'
  <2>1. o \in S /\ o \in Objects  OBVIOUS
  <2>2. CASE o \in K
    <3>1. PointsAcross(o, gen', field')
      <4>1. nrgn' = nrgn  BY DEF Moves
      <4> QED  BY <1>8, <4>1 DEF PointsAcross, Targets, Slots, Static
    <3> QED  BY <2>2, <3>1 DEF Moves
  <2>3. CASE o \notin K
    <3>1. o \notin D  BY <1>5, <2>1, <2>3
    <3>2. g[o] # Free  BY <1>1
    <3>3. PICK t \in Targets(f, o) : g[t] # g[o] /\ g[t] # Static
      <4>1. Targets(field, o)' = Targets(f, o)  BY <1>1 DEF Targets, Slots
      <4> QED  BY <1>1, <1>2, <1>8, <4>1 DEF PointsAcross
    <3>4. t \in Targets(field, o) /\ t \in Objects  BY <1>2, <1>4, <2>1, <3>2, <3>3
    <3>5. gen[o] = g[o]  BY <1>2, <2>1, <3>1
    <3>6. gen[t] # gen[o] /\ gen[t] # Static
      <4>1. CASE t \in D
        <5>1. gen[t] \in 0 .. nrgn /\ gen[t] # gen[o]  BY <1>3, <2>1, <3>1, <4>1
        <5> QED  BY <1>3, <5>1
      <4>2. CASE t \notin D  BY <1>2, <3>3, <3>4, <3>5, <4>2
      <4> QED  BY <4>1, <4>2
    <3>7. PointsAcross(o, gen, field)  BY <3>4, <3>6 DEF PointsAcross
    <3>8. Old(o)  BY <1>8, <3>5 DEF Old
    <3> QED  BY <1>4, <2>1, <3>1, <3>7, <3>8 DEF Moves
  <2> QED  BY <2>2, <2>3
<1>9. \A o : Targets(field, o)' = Targets(f, o)  BY <1>1 DEF Targets, Slots
<1>10. T \subseteq Objects  OBVIOUS
<1> QED  BY <1>1, <1>2, <1>6, <1>7, <1>8, <1>9, <1>10 DEF Sound, Kept, Old

(* What a collection makes of the marker's context, the log flushed.       *)
Moved(c, d) ==
  /\ ContextOK(d, gen') /\ d.marked = {o \in Objects : gen'[o] # Free /\ (o \in c.marked \/ gen[o] = 0)}
  /\ Vals(d) = Vals(c) /\ Items(d) = Items(c) /\ d.stage = c.stage
  /\ (c.seg \/ c.losSeg => d.seg \/ d.losSeg) /\ (StackEmpty(c) => StackEmpty(d))
  /\ \A v \in Entered(c) : gen'[v] # Free

(* What the marker was going to mark, it still is, unless it was freed: a  *)
(* cover X of what is ahead afterwards gives one of what was ahead before. *)
LEMMA CoverBefore ==
  ASSUME IInv, phase = "mutate", NEW c, c = Flushed, NEW D, NEW K, NEW to, Moves(D, K, to), NEW d, Moved(c, d),
         NEW S \in SUBSET Objects, Sound(S), Leaves(S, D, K), mk.marked \subseteq S, satb \subseteq S,
         NEW X, ToMark(X, d, gen', field', {}), NEW Y, Y = {o \in S : o \in X \cup satb /\ gen'[o] # Free}
  PROVE  ToMark(Y, mk, gen, field, satb)
<1>0. TypeInv /\ ContextOK(mk, gen)  BY DEF IInv
<1>1. PICK g, f : g = gen' /\ f = field'  OBVIOUS
<1>2. /\ \A o \in Objects : g[o] \in Int /\ g[o] >= -1 /\ g[o] # 0
      /\ \A o \in Objects : (o \in K => g[o] = to) /\ (o \in D \ K => g[o] = -1) /\ (o \notin D => g[o] = gen[o])
      /\ \A o \in Objects : g[o] # Free => Targets(f, o) = Targets(field, o) /\ f[o] = field[o]
      /\ to >= 1
  BY <1>0, <1>1, MovesFacts
<1>3. /\ Vals(c) = Vals(mk) \cup (satb \ mk.marked) /\ Items(c) = Items(mk) /\ c.marked = mk.marked \cup satb
      /\ ContextOK(c, gen)
  BY FlushedFacts
<1>4. /\ d.marked = {o \in Objects : g[o] # Free /\ (o \in c.marked \/ gen[o] = 0)}
      /\ Vals(d) = Vals(c) /\ Items(d) = Items(c) /\ \A v \in Entered(c) : g[v] # Free /\ v \in Objects
  <2>1. \A v \in Entered(c) : v \in Objects  BY <1>3, EnteredFacts
  <2> QED  BY <1>1, <2>1 DEF Moved
<1>5. /\ K \subseteq D /\ D \subseteq Objects /\ \A o \in K : Targets(field, o) \cap D \subseteq K
      /\ \A o \in S : Targets(field, o) \subseteq S
  BY DEF Moves, Sound
<1>6. ASSUME NEW x \in S, g[x] # Free, NEW t \in Targets(field, x) PROVE t \in S /\ (t \in D => t \in K)
  <2>1. x \in D => x \in K
    <3>1. x \in D \ K => g[x] = -1  BY <1>2
    <3> QED  BY <1>6, <3>1 DEF Free
  <2>2. CASE x \in K  BY <1>5, <1>6, <2>2
  <2>3. CASE x \notin D  BY <1>5, <1>6, <2>3 DEF Leaves
  <2> QED  BY <2>1, <2>2, <2>3
<1>7. ASSUME NEW t \in White(mk, gen), t \in S, t \in D => t \in K
      PROVE  g[t] # Free /\ (t \notin satb => t \in White(d, g))
  <2>1. t \in Objects /\ gen[t] >= 1 /\ t \notin mk.marked  BY DEF White
  <2>2. g[t] >= 1
    <3>1. CASE t \in K  BY <1>2, <2>1, <3>1
    <3>2. CASE t \notin D  BY <1>2, <2>1, <3>2
    <3> QED  BY <1>7, <3>1, <3>2
  <2>3. gen[t] # 0 /\ g[t] # Free  BY <2>1, <2>2 DEF Free
  <2>4. t \notin satb => t \notin d.marked  BY <1>3, <1>4, <2>1, <2>3
  <2> QED  BY <2>1, <2>2, <2>3, <2>4 DEF White
<1>8. ToMark(X, d, g, f, {})  BY <1>1
<1>9. ASSUME NEW a \in Ahead(d, f, {}), a \in White(d, g) PROVE a \in X  BY <1>8, <1>9 DEF ToMark
<1>10. ASSUME NEW v \in Entered(c) PROVE v \in S /\ g[v] # Free /\ f[v] = field[v] /\ Targets(f, v) = Targets(field, v)
  <2>1. v \in c.marked  BY <1>3, EnteredFacts
  <2> QED  BY <1>2, <1>3, <1>4, <2>1
<1>11. ASSUME NEW a \in Ahead(mk, field, satb), a \in White(mk, gen) PROVE a \in Y
  <2>1. CASE a \in satb
    <3>1. a \notin mk.marked  BY <1>11 DEF White
    <3>2. a \in Entered(c)  BY <1>3, <2>1, <3>1 DEF Entered
    <3> QED  BY <1>1, <1>10, <2>1, <3>2
  <2>2. CASE a \notin satb
    <3>1. CASE \E v \in Vals(mk) : a \in Targets(field, v)
      <4>1. PICK v \in Vals(mk) : a \in Targets(field, v)  BY <3>1
      <4>2. v \in Vals(d) /\ v \in Entered(c)  BY <1>3, <1>4, <4>1 DEF Entered
      <4>3. a \in S /\ (a \in D => a \in K)  BY <1>6, <1>10, <4>1, <4>2
      <4>4. a \in White(d, g) /\ g[a] # Free  BY <1>7, <1>11, <2>2, <4>3
      <4>5. a \in Ahead(d, f, {})
        <5>1. a \in Targets(f, v)  BY <1>10, <4>1, <4>2
        <5> QED  BY <4>2, <5>1, AheadCases
      <4> QED  BY <1>1, <1>9, <4>3, <4>4, <4>5
    <3>2. CASE a # Nil /\ \E e \in Items(mk) : \E j \in e[2] .. Size[e[1]] : a = field[e[1]][j]
      <4>1. PICK e \in Items(mk) : \E j \in e[2] .. Size[e[1]] : a = field[e[1]][j]  BY <3>2
      <4>2. PICK j \in e[2] .. Size[e[1]] : a = field[e[1]][j]  BY <4>1
      <4>3. e \in Items(d) /\ e[1] \in Entered(c)  BY <1>3, <1>4, <4>1 DEF Entered
      <4>4. e[1] \in Objects /\ e[2] \in Nat \ {0}  BY <1>0, <4>1, ValsFacts
      <4>5. a \in Targets(field, e[1])
        <5>1. Size[e[1]] \in Nat  BY <4>4, MarkerAssumption
        <5>2. j \in Slots(e[1])  BY <4>2, <4>4, <5>1 DEF Slots
        <5> QED  BY <3>2, <4>2, <5>2 DEF Targets
      <4>6. a \in S /\ (a \in D => a \in K)  BY <1>6, <1>10, <4>3, <4>5
      <4>7. a \in White(d, g) /\ g[a] # Free  BY <1>7, <1>11, <2>2, <4>6
      <4>8. a \in Ahead(d, f, {})
        <5>1. a = f[e[1]][j]  BY <1>10, <4>2, <4>3
        <5> QED  BY <3>2, <4>2, <4>3, <5>1, AheadCases
      <4> QED  BY <1>1, <1>9, <4>6, <4>7, <4>8
    <3> QED  BY <2>2, <3>1, <3>2, AheadCases
  <2> QED  BY <2>1, <2>2
<1>12. ASSUME NEW x \in Y \cap White(mk, gen), NEW t \in Targets(field, x) \cap White(mk, gen) PROVE t \in Y
  <2>0. x \in Objects /\ gen[x] >= 1 /\ x \notin mk.marked /\ x \in S /\ g[x] # Free  BY <1>1 DEF White
  <2>1. t \in S /\ (t \in D => t \in K) /\ t \in White(mk, gen) /\ Targets(f, x) = Targets(field, x)
    BY <1>2, <1>6, <2>0
  <2>2. g[t] # Free /\ (t \notin satb => t \in White(d, g))  BY <1>7, <2>1
  <2>3. CASE t \in satb  BY <1>1, <2>1, <2>2, <2>3
  <2>4. CASE t \notin satb /\ x \in satb
    <3>1. x \in Vals(d)  BY <1>3, <1>4, <2>0, <2>4
    <3>2. t \in Targets(f, x)  BY <2>1
    <3>3. t \in Ahead(d, f, {})  BY <3>1, <3>2, AheadCases
    <3> QED  BY <1>1, <1>9, <2>1, <2>2, <2>4, <3>3
  <2>5. CASE t \notin satb /\ x \notin satb
    <3>1. x \in D => x \in K
      <4>1. g[x] # -1  BY <2>0 DEF Free
      <4> QED  BY <1>2, <2>0, <4>1
    <3>2. x \in White(d, g) /\ x \in X  BY <1>7, <2>0, <2>5, <3>1
    <3>3. t \in White(d, g) /\ t \in Targets(f, x)  BY <2>1, <2>2, <2>5
    <3>4. t \in X  BY <1>8, <3>2, <3>3 DEF ToMark
    <3> QED  BY <1>1, <2>1, <2>2, <3>4
  <2> QED  BY <2>3, <2>4, <2>5
<1>13. Ahead(mk, field, satb) \cap White(mk, gen) \subseteq Y  BY <1>11
<1>14. \A x \in Y \cap White(mk, gen) : Targets(field, x) \cap White(mk, gen) \subseteq Y  BY <1>12
<1> QED  BY <1>13, <1>14 DEF ToMark

(* The remembered set after a collection is good for what All was.         *)
LEMMA RemsetAfter ==
  ASSUME TypeInv, NEW D, NEW K, NEW to, Moves(D, K, to), K \subseteq Objects,
         NEW All \in SUBSET Objects, K \subseteq All, remset \ Dropped \subseteq All,
         NEW A, A = {o \in All : gen'[o] # Free}, NEW o \in remset', o \in D \/ o \notin Dropped
  PROVE  o \in A
<1>1. PICK g, f : g = gen' /\ f = field'  OBVIOUS
<1>2. /\ \A x \in Objects : (x \in K => g[x] = to) /\ (x \notin D => g[x] = gen[x])
      /\ to >= 1 /\ to \in Gens
  BY <1>1, MovesFacts
<1>3. CASE o \in K
  <2>1. g[o] >= 1  BY <1>2, <1>3
  <2> QED  BY <1>1, <1>3, <2>1 DEF Free
<1>4. CASE o \notin K
  <2>1. o \in remset /\ o \notin D  BY <1>4 DEF Moves
  <2>2. gen[o] >= 1 /\ o \in Objects  BY <2>1 DEF TypeInv, Old
  <2>3. g[o] # Free  BY <1>2, <2>1, <2>2 DEF Free
  <2> QED  BY <1>1, <2>1, <2>3
<1> QED  BY <1>3, <1>4

(* A move keeps the whole invariant: what was ahead of the marker still    *)
(* is, or is marked.                                                       *)
LEMMA MarkingGoesOn ==
  ASSUME IInv, phase = "mutate", NEW c, c = Flushed, NEW D, NEW K, NEW to, Moves(D, K, to), NEW d, Moved(c, d),
         mk' = d, phase' \in {"mutate", "step"}, phase' = "step" => mk.stage \in {"construction", "refinement"},
         NEW All \in SUBSET Objects, NEW Snap \in SUBSET Objects, MarkInv(All, Snap),
         K \subseteq All, Leaves(All, D, K), Leaves(Snap, D, K)
  PROVE  IInv' /\ Shrinks
<1>0. TypeInv /\ ContextOK(mk, gen) /\ StageInv  BY DEF IInv
<1>1. PICK g, f : g = gen' /\ f = field'  OBVIOUS
<1>2. /\ \A o \in Objects : g[o] \in Int /\ g[o] >= -1 /\ g[o] # 0
      /\ \A o \in Objects : (o \in K => g[o] = to) /\ (o \in D \ K => g[o] = -1) /\ (o \notin D => g[o] = gen[o])
      /\ Static' = Static /\ Nursery' = {} /\ to >= 1
  BY <1>0, <1>1, MovesFacts
<1>3. /\ c.marked = mk.marked \cup satb /\ c.stage = mk.stage /\ (mk.seg \/ mk.losSeg => c.seg \/ c.losSeg)
      /\ mk.stage # "construction" => c = mk
  BY FlushedFacts
<1>4. /\ d.marked = {o \in Objects : g[o] # Free /\ (o \in c.marked \/ gen[o] = 0)} /\ ContextOK(d, g)
      /\ d.stage = mk.stage /\ (c.seg \/ c.losSeg => d.seg \/ d.losSeg) /\ (StackEmpty(c) => StackEmpty(d))
  BY <1>1, <1>3 DEF Moved
<1>5. K \subseteq D /\ D \subseteq Objects /\ Nursery \subseteq D /\ satb' = {} /\ cursor' = cursor
  BY DEF Moves
<1>6. \A o \in c.marked : o \in Objects /\ gen[o] >= 1  BY <1>0, <1>3 DEF TypeInv, Old
<1>7. PICK A, S : A = {o \in All : gen'[o] # Free} /\ S = {o \in Snap : gen'[o] # Free}  OBVIOUS
<1>8. Sound(All) /\ Sound(Snap) /\ Snap \subseteq All /\ remset \ Dropped \subseteq All /\ satb \subseteq Snap
  BY DEF MarkInv
<1>9. ASSUME NEW o \in Objects, g[o] # Free PROVE g[o] >= 1 /\ (o \in D => o \in K)
  <2>1. g[o] >= 1  BY <1>2, <1>9 DEF Free
  <2> QED  BY <1>2, <2>1
<1>10. TypeInv'
  <2>1. \A o \in mk'.marked : o \in Objects /\ gen'[o] >= 1  BY <1>1, <1>4, <1>9
  <2> QED  BY <1>0, <2>1, MovesType
<1>11. ContextOK(mk, gen)'  BY <1>1, <1>4
<1>12. StageInv'
  <2>1. mk.stage # "construction" => StackEmpty(d)  BY <1>0, <1>3, <1>4 DEF StageInv
  <2>2. phase' = "mutate" /\ mk.stage = "construction" => d.seg \/ d.losSeg
    BY <1>0, <1>3, <1>4 DEF StageInv
  <2> QED  BY <1>0, <1>2, <1>4, <1>5, <2>1, <2>2 DEF StageInv
<1>13. Sound(A)' /\ Sound(S)'
  <2>1. Sound(A)'  BY <1>0, <1>7, <1>8, MovesSound
  <2>2. Sound(S)'  BY <1>0, <1>7, <1>8, MovesSound
  <2> QED  BY <2>1, <2>2
<1>14. S \subseteq A  BY <1>7, <1>8
<1>15. (remset \ Dropped)' \subseteq A
  <2> SUFFICES ASSUME NEW o \in remset', o \notin Dropped' PROVE o \in A  OBVIOUS
  <2>1. ASSUME o \in Dropped, o \notin D PROVE FALSE
    <3>1. o \in Objects /\ mk.stage = "refinement" /\ gen[o] <= cursor /\ o \notin mk.marked /\ gen[o] >= 1
      BY <1>0, <2>1 DEF Dropped, TypeInv, Old
    <3>2. g[o] = gen[o]  BY <1>2, <2>1, <3>1
    <3>3. o \notin d.marked
      <4>1. c.marked = mk.marked  BY <1>3, <3>1
      <4>2. gen[o] # 0  BY <3>1
      <4> QED  BY <1>4, <3>1, <4>1, <4>2
    <3>4. o \in Dropped'  BY <1>1, <1>4, <1>5, <3>1, <3>2, <3>3 DEF Dropped
    <3> QED  BY <3>4
  <2>2. K \subseteq Objects  BY <1>5
  <2> QED  BY <1>0, <1>7, <1>8, <2>1, <2>2, RemsetAfter
<1>16. mk.stage = "none" => \A o \in Objects : g[o] # Free => o \in A
  <2> SUFFICES ASSUME mk.stage = "none", NEW o \in Objects, g[o] # Free PROVE o \in A  OBVIOUS
  <2>1. CASE o \in K  BY <1>1, <1>7, <2>1
  <2>2. CASE o \notin K
    <3>1. o \notin D /\ g[o] = gen[o]  BY <1>2, <1>9, <2>2
    <3>2. o \in All  BY <3>1 DEF MarkInv, Kept
    <3> QED  BY <1>1, <1>7, <3>2
  <2> QED  BY <2>1, <2>2
<1>17. mk.stage # "none" => d.marked \subseteq S
  <2> SUFFICES ASSUME mk.stage # "none", NEW o \in d.marked PROVE o \in S  OBVIOUS
  <2>1. o \in Objects /\ g[o] # Free /\ (o \in c.marked \/ gen[o] = 0)  BY <1>4
  <2>2. o \in Snap
    <3>1. mk.marked \subseteq Snap  BY DEF MarkInv
    <3>2. gen[o] = 0 => o \in Snap  BY <1>8, <2>1 DEF Sound, Nursery
    <3> QED  BY <1>3, <1>8, <2>1, <3>1, <3>2
  <2> QED  BY <1>1, <1>7, <2>1, <2>2
<1>18. ASSUME mk.stage \in {"refinement", "completed"} PROVE A = S /\ \A o \in S : o \in d.marked
  <2>1. All = Snap /\ \A o \in Snap : Old(o) => o \in mk.marked  BY <1>18 DEF MarkInv
  <2>2. ASSUME NEW o \in S PROVE o \in d.marked
    <3>1. o \in Objects /\ o \in Snap /\ g[o] # Free /\ Kept(o)  BY <1>1, <1>7, <1>8 DEF Sound
    <3>2. gen[o] \in Int /\ gen[o] >= -1 /\ gen[o] # -1  BY <1>0, <3>1, TypeFacts DEF Kept, Free
    <3>3. gen[o] >= 1 => o \in mk.marked  BY <2>1, <3>1 DEF Old
    <3> QED  BY <1>3, <1>4, <3>1, <3>2, <3>3
  <2> QED  BY <1>7, <2>1, <2>2
<1>19. ASSUME mk.stage = "construction", NEW X \in SUBSET Objects, ToMark(X, mk, gen, field, satb)'
       PROVE  \A o \in S : o \in d.marked \cup X
  <2>1. ToMark(X, d, gen', field', {})  BY <1>5, <1>19
  <2>2. PICK Y : Y = {o \in Snap : o \in X \cup satb /\ gen'[o] # Free}  OBVIOUS
  <2>3. mk.marked \subseteq Snap  BY <1>19 DEF MarkInv
  <2>4. ToMark(Y, mk, gen, field, satb)  BY <1>8, <2>1, <2>2, <2>3, CoverBefore
  <2>5. Y \in SUBSET Objects  BY <2>2
  <2>6. \A o \in Snap : Old(o) => o \in mk.marked \cup Y  BY <1>19, <2>4, <2>5 DEF MarkInv
  <2>7. ASSUME NEW o \in S PROVE o \in d.marked \cup X
    <3>1. o \in Objects /\ o \in Snap /\ g[o] # Free /\ Kept(o)  BY <1>1, <1>7, <1>8 DEF Sound
    <3>2. gen[o] \in Int /\ gen[o] >= -1 /\ gen[o] # -1  BY <1>0, <3>1, TypeFacts DEF Kept, Free
    <3>3. gen[o] >= 1 => o \in mk.marked \/ o \in X \/ o \in satb  BY <2>2, <2>6, <3>1 DEF Old
    <3>4. gen[o] >= 1 \/ gen[o] = 0  BY <3>2
    <3> QED  BY <1>3, <1>4, <3>1, <3>3, <3>4
  <2> QED  BY <2>7
<1>20. MarkInv(A, S)'
  <2>1. mk'.stage = mk.stage /\ mk'.marked = d.marked  BY <1>4
  <2>2. \A o : Kept(o)' <=> g[o] # Free  BY <1>1 DEF Kept, Free
  <2> QED  BY <1>5, <1>13, <1>14, <1>15, <1>16, <1>17, <1>18, <1>19, <2>1, <2>2 DEF MarkInv
<1>21. A \in SUBSET Objects /\ S \in SUBSET Objects  BY <1>7
<1>22. Shrinks
  <2> SUFFICES ASSUME NEW o \in Objects, g[o] >= 1, o \notin d.marked PROVE gen[o] >= 1 /\ o \notin mk.marked
    BY <1>1 DEF Shrinks, Unmarked, Old
  <2>1. o \notin c.marked /\ gen[o] # 0  BY <1>4 DEF Free
  <2>2. gen[o] >= 1
    <3>1. CASE o \in D  BY <2>1, <3>1 DEF Moves
    <3>2. CASE o \notin D  BY <1>2, <3>2
    <3> QED  BY <3>1, <3>2
  <2> QED  BY <1>3, <2>1, <2>2
<1> QED  BY <1>10, <1>11, <1>12, <1>20, <1>21, <1>22 DEF IInv

(* A new marker is to mark what the program can reach now.                 *)
LEMMA MarkingStarts ==
  ASSUME IInv, mk.stage \in {"none", "completed"}, NEW D, NEW K, NEW to, Moves(D, K, to), phase' = "step",
         mk' = PushAll([NoContext EXCEPT !.stage = "construction"], gen', SetToSeq(roots)),
         NEW All \in SUBSET Objects, NEW Snap \in SUBSET Objects, MarkInv(All, Snap),
         K \subseteq All, Leaves(All, D, K)
  PROVE  IInv'
<1>0. TypeInv /\ ContextOK(mk, gen) /\ StageInv  BY DEF IInv
<1>1. PICK g, f : g = gen' /\ f = field'  OBVIOUS
<1>2. /\ \A o \in Objects : g[o] \in Int /\ g[o] >= -1 /\ g[o] # 0
      /\ \A o \in Objects : g[o] >= 1 => g[o] \in Gens
      /\ \A o \in Objects : g[o] # Free => Targets(f, o) = Targets(field, o)
      /\ \A o \in Objects : g[o] = Free => Targets(f, o) = {}
      /\ Static' = Static /\ Nursery' = {}
  BY <1>0, <1>1, MovesFacts
<1>3. K \subseteq D /\ D \subseteq Objects /\ satb' = {} /\ cursor' = cursor /\ roots' = roots
  BY DEF Moves
<1>4. PICK A : A = {o \in All : gen'[o] # Free}  OBVIOUS
<1>5. Sound(All) /\ remset \ Dropped \subseteq All /\ Dropped = {}
  BY DEF MarkInv, Dropped
<1>6. Sound(A)'  BY <1>0, <1>4, <1>5, MovesSound
<1>7. \A o : Targets(field, o)' = Targets(f, o)  BY <1>1 DEF Targets, Slots
<1>8. /\ A \subseteq Objects /\ roots \subseteq A
      /\ \A o \in A : g[o] >= 1 /\ g[o] \in Gens /\ Targets(f, o) \subseteq A
  <2>1. A \subseteq Objects /\ roots \subseteq A /\ \A o \in A : g[o] # Free /\ Targets(f, o) \subseteq A
    BY <1>1, <1>3, <1>6, <1>7 DEF Sound, Kept, Free
  <2>2. \A o \in A : g[o] >= 1  BY <1>2, <2>1 DEF Free
  <2> QED  BY <1>2, <2>1, <2>2
<1>9. PICK d, R : d = mk' /\ R = roots  OBVIOUS
<1>10. /\ ContextOK(d, g) /\ d.marked = R /\ Vals(d) = R /\ d.stage = "construction"
  <2>1. PICK b, s : b = [NoContext EXCEPT !.stage = s] /\ s = "construction"  OBVIOUS
  <2>2. s \in Stages  BY <2>1 DEF Stages
  <2>3. /\ ContextOK(b, g) /\ b.marked = {} /\ b.stage = s /\ Vals(b) = {}
    BY <2>1, <2>2, NewContext
  <2>4. PICK os : os = SetToSeq(R)  OBVIOUS
  <2>5. R \in SUBSET Objects  BY <1>8, <1>9
  <2>6. /\ Len(os) \in Nat /\ R = {os[n] : n \in 1 .. Len(os)} \ {Nil}
        /\ \A n \in 1 .. Len(os) : os[n] \in R
    BY <2>4, <2>5, SetPushed
  <2>7. \A n \in 1 .. Len(os) : os[n] \in Objects \cup {Nil} /\ (os[n] # Nil => g[os[n]] \in Gens)
    BY <1>8, <1>9, <2>6
  <2>8. PICK V : V = R \ b.marked  OBVIOUS
  <2>9. d = PushAll(b, g, os)  BY <1>1, <1>9, <2>1, <2>4
  <2>10. ContextOK(d, g) /\ Extends(b, d, R, V)
    <3>1. Len(os) \in Nat  BY <2>6
    <3>2. R = {os[n] : n \in 1 .. Len(os)} \ {Nil}  BY <2>6
    <3> HIDE DEF IInv
    <3> QED  BY <2>3, <2>7, <2>8, <2>9, <3>1, <3>2, PushAllFacts
  <2> QED  BY <2>1, <2>3, <2>8, <2>10 DEF Extends
<1>11. TypeInv'
  <2>1. \A o \in mk'.marked : o \in Objects /\ gen'[o] >= 1  BY <1>1, <1>8, <1>9, <1>10
  <2> QED  BY <1>0, <2>1, MovesType
<1>12. StageInv'  BY <1>2, <1>3, <1>9, <1>10 DEF StageInv
<1>13. (remset \ Dropped)' \subseteq A
  <2> SUFFICES ASSUME NEW o \in remset' PROVE o \in A  OBVIOUS
  <2>1. K \subseteq Objects /\ o \notin Dropped  BY <1>3, <1>5
  <2> QED  BY <1>0, <1>4, <1>5, <2>1, RemsetAfter
<1>14. PICK S : S = Reach(R, f, Objects)  OBVIOUS
<1>15. R \subseteq S /\ S \subseteq Objects /\ \A o \in S : Targets(f, o) \subseteq S
  <2>1. R \in SUBSET Objects  BY <1>8, <1>9
  <2>2. \A o \in Objects : Targets(f, o) \subseteq Objects
    <3>1. \A o \in Objects : Targets(field, o) \subseteq Objects  BY <1>0, TypeFacts
    <3> QED  BY <1>2, <3>1
  <2>3. /\ R \subseteq Reach(R, f, Objects) /\ Reach(R, f, Objects) \subseteq Objects
        /\ \A o \in Reach(R, f, Objects) \cap Objects : Targets(f, o) \subseteq Reach(R, f, Objects)
    BY <2>1, <2>2, ReachCloses
  <2> QED  BY <1>14, <2>3
<1>16. S \subseteq A
  <2>1. R \subseteq A /\ \A o \in A \cap Objects : Targets(f, o) \subseteq A  BY <1>8, <1>9
  <2> QED  BY <1>14, <2>1, ReachWithin
<1>17. Sound(S)'
  <2>1. \A o \in S : Old(o)' /\ PointsAcross(o, gen, field)' => o \in remset'  BY <1>6, <1>16 DEF Sound
  <2>2. \A o \in S : Kept(o)'  BY <1>6, <1>16 DEF Sound
  <2> QED  BY <1>2, <1>3, <1>7, <1>9, <1>15, <2>1, <2>2 DEF Sound
<1>18. ASSUME NEW X \in SUBSET Objects, ToMark(X, mk, gen, field, satb)'
       PROVE  \A o \in S : o \in d.marked \cup X
  <2>1. ToMark(X, d, g, f, {})  BY <1>1, <1>3, <1>9, <1>18
  <2>2. PICK Y : Y = (R \cup X) \cap A  OBVIOUS
  <2>3. ASSUME NEW o \in Y, NEW t \in Targets(f, o) PROVE t \in Y
    <3>1. t \in A /\ t \in Objects /\ o \in Objects /\ g[t] >= 1 /\ g[o] >= 1  BY <1>8, <2>2, <2>3
    <3>2. CASE t \in R  BY <2>2, <3>1, <3>2
    <3>3. CASE t \notin R
      <4>1. t \in White(d, g)  BY <1>10, <3>1, <3>3 DEF White
      <4>2. CASE o \in R
        <5>1. t \in Ahead(d, f, {})  BY <1>10, <2>3, <4>2, AheadCases
        <5> QED  BY <2>1, <2>2, <3>1, <4>1, <5>1 DEF ToMark
      <4>3. CASE o \notin R
        <5>1. o \in White(d, g) /\ o \in X  BY <1>10, <2>2, <3>1, <4>3 DEF White
        <5> QED  BY <2>1, <2>2, <2>3, <3>1, <4>1, <5>1 DEF ToMark
      <4> QED  BY <4>2, <4>3
    <3> QED  BY <3>2, <3>3
  <2>4. R \subseteq Y /\ \A o \in Y \cap Objects : Targets(f, o) \subseteq Y  BY <1>8, <1>9, <2>2, <2>3
  <2>5. S \subseteq Y  BY <1>14, <2>4, ReachWithin
  <2> QED  BY <1>10, <2>2, <2>5
<1>19. MarkInv(A, S)'
  <2>1. mk'.stage = "construction" /\ mk'.marked = d.marked /\ d.marked \subseteq S /\ satb' = {}
    BY <1>3, <1>9, <1>10, <1>15
  <2> QED  BY <1>6, <1>13, <1>16, <1>17, <1>18, <2>1 DEF MarkInv
<1>20. A \in SUBSET Objects /\ S \in SUBSET Objects  BY <1>8, <1>15
<1>21. ContextOK(mk, gen)'  BY <1>1, <1>9, <1>10
<1> QED  BY <1>11, <1>12, <1>19, <1>20, <1>21 DEF IInv

(* Forwarded keeps the stacks and marks what is new in the heap.           *)
LEMMA ForwardedFacts ==
  ASSUME NEW c, ContextOK(c, gen), NEW d, d = Forwarded(c), NEW h,
         \A v \in Entered(c) : h[v] = gen[v] /\ gen'[v] # Free
  PROVE  /\ ContextOK(d, h) /\ d.marked = {o \in Objects : gen'[o] # Free /\ (o \in c.marked \/ gen[o] = 0)}
         /\ Vals(d) = Vals(c) /\ Items(d) = Items(c) /\ d.stage = c.stage
         /\ d.seg = c.seg /\ d.losSeg = c.losSeg /\ d.stack = c.stack /\ d.los = c.los
<1>1. PICK M : M = {o \in Objects : gen'[o] # Free /\ (o \in c.marked \/ gen[o] = 0)}  OBVIOUS
<1>2. M \in SUBSET Objects  BY <1>1
<1>3. Entered(c) \subseteq M
  <2>1. \A v \in Entered(c) : v \in c.marked /\ v \in Objects  BY EnteredFacts
  <2> QED  BY <1>1, <2>1
<1>4. d = [c EXCEPT !.marked = M]  BY <1>1 DEF Forwarded
<1>5. PICK g : g = gen  OBVIOUS
<1>6. ContextOK(c, g) /\ \A v \in Entered(c) : h[v] = g[v]  BY <1>5
<1>7. /\ ContextOK(d, h) /\ d.marked = M /\ Vals(d) = Vals(c) /\ Items(d) = Items(c)
      /\ d.stage = c.stage /\ d.seg = c.seg /\ d.losSeg = c.losSeg
      /\ d.stack = c.stack /\ d.los = c.los
  BY <1>2, <1>3, <1>4, <1>6, Relocated
<1> QED  BY <1>1, <1>7

(* A pointer into what is collected is remembered.                         *)
LEMMA PointersIntoD ==
  ASSUME TypeInv, NEW D, NEW K, NEW to, Moves(D, K, to), NEW S \in SUBSET Objects, Sound(S),
         NEW x \in S \ D, NEW t \in Targets(field, x) \cap D
  PROVE  x \in remset /\ x \in Objects /\ t \in S /\ gen[x] # gen[t]
<1>1. x \in Objects /\ Kept(x) /\ t \in S  BY DEF Sound
<1>2. gen[x] # gen[t] /\ gen[t] \in 0 .. nrgn /\ x \notin Nursery  BY <1>1 DEF Moves
<1>3. gen[x] \in Int /\ gen[x] >= -1 /\ Static = nrgn + 1 /\ nrgn \in Nat  BY <1>1, TypeFacts
<1>4. Old(x)  BY <1>1, <1>2, <1>3 DEF Kept, Free, Nursery, Old
<1>5. gen[t] # Static  BY <1>2, <1>3
<1>6. PointsAcross(x, gen, field)  BY <1>2, <1>5 DEF PointsAcross
<1> QED  BY <1>1, <1>2, <1>4, <1>6 DEF Sound

(* MinorGC.                                                                *)
LEMMA MinorKeeps == ASSUME IInv, NEW to \in 1 .. nrgn, MinorGC(to) PROVE IInv' /\ Shrinks
<1>0. TypeInv /\ ContextOK(mk, gen) /\ StageInv  BY DEF IInv
<1>1. PICK All \in SUBSET Objects, Snap \in SUBSET Objects : MarkInv(All, Snap)  BY DEF IInv
<1>2. PICK start : start = roots \cup RememberedTargets  OBVIOUS
<1>3. PICK cset : cset = {0}  OBVIOUS
<1>4. /\ phase = "mutate" /\ Evacuate(cset, to, start) /\ mk' = StepBegins(Forwarded(Flushed))
      /\ satb' = {} /\ phase' = "step" /\ UNCHANGED <<roots, nrgn, cursor>>
  BY <1>2, <1>3 DEF MinorGC
<1>5. PICK D : D = {o \in Objects : gen[o] \in cset}  OBVIOUS
<1>29. PICK K : Moves(D, K, to) /\ Traced(K, start, D)
  <2>1. cset \in SUBSET (0 .. nrgn) /\ 0 \in cset
    <3>1. nrgn \in Nat  BY <1>0, TypeFacts
    <3> QED  BY <1>3, <3>1
  <2>2. roots \subseteq start  BY <1>2
  <2> QED  BY <1>0, <1>4, <1>5, <2>1, <2>2, EvacuateMoves
<1>6. /\ Moves(D, K, to) /\ start \cap D \subseteq K
      /\ \A X \in SUBSET Objects :
           start \cap D \subseteq X /\ (\A o \in X : Targets(field, o) \subseteq X) => K \subseteq X
  BY <1>29 DEF Traced
<1>7. Sound(All) /\ Sound(Snap)  BY <1>1 DEF MarkInv
<1>8. D = Nursery  BY <1>3, <1>5 DEF Nursery
<1>9. K \subseteq All  BY <1>6, <1>7, <1>8 DEF Sound
<1>10. ASSUME NEW S \in SUBSET Objects, Sound(S) PROVE Leaves(S, D, K)
  <2> SUFFICES ASSUME NEW x \in S \ D, NEW t \in Targets(field, x) \cap D PROVE t \in K  BY DEF Leaves
  <2>1. x \in remset  BY <1>0, <1>6, <1>10, PointersIntoD
  <2>2. t \in start  BY <1>2, <2>1 DEF RememberedTargets
  <2> QED  BY <1>6, <2>2
<1>11. Leaves(All, D, K) /\ Leaves(Snap, D, K)  BY <1>7, <1>10
<1>12. PICK c, d : c = Flushed /\ d = Forwarded(c)  OBVIOUS
<1>13. ContextOK(c, gen) /\ c.stage = mk.stage  BY <1>4, <1>12, FlushedFacts
<1>14. PICK g : g = gen'  OBVIOUS
<1>15. \A v \in Entered(c) : g[v] = gen[v] /\ gen'[v] # Free
  <2>1. \A v \in Entered(c) : v \in Objects /\ gen[v] >= 1
    <3>1. \A v \in Entered(c) : v \in Objects /\ gen[v] \in Gens  BY <1>13, EnteredFacts
    <3> QED  BY <3>1 DEF Gens
  <2>2. \A v \in Entered(c) : v \notin D  BY <1>8, <2>1 DEF Nursery
  <2>3. \A v \in Entered(c) : g[v] = gen[v]  BY <1>0, <1>6, <1>14, <2>1, <2>2, MovesFacts
  <2> QED  BY <1>14, <2>1, <2>3 DEF Free
<1>16. Moved(c, d)
  <2>1. /\ ContextOK(d, g) /\ d.marked = {o \in Objects : gen'[o] # Free /\ (o \in c.marked \/ gen[o] = 0)}
        /\ Vals(d) = Vals(c) /\ Items(d) = Items(c) /\ d.stage = c.stage
        /\ d.seg = c.seg /\ d.losSeg = c.losSeg /\ d.stack = c.stack /\ d.los = c.los
    BY <1>12, <1>13, <1>15, ForwardedFacts
  <2> QED  BY <1>14, <1>15, <2>1 DEF Moved, StackEmpty
<1>17. d.stage = mk.stage  BY <1>13, <1>16 DEF Moved
<1>18. mk.stage \in Stages  BY <1>0 DEF ContextOK, Context
<1>19. mk' = StepBegins(d)  BY <1>4, <1>12
<1>20. CASE mk.stage \in {"none", "completed"}
  <2>1. mk' = PushAll([NoContext EXCEPT !.stage = "construction"], gen', SetToSeq(roots))
    BY <1>17, <1>19, <1>20 DEF StepBegins
  <2> QED  BY <1>1, <1>4, <1>6, <1>9, <1>11, <1>20, <2>1, MarkingStarts DEF Shrinks
<1>21. CASE mk.stage \in {"construction", "refinement"}
  <2>1. mk' = d  BY <1>17, <1>19, <1>21 DEF StepBegins
  <2>2. phase' \in {"mutate", "step"}  BY <1>4
  <2> QED  BY <1>1, <1>4, <1>6, <1>9, <1>11, <1>12, <1>16, <1>21, <2>1, <2>2, MarkingGoesOn
<1> QED  BY <1>18, <1>20, <1>21 DEF Stages

(* MajorGC.                                                                *)
LEMMA MajorKeeps == ASSUME IInv, NEW r \in 1 .. nrgn, NEW to \in 1 .. nrgn, MajorGC(r, to) PROVE IInv' /\ Shrinks
<1>0. TypeInv /\ ContextOK(mk, gen) /\ StageInv  BY DEF IInv
<1>1. PICK All \in SUBSET Objects, Snap \in SUBSET Objects : MarkInv(All, Snap)  BY DEF IInv
<1>2. PICK c : c = Flushed  OBVIOUS
<1>3. PICK start : start = StackOf(c, r) \cup LosOf(c, r) \cup roots \cup SummaryOf(r, c)  OBVIOUS
<1>4. PICK cset : cset = {0, r}  OBVIOUS
<1>5. PICK d : d = Requeue(Forwarded(c), r, gen')  OBVIOUS
<1>6. /\ phase = "mutate" /\ Evacuate(cset, to, start) /\ satb' = {} /\ UNCHANGED <<roots, nrgn, cursor>>
      /\ (phase' = "step" /\ mk' = StepBegins(d)) \/ (phase' = "mutate" /\ mk' = d)
  BY <1>2, <1>3, <1>4, <1>5 DEF MajorGC
<1>7. PICK D : D = {o \in Objects : gen[o] \in cset}  OBVIOUS
<1>8. r \in Nat /\ r >= 1 /\ r \in Gens /\ nrgn \in Nat
  <2>1. nrgn \in Nat /\ nrgn <= MaxRegions /\ MaxRegions \in Nat  BY <1>0, TypeFacts
  <2> QED  BY <2>1 DEF Gens
<1>29. PICK K : Moves(D, K, to) /\ Traced(K, start, D)
  <2>1. cset \in SUBSET (0 .. nrgn) /\ 0 \in cset  BY <1>4, <1>8
  <2>2. roots \subseteq start  BY <1>3
  <2> QED  BY <1>0, <1>6, <1>7, <2>1, <2>2, EvacuateMoves
<1>9. /\ Moves(D, K, to) /\ start \cap D \subseteq K
      /\ \A X \in SUBSET Objects :
           start \cap D \subseteq X /\ (\A o \in X : Targets(field, o) \subseteq X) => K \subseteq X
  BY <1>29 DEF Traced
<1>10. Sound(All) /\ Sound(Snap) /\ Snap \subseteq All /\ satb \subseteq Snap /\ remset \ Dropped \subseteq All
  BY <1>1 DEF MarkInv
<1>11. /\ ContextOK(c, gen) /\ c.stage = mk.stage /\ c.marked = mk.marked \cup satb
       /\ mk.stage # "construction" => c = mk
  BY <1>2, <1>6, FlushedFacts
<1>12. \A o \in D : o \in Objects /\ Kept(o) /\ (gen[o] = 0 \/ gen[o] = r)
  BY <1>4, <1>7, <1>8 DEF Kept, Free
<1>13. StackOf(c, r) \cup LosOf(c, r) \subseteq Entered(c)  BY <1>8, <1>11, EntriesFound
<1>14. K \subseteq All
  <2>1. ASSUME NEW t \in start \cap D PROVE t \in All
    <3>1. CASE mk.stage = "none"  BY <1>1, <1>12, <2>1, <3>1 DEF MarkInv
    <3>2. CASE gen[t] = 0  BY <1>10, <1>12, <2>1, <3>2 DEF Sound, Nursery
    <3>3. CASE mk.stage # "none" /\ gen[t] # 0
      <4>0. c.marked \subseteq All  BY <1>1, <1>10, <1>11, <3>3 DEF MarkInv
      <4>1. CASE t \in StackOf(c, r) \cup LosOf(c, r)
        <5>1. t \in c.marked  BY <1>11, <1>13, <4>1, EnteredFacts
        <5> QED  BY <4>0, <5>1
      <4>2. CASE t \in roots  BY <1>10, <4>2 DEF Sound
      <4>3. CASE t \in SummaryOf(r, c)
        <5>1. CASE mk.stage = "refinement"
          <6>1. t \in c.marked  BY <1>11, <3>3, <4>3, <5>1 DEF SummaryOf
          <6> QED  BY <4>0, <6>1
        <5>2. CASE mk.stage # "refinement"
          <6>1. PICK x \in remset : t \in Targets(field, x)  BY <1>11, <4>3, <5>2 DEF SummaryOf
          <6>2. x \in All  BY <1>10, <5>2 DEF Dropped
          <6> QED  BY <1>10, <6>1, <6>2 DEF Sound
        <5> QED  BY <5>1, <5>2
      <4> QED  BY <1>3, <2>1, <4>1, <4>2, <4>3
    <3> QED  BY <3>1, <3>2, <3>3
  <2> QED  BY <1>9, <1>10, <2>1 DEF Sound
<1>15. ASSUME NEW S \in SUBSET Objects, Sound(S), mk.stage = "refinement" => S \subseteq Snap PROVE Leaves(S, D, K)
  <2> SUFFICES ASSUME NEW x \in S \ D, NEW t \in Targets(field, x) \cap D PROVE t \in K  BY DEF Leaves
  <2>1. x \in remset /\ x \in Objects /\ t \in S  BY <1>0, <1>9, <1>15, PointersIntoD
  <2>2. gen[x] # r  BY <1>4, <1>7, <2>1
  <2>3. t \in SummaryOf(r, c)
    <3>1. CASE mk.stage # "refinement"  BY <1>11, <2>1, <2>2, <3>1 DEF SummaryOf
    <3>2. CASE mk.stage = "refinement"
      <4>1. c = mk /\ t \in Snap /\ \A o \in Snap : Old(o) => o \in mk.marked
        BY <1>1, <1>11, <1>15, <2>1, <3>2 DEF MarkInv
      <4>2. gen[t] = 0 \/ t \in mk.marked
        <5>1. gen[t] = r => Old(t)  BY <1>8 DEF Old
        <5> QED  BY <1>12, <4>1, <5>1
      <4> QED  BY <2>1, <2>2, <3>2, <4>1, <4>2 DEF SummaryOf
    <3> QED  BY <3>1, <3>2
  <2>4. t \in start  BY <1>3, <2>3
  <2> QED  BY <1>9, <2>4
<1>16. Leaves(All, D, K) /\ Leaves(Snap, D, K)
  <2>1. mk.stage = "refinement" => All \subseteq Snap /\ Snap \subseteq Snap  BY <1>1 DEF MarkInv
  <2> QED  BY <1>10, <1>15, <2>1
<1>17. PICK g, h : g = gen' /\ h = gen  OBVIOUS
<1>18. \A v \in Entered(c) : v \in Objects /\ gen[v] >= 1
  <2>1. \A v \in Entered(c) : v \in Objects /\ gen[v] \in Gens  BY <1>11, EnteredFacts
  <2> QED  BY <2>1 DEF Gens
<1>19. ASSUME NEW v \in Entered(c)
       PROVE  (gen[v] # r => g[v] = gen[v]) /\ g[v] \in Gens /\ g[v] >= 1
  <2>1. /\ v \in K => g[v] = to
        /\ v \notin D => g[v] = gen[v]
        /\ g[v] >= 1 => g[v] \in Gens
        /\ to >= 1
    BY <1>0, <1>9, <1>17, <1>18, MovesFacts
  <2>2. CASE gen[v] = r
    <3>1. v \in start  BY <1>3, <1>8, <1>11, <2>2, EntriesFound
    <3>2. v \in D  BY <1>4, <1>7, <1>18, <2>2
    <3>3. v \in K  BY <1>9, <3>1, <3>2
    <3> QED  BY <2>1, <2>2, <3>3
  <2>3. CASE gen[v] # r
    <3>1. v \notin D  BY <1>12, <1>18, <2>3
    <3> QED  BY <1>18, <2>1, <3>1
  <2> QED  BY <2>2, <2>3
<1>20. PICK e : e = Forwarded(c)  OBVIOUS
<1>21. /\ ContextOK(e, h) /\ e.marked = {o \in Objects : gen'[o] # Free /\ (o \in c.marked \/ gen[o] = 0)}
       /\ Vals(e) = Vals(c) /\ Items(e) = Items(c) /\ e.stage = c.stage
       /\ e.seg = c.seg /\ e.losSeg = c.losSeg /\ e.stack = c.stack /\ e.los = c.los
  <2>1. \A v \in Entered(c) : h[v] = gen[v] /\ gen'[v] # Free  BY <1>17, <1>19 DEF Free
  <2> QED  BY <1>11, <1>20, <2>1, ForwardedFacts
<1>22. d = Requeue(e, r, g)  BY <1>5, <1>17, <1>20
<1>23. /\ ContextOK(d, g) /\ Vals(d) = Vals(e) /\ Items(d) = Items(e) /\ d.marked = e.marked /\ d.stage = e.stage
       /\ (e.seg => d.seg) /\ (e.losSeg => d.losSeg)
  <2>1. Entered(e) = Entered(c)  BY <1>21 DEF Entered
  <2>2. \A v \in Entered(e) : (h[v] # r => g[v] = h[v]) /\ g[v] \in Gens  BY <1>17, <1>19, <2>1
  <2> QED  BY <1>8, <1>21, <1>22, <2>2, RequeueFacts
<1>24. StackEmpty(c) => StackEmpty(d)
  <2>1. StackEmpty(c) => StackEmpty(e)  BY <1>21 DEF StackEmpty
  <2> QED  BY <1>8, <1>21, <1>22, <2>1, RequeueEmpty
<1>25. Moved(c, d)
  <2>1. \A v \in Entered(c) : gen'[v] # Free  BY <1>17, <1>19 DEF Free
  <2> QED  BY <1>17, <1>21, <1>23, <1>24, <2>1 DEF Moved
<1>26. d.stage = mk.stage /\ mk.stage \in Stages
  <2>1. mk.stage \in Stages  BY <1>0 DEF ContextOK, Context
  <2> QED  BY <1>11, <1>21, <1>23, <2>1
<1>27. CASE phase' = "step" /\ mk.stage \in {"none", "completed"}
  <2>1. mk' = PushAll([NoContext EXCEPT !.stage = "construction"], gen', SetToSeq(roots))
    BY <1>6, <1>26, <1>27 DEF StepBegins
  <2> QED  BY <1>1, <1>9, <1>14, <1>16, <1>27, <2>1, MarkingStarts DEF Shrinks
<1>28. CASE ~(phase' = "step" /\ mk.stage \in {"none", "completed"})
  <2>1. mk' = d  BY <1>6, <1>26, <1>28 DEF StepBegins
  <2>2. phase' \in {"mutate", "step"}  BY <1>6
  <2>3. phase' = "step" => mk.stage \in {"construction", "refinement"}  BY <1>26, <1>28 DEF Stages
  <2> QED  BY <1>1, <1>2, <1>6, <1>9, <1>14, <1>16, <1>25, <2>1, <2>2, <2>3, MarkingGoesOn
<1> QED  BY <1>27, <1>28

(* Every step.                                                             *)
LEMMA StepKeeps == ASSUME ~LateStatic, IInv, [Next]_vars PROVE IInv' /\ [Shrinks]_vars
<1>0. TypeInv /\ ContextOK(mk, gen) /\ StageInv  BY DEF IInv
<1>1. CASE UNCHANGED vars
  <2>1. UNCHANGED <<gen, field, roots, remset, nrgn, satb, mk, cursor, phase>>  BY <1>1 DEF vars
  <2>2. roots' \subseteq Objects  BY <1>0, <2>1 DEF TypeInv
  <2>3. \A S \in SUBSET Objects : Sound(S) => roots' \subseteq S  BY <2>1 DEF Sound
  <2>4. IInv'  BY <2>1, <2>2, <2>3, RootsKeep
  <2> QED  BY <1>1, <2>4
<1>2. ASSUME UNCHANGED <<gen, mk>> PROVE Shrinks  BY <1>2 DEF Shrinks, Unmarked, Old
<1>3. ASSUME NEW o \in Objects, Alloc(o) PROVE IInv' /\ Shrinks
  <2>1. /\ gen' = [gen EXCEPT ![o] = 0] /\ mk' = mk  BY <1>3 DEF Alloc
  <2>2. \A x \in Objects : Old(x)' => Old(x)
    <3> SUFFICES ASSUME NEW x \in Objects, gen'[x] >= 1 PROVE gen[x] >= 1  BY DEF Old
    <3>1. x # o  BY <1>0, <2>1 DEF TypeInv
    <3> QED  BY <1>0, <2>1, <3>1 DEF TypeInv
  <2>3. Shrinks  BY <2>1, <2>2 DEF Shrinks, Unmarked
  <2> QED  BY <1>3, <2>3, AllocKeeps
<1>4. ASSUME NEW o \in Objects, AllocStatic(o) PROVE IInv' /\ Shrinks
  <2>1. Shrinks  BY <1>4 DEF Shrinks, AllocStatic
  <2> QED  BY <1>4, <2>1, AllocStaticKeeps
<1>5. ASSUME NEW o \in Objects, Drop(o) PROVE IInv' /\ Shrinks  BY <1>2, <1>5, DropKeeps DEF Drop
<1>6. ASSUME NEW x \in Objects, NEW i \in Slots(x), Load(x, i) PROVE IInv' /\ Shrinks
  BY <1>2, <1>6, LoadKeeps DEF Load
<1>7. ASSUME NEW x \in Objects, NEW i \in Slots(x), NEW y \in Objects \cup {Nil}, Store(x, i, y)
      PROVE  IInv' /\ Shrinks
  BY <1>2, <1>7, StoreKeeps DEF Store
<1>8. ASSUME Grow PROVE IInv' /\ Shrinks
  <2>1. /\ nrgn \in Nat /\ gen' = [o \in Objects |-> IF gen[o] = nrgn + 1 THEN nrgn + 2 ELSE gen[o]]
        /\ mk' = ExpandGnos(mk)
    BY <1>0, <1>8, TypeFacts DEF Grow
  <2>2. \A x \in Objects : Old(x)' => Old(x)  BY <2>1 DEF Old
  <2>3. mk'.marked = mk.marked
    <3>1. mk \in Context  BY <1>0 DEF ContextOK
    <3> QED  BY <2>1, <3>1 DEF ExpandGnos, Context
  <2>4. Shrinks  BY <2>2, <2>3 DEF Shrinks, Unmarked
  <2> QED  BY <1>8, <2>4, GrowKeeps
<1>9. ASSUME Progress PROVE IInv' /\ Shrinks  BY <1>9, ProgressKeeps
<1>10. ASSUME Underflow PROVE IInv' /\ Shrinks
  <2>1. gen' = gen  BY <1>10 DEF Underflow, heap
  <2>2. mk'.marked = mk.marked
    <3>1. mk \in Context  BY <1>0 DEF ContextOK
    <3> QED  BY <1>10, <3>1 DEF Underflow, Context
  <2>3. Shrinks  BY <2>1, <2>2 DEF Shrinks, Unmarked, Old
  <2> QED  BY <1>10, <2>3, UnderflowKeeps
<1>11. ASSUME Refine PROVE IInv' /\ Shrinks
  <2>1. Shrinks  BY <1>11 DEF Shrinks, Refine
  <2> QED  BY <1>11, <2>1, RefineKeeps
<1>12. ASSUME Mutate PROVE IInv' /\ Shrinks  BY <1>3, <1>4, <1>5, <1>6, <1>7, <1>12 DEF Mutate
<1>13. ASSUME Minor PROVE IInv' /\ Shrinks  BY <1>13, MinorKeeps DEF Minor
<1>14. ASSUME Major PROVE IInv' /\ Shrinks
  <2>1. PICK r \in 1 .. nrgn, to \in 1 .. nrgn : MajorGC(r, to)  BY <1>14 DEF Major
  <2> QED  BY <2>1, MajorKeeps
<1> QED  BY <1>1, <1>8, <1>9, <1>10, <1>11, <1>12, <1>13, <1>14 DEF Next

(* What the invariant says.                                                *)
LEMMA EntriesAre ==
  ASSUME IInv
  PROVE  /\ \A r \in 1 .. Static : r \in Gens /\ Entries(r) = StackOn(mk, gen, r) /\ Cursors(r) = LosOn(mk, gen, r)
         /\ Gray = Vals(mk)
         /\ {mk.los[n].obj : n \in UNION {Cursors(r) : r \in 1 .. Static}} = {e[1] : e \in Items(mk)}
         /\ Unscanned = (UNION {{field[e[1]][i] : i \in e[2] .. Size[e[1]]} : e \in Items(mk)}) \ {Nil}
<1>0. TypeInv /\ ContextOK(mk, gen)  BY DEF IInv
<1>1. Static \in Nat /\ Static <= MaxRegions + 1 /\ MaxRegions \in Nat  BY <1>0, TypeFacts
<1>2. \A r \in 1 .. Static : r \in Gens /\ Entries(r) = StackOn(mk, gen, r) /\ Cursors(r) = LosOn(mk, gen, r)
  BY <1>1 DEF Gens, Entries, Cursors, StackOn, LosOn
<1>3. ASSUME NEW n \in DOMAIN mk.stack, mk.stack[n].val # Nil PROVE \E r \in 1 .. Static : n \in Entries(r)
  <2>1. PICK v : v = mk.stack[n].val  OBVIOUS
  <2>2. v \in Vals(mk)  BY <1>3, <2>1 DEF Vals
  <2>3. v \in Objects /\ gen[v] \in Gens  BY <1>0, <2>2, ValsFacts
  <2>4. gen[v] \in 1 .. Static  BY <1>0, <1>1, <2>3, TypeFacts DEF Gens
  <2> QED  BY <1>3, <2>1, <2>4 DEF Entries
<1>4. ASSUME NEW n \in DOMAIN mk.los, mk.los[n].obj # Nil
      PROVE  <<mk.los[n].obj, mk.los[n].index>> \in Items(mk) /\ \E r \in 1 .. Static : n \in Cursors(r)
  <2>1. PICK e \in Items(mk) : e = <<mk.los[n].obj, mk.los[n].index>>  BY <1>4 DEF Items
  <2>2. e[1] = mk.los[n].obj  BY <2>1
  <2>3. mk.los[n].obj \in Objects /\ gen[mk.los[n].obj] \in Gens  BY <1>0, <2>1, <2>2, ValsFacts
  <2>4. gen[mk.los[n].obj] \in 1 .. Static  BY <1>0, <1>1, <2>3, TypeFacts DEF Gens
  <2> QED  BY <1>4, <2>1, <2>4 DEF Cursors
<1>5. PICK N, M : N = UNION {Entries(r) : r \in 1 .. Static} /\ M = UNION {Cursors(r) : r \in 1 .. Static}  OBVIOUS
<1>6. N = {n \in DOMAIN mk.stack : mk.stack[n].val # Nil}  BY <1>3, <1>5 DEF Entries
<1>7. M = {n \in DOMAIN mk.los : mk.los[n].obj # Nil}
  <2>1. \A n \in DOMAIN mk.los : mk.los[n].obj # Nil => n \in M
    <3> SUFFICES ASSUME NEW n \in DOMAIN mk.los, mk.los[n].obj # Nil PROVE n \in M  OBVIOUS
    <3>1. \E r \in 1 .. Static : n \in Cursors(r)  BY <1>4
    <3> QED  BY <1>5, <3>1
  <2>2. \A n \in M : n \in DOMAIN mk.los /\ mk.los[n].obj # Nil  BY <1>5 DEF Cursors
  <2> QED  BY <2>1, <2>2
<1>8. Gray = Vals(mk)  BY <1>5, <1>6 DEF Gray, Vals
<1>9. ASSUME NEW n \in M
      PROVE  \E e \in Items(mk) : e[1] = mk.los[n].obj /\ e[2] = mk.los[n].index
  <2>1. PICK e \in Items(mk) : e = <<mk.los[n].obj, mk.los[n].index>>  BY <1>4, <1>7
  <2> QED  BY <2>1
<1>10. ASSUME NEW e \in Items(mk)
       PROVE  \E n \in M : e[1] = mk.los[n].obj /\ e[2] = mk.los[n].index
  <2>1. PICK n \in M : e = <<mk.los[n].obj, mk.los[n].index>>  BY <1>7 DEF Items
  <2> QED  BY <2>1
<1>11. {mk.los[n].obj : n \in M} = {e[1] : e \in Items(mk)}  BY <1>9, <1>10
<1>12. UNION {{field[mk.los[n].obj][i] : i \in mk.los[n].index .. Size[mk.los[n].obj]} : n \in M}
         = UNION {{field[e[1]][i] : i \in e[2] .. Size[e[1]]} : e \in Items(mk)}
  BY <1>9, <1>10
<1> QED  BY <1>2, <1>5, <1>8, <1>11, <1>12 DEF Unscanned

(* What the program can reach is in every sound set.                       *)
LEMMA LiveWithin ==
  ASSUME NEW S, Sound(S)
  PROVE  Live \subseteq S
<1>1. roots \subseteq S /\ \A o \in S \cap Objects : Targets(field, o) \subseteq S  BY DEF Sound
<1>2. PICK R, f : R = roots /\ f = field  OBVIOUS
<1>3. R \subseteq S /\ \A o \in S \cap Objects : Targets(f, o) \subseteq S  BY <1>1, <1>2
<1>4. Reach(R, f, Objects) \subseteq S  BY <1>3, ReachWithin
<1> QED  BY <1>2, <1>4 DEF Live

(* The invariant gives the first property,                                 *)
LEMMA KeptImplied == ASSUME IInv PROVE PointersKept
<1>0. TypeInv /\ ContextOK(mk, gen) /\ StageInv  BY DEF IInv
<1>1. PICK All \in SUBSET Objects, Snap \in SUBSET Objects : MarkInv(All, Snap)  BY DEF IInv
<1>2. Sound(All) /\ Sound(Snap) /\ Snap \subseteq All /\ remset \ Dropped \subseteq All  BY <1>1 DEF MarkInv
<1>3. TypeOK
  <2>1. cursor \in 0 .. MaxRegions + 1
    <3>1. Static \in Nat /\ Static <= MaxRegions + 1 /\ MaxRegions \in Nat  BY <1>0, TypeFacts
    <3>2. cursor \in 0 .. Static  BY <1>0 DEF TypeInv
    <3> QED  BY <3>1, <3>2
  <2>2. mk.stage \in {"none", "construction", "refinement", "completed"}  BY <1>0 DEF ContextOK, Context, Stages
  <2> QED  BY <1>0, <2>1, <2>2 DEF TypeInv, TypeOK
<1>4. ThreadsMatchStack
  <2> SUFFICES ASSUME NEW r \in 1 .. Static
               PROVE  /\ ToSet(Thread(mk.stack, mk.head[r])) = Entries(r)
                      /\ ToSet(Thread(mk.los, mk.losHead[r])) = Cursors(r)
    BY DEF ThreadsMatchStack
  <2>1. r \in Gens /\ Entries(r) = StackOn(mk, gen, r) /\ Cursors(r) = LosOn(mk, gen, r)  BY EntriesAre
  <2>2. PICK c, g : c = mk /\ g = gen  OBVIOUS
  <2>3. ContextOK(c, g)  BY <1>0, <2>2
  <2>4. /\ ToSet(Thread(c.stack, c.head[r])) = StackOn(c, g, r)
        /\ ToSet(Thread(c.los, c.losHead[r])) = LosOn(c, g, r)
    BY <2>1, <2>3, ThreadsVisit
  <2> QED  BY <2>1, <2>2, <2>4
<1>5. NoDanglingPointers
  <2>1. Entered(mk) \subseteq All
    <3> SUFFICES ASSUME NEW v \in Entered(mk) PROVE v \in All  OBVIOUS
    <3>1. v \in mk.marked /\ v \in Objects /\ gen[v] >= 1
      <4>1. v \in mk.marked /\ v \in Objects /\ gen[v] \in Gens  BY <1>0, EnteredFacts
      <4> QED  BY <4>1 DEF Gens
    <3>2. Kept(v)  BY <3>1 DEF Kept, Free
    <3>3. CASE mk.stage = "none"  BY <1>1, <3>1, <3>2, <3>3 DEF MarkInv
    <3>4. CASE mk.stage # "none"  BY <1>1, <1>2, <3>1, <3>4 DEF MarkInv
    <3> QED  BY <3>3, <3>4
  <2>2. PICK B : B = Live \cup (remset \ Dropped) \cup Gray
                       \cup {mk.los[n].obj : n \in UNION {Cursors(r) : r \in 1 .. Static}}
    OBVIOUS
  <2>3. B \subseteq All
    <3>1. Live \subseteq All  BY <1>2, LiveWithin
    <3>2. Gray \cup {mk.los[n].obj : n \in UNION {Cursors(r) : r \in 1 .. Static}} = Entered(mk)
      BY EntriesAre DEF Entered
    <3> QED  BY <1>2, <2>1, <2>2, <3>1, <3>2
  <2>4. \A o \in B : gen[o] # Free /\ \A t \in Targets(field, o) : gen[t] # Free
    BY <1>2, <2>3 DEF Sound, Kept
  <2> QED  BY <2>2, <2>4 DEF NoDanglingPointers, Dropped
<1>6. RemsetComplete
  <2>1. Live \subseteq All  BY <1>2, LiveWithin
  <2> QED  BY <1>2, <2>1 DEF RemsetComplete, Sound
<1> QED  BY <1>3, <1>4, <1>5, <1>6 DEF PointersKept

(* and the second.                                                         *)
LEMMA CoversImplied == ASSUME IInv PROVE MarkingCovers
<1>0. TypeInv /\ ContextOK(mk, gen)  BY DEF IInv
<1>1. PICK All \in SUBSET Objects, Snap \in SUBSET Objects : MarkInv(All, Snap)  BY DEF IInv
<1>2. Live \subseteq Snap
  <2>1. Sound(Snap)  BY <1>1 DEF MarkInv
  <2> QED  BY <2>1, LiveWithin
<1>3. SnapshotCoversLive  BY <1>1, <1>2 DEF SnapshotCoversLive, MarkInv
<1>4. ASSUME mk.stage = "construction",
             NEW ahead, ahead = (UNION {Targets(field, o) : o \in Gray}) \cup Unscanned \cup satb
      PROVE  {o \in Live : Old(o)} \ mk.marked \subseteq Reach(ahead, field, Objects)
  <2>1. PICK f : f = field  OBVIOUS
  <2>2. PICK X : X = Reach(ahead, f, Objects)  OBVIOUS
  <2>3. ahead = Ahead(mk, field, satb)  BY <1>4, EntriesAre DEF Ahead
  <2>4. \A o \in Objects : Targets(f, o) \subseteq Objects  BY <1>0, <2>1, TypeFacts
  <2>5. ahead \in SUBSET Objects
    <3> SUFFICES ASSUME NEW a \in Ahead(mk, field, satb) PROVE a \in Objects  BY <2>3
    <3>1. CASE \E v \in Vals(mk) : a \in Targets(field, v)
      <4>1. \A v \in Vals(mk) : v \in Objects  BY <1>0, ValsFacts
      <4> QED  BY <2>1, <2>4, <3>1, <4>1
    <3>2. CASE a \in satb  BY <1>0, <3>2 DEF TypeInv
    <3>3. CASE a # Nil /\ \E e \in Items(mk) : \E j \in e[2] .. Size[e[1]] : a = field[e[1]][j]
      <4>1. PICK e \in Items(mk) : \E j \in e[2] .. Size[e[1]] : a = field[e[1]][j]  BY <3>3
      <4>2. PICK j \in e[2] .. Size[e[1]] : a = field[e[1]][j]  BY <4>1
      <4>3. e[1] \in Objects /\ e[2] \in Nat \ {0}  BY <1>0, ValsFacts
      <4>4. Size[e[1]] \in Nat  BY <4>3, MarkerAssumption
      <4>5. j \in Slots(e[1])  BY <4>2, <4>3, <4>4 DEF Slots
      <4> QED  BY <2>1, <2>4, <3>3, <4>2, <4>3, <4>5 DEF Targets
    <3> QED  BY <3>1, <3>2, <3>3, AheadCases
  <2>6. ahead \subseteq X /\ X \subseteq Objects /\ \A o \in X \cap Objects : Targets(f, o) \subseteq X
    BY <2>2, <2>4, <2>5, ReachCloses
  <2>7. ToMark(X, mk, gen, field, satb)
    <3>1. Ahead(mk, field, satb) \cap White(mk, gen) \subseteq X  BY <2>3, <2>6
    <3>2. \A x \in X \cap White(mk, gen) : Targets(field, x) \cap White(mk, gen) \subseteq X
      BY <2>1, <2>6
    <3> QED  BY <3>1, <3>2 DEF ToMark
  <2>8. X \in SUBSET Objects  BY <2>6
  <2>9. \A o \in Snap : Old(o) => o \in mk.marked \cup X  BY <1>1, <1>4, <2>7, <2>8 DEF MarkInv
  <2> QED  BY <1>2, <2>1, <2>2, <2>9
<1>5. FrontierCoversLive
  <2>1. PICK ahead : ahead = (UNION {Targets(field, o) : o \in Gray}) \cup Unscanned \cup satb  OBVIOUS
  <2>2. mk.stage = "construction" => {o \in Live : Old(o)} \ mk.marked \subseteq Reach(ahead, field, Objects)
    BY <1>4, <2>1
  <2> QED  BY <2>1, <2>2 DEF FrontierCoversLive
<1> QED  BY <1>3, <1>5 DEF MarkingCovers
-----------------------------------------------------------------------------
(* Whatever the program stores and loads, whatever collections move or     *)
(* reclaim, and however the marker's steps fall between them: what the     *)
(* program, the marker's stacks and the remembered set hold on to has no   *)
(* pointer to reclaimed storage, the stacks are threaded by the regions    *)
(* their objects are in now, and every pointer of a reachable object into  *)
(* another region is remembered, also after refinement has dropped what    *)
(* was not marked (smircy.c, memmgr.c, cheney.c).                          *)
THEOREM PointersAreKept == ASSUME ~LateStatic PROVE Spec => []PointersKept
<1>1. Init => IInv  BY InitGood
<1>2. IInv /\ [Next]_vars => IInv'  BY StepKeeps
<1>3. IInv => PointersKept  BY KeptImplied
<1> QED  BY <1>1, <1>2, <1>3, PTL DEF Spec

(* When the marks are complete they cover every object outside the nursery *)
(* that the program can reach; until then what is not marked can be        *)
(* reached from the stacks or from the log of overwritten pointers         *)
(* (smircy_progress, the barrier satb_enqueue and                          *)
(* smircy_when_object_forwarded together).                                 *)
THEOREM MarkingCoversLive == ASSUME ~LateStatic PROVE Spec => []MarkingCovers
<1>1. Init => IInv  BY InitGood
<1>2. IInv /\ [Next]_vars => IInv'  BY StepKeeps
<1>3. IInv => MarkingCovers  BY CoversImplied
<1> QED  BY <1>1, <1>2, <1>3, PTL DEF Spec

(* While marks are made, no step of the program, of a collection or of the *)
(* marker takes the mark off an object outside the nursery, or adds an     *)
(* unmarked object there: forcibly_push unmarks only what it marks again,  *)
(* and the collector marks what it promotes.                               *)
THEOREM MarkersMakeHeadway == ASSUME ~LateStatic PROVE Spec => UnmarkedOnlyShrinks
<1>1. Init => IInv  BY InitGood
<1>2. IInv /\ [Next]_vars => IInv' /\ [Shrinks]_vars  BY StepKeeps
<1>3. [Shrinks]_vars => [mk.stage = "construction" => Unmarked' \subseteq Unmarked]_vars  BY DEF Shrinks
<1> QED  BY <1>1, <1>2, <1>3, PTL DEF Spec, UnmarkedOnlyShrinks
=============================================================================
