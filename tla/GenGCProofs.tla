----------------------------- MODULE GenGCProofs -----------------------------
(***************************************************************************)
(* Safety of the generational collector for every heap, every number of    *)
(* ephemeral areas and every size of the store buffers, provided that the  *)
(* program requests no collection that skips an area; and, under the same  *)
(* assumption, that it implements the object graph of ObjectHeap.          *)
(***************************************************************************)
EXTENDS MCGenGC, TLAPS

(* A request for generation 2 or later starts at that area and leaves the  *)
(* ephemeral areas before it as they were, full of forwarded objects.      *)
NoAreaSkipped == \A req \in Requests : FirstArea(req[1]) = 1

(* What a collection evacuates, and what outlives it.                      *)
FromSpace == {a \in Allocated : gen[a] \in ForwGset(target, how) /\ a \notin tospace}
Survivors == (Allocated \ FromSpace) \cup {Globals}

(* The slots that the collector has yet to visit.                          *)
Pending(o, s) == (o = obj /\ s \in left) \/ o \in entries \/ o \in grey

(* Free memory is clean, and pointers lead to memory that is not free.     *)
FreeInv ==
  \A a \in Addr : gen[a] = Free => fwd[a] = Nil /\ a \notin large /\ a \notin tospace
PointersInv ==
  \A o \in Allocated \cup {Globals}, s \in Slots :
    mem[o][s] # Nil => mem[o][s] \in Allocated /\ s \in SlotsOf(o)

HeapInv == FreeInv /\ PointersInv /\ OneCopyEach /\ SsbHasRoom

(* Between collections: no trace of the last one, and only objects that    *)
(* have their memory are remembered or logged.                             *)
QuietInv ==
  /\ \A a \in Addr : fwd[a] = Nil
  /\ tospace = {} /\ entries = {} /\ left = {}
RemsetsInv ==
  \A g \in Gens : \A o \in remset[g] : o \in Allocated /\ gen[o] = g /\ g # 0
LogsInv == \A o \in Logged(ssb) : o \in Allocated /\ gen[o] # 0

MutatorInv == QuietInv /\ RemsetComplete /\ RemsetsInv /\ LogsInv

(* The registers of a collection in progress.                              *)
RegistersInv ==
  /\ target \in 1 .. Dynamic
  /\ clearAreas = 1 .. (target - 1) /\ clearRemsets = 1 .. target
  /\ ssb = EmptyLogs
  /\ obj \in Survivors \ (entries \cup grey) /\ left \subseteq SlotsOf(obj)
  /\ entries \subseteq Allocated \ tospace
  /\ \A o \in entries : gen[o] \notin ForwGset(target, how) /\ gen[o] # 0

(* Copies are in the target, and forwarding pointers lead to copies.       *)
CopiesInv ==
  /\ \A a \in tospace : gen[a] = target /\ fwd[a] = Nil
  /\ \A a \in Addr : fwd[a] # Nil => a \in FromSpace \ large /\ fwd[a] \in tospace

(* The collector's tricolour invariant: what it has visited has no pointer *)
(* into from-space, and what it has not visited has none to a copy.        *)
ColourInv ==
  /\ \A o \in Survivors, s \in Slots : mem[o][s] \in FromSpace => Pending(o, s)
  /\ \A o \in Allocated \cup {Globals}, s \in Slots :
       (Pending(o, s) \/ o \in FromSpace) => mem[o][s] \notin tospace \ large

(* The remembered sets of the generations beyond the target.               *)
OlderRemsetsInv ==
  \A o \in Allocated : gen[o] > target =>
    \A f \in Fields : (mem[o][f] # Nil /\ gen[mem[o][f]] < gen[o]) => o \in remset[gen[o]]
OlderEntriesInv ==
  /\ remset[0] = {}
  /\ \A g \in Gens : g > target => \A o \in remset[g] : o \in Allocated /\ gen[o] = g

CollectorInv == RegistersInv /\ CopiesInv /\ ColourInv /\ OlderRemsetsInv /\ OlderEntriesInv

IInv ==
  /\ TypeOK /\ HeapInv
  /\ phase = "mutator" => MutatorInv
  /\ phase = "gc" => CollectorInv
-----------------------------------------------------------------------------
LEMMA GensArithmetic ==
  /\ Dynamic \in Gens /\ Static \in Gens /\ 0 \in Gens /\ Free \notin Gens
  /\ Dynamic < Static /\ 1 <= Dynamic
  /\ \A g \in Gens : FirstArea(g) \in 1 .. Dynamic
  /\ Gens \subseteq Int
BY GenGCAssumption DEF Dynamic, Static, Gens, Free, FirstArea

LEMMA HomeAddr == Home \in Copies /\ \A o \in Objects : <<o, Home>> \in Addr
<1>1. Home \in Copies  BY GenGCAssumption DEF Home
<1> QED  BY <1>1 DEF Addr

LEMMA CompactedType ==
  ASSUME TypeOK, NEW logs \in [Gens -> Seq(Addr)]
  PROVE  /\ Logged(logs) \subseteq Addr
         /\ Compacted(logs) \in [Gens -> SUBSET Addr]
<1>1. Logged(logs) \subseteq Addr  BY DEF Logged
<1> QED  BY <1>1 DEF TypeOK, Compacted

LEMMA EmptyLogsType == EmptyLogs \in [Gens -> Seq(Addr)]
BY DEF EmptyLogs

(* The step of every action keeps the types of the variables.              *)
LEMMA TypeStep == TypeOK /\ [Next]_vars => TypeOK'
<1> SUFFICES ASSUME TypeOK, [Next]_vars PROVE TypeOK'  OBVIOUS
<1> USE GenGCAssumption
<1>1. ASSUME NEW r \in Roots, NEW o \in Objects, NEW kind \in Kinds, Allocate(r, o, kind)
      PROVE  TypeOK'
  <2>1. <<o, Home>> \in Addr  BY HomeAddr
  <2>2. PICK init \in [Fields -> {Held(q) : q \in Roots} \cup {Nil}] :
          mem' = [mem EXCEPT ![<<o, Home>>] = [s \in Slots |->
                                IF s \in Fields THEN init[s] ELSE Nil],
                             ![Globals][r] = <<o, Home>>]
    BY <1>1 DEF Allocate
  <2>3. \A q \in Roots : Held(q) \in Word  BY DEF TypeOK, Held, Slots
  <2>4. [s \in Slots |-> IF s \in Fields THEN init[s] ELSE Nil] \in [Slots -> Word]
    BY <2>3 DEF Word
  <2>5. mem' \in [Addr \cup {Globals} -> [Slots -> Word]]
    BY <2>1, <2>2, <2>4 DEF TypeOK, Word, Slots
  <2>6. gen' \in [Addr -> Gens \cup {Free}]  BY <1>1, GensArithmetic DEF TypeOK, Allocate
  <2> QED  BY <1>1, <2>1, <2>5, <2>6 DEF TypeOK, Allocate, logVars, gcVars
<1>2. ASSUME NEW r \in Roots, Drop(r) PROVE TypeOK'
  BY <1>2 DEF TypeOK, Drop, SetRoot, Word, Slots, logVars, gcVars
<1>3. ASSUME NEW r \in Roots, NEW q \in Roots, NEW f \in Fields, Load(r, q, f)
      PROVE  TypeOK'
  <2>1. Held(q) \in Addr  BY <1>3 DEF TypeOK, Load, Held, Word, Slots
  <2>2. mem[Held(q)][f] \in Word  BY <2>1 DEF TypeOK, Slots
  <2> QED  BY <1>3, <2>2 DEF TypeOK, Load, SetRoot, Slots, logVars, gcVars
<1>4. ASSUME NEW r \in Roots, NEW q \in Roots, NEW f \in Fields, Store(q, f, r)
      PROVE  TypeOK'
  <2> DEFINE lhs == Held(q)
             rhs == Held(r)
             logs == [ssb EXCEPT ![gen[rhs]] = Append(@, lhs)]
  <2>1. lhs \in Addr /\ rhs \in Word
    BY <1>4 DEF TypeOK, Store, Held, Word, Slots
  <2>2. mem' \in [Addr \cup {Globals} -> [Slots -> Word]]
    BY <1>4, <2>1 DEF TypeOK, Store, Word, Slots
  <2>3. logs \in [Gens -> Seq(Addr)]
    <3>1. ASSUME NEW g \in Gens PROVE logs[g] \in Seq(Addr)  BY <2>1 DEF TypeOK
    <3> QED  BY <3>1 DEF TypeOK
  <2>4. ssb' \in [Gens -> Seq(Addr)] /\ remset' \in [Gens -> SUBSET Addr]
    <3>1. \/ UNCHANGED logVars
          \/ remset' = Compacted(logs) /\ ssb' = EmptyLogs
          \/ UNCHANGED remset /\ ssb' = logs
      BY <1>4 DEF Store, WriteBarrier
    <3>2. Compacted(logs) \in [Gens -> SUBSET Addr]  BY <2>3, CompactedType
    <3> HIDE DEF logs
    <3> QED  BY <3>1, <3>2, <2>3, EmptyLogsType DEF TypeOK, logVars
  <2> QED  BY <1>4, <2>2, <2>4 DEF TypeOK, Store, gcVars
<1>5. ASSUME NEW g \in Gens, NEW method \in Methods, StartCollection(g, method)
      PROVE  TypeOK'
  <2>1. PICK t \in FirstArea(g) .. Dynamic, m \in Methods :
          /\ target' = t /\ how' = m
          /\ clearAreas' = FirstArea(g) .. (t - 1)
          /\ clearRemsets' = FirstArea(g) .. t
          /\ remset' = Compacted(ssb) /\ ssb' = EmptyLogs
          /\ entries' = UNION {Compacted(ssb)[k] : k \in (1 .. Static) \ ForwGset(t, m)}
    BY <1>5 DEF StartCollection, Complement, MustClearAreas, MustClearRemsets
  <2>2. FirstArea(g) \in 1 .. Dynamic  BY GensArithmetic, Zenon
  <2>3. t \in Gens /\ clearAreas' \subseteq Gens /\ clearRemsets' \subseteq Gens
    <3>1. ASSUME NEW k \in Int, 1 <= k, k <= Dynamic PROVE k \in Gens
      BY <3>1 DEF Gens, Dynamic, Static
    <3>2. Dynamic \in Int  BY DEF Dynamic
    <3> QED  BY <2>1, <2>2, <3>1, <3>2
  <2>4. Compacted(ssb) \in [Gens -> SUBSET Addr]  BY CompactedType DEF TypeOK
  <2>5. entries' \subseteq Addr  BY <2>1, <2>4 DEF Gens
  <2> QED
    BY <1>5, <2>1, <2>3, <2>4, <2>5, EmptyLogsType
    DEF TypeOK, StartCollection, heapVars, Slots
<1>6. ASSUME NEW s \in left, ForwardSlot(s) PROVE TypeOK'
  <2> DEFINE w == Pointee(s)
  <2>1. s \in Slots /\ w \in Word  BY DEF TypeOK, Pointee
  <2>2. CASE Skip(s)
    BY <1>6, <2>2 DEF TypeOK, ForwardSlot, Skip, heapVars, logVars
  <2>3. CASE Follow(s)
    BY <1>6, <2>1, <2>3 DEF TypeOK, ForwardSlot, Follow, logVars, NeedsForward, Word
  <2>4. CASE Mark(s)
    BY <1>6, <2>1, <2>4 DEF TypeOK, ForwardSlot, Mark, logVars, NeedsForward, Word
  <2>5. ASSUME NEW new \in Addr, Copy(s, new) PROVE TypeOK'
    <3>1. w \in Addr  BY <2>1, <2>5 DEF Copy, NeedsForward, Word
    <3>2. mem' \in [Addr \cup {Globals} -> [Slots -> Word]]
      BY <2>5, <3>1, <2>1 DEF TypeOK, Word, Copy
    <3> QED  BY <1>6, <2>5, <3>1, <3>2 DEF TypeOK, ForwardSlot, logVars, Word, Copy
  <2> QED  BY <1>6, <2>2, <2>3, <2>4, <2>5 DEF ForwardSlot
<1>7. ASSUME NEW o \in entries, ScanEntry(o) PROVE TypeOK'
  BY <1>7 DEF TypeOK, ScanEntry, heapVars, Slots
<1>8. ASSUME NEW o \in grey, ScanTospace(o) PROVE TypeOK'
  BY <1>8 DEF TypeOK, ScanTospace, heapVars, logVars, Slots
<1>9. ASSUME FinishCollection PROVE TypeOK'
  <2>1. NoSlots \in [Slots -> Word]  BY DEF NoSlots, Word
  <2> QED  BY <1>9, <2>1, GensArithmetic
    DEF TypeOK, FinishCollection, Word, Methods, Reclaimed, Allocated
<1>10. CASE UNCHANGED vars
  BY <1>10 DEF TypeOK, vars, heapVars, logVars, gcVars
<1>11. \A req \in Requests : req[1] \in Gens /\ req[2] \in Methods  OBVIOUS
<1>12. left # {} => (CHOOSE s \in left : TRUE) \in left  OBVIOUS
<1> QED
  BY <1>1, <1>2, <1>3, <1>4, <1>5, <1>6, <1>7, <1>8, <1>9, <1>10, <1>11, <1>12, GensArithmetic
  DEF Next, Mutator, Collector, Methods
-----------------------------------------------------------------------------
(* The initial heap.                                                       *)
LEMMA InitInv == Init => IInv
<1> SUFFICES ASSUME Init PROVE IInv  OBVIOUS
<1> USE GenGCAssumption
<1>1. Home \in Copies /\ StaticObjs \X {Home} \subseteq Addr  BY HomeAddr DEF Addr
<1>2. PICK image \in [Roots -> (StaticObjs \X {Home}) \cup {Nil}] :
        mem = [o \in Addr \cup {Globals} |->
                 [s \in Slots |-> IF o = Globals /\ s \in Roots THEN image[s] ELSE Nil]]
  BY DEF Init
<1>3. \A o \in Addr, s \in Slots : mem[o][s] = Nil  BY <1>2
<1>4. \A s \in Slots : mem[Globals][s] = IF s \in Roots THEN image[s] ELSE Nil  BY <1>2
<1>5. Allocated = StaticObjs \X {Home}
  BY <1>1, GensArithmetic DEF Init, Allocated
<1>6. Logged(ssb) = {}  BY DEF Init, Logged
<1>7. TypeOK
  <2>1. mem \in [Addr \cup {Globals} -> [Slots -> Word]]
    BY <1>1, <1>2 DEF Word
  <2> QED  BY <2>1, GensArithmetic DEF Init, TypeOK, Word, Methods
<1>8. FreeInv  BY DEF Init, FreeInv
<1>9. PointersInv
  BY <1>1, <1>3, <1>4, <1>5 DEF PointersInv, SlotsOf
<1>10. OneCopyEach  BY <1>5 DEF OneCopyEach
<1>11. SsbHasRoom  BY DEF Init, SsbHasRoom
<1>12. MutatorInv
  <2>1. RemsetComplete  BY <1>3 DEF RemsetComplete, Allocated, Slots
  <2>2. QuietInv /\ RemsetsInv /\ LogsInv  BY <1>6 DEF Init, QuietInv, RemsetsInv, LogsInv
  <2> QED  BY <2>1, <2>2 DEF MutatorInv
<1> QED  BY <1>7, <1>8, <1>9, <1>10, <1>11, <1>12 DEF Init, IInv, HeapInv

(* Allocation: the new object is in the nursery, where no store is logged, *)
(* and its fields hold what the mutator holds.                             *)
LEMMA AllocateInv ==
  ASSUME IInv, TypeOK', NEW r \in Roots, NEW o \in Objects, NEW kind \in Kinds,
         Allocate(r, o, kind)
  PROVE  IInv'
<1> DEFINE new == <<o, Home>>
<1> USE GenGCAssumption
<1>1. new \in Addr /\ new # Globals /\ gen[new] = Free /\ new # Nil
  BY HomeAddr DEF Allocate, Unused
<1>2. PICK init \in [Fields -> {Held(q) : q \in Roots} \cup {Nil}] :
        mem' = [mem EXCEPT ![new] = [s \in Slots |-> IF s \in Fields THEN init[s] ELSE Nil],
                           ![Globals][r] = new]
  BY DEF Allocate
<1>3. /\ TypeOK /\ FreeInv /\ PointersInv /\ OneCopyEach /\ SsbHasRoom /\ QuietInv
      /\ RemsetComplete /\ RemsetsInv /\ LogsInv /\ phase = "mutator" /\ phase' = "mutator"
  BY DEF Allocate, IInv, HeapInv, MutatorInv, gcVars
<1>4. /\ \A s \in Slots : mem'[new][s] = IF s \in Fields THEN init[s] ELSE Nil
      /\ \A s \in Slots : mem'[Globals][s] = IF s = r THEN new ELSE mem[Globals][s]
      /\ \A a \in Addr : a # new => mem'[a] = mem[a]
  BY <1>1, <1>2, <1>3 DEF TypeOK, Slots
<1>5. /\ gen'[new] = 0 /\ \A a \in Addr : a # new => gen'[a] = gen[a]
  BY <1>1, <1>3 DEF Allocate, TypeOK
<1>6. Allocated' = Allocated \cup {new}  BY <1>1, <1>5 DEF Allocated, Free
<1>7. UNCHANGED <<fwd, ssb, remset, tospace, entries, left>>
  BY DEF Allocate, logVars, gcVars
<1>8. FreeInv'  BY <1>3, <1>5, <1>6, <1>7, <1>1 DEF FreeInv, Allocate, Free
<1>9. PointersInv'
  <2>1. \A s \in Fields : init[s] # Nil => init[s] \in Allocated
    BY <1>3 DEF PointersInv, Held, Slots
  <2> QED  BY <2>1, <1>1, <1>3, <1>4, <1>6 DEF PointersInv, SlotsOf, Allocated
<1>10. OneCopyEach'
  <2>1. ASSUME NEW a \in Allocated, a[1] = o PROVE FALSE
    BY <2>1, <1>3 DEF Allocate, Unused, Allocated, Addr
  <2> QED  BY <2>1, <1>3, <1>6, <1>7 DEF OneCopyEach
<1>11. SsbHasRoom'  BY <1>3, <1>7 DEF SsbHasRoom
<1>12. RemsetComplete'
  <2>1. ASSUME NEW a \in Allocated', NEW f \in Fields, mem'[a][f] # Nil,
               gen'[mem'[a][f]] < gen'[a]
        PROVE  a \in remset'[gen'[a]] \cup Logged(ssb)'
    <3>1. mem'[a][f] \in Allocated'
      BY <2>1, <1>9 DEF PointersInv, Slots
    <3>2. CASE a = new
      <4>1. gen'[mem'[a][f]] \in Gens
        BY <3>1, <1>5, <1>6, <1>3, GensArithmetic DEF TypeOK, Allocated
      <4> QED  BY <4>1, <3>2, <2>1, <1>5 DEF Gens
    <3>3. CASE a # new
      <4>1. a \in Allocated /\ mem'[a][f] = mem[a][f] /\ gen'[a] = gen[a]
        BY <3>3, <2>1, <1>4, <1>5, <1>6 DEF Allocated
      <4>2. mem[a][f] \in Allocated /\ mem[a][f] # new
        BY <4>1, <2>1, <1>1, <1>3 DEF PointersInv, Slots, Allocated
      <4>3. gen'[mem[a][f]] = gen[mem[a][f]]  BY <4>2, <1>5 DEF Allocated
      <4> QED  BY <4>1, <4>2, <4>3, <2>1, <1>3, <1>7 DEF RemsetComplete, Logged
    <3> QED  BY <3>2, <3>3
  <2> QED  BY <2>1 DEF RemsetComplete
<1>13. RemsetsInv' /\ LogsInv'
  BY <1>1, <1>3, <1>5, <1>6, <1>7 DEF RemsetsInv, LogsInv, Logged, Allocated
<1>14. QuietInv'  BY <1>3, <1>7 DEF QuietInv
<1> QED
  BY <1>3, <1>8, <1>9, <1>10, <1>11, <1>12, <1>13, <1>14
  DEF IInv, HeapInv, MutatorInv
(* Reading a field and dropping a root change only what Globals holds.     *)
LEMMA RootChangeInv ==
  ASSUME IInv, TypeOK', phase = "mutator", NEW r \in Roots, NEW w \in Word,
         w # Nil => w \in Allocated,
         SetRoot(r, w), UNCHANGED <<gen, large, fwd, logVars, gcVars>>
  PROVE  IInv'
<1> USE GenGCAssumption
<1>1. /\ TypeOK /\ FreeInv /\ PointersInv /\ OneCopyEach /\ SsbHasRoom /\ QuietInv
      /\ RemsetComplete /\ RemsetsInv /\ LogsInv
  BY DEF IInv, HeapInv, MutatorInv
<1>2. UNCHANGED <<gen, large, fwd, ssb, remset, phase, tospace, entries, left, Allocated>>
  BY DEF logVars, gcVars, Allocated
<1>3. /\ \A a \in Addr : mem'[a] = mem[a]
      /\ \A s \in Slots : mem'[Globals][s] = IF s = r THEN w ELSE mem[Globals][s]
  BY <1>1 DEF TypeOK, SetRoot, Slots
<1>4. PointersInv'
  BY <1>1, <1>2, <1>3 DEF PointersInv, SlotsOf, Allocated
<1>5. RemsetComplete'
  BY <1>1, <1>2, <1>3 DEF RemsetComplete, Logged, Allocated
<1>6. FreeInv' /\ OneCopyEach' /\ SsbHasRoom'
  BY <1>1, <1>2 DEF FreeInv, OneCopyEach, SsbHasRoom
<1>7. QuietInv' /\ RemsetsInv' /\ LogsInv'
  BY <1>1, <1>2 DEF QuietInv, RemsetsInv, LogsInv, Logged
<1> QED  BY <1>2, <1>4, <1>5, <1>6, <1>7 DEF IInv, HeapInv, MutatorInv

(* Compacting the buffers moves what they log to the remembered sets.      *)
LEMMA CompactionCovers ==
  ASSUME TypeOK, NEW logs \in [Gens -> Seq(Addr)],
         \A o \in Logged(logs) : o \in Allocated /\ gen[o] # 0,
         RemsetsInv
  PROVE  /\ \A o \in Addr : (gen[o] \in Gens /\ o \in remset[gen[o]] \cup Logged(logs))
                             => o \in Compacted(logs)[gen[o]]
         /\ \A g \in Gens : \A o \in Compacted(logs)[g] :
              o \in Allocated /\ gen[o] = g /\ g # 0
BY DEF Compacted, RemsetsInv, TypeOK

LEMMA EmptyLogsFacts == Logged(EmptyLogs) = {} /\ \A g \in Gens : Len(EmptyLogs[g]) = 0
BY DEF Logged, EmptyLogs

(* A store: either the barrier logs the object, or the filters exclude     *)
(* that it now points to a younger generation.                             *)
LEMMA StoreInv ==
  ASSUME IInv, TypeOK', NEW r \in Roots, NEW q \in Roots, NEW f \in Fields,
         Store(q, f, r)
  PROVE  IInv'
<1> DEFINE lhs == Held(q)
           rhs == Held(r)
           logs == [ssb EXCEPT ![gen[rhs]] = Append(@, lhs)]
<1> USE GenGCAssumption
<1>1. /\ TypeOK /\ FreeInv /\ PointersInv /\ OneCopyEach /\ SsbHasRoom /\ QuietInv
      /\ RemsetComplete /\ RemsetsInv /\ LogsInv /\ phase = "mutator"
  BY DEF Store, IInv, HeapInv, MutatorInv
<1>2. UNCHANGED <<gen, large, fwd, phase, tospace, entries, left, Allocated>>
  BY DEF Store, gcVars, Allocated
<1>3. lhs \in Allocated /\ lhs \in Addr /\ (rhs # Nil => rhs \in Allocated)
  BY <1>1 DEF Store, PointersInv, Held, Slots, Allocated
<1>4. /\ \A a \in Addr \cup {Globals} : a # lhs => mem'[a] = mem[a]
      /\ \A s \in Slots : mem'[lhs][s] = IF s = f THEN rhs ELSE mem[lhs][s]
  BY <1>1, <1>3 DEF TypeOK, Store, Slots
<1>5. PointersInv'
  BY <1>1, <1>2, <1>3, <1>4 DEF PointersInv, SlotsOf, Allocated
<1>6. FreeInv' /\ OneCopyEach' /\ QuietInv'
  BY <1>1, <1>2 DEF FreeInv, OneCopyEach, QuietInv
(* What has to be recorded for the heap after the store.                   *)
<1>7. ASSUME NEW a \in Allocated, NEW g \in Fields,
             mem'[a][g] # Nil, gen[mem'[a][g]] < gen[a]
      PROVE  a \in remset[gen[a]] \cup Logged(ssb) \/ (a = lhs /\ gen[rhs] < gen[lhs] /\ rhs # Nil)
  BY <1>1, <1>3, <1>4, <1>7 DEF RemsetComplete, Allocated, Slots
<1>8. CASE Filtered(lhs, rhs)
  <2>1. UNCHANGED <<ssb, remset>>  BY <1>8 DEF Store, WriteBarrier, logVars
  <2>2. ~(gen[rhs] < gen[lhs] /\ rhs # Nil)
    <3>1. rhs # Nil => gen[rhs] \in Gens  BY <1>1, <1>3 DEF TypeOK, Allocated
    <3>2. gen[lhs] \in Gens  BY <1>1, <1>3 DEF TypeOK, Allocated
    <3> QED  BY <1>8, <3>1, <3>2 DEF Filtered, Gens, Static
  <2>3. RemsetComplete'
    BY <1>2, <1>7, <2>1, <2>2 DEF RemsetComplete, Logged
  <2>4. SsbHasRoom' /\ RemsetsInv' /\ LogsInv'
    BY <1>1, <1>2, <2>1 DEF SsbHasRoom, RemsetsInv, LogsInv, Logged
  <2> QED  BY <1>2, <1>5, <1>6, <1>1, <2>3, <2>4 DEF IInv, HeapInv, MutatorInv
<1>9. CASE ~Filtered(lhs, rhs)
  <2>1. gen[rhs] \in Gens /\ gen[lhs] \in Gens /\ gen[lhs] # 0
    BY <1>1, <1>3, <1>9 DEF TypeOK, Allocated, Filtered
  <2>2. /\ logs \in [Gens -> Seq(Addr)]
        /\ \A g \in Gens : g # gen[rhs] => logs[g] = ssb[g]
        /\ logs[gen[rhs]] = Append(ssb[gen[rhs]], lhs)
    BY <1>1, <1>3, <2>1 DEF TypeOK
  <2> HIDE DEF logs
  <2>3. Logged(logs) = Logged(ssb) \cup {lhs}
    <3> DEFINE elems(s) == {s[i] : i \in DOMAIN s}
    <3>1. \A s \in Seq(Addr) : elems(Append(s, lhs)) = elems(s) \cup {lhs}
      <4> TAKE s \in Seq(Addr)
      <4>1. /\ Len(s) \in Nat /\ DOMAIN s = 1 .. Len(s)
            /\ DOMAIN Append(s, lhs) = 1 .. (Len(s) + 1)
            /\ \A i \in 1 .. Len(s) : Append(s, lhs)[i] = s[i]
            /\ Append(s, lhs)[Len(s) + 1] = lhs
        BY <1>3
      <4> QED  BY <4>1
    <3>2. ssb[gen[rhs]] \in Seq(Addr)  BY <1>1, <2>1 DEF TypeOK
    <3>3. /\ Logged(logs) = UNION {elems(logs[g]) : g \in Gens}
          /\ Logged(ssb) = UNION {elems(ssb[g]) : g \in Gens}
      BY DEF Logged
    <3> HIDE DEF elems
    <3>4. elems(logs[gen[rhs]]) = elems(ssb[gen[rhs]]) \cup {lhs}  BY <2>2, <3>1, <3>2
    <3>5. \A g \in Gens : g # gen[rhs] => elems(logs[g]) = elems(ssb[g])  BY <2>2
    <3> QED  BY <2>1, <3>3, <3>4, <3>5
  <2>4. \A o \in Logged(logs) : o \in Allocated /\ gen[o] # 0
    BY <1>1, <1>3, <2>1, <2>3 DEF LogsInv
  <2>5. CASE BufferFull(logs[gen[rhs]])
    <3>1. remset' = Compacted(logs) /\ ssb' = EmptyLogs
      BY <1>9, <2>5 DEF Store, WriteBarrier, logs
    <3>2. RemsetComplete'
      <4>1. ASSUME NEW a \in Allocated, NEW g \in Fields,
                   mem'[a][g] # Nil, gen[mem'[a][g]] < gen[a]
            PROVE  a \in Compacted(logs)[gen[a]]
        <5>1. a \in remset[gen[a]] \cup Logged(logs)  BY <4>1, <1>7, <2>3
        <5>2. a \in Addr /\ gen[a] \in Gens  BY <1>1 DEF TypeOK, Allocated
        <5> QED  BY <5>1, <5>2, <1>1, <2>2, <2>4, CompactionCovers
      <4> QED  BY <4>1, <1>2, <3>1 DEF RemsetComplete
    <3>3. RemsetsInv'
      BY <1>1, <1>2, <2>2, <2>4, <3>1, CompactionCovers DEF RemsetsInv
    <3>4. SsbHasRoom' /\ LogsInv'
      BY <3>1, <1>2, EmptyLogsFacts DEF SsbHasRoom, LogsInv, Logged
    <3> QED  BY <1>2, <1>5, <1>6, <1>1, <3>2, <3>3, <3>4 DEF IInv, HeapInv, MutatorInv
  <2>6. CASE ~BufferFull(logs[gen[rhs]])
    <3>1. remset' = remset /\ ssb' = logs
      BY <1>9, <2>6 DEF Store, WriteBarrier, logs
    <3>2. RemsetComplete'
      <4>1. Logged(ssb)' = Logged(ssb) \cup {lhs}  BY <2>3, <3>1 DEF Logged
      <4>2. ASSUME NEW a \in Allocated, NEW g \in Fields,
                   mem'[a][g] # Nil, gen[mem'[a][g]] < gen[a]
            PROVE  a \in remset'[gen[a]] \cup Logged(ssb)'
        BY <4>1, <4>2, <1>7, <3>1
      <4> QED  BY <4>2, <1>2 DEF RemsetComplete
    <3>3. RemsetsInv' /\ LogsInv'
      BY <1>1, <1>2, <2>4, <3>1 DEF RemsetsInv, LogsInv, Logged
    <3>4. SsbHasRoom'
      <4>1. ASSUME NEW g \in Gens PROVE 2 * Len(logs[g]) + 2 <= SsbWords
        <5>1. CASE g # gen[rhs]  BY <5>1, <1>1, <2>2 DEF SsbHasRoom
        <5>2. CASE g = gen[rhs]
          <6>1. Len(logs[g]) \in Nat  BY <2>2
          <6> QED  BY <5>2, <6>1, <2>6 DEF BufferFull
        <5> QED  BY <5>1, <5>2
      <4> QED  BY <4>1, <3>1 DEF SsbHasRoom
    <3> QED  BY <1>2, <1>5, <1>6, <1>1, <3>2, <3>3, <3>4 DEF IInv, HeapInv, MutatorInv
  <2> QED  BY <2>5, <2>6
<1> QED  BY <1>8, <1>9
-----------------------------------------------------------------------------
(* The evacuated generations are those below the target, and the target    *)
(* too when it is collected.                                               *)
LEMMA ForwGsetFacts ==
  ASSUME NEW t \in 1 .. Dynamic, NEW m \in Methods
  PROVE  /\ t \in Gens /\ t < Static
         /\ 0 \in ForwGset(t, m) /\ Free \notin ForwGset(t, m)
         /\ \A i \in Gens : i \in ForwGset(t, m) <=> (i < t \/ (i = t /\ m = "collect"))
         /\ \A i, j \in Gens : i \in ForwGset(t, m) /\ j \notin ForwGset(t, m) => i < j
BY GenGCAssumption DEF ForwGset, Gens, Dynamic, Static, Free, Methods

(* The start of a collection: every pointer into from-space from an object *)
(* that stays is in Globals or belongs to an entry to enumerate.           *)
LEMMA StartInv ==
  ASSUME IInv, TypeOK', NEW g \in Gens, NEW method \in Methods,
         FirstArea(g) = 1, StartCollection(g, method)
  PROVE  IInv'
<1> USE GenGCAssumption
<1>1. /\ TypeOK /\ FreeInv /\ PointersInv /\ OneCopyEach /\ SsbHasRoom /\ QuietInv
      /\ RemsetComplete /\ RemsetsInv /\ LogsInv /\ phase = "mutator"
  BY DEF StartCollection, IInv, HeapInv, MutatorInv
<1>2. PICK t \in 1 .. Dynamic, m \in Methods :
        /\ target' = t /\ how' = m
        /\ clearAreas' = 1 .. (t - 1) /\ clearRemsets' = 1 .. t
        /\ remset' = Compacted(ssb) /\ ssb' = EmptyLogs
        /\ entries' = UNION {Compacted(ssb)[k] : k \in (1 .. Static) \ ForwGset(t, m)}
  BY DEF StartCollection, Complement, MustClearAreas, MustClearRemsets
<1>3. /\ phase' = "gc" /\ obj' = Globals /\ left' = Roots
      /\ tospace' = {} /\ grey' = {} /\ UNCHANGED <<gen, large, mem, fwd, Allocated>>
  BY DEF StartCollection, heapVars, Allocated
<1> DEFINE F == ForwGset(t, m)
<1>4. /\ t \in Gens /\ t < Static /\ 0 \in F /\ Free \notin F
      /\ \A i \in Gens : i \in F <=> (i < t \/ (i = t /\ m = "collect"))
      /\ \A i, j \in Gens : i \in F /\ j \notin F => i < j
  BY ForwGsetFacts
<1> HIDE DEF F
<1>5. /\ \A o \in Allocated : gen[o] \in Gens /\ o \in Addr
      /\ \A o \in Allocated, f \in Fields :
           (mem[o][f] # Nil /\ gen[mem[o][f]] < gen[o]) => o \in Compacted(ssb)[gen[o]]
      /\ \A k \in Gens : \A o \in Compacted(ssb)[k] : o \in Allocated /\ gen[o] = k /\ k # 0
  <2>1. \A o \in Allocated : gen[o] \in Gens /\ o \in Addr  BY <1>1 DEF TypeOK, Allocated
  <2>2. ssb \in [Gens -> Seq(Addr)]  BY <1>1 DEF TypeOK
  <2>3. \A o \in Logged(ssb) : o \in Allocated /\ gen[o] # 0  BY <1>1 DEF LogsInv
  <2>4. /\ \A o \in Addr : (gen[o] \in Gens /\ o \in remset[gen[o]] \cup Logged(ssb))
                             => o \in Compacted(ssb)[gen[o]]
        /\ \A k \in Gens : \A o \in Compacted(ssb)[k] :
              o \in Allocated /\ gen[o] = k /\ k # 0
    BY <1>1, <2>2, <2>3, CompactionCovers
  <2> QED  BY <2>1, <2>4, <1>1 DEF RemsetComplete
<1>6. FromSpace' = {a \in Allocated : gen[a] \in F}
  BY <1>2, <1>3 DEF FromSpace, Allocated, F
<1>7. \A o \in Addr : o \in entries' <=>
        o \in Allocated /\ gen[o] \notin F /\ gen[o] # 0 /\ o \in Compacted(ssb)[gen[o]]
  <2>1. \A k \in Gens : k # 0 => k \in 1 .. Static  BY DEF Gens, Static
  <2>2. 1 .. Static \subseteq Gens  BY DEF Gens, Static
  <2> QED  BY <1>2, <1>5, <2>1, <2>2 DEF F
<1>8. FreeInv' /\ PointersInv' /\ OneCopyEach'
  BY <1>1, <1>3 DEF FreeInv, PointersInv, OneCopyEach, QuietInv, Allocated
<1>9. SsbHasRoom'
  BY <1>2, EmptyLogsFacts DEF SsbHasRoom
<1>10. RegistersInv'
  <2>1. Globals \notin entries'  BY <1>2, <1>5, <1>7 DEF TypeOK
  <2>2. entries' \subseteq Allocated /\ \A o \in entries' : gen[o] \notin F /\ gen[o] # 0
    BY <1>7 DEF TypeOK
  <2>3. Globals \in Survivors'  BY DEF Survivors
  <2> QED  BY <1>2, <1>3, <2>1, <2>2, <2>3 DEF RegistersInv, SlotsOf, F, EmptyLogs
<1>11. CopiesInv'  BY <1>1, <1>3 DEF CopiesInv, QuietInv
<1>12. ColourInv'
  <2>1. ASSUME NEW o \in Survivors', NEW s \in Slots, mem'[o][s] \in FromSpace'
        PROVE  Pending(o, s)'
    <3>1. mem[o][s] \in Allocated /\ gen[mem[o][s]] \in F /\ mem[o][s] # Nil
      BY <2>1, <1>3, <1>6 DEF Allocated, Word
    <3>2. CASE o = Globals
      <4>1. s \in Roots  BY <3>1, <3>2, <1>1 DEF PointersInv, SlotsOf
      <4> QED  BY <4>1, <3>2, <1>3 DEF Pending
    <3>3. CASE o # Globals
      <4>1. o \in Allocated /\ gen[o] \notin F  BY <3>3, <2>1, <1>3, <1>6 DEF Survivors
      <4>2. s \in Fields  BY <4>1, <3>1, <1>1, <3>3 DEF PointersInv, SlotsOf
      <4>3. gen[mem[o][s]] < gen[o]  BY <3>1, <4>1, <1>4, <1>5
      <4>4. o \in entries'  BY <4>1, <4>2, <4>3, <3>1, <1>4, <1>5, <1>7
      <4> QED  BY <4>4 DEF Pending
    <3> QED  BY <3>2, <3>3
  <2> QED  BY <2>1, <1>3 DEF ColourInv
<1>13. OlderRemsetsInv'
  BY <1>2, <1>3, <1>5 DEF OlderRemsetsInv
<1>14. OlderEntriesInv'
  <2>1. Compacted(ssb) \in [Gens -> SUBSET Addr]  BY <1>1, CompactedType DEF TypeOK
  <2>2. Compacted(ssb)[0] = {}  BY <2>1, <1>5, GensArithmetic
  <2> QED  BY <1>2, <1>3, <1>5, <2>2 DEF OlderEntriesInv
<1> QED
  BY <1>3, <1>8, <1>9, <1>10, <1>11, <1>12, <1>13, <1>14
  DEF IInv, HeapInv, CollectorInv
-----------------------------------------------------------------------------
(* What every step of the collector starts from.                           *)
LEMMA CollectorFacts ==
  ASSUME IInv, phase = "gc"
  PROVE  /\ TypeOK /\ FreeInv /\ PointersInv /\ OneCopyEach /\ SsbHasRoom
         /\ RegistersInv /\ CopiesInv /\ ColourInv /\ OlderRemsetsInv /\ OlderEntriesInv
         /\ target \in Gens /\ target < Static /\ target # 0 /\ how \in Methods
         /\ 0 \in ForwGset(target, how) /\ Free \notin ForwGset(target, how)
         /\ \A i \in Gens : i \in ForwGset(target, how) <=>
                             (i < target \/ (i = target /\ how = "collect"))
         /\ \A i, j \in Gens :
              i \in ForwGset(target, how) /\ j \notin ForwGset(target, how) => i < j
         /\ \A a \in Allocated : a \in Addr /\ gen[a] \in Gens /\ a # Nil /\ a # Globals
         /\ \A a \in tospace : a \in Allocated /\ a \notin FromSpace
         /\ ~(target > target) /\ \A a \in FromSpace : a \in Allocated
         /\ \A o \in Allocated : gen[o] > target =>
              o \notin FromSpace /\ \A a \in FromSpace : gen[a] < gen[o]
<1>1. /\ TypeOK /\ FreeInv /\ PointersInv /\ OneCopyEach /\ SsbHasRoom
      /\ RegistersInv /\ CopiesInv /\ ColourInv /\ OlderRemsetsInv /\ OlderEntriesInv
  BY DEF IInv, HeapInv, CollectorInv
<1>2. target \in 1 .. Dynamic /\ how \in Methods  BY <1>1 DEF RegistersInv, TypeOK
<1>3. \A a \in Allocated : a \in Addr /\ gen[a] \in Gens /\ a # Nil /\ a # Globals
  BY <1>1, GenGCAssumption DEF TypeOK, Allocated
<1>4. target \in Gens /\ target # 0 /\ target # Free
  BY <1>2, ForwGsetFacts DEF Free
<1>5. \A a \in tospace : a \in Allocated /\ a \notin FromSpace
  BY <1>1, <1>4 DEF TypeOK, CopiesInv, Allocated, FromSpace
<1>6. \A i \in Gens : i > target => i \notin ForwGset(target, how)
  BY <1>2, <1>4, ForwGsetFacts, GensArithmetic
<1>7. \A o \in Allocated : gen[o] > target =>
        o \notin FromSpace /\ \A a \in FromSpace : gen[a] < gen[o]
  BY <1>2, <1>3, <1>6, ForwGsetFacts DEF FromSpace
<1>8. \A a \in FromSpace : a \in Allocated  BY DEF FromSpace
<1>9. ~(target > target)  BY <1>2
<1> QED  BY <1>9, <1>1, <1>2, <1>3, <1>4, <1>5, <1>7, <1>8, ForwGsetFacts

(* A slot that does not lead into from-space is left as it is.             *)
LEMMA SkipInv ==
  ASSUME IInv, TypeOK', NEW s \in left, ForwardSlot(s), Skip(s)
  PROVE  IInv'
<1>0. /\ phase = "gc" /\ phase' = "gc" /\ left' = left \ {s}
      /\ UNCHANGED <<ssb, remset, target, how, clearAreas, clearRemsets, entries, obj>>
  BY DEF ForwardSlot, logVars
<1> USE <1>0
<1>1. /\ UNCHANGED <<gen, large, mem, fwd, tospace, grey, Allocated, FromSpace, Survivors>>
  BY DEF Skip, heapVars, Allocated, FromSpace, Survivors, ForwGset
<1> USE <1>1
<1>2. FreeInv' /\ PointersInv' /\ OneCopyEach' /\ SsbHasRoom'
  BY <1>1, CollectorFacts DEF FreeInv, PointersInv, OneCopyEach, SsbHasRoom
<1>3. RegistersInv' /\ CopiesInv' /\ OlderRemsetsInv' /\ OlderEntriesInv'
  BY <1>1, CollectorFacts
  DEF RegistersInv, CopiesInv, OlderRemsetsInv, OlderEntriesInv, ForwGset
<1>4. mem[obj][s] \notin FromSpace
  BY CollectorFacts DEF Skip, Pointee, NeedsForward, FromSpace
<1>5. ColourInv'
  BY <1>1, <1>4, CollectorFacts DEF ColourInv, Pending
<1> QED  BY <1>2, <1>3, <1>5 DEF IInv, HeapInv, CollectorInv

(* A slot that leads to a copied object is made to lead to its copy.       *)
LEMMA FollowInv ==
  ASSUME IInv, TypeOK', NEW s \in left, ForwardSlot(s), Follow(s)
  PROVE  IInv'
<1> DEFINE w == Pointee(s)
           copy == fwd[w]
<1>0. /\ phase = "gc" /\ phase' = "gc" /\ left' = left \ {s}
      /\ UNCHANGED <<ssb, remset, target, how, clearAreas, clearRemsets, entries, obj>>
  BY DEF ForwardSlot, logVars
<1> USE <1>0
<1>1. /\ UNCHANGED <<gen, large, fwd, tospace, grey, Allocated, FromSpace, Survivors>>
      /\ mem' = [mem EXCEPT ![obj][s] = copy] /\ copy # Nil /\ NeedsForward(w)
      /\ w = mem[obj][s]
  BY DEF Follow, Pointee, Allocated, FromSpace, Survivors, ForwGset
<1> USE <1>1
<1>2. /\ obj \in Survivors /\ obj \notin FromSpace /\ obj \in Addr \cup {Globals}
      /\ s \in SlotsOf(obj) /\ s \in Slots
  BY CollectorFacts DEF RegistersInv, Survivors, FromSpace, TypeOK
<1>3. w \in FromSpace \ large /\ w \in Addr /\ copy \in tospace
  <2>1. w \in Word /\ w # Nil  BY <1>2, CollectorFacts DEF TypeOK, NeedsForward
  <2> QED  BY <2>1, CollectorFacts DEF CopiesInv, Word
<1>4. /\ copy \in Allocated /\ copy \notin FromSpace /\ gen[copy] = target /\ copy # Nil
  BY <1>3, CollectorFacts DEF CopiesInv
<1>5. \A o \in Addr \cup {Globals}, f \in Slots :
        mem'[o][f] = IF o = obj /\ f = s THEN copy ELSE mem[o][f]
  BY <1>2, CollectorFacts DEF TypeOK
<1> HIDE DEF w, copy
<1>6. FreeInv' /\ OneCopyEach' /\ SsbHasRoom'
  BY <1>1, CollectorFacts DEF FreeInv, OneCopyEach, SsbHasRoom
<1>7. PointersInv'
  BY <1>1, <1>2, <1>4, <1>5, CollectorFacts DEF PointersInv, SlotsOf, Allocated
<1>8. RegistersInv' /\ CopiesInv'
  BY <1>1, CollectorFacts DEF RegistersInv, CopiesInv, ForwGset, SlotsOf
<1>9. ColourInv'
  <2>1. ASSUME NEW o \in Survivors, NEW f \in Slots, mem'[o][f] \in FromSpace
        PROVE  Pending(o, f)'
    BY <2>1, <1>1, <1>4, <1>5, CollectorFacts DEF ColourInv, Pending, Survivors
  <2>2. ASSUME NEW o \in Allocated \cup {Globals}, NEW f \in Slots,
               Pending(o, f)' \/ o \in FromSpace
        PROVE  mem'[o][f] \notin tospace \ large
    <3>1. ~(o = obj /\ f = s)
      BY <2>2, <1>2, CollectorFacts DEF Pending, RegistersInv
    <3>2. Pending(o, f) \/ o \in FromSpace  BY <2>2 DEF Pending
    <3> QED  BY <3>1, <3>2, <1>5, CollectorFacts DEF ColourInv
  <2> QED  BY <2>1, <2>2, <1>1 DEF ColourInv
<1>10. OlderRemsetsInv'
  <2>1. ASSUME NEW o \in Allocated, gen[o] > target, NEW f \in Fields,
               mem'[o][f] # Nil, gen[mem'[o][f]] < gen[o]
        PROVE  o \in remset[gen[o]]
    <3>1. CASE o = obj /\ f = s
      <4>1. gen[w] < gen[o] /\ w # Nil  BY <2>1, <1>3, CollectorFacts
      <4> QED  BY <4>1, <3>1, <2>1, CollectorFacts DEF OlderRemsetsInv, w
    <3>2. CASE ~(o = obj /\ f = s)
      BY <3>2, <2>1, <1>5, CollectorFacts DEF OlderRemsetsInv, Slots
    <3> QED  BY <3>1, <3>2
  <2> QED  BY <2>1, <1>1 DEF OlderRemsetsInv
<1>11. OlderEntriesInv'
  BY <1>1, CollectorFacts DEF OlderEntriesInv
<1> QED  BY <1>6, <1>7, <1>8, <1>9, <1>10, <1>11 DEF IInv, HeapInv, CollectorInv

(* A large object is not moved: it changes its generation and is scanned.  *)
LEMMA MarkInv ==
  ASSUME IInv, TypeOK', NEW s \in left, ForwardSlot(s), Mark(s)
  PROVE  IInv'
<1> DEFINE w == Pointee(s)
<1>0. /\ phase = "gc" /\ phase' = "gc" /\ left' = left \ {s}
      /\ UNCHANGED <<ssb, remset, target, how, clearAreas, clearRemsets, entries, obj>>
      /\ UNCHANGED <<large, mem, fwd>>
  BY DEF ForwardSlot, Mark, logVars
<1> USE <1>0
<1>1. /\ NeedsForward(w) /\ w \in large /\ gen' = [gen EXCEPT ![w] = target]
      /\ tospace' = tospace \cup {w} /\ grey' = IF w \in tospace THEN grey ELSE grey \cup {w}
      /\ mem[obj][s] = w
  BY DEF Mark, Pointee
<1>2. obj \in Survivors /\ obj \notin FromSpace /\ obj \in Addr \cup {Globals} /\ s \in Slots
  BY CollectorFacts DEF RegistersInv, Survivors, FromSpace, TypeOK
<1>3. w \in Addr /\ w \in Allocated /\ w # Globals /\ gen[w] \in ForwGset(target, how)
  <2>1. w \in Word /\ w # Nil /\ gen[w] \in ForwGset(target, how)
    BY <1>1, <1>2, CollectorFacts DEF TypeOK, NeedsForward
  <2> QED  BY <2>1, <1>1, <1>2, CollectorFacts DEF PointersInv, Survivors
<1>5. CASE w \in tospace
  <2>1. gen[w] = target  BY <1>5, CollectorFacts DEF CopiesInv
  <2>2. UNCHANGED <<gen, tospace, grey>>  BY <1>1, <1>5, <2>1, CollectorFacts DEF TypeOK
  <2>3. UNCHANGED <<Allocated, FromSpace, Survivors>>
    BY <2>2 DEF Allocated, FromSpace, Survivors, ForwGset
  <2>4. FreeInv' /\ PointersInv' /\ OneCopyEach' /\ SsbHasRoom'
    BY <2>2, <2>3, CollectorFacts DEF FreeInv, PointersInv, OneCopyEach, SsbHasRoom
  <2>5. RegistersInv' /\ CopiesInv' /\ OlderRemsetsInv' /\ OlderEntriesInv'
    BY <2>2, <2>3, CollectorFacts
    DEF RegistersInv, CopiesInv, OlderRemsetsInv, OlderEntriesInv, ForwGset
  <2>6. ColourInv'
    BY <1>1, <1>5, <2>2, <2>3, CollectorFacts DEF ColourInv, Pending
  <2> QED  BY <2>4, <2>5, <2>6 DEF IInv, HeapInv, CollectorInv
<1>6. CASE w \notin tospace
  <2> HIDE DEF w
  <2>1. w \in FromSpace  BY <1>3, <1>6 DEF FromSpace
  <2>2. /\ w # obj /\ grey' = grey \cup {w}  BY <1>1, <1>2, <1>6, <2>1 DEF Survivors
  <2>3. gen'[w] = target /\ \A a \in Addr : a # w => gen'[a] = gen[a]
    BY <1>3, <1>1, CollectorFacts DEF TypeOK
  <2>4. Allocated' = Allocated
    BY <1>3, <2>3, CollectorFacts, GensArithmetic DEF Allocated
  <2>5. FromSpace' = FromSpace \ {w}
    BY <1>1, <2>3, <2>4, CollectorFacts DEF FromSpace, ForwGset
  <2>6. Survivors' = Survivors \cup {w}
    BY <1>3, <2>4, <2>5 DEF Survivors
  <2>7. FreeInv' /\ OneCopyEach' /\ SsbHasRoom'
    BY <1>3, <1>1, <2>3, <2>4, CollectorFacts, GensArithmetic
    DEF FreeInv, OneCopyEach, SsbHasRoom
  <2>8. PointersInv'  BY <2>4, CollectorFacts DEF PointersInv, SlotsOf
  <2>9. RegistersInv'
    <3>1. w \notin entries  BY <1>3, CollectorFacts DEF RegistersInv
    <3>2. \A o \in entries : gen'[o] = gen[o]
      BY <3>1, <2>3, CollectorFacts DEF TypeOK
    <3> QED  BY <1>1, <2>2, <2>4, <2>6, <3>1, <3>2, CollectorFacts
             DEF RegistersInv, ForwGset, SlotsOf
  <2>10. CopiesInv'
    <3>1. fwd[w] = Nil  BY <1>3, <1>1, CollectorFacts DEF CopiesInv
    <3> QED  BY <1>3, <1>1, <2>3, <2>5, <3>1, CollectorFacts DEF CopiesInv, TypeOK
  <2>11. ColourInv'
    <3>1. ASSUME NEW o \in Survivors', NEW f \in Slots, mem'[o][f] \in FromSpace'
          PROVE  Pending(o, f)'
      BY <3>1, <1>1, <2>2, <2>5, <2>6, CollectorFacts DEF ColourInv, Pending
    <3>2. ASSUME NEW o \in Allocated \cup {Globals}, NEW f \in Slots,
                 Pending(o, f)' \/ o \in FromSpace'
          PROVE  mem'[o][f] \notin tospace' \ large'
      <4>1. Pending(o, f) \/ o \in FromSpace  BY <3>2, <2>1, <2>2, <2>5 DEF Pending
      <4> QED  BY <4>1, <1>1, CollectorFacts DEF ColourInv
    <3> QED  BY <3>1, <3>2, <2>4 DEF ColourInv
  <2>12. OlderRemsetsInv'
    <3>1. ASSUME NEW o \in Allocated, gen'[o] > target, NEW f \in Fields,
                 mem[o][f] # Nil, gen'[mem[o][f]] < gen'[o]
          PROVE  o \in remset[gen'[o]]
      <4>1. o # w /\ gen'[o] = gen[o]  BY <3>1, <2>3, CollectorFacts
      <4>2. mem[o][f] \in Allocated
        BY <3>1, CollectorFacts DEF PointersInv, Slots
      <4>3. gen[mem[o][f]] < gen[o]
        BY <3>1, <4>1, <4>2, <2>1, <2>3, CollectorFacts
      <4> QED  BY <3>1, <4>1, <4>3, CollectorFacts DEF OlderRemsetsInv
    <3> QED  BY <3>1, <2>4, <1>0 DEF OlderRemsetsInv
  <2>13. OlderEntriesInv'
    <3>1. \A g \in Gens : g > target => w \notin remset[g]
      BY <2>1, CollectorFacts DEF OlderEntriesInv
    <3> QED  BY <2>3, <2>4, <3>1, CollectorFacts DEF OlderEntriesInv
  <2> QED
    BY <2>7, <2>8, <2>9, <2>10, <2>11, <2>12, <2>13 DEF IInv, HeapInv, CollectorInv
<1> QED  BY <1>5, <1>6

(* A small object is copied: the copy is scanned later, and its slots lead *)
(* to where those of the original do.                                      *)
LEMMA CopyInv ==
  ASSUME IInv, TypeOK', NEW s \in left, ForwardSlot(s), NEW new \in Addr, Copy(s, new)
  PROVE  IInv'
<1> DEFINE w == Pointee(s)
<1>0. /\ phase = "gc" /\ phase' = "gc" /\ left' = left \ {s}
      /\ UNCHANGED <<ssb, remset, target, how, clearAreas, clearRemsets, entries, obj, large>>
  BY DEF ForwardSlot, Copy, logVars
<1> USE <1>0
<1>1. /\ NeedsForward(w) /\ fwd[w] = Nil /\ w \notin large /\ new \in SpareAddrs(w)
      /\ gen' = [gen EXCEPT ![new] = target] /\ fwd' = [fwd EXCEPT ![w] = new]
      /\ mem' = [mem EXCEPT ![new] = mem[w], ![obj][s] = new]
  BY DEF Copy, Pointee
<1>a. /\ tospace' = tospace \cup {new} /\ grey' = grey \cup {new}
       /\ mem[obj][s] = w /\ fwd[w] = Nil /\ w \notin large
  BY DEF Copy, Pointee
<1>2. /\ obj \in Survivors /\ obj \notin FromSpace /\ obj \in Addr \cup {Globals}
      /\ obj \notin entries /\ obj \notin grey /\ s \in SlotsOf(obj) /\ s \in Slots
  BY CollectorFacts DEF RegistersInv, Survivors, FromSpace, TypeOK
<1>3. w \in FromSpace /\ w \in Allocated /\ w # Globals
  <2>1. w \in Word /\ w # Nil /\ gen[w] \in ForwGset(target, how)
    BY <1>1, <1>a, <1>2, CollectorFacts DEF TypeOK, NeedsForward
  <2>2. w \in Allocated  BY <2>1, <1>a, <1>2, CollectorFacts DEF PointersInv, Survivors
  <2>3. w \notin tospace
    BY <1>a, <1>2, CollectorFacts DEF ColourInv, Pending, Survivors
  <2> QED  BY <2>1, <2>2, <2>3, CollectorFacts DEF FromSpace
<1>4. /\ new \in Addr /\ new[1] = w[1] /\ gen[new] = Free /\ new # Nil /\ new # Globals
      /\ new \notin Allocated
  BY <1>1, GenGCAssumption DEF SpareAddrs, Allocated
<1>5. /\ fwd[new] = Nil /\ new \notin large /\ new \notin tospace
  BY <1>4, CollectorFacts DEF FreeInv
<1>6. new # w /\ new # obj /\ obj # w
  BY <1>2, <1>3, <1>4 DEF Survivors
<1>7. gen'[new] = target /\ \A a \in Addr : a # new => gen'[a] = gen[a]
  BY <1>1, <1>4, CollectorFacts DEF TypeOK
<1>8. fwd'[w] = new /\ \A a \in Addr : a # w => fwd'[a] = fwd[a]
  BY <1>1, <1>3, CollectorFacts DEF TypeOK
<1>10. \A o \in Addr \cup {Globals}, f \in Slots :
         mem'[o][f] = IF o = new THEN mem[w][f]
                      ELSE IF o = obj /\ f = s THEN new ELSE mem[o][f]
  BY <1>1, <1>2, <1>3, <1>4, <1>6, CollectorFacts DEF TypeOK
<1>9. /\ \A f \in Slots : mem'[new][f] = mem[w][f]
      /\ mem'[obj][s] = new
      /\ \A o \in Addr \cup {Globals}, f \in Slots :
           (o # new /\ ~(o = obj /\ f = s)) => mem'[o][f] = mem[o][f]
  BY <1>2, <1>4, <1>6, <1>10
<1> HIDE DEF w
<1>11. Allocated' = Allocated \cup {new}
  BY <1>4, <1>7, CollectorFacts, GensArithmetic DEF Allocated
<1>12. FromSpace' = FromSpace
  BY <1>4, <1>7, <1>a, <1>11, CollectorFacts DEF FromSpace, ForwGset
<1>13. Survivors' = Survivors \cup {new}
  BY <1>4, <1>11, <1>12, CollectorFacts DEF Survivors
<1>14. \A o \in Allocated \cup {Globals}, f \in Slots : mem[o][f] # new
  BY <1>4, CollectorFacts DEF PointersInv
<1>15. FreeInv'
  <2>1. ASSUME NEW a \in Addr, gen'[a] = Free PROVE a # new /\ a # w /\ gen[a] = Free
    BY <2>1, <1>3, <1>7, CollectorFacts, GensArithmetic DEF Allocated
  <2> QED  BY <2>1, <1>8, <1>a, CollectorFacts DEF FreeInv
<1>16. PointersInv'
  BY <1>2, <1>3, <1>4, <1>9, <1>11, CollectorFacts DEF PointersInv, SlotsOf
<1>17. OneCopyEach'
  <2>1. ASSUME NEW a \in Allocated, fwd'[a] = Nil, a[1] = new[1] PROVE FALSE
    <3>1. a # w /\ fwd[a] = Nil  BY <2>1, <1>4, <1>8, CollectorFacts
    <3> QED  BY <3>1, <2>1, <1>3, <1>4, <1>a, CollectorFacts DEF OneCopyEach
  <2>2. \A a \in Allocated : fwd'[a] = Nil => fwd[a] = Nil
    BY <1>8, <1>a, CollectorFacts
  <2> QED  BY <2>1, <2>2, <1>11, CollectorFacts DEF OneCopyEach
<1>18. SsbHasRoom'  BY CollectorFacts DEF SsbHasRoom
<1>19. RegistersInv'
  <2>1. new \notin entries  BY <1>4, CollectorFacts DEF RegistersInv
  <2>2. \A o \in entries : gen'[o] = gen[o]
    BY <2>1, <1>7, CollectorFacts DEF TypeOK
  <2> QED  BY <1>2, <1>6, <1>a, <1>11, <1>13, <2>1, <2>2, CollectorFacts
           DEF RegistersInv, ForwGset, SlotsOf
<1>20. CopiesInv'
  <2>1. w \notin tospace  BY <1>3, CollectorFacts
  <2>2. \A a \in tospace' : gen'[a] = target' /\ fwd'[a] = Nil
    BY <2>1, <1>4, <1>5, <1>6, <1>7, <1>8, <1>a, CollectorFacts DEF CopiesInv
  <2>3. \A a \in Addr : fwd'[a] # Nil => a \in FromSpace' \ large' /\ fwd'[a] \in tospace'
    BY <1>3, <1>8, <1>a, <1>12, CollectorFacts DEF CopiesInv
  <2> QED  BY <2>2, <2>3 DEF CopiesInv
<1>21. ColourInv'
  <2>1. ASSUME NEW o \in Survivors', NEW f \in Slots, mem'[o][f] \in FromSpace'
        PROVE  Pending(o, f)'
    <3>1. CASE o = new  BY <3>1, <1>a DEF Pending
    <3>2. CASE o # new
      <4>1. o \in Survivors /\ o \in Addr \cup {Globals}
        BY <3>2, <1>13, CollectorFacts DEF Survivors
      <4>2. new \notin FromSpace'  BY <1>4, <1>12, CollectorFacts
      <4>3. ~(o = obj /\ f = s) /\ mem[o][f] \in FromSpace
        BY <2>1, <3>2, <4>1, <4>2, <1>9, <1>12
      <4> QED  BY <4>1, <4>3, <1>a, CollectorFacts DEF ColourInv, Pending
    <3> QED  BY <3>1, <3>2
  <2>2. ASSUME NEW o \in Allocated', NEW f \in Slots, Pending(o, f)' \/ o \in FromSpace'
        PROVE  mem'[o][f] \notin tospace' \ large'
    <3>1. CASE o = new
      <4>1. mem'[o][f] = mem[w][f]  BY <3>1, <1>4, <1>9
      <4> QED  BY <4>1, <1>3, <1>a, <1>14, CollectorFacts DEF ColourInv
    <3>2. CASE o # new
      <4>1. o \in Allocated /\ o \in Addr  BY <3>2, <1>11, CollectorFacts
      <4>2. Pending(o, f) \/ o \in FromSpace
        BY <2>2, <3>2, <1>a, <1>12 DEF Pending
      <4>3. ~(o = obj /\ f = s)  BY <2>2, <1>2, <1>6, <1>a, <1>12 DEF Pending
      <4> QED  BY <3>2, <4>1, <4>2, <4>3, <1>9, <1>a, <1>14, CollectorFacts DEF ColourInv
    <3> QED  BY <3>1, <3>2
  <2>3. ASSUME NEW f \in Slots, Pending(Globals, f)' \/ Globals \in FromSpace'
        PROVE  mem'[Globals][f] \notin tospace' \ large'
    <3>1. Globals \notin FromSpace  BY CollectorFacts
    <3>2. Pending(Globals, f) /\ ~(Globals = obj /\ f = s)
      BY <2>3, <3>1, <1>2, <1>4, <1>a, <1>12 DEF Pending
    <3> QED  BY <3>2, <1>4, <1>9, <1>a, <1>14, CollectorFacts DEF ColourInv
  <2> QED  BY <2>1, <2>2, <2>3 DEF ColourInv
<1>22. OlderRemsetsInv'
  <2>1. ASSUME NEW o \in Allocated', gen'[o] > target, NEW f \in Fields,
               mem'[o][f] # Nil, gen'[mem'[o][f]] < gen'[o]
        PROVE  o \in remset[gen'[o]]
    <3>1. o # new /\ o \in Allocated /\ o \in Addr /\ gen'[o] = gen[o] /\ f \in Slots
      BY <2>1, <1>7, <1>11, CollectorFacts DEF Slots
    <3>2. CASE o = obj /\ f = s
      <4>1. gen[w] < gen[o] /\ w # Nil  BY <2>1, <3>1, <1>3, CollectorFacts
      <4> QED  BY <4>1, <3>1, <3>2, <2>1, <1>a, CollectorFacts DEF OlderRemsetsInv
    <3>3. CASE ~(o = obj /\ f = s)
      <4>1. mem'[o][f] = mem[o][f] /\ mem[o][f] \in Allocated
        BY <2>1, <3>1, <3>3, <1>9, CollectorFacts DEF PointersInv
      <4>2. gen'[mem[o][f]] = gen[mem[o][f]]
        BY <4>1, <1>4, <1>7, CollectorFacts
      <4> QED  BY <4>1, <4>2, <3>1, <2>1, CollectorFacts DEF OlderRemsetsInv
    <3> QED  BY <3>2, <3>3
  <2> QED  BY <2>1, <1>0 DEF OlderRemsetsInv
<1>23. OlderEntriesInv'
  BY <1>4, <1>7, <1>11, CollectorFacts DEF OlderEntriesInv
<1> QED
  BY <1>15, <1>16, <1>17, <1>18, <1>19, <1>20, <1>21, <1>22, <1>23
  DEF IInv, HeapInv, CollectorInv

(* The scan of a remembered object: all its slots become pending at once,  *)
(* and its entry goes only if it is of no use to a later collection.       *)
LEMMA ScanEntryInv ==
  ASSUME IInv, TypeOK', NEW o \in entries, ScanEntry(o)
  PROVE  IInv'
<1>1. /\ phase = "gc" /\ phase' = "gc" /\ left = {} /\ left' = Fields /\ obj' = o
      /\ entries' = entries \ {o}
      /\ UNCHANGED <<gen, large, mem, fwd, ssb, target, how, clearAreas, clearRemsets,
                     tospace, grey>>
  BY DEF ScanEntry, heapVars
<1> USE <1>1
<1>2. /\ o \in Allocated /\ o \notin tospace /\ o \notin FromSpace /\ gen[o] # 0
      /\ o \notin grey
  BY CollectorFacts DEF RegistersInv, FromSpace, TypeOK
<1>3. UNCHANGED <<Allocated, FromSpace, Survivors>>
  BY DEF Allocated, FromSpace, Survivors, ForwGset
<1>4. /\ remset' \in [Gens -> SUBSET Addr]
      /\ \A g \in Gens : remset'[g] \subseteq remset[g]
      /\ \A a \in Addr, g \in Gens :
           (a \in remset[g] /\ (a # o \/ HasIntergenPtr(o))) => a \in remset'[g]
  BY CollectorFacts DEF ScanEntry, TypeOK
<1>5. FreeInv' /\ PointersInv' /\ OneCopyEach' /\ SsbHasRoom'
  BY <1>3, CollectorFacts DEF FreeInv, PointersInv, OneCopyEach, SsbHasRoom
<1>6. RegistersInv'
  BY <1>2, <1>3, CollectorFacts DEF RegistersInv, Survivors, SlotsOf, ForwGset
<1>7. CopiesInv'  BY <1>3, CollectorFacts DEF CopiesInv
<1>8. ColourInv'
  <2>1. ASSUME NEW a \in Survivors, NEW s \in Slots, mem[a][s] \in FromSpace
        PROVE  Pending(a, s)'
    <3>1. a \in entries \/ a \in grey  BY <2>1, CollectorFacts DEF ColourInv, Pending
    <3>2. a = o => s \in Fields
      BY <2>1, <1>2, CollectorFacts DEF PointersInv, SlotsOf
    <3> QED  BY <3>1, <3>2 DEF Pending
  <2>2. \A a, s : Pending(a, s)' => Pending(a, s)  BY DEF Pending
  <2> QED  BY <2>1, <2>2, <1>3, CollectorFacts DEF ColourInv
<1>9. OlderRemsetsInv'
  BY <1>3, <1>4, CollectorFacts DEF OlderRemsetsInv, HasIntergenPtr
<1>10. OlderEntriesInv'
  BY <1>3, <1>4, CollectorFacts, GensArithmetic DEF OlderEntriesInv
<1> QED  BY <1>5, <1>6, <1>7, <1>8, <1>9, <1>10 DEF IInv, HeapInv, CollectorInv

(* The scan of an object of to-space.                                      *)
LEMMA ScanTospaceInv ==
  ASSUME IInv, TypeOK', NEW o \in grey, ScanTospace(o)
  PROVE  IInv'
<1>1. /\ phase = "gc" /\ phase' = "gc" /\ left = {} /\ left' = Fields /\ obj' = o
      /\ entries = {} /\ entries' = {} /\ grey' = grey \ {o}
      /\ UNCHANGED <<gen, large, mem, fwd, ssb, remset, target, how, clearAreas,
                     clearRemsets, tospace>>
  BY DEF ScanTospace, heapVars, logVars
<1> USE <1>1
<1>2. o \in Allocated /\ o \in tospace /\ o \notin FromSpace
  BY CollectorFacts DEF TypeOK
<1>3. UNCHANGED <<Allocated, FromSpace, Survivors>>
  BY DEF Allocated, FromSpace, Survivors, ForwGset
<1>4. FreeInv' /\ PointersInv' /\ OneCopyEach' /\ SsbHasRoom'
  BY <1>3, CollectorFacts DEF FreeInv, PointersInv, OneCopyEach, SsbHasRoom
<1>5. RegistersInv'
  BY <1>2, <1>3, CollectorFacts DEF RegistersInv, Survivors, SlotsOf, ForwGset
<1>6. CopiesInv' /\ OlderRemsetsInv' /\ OlderEntriesInv'
  BY <1>3, CollectorFacts DEF CopiesInv, OlderRemsetsInv, OlderEntriesInv
<1>7. ColourInv'
  <2>1. ASSUME NEW a \in Survivors, NEW s \in Slots, mem[a][s] \in FromSpace
        PROVE  Pending(a, s)'
    <3>1. a \in grey  BY <2>1, CollectorFacts DEF ColourInv, Pending
    <3>2. a = o => s \in Fields
      BY <2>1, <1>2, CollectorFacts DEF PointersInv, SlotsOf
    <3> QED  BY <3>1, <3>2 DEF Pending
  <2>2. \A a, s : Pending(a, s)' => Pending(a, s)  BY DEF Pending
  <2> QED  BY <2>1, <2>2, <1>3, CollectorFacts DEF ColourInv
<1> QED  BY <1>4, <1>5, <1>6, <1>7 DEF IInv, HeapInv, CollectorInv

(* The flags set along the way of the bucket reclaim from-space.           *)
LEMMA FinishFrees ==
  ASSUME IInv, phase = "gc"
  PROVE  Reclaimed = FromSpace
<1>1. \A a \in Allocated : gen[a] \in Gens  BY CollectorFacts
<1>2. clearAreas = 1 .. (target - 1)  BY CollectorFacts DEF RegistersInv
<1>3. \A i \in Gens : i \in ForwGset(target, how) <=>
        (i = 0 \/ i \in clearAreas \/ (i = target /\ how = "collect"))
  BY <1>2, CollectorFacts, GenGCAssumption, GensArithmetic DEF Gens
<1> QED  BY <1>1, <1>3 DEF Reclaimed, FromSpace

(* The end of a collection: what is reclaimed is from-space, and no slot   *)
(* of what survives leads into it any more.                                *)
LEMMA FinishInv ==
  ASSUME IInv, TypeOK', FinishCollection
  PROVE  IInv'
<1>1. /\ phase = "gc" /\ left = {} /\ entries = {} /\ grey = {}
      /\ gen' = [a \in Addr |-> IF a \in Reclaimed THEN Free ELSE gen[a]]
      /\ large' = large \ Reclaimed
      /\ mem' = [o \in Addr \cup {Globals} |-> IF o \in Reclaimed THEN NoSlots ELSE mem[o]]
      /\ fwd' = [a \in Addr |-> IF a \in Reclaimed THEN Nil ELSE fwd[a]]
      /\ remset' = [g \in Gens |-> IF g \in clearRemsets THEN {} ELSE remset[g]]
      /\ phase' = "mutator" /\ tospace' = {} /\ UNCHANGED <<ssb, entries, left, grey>>
  BY DEF FinishCollection
<1>2. Reclaimed = FromSpace  BY <1>1, FinishFrees
<1>3. /\ \A a \in FromSpace : gen'[a] = Free /\ fwd'[a] = Nil /\ a \notin large'
      /\ \A a \in Addr \ FromSpace : gen'[a] = gen[a] /\ fwd'[a] = fwd[a]
      /\ \A o \in (Addr \cup {Globals}) \ FromSpace : mem'[o] = mem[o]
      /\ large' \subseteq large
  BY <1>1, <1>2, CollectorFacts
<1>4. Allocated' = Allocated \ FromSpace
  BY <1>3, CollectorFacts DEF Allocated
<1>5. \A o \in Survivors, s \in Slots : mem[o][s] \notin FromSpace
  BY <1>1, CollectorFacts DEF ColourInv, Pending
<1>6. \A a \in Addr : fwd'[a] = Nil
  BY <1>1, <1>3, CollectorFacts DEF CopiesInv
<1>7. FreeInv'  BY <1>1, <1>3, <1>6, CollectorFacts DEF FreeInv
<1>8. PointersInv'
  <2>1. ASSUME NEW o \in Allocated' \cup {Globals}, NEW s \in Slots, mem'[o][s] # Nil
        PROVE  mem'[o][s] \in Allocated' /\ s \in SlotsOf(o)
    <3>1. o \in Survivors /\ o \in (Addr \cup {Globals}) \ FromSpace
      BY <1>1, <1>4, CollectorFacts DEF Survivors
    <3>2. mem'[o][s] = mem[o][s]  BY <3>1, <1>3
    <3> QED  BY <2>1, <3>1, <3>2, <1>1, <1>4, <1>5, CollectorFacts
             DEF PointersInv, Survivors
  <2> QED  BY <2>1 DEF PointersInv, SlotsOf
<1>9. OneCopyEach'
  BY <1>1, <1>3, <1>4, CollectorFacts DEF OneCopyEach, CopiesInv
<1>10. SsbHasRoom' /\ LogsInv'
  BY <1>1, CollectorFacts, EmptyLogsFacts DEF SsbHasRoom, LogsInv, Logged, RegistersInv
<1>11. QuietInv'  BY <1>1, <1>6 DEF QuietInv
(* What survives is in the target or beyond it.                            *)
<1>12. \A a \in Allocated' : a \in Allocated /\ gen'[a] = gen[a] /\ gen[a] >= target
  <2>1. ASSUME NEW a \in Allocated, a \notin FromSpace PROVE gen[a] >= target
    <3>1. CASE a \in tospace
      <4>1. gen[a] = target /\ target \in Gens
        BY <3>1, <1>1, CollectorFacts DEF CopiesInv
      <4>2. target \in Int  BY <4>1, GensArithmetic
      <4> QED  BY <4>1, <4>2
    <3>2. CASE a \notin tospace
      <4>1. gen[a] \in Gens /\ ~(gen[a] < target)
        BY <2>1, <3>2, <1>1, CollectorFacts DEF FromSpace
      <4>2. gen[a] \in Int /\ target \in Int  BY <4>1, <1>1, CollectorFacts, GensArithmetic
      <4> QED  BY <4>1, <4>2
    <3> QED  BY <3>1, <3>2
  <2> QED  BY <2>1, <1>1, <1>3, <1>4, CollectorFacts
<1>13. \A g \in Gens : g > target => remset'[g] = remset[g]
  BY <1>1, CollectorFacts DEF RegistersInv
<1>14. RemsetComplete'
  <2>1. ASSUME NEW o \in Allocated', NEW f \in Fields, mem'[o][f] # Nil,
               gen'[mem'[o][f]] < gen'[o]
        PROVE  o \in remset'[gen'[o]]
    <3>1. mem'[o][f] = mem[o][f] /\ f \in Slots
      BY <1>1, <1>3, <1>4, CollectorFacts DEF Slots
    <3>2. mem[o][f] \in Allocated'  BY <2>1, <3>1, <1>8 DEF PointersInv
    <3>3. gen[mem[o][f]] < gen[o] /\ gen[mem[o][f]] >= target
      BY <2>1, <3>1, <3>2, <1>12
    <3>4. gen[o] \in Gens /\ gen[o] > target
      <4>1. /\ gen[o] \in Gens /\ gen[mem[o][f]] \in Gens /\ target \in Gens
        BY <2>1, <3>2, <1>1, <1>12, CollectorFacts
      <4>2. gen[o] \in Int /\ gen[mem[o][f]] \in Int /\ target \in Int
        BY <4>1, GensArithmetic
      <4> QED  BY <4>1, <4>2, <3>3
    <3>5. o \in remset[gen[o]]
      BY <2>1, <3>1, <3>3, <3>4, <1>1, <1>12, CollectorFacts DEF OlderRemsetsInv
    <3> QED  BY <2>1, <3>4, <3>5, <1>12, <1>13
  <2> QED  BY <2>1 DEF RemsetComplete
<1>15. RemsetsInv'
  <2>1. ASSUME NEW g \in Gens, NEW o \in remset'[g]
        PROVE  o \in Allocated' /\ gen'[o] = g /\ g # 0
    <3>1. g \notin clearRemsets /\ o \in remset[g]  BY <2>1, <1>1
    <3>2. g > target /\ g # 0
      <4>1. g # 0 /\ clearRemsets = 1 .. target
        BY <3>1, <1>1, CollectorFacts DEF OlderEntriesInv, RegistersInv
      <4> QED  BY <4>1, <3>1, <1>1, CollectorFacts, GenGCAssumption DEF Gens, Static
    <3>3. o \in Allocated /\ gen[o] = g /\ o \notin FromSpace
      BY <3>1, <3>2, <1>1, CollectorFacts DEF OlderEntriesInv
    <3> QED  BY <3>2, <3>3, <1>1, <1>3, <1>4, CollectorFacts
  <2> QED  BY <2>1 DEF RemsetsInv
<1> QED
  BY <1>1, <1>7, <1>8, <1>9, <1>10, <1>11, <1>14, <1>15 DEF IInv, HeapInv, MutatorInv

LEMMA StutterInv == ASSUME IInv, TypeOK', UNCHANGED vars PROVE IInv'
<1>1. UNCHANGED <<heapVars, logVars, gcVars, Allocated, FromSpace, Survivors>>
  BY DEF vars, heapVars, logVars, gcVars, Allocated, FromSpace, Survivors, ForwGset
<1>2. HeapInv'
  BY <1>1 DEF IInv, HeapInv, FreeInv, PointersInv, OneCopyEach, SsbHasRoom, heapVars,
              logVars, gcVars
<1>3. MutatorInv => MutatorInv'
  BY <1>1 DEF MutatorInv, QuietInv, RemsetComplete, RemsetsInv, LogsInv, Logged,
              heapVars, logVars, gcVars
<1>4. CollectorInv => CollectorInv'
  BY <1>1 DEF CollectorInv, RegistersInv, CopiesInv, ColourInv, Pending, OlderRemsetsInv,
              OlderEntriesInv, heapVars, logVars, gcVars, ForwGset
<1> QED  BY <1>1, <1>2, <1>3, <1>4 DEF IInv, gcVars
-----------------------------------------------------------------------------
LEMMA InvStep == NoAreaSkipped /\ IInv /\ [Next]_vars => IInv'
<1> SUFFICES ASSUME NoAreaSkipped, IInv, [Next]_vars PROVE IInv'  OBVIOUS
<1>1. TypeOK'  BY TypeStep DEF IInv
<1>2. ASSUME NEW r \in Roots, Drop(r) PROVE IInv'
  BY <1>1, <1>2, RootChangeInv DEF Drop, Word
<1>3. ASSUME NEW r \in Roots, NEW q \in Roots, NEW f \in Fields, Load(r, q, f)
      PROVE  IInv'
  <2>1. Held(q) \in Allocated
    BY <1>3 DEF Load, IInv, HeapInv, PointersInv, Held, Slots
  <2>2. mem[Held(q)][f] \in Word /\ (mem[Held(q)][f] # Nil => mem[Held(q)][f] \in Allocated)
    BY <2>1 DEF IInv, TypeOK, HeapInv, PointersInv, Slots, Allocated
  <2> QED  BY <1>1, <1>3, <2>2, RootChangeInv DEF Load
<1>4. \A req \in Requests : req[1] \in Gens /\ req[2] \in Methods /\ FirstArea(req[1]) = 1
  BY GenGCAssumption DEF NoAreaSkipped
<1>5. 0 \in Gens /\ "promote" \in Methods /\ FirstArea(0) = 1
  BY GensArithmetic DEF Methods, FirstArea
<1>6. left # {} => (CHOOSE s \in left : TRUE) \in left  OBVIOUS
<1>7. ASSUME NEW s \in left, ForwardSlot(s) PROVE IInv'
  BY <1>1, <1>7, SkipInv, FollowInv, MarkInv, CopyInv DEF ForwardSlot
<1>8. CASE Mutator
  BY <1>1, <1>2, <1>3, <1>8, AllocateInv, StoreInv DEF Mutator
<1>9. CASE Collector
  BY <1>1, <1>6, <1>7, <1>9, ScanEntryInv, ScanTospaceInv, FinishInv DEF Collector
<1>10. CASE StartCollection(0, "promote")  BY <1>1, <1>5, <1>10, StartInv
<1>11. CASE \E req \in Requests : StartCollection(req[1], req[2])
  BY <1>1, <1>4, <1>11, StartInv
<1>12. CASE UNCHANGED vars  BY <1>1, <1>12, StutterInv
<1> QED  BY <1>8, <1>9, <1>10, <1>11, <1>12 DEF Next

(* Every reachable state is well typed, whatever the program requests:     *)
(* the collector of memmgr.c, old-heap.c and cheney.c never makes a word   *)
(* that is not an object's address.                                        *)
THEOREM TypeCorrect == Spec => []TypeOK
<1>1. Init => TypeOK  BY InitInv DEF IInv
<1> QED  BY <1>1, TypeStep, PTL DEF Spec

LEMMA InvHolds == NoAreaSkipped => (Spec => []IInv)
<1> SUFFICES ASSUME NoAreaSkipped PROVE Spec => []IInv  OBVIOUS
<1>1. Init => IInv  BY InitInv
<1>2. IInv /\ [Next]_vars => IInv'  BY InvStep
<1> QED  BY <1>1, <1>2, PTL DEF Spec

(* The write barrier, the filters, the compaction of the store buffers and *)
(* remset_scanner_oflo together never forget an old-to-young pointer.      *)
THEOREM RemsetsStayComplete == NoAreaSkipped => (Spec => []RemsetComplete)
<1>1. IInv => RemsetComplete  BY DEF IInv, MutatorInv, RemsetComplete
<1> QED  BY <1>1, InvHolds, PTL

(* No pointer of a live heap leads to reclaimed memory or to the old copy  *)
(* of an object once the mutator runs again.                               *)
THEOREM PointersStayGood == NoAreaSkipped => (Spec => []NoDanglingPointers)
<1>1. IInv => NoDanglingPointers
  BY DEF IInv, HeapInv, PointersInv, MutatorInv, QuietInv, NoDanglingPointers, Allocated
<1> QED  BY <1>1, InvHolds, PTL

(* forw_core never copies an object that it has already copied.            *)
THEOREM ObjectsStayUnique == NoAreaSkipped => (Spec => []OneCopyEach)
<1>1. IInv => OneCopyEach  BY DEF IInv, HeapInv
<1> QED  BY <1>1, InvHolds, PTL

(* The barrier has room for an entry before every store.                   *)
THEOREM BuffersNeverOverflow == NoAreaSkipped => (Spec => []SsbHasRoom)
<1>1. IInv => SsbHasRoom  BY DEF IInv, HeapInv
<1> QED  BY <1>1, InvHolds, PTL

(* after_collection leaves only live, unmoved objects in the remembered    *)
(* sets: those the collection made stale have been cleared.                *)
THEOREM EntriesStayFresh == NoAreaSkipped => (Spec => []NoStaleEntries)
<1>1. IInv => NoStaleEntries
  BY DEF IInv, MutatorInv, QuietInv, RemsetsInv, NoStaleEntries, Allocated
<1> QED  BY <1>1, InvHolds, PTL
-----------------------------------------------------------------------------
(* The graph as MCGenGC reads it off the memory.                           *)
Root == [r \in Roots |-> IdOf(mem[Globals][r])]
Heap == [o \in Objects |->
           IF Current(o) = {} THEN Nil
           ELSE LET a == CHOOSE b \in Current(o) : TRUE
                IN  [f \in Fields |-> IdOf(mem[a][f])]]
Fresh == {a \in Allocated : fwd[a] = Nil}
Contents(m, a) == [f \in Fields |-> IdOf(m[a][f])]

(* A forwarding pointer leads to a copy of the same object.                *)
SameObject == \A a \in Addr : fwd[a] # Nil => fwd[a][1] = a[1]
GraphInv == IInv /\ SameObject

(* An object is what its only fresh copy says; without one there is none.  *)
HeapShows ==
  /\ DOMAIN Heap = Objects /\ Heap = [o \in Objects |-> Heap[o]]
  /\ \A a \in Fresh : a[1] \in Objects /\ Heap[a[1]] = Contents(mem, a)
  /\ \A o \in Objects : (\A a \in Fresh : a[1] # o) => Heap[o] = Nil
-----------------------------------------------------------------------------
LEMMA Shows == IInv => HeapShows
<1> SUFFICES ASSUME IInv PROVE HeapShows  OBVIOUS
<1>1. DOMAIN Heap = Objects /\ Heap = [o \in Objects |-> Heap[o]]  BY DEF Heap
<1>2. ASSUME NEW a \in Fresh PROVE a[1] \in Objects /\ Heap[a[1]] = Contents(mem, a)
  <2>1. a[1] \in Objects /\ a \in Current(a[1])
    BY DEF Fresh, Allocated, Addr, Current
  <2>2. Current(a[1]) = {a}
    BY <2>1 DEF IInv, HeapInv, OneCopyEach, Current, Fresh
  <2>3. (CHOOSE b \in Current(a[1]) : TRUE) = a  BY <2>2
  <2> QED  BY <2>1, <2>3 DEF Heap, Contents
<1>3. ASSUME NEW o \in Objects, \A a \in Fresh : a[1] # o PROVE Heap[o] = Nil
  <2>1. Current(o) = {}  BY <1>3 DEF Current, Fresh
  <2> QED  BY <2>1 DEF Heap
<1> QED  BY <1>1, <1>2, <1>3 DEF HeapShows

LEMMA ShowsNext == IInv' => HeapShows'
BY Shows, PTL

(* Words of the memory and what they name.                                 *)
LEMMA Names ==
  ASSUME NEW w \in Word
  PROVE  IdOf(w) \in Objects \cup {Nil} /\ (IdOf(w) = Nil <=> w = Nil)
BY GraphAssumption DEF IdOf, Word, Addr

LEMMA ContentsType ==
  ASSUME NEW m \in [Addr \cup {Globals} -> [Slots -> Word]], NEW a \in Addr
  PROVE  /\ Contents(m, a) \in [Fields -> Objects \cup {Nil}] /\ Contents(m, a) # Nil
         /\ \A f \in Fields : Contents(m, a)[f] = IdOf(m[a][f])
<1>1. ASSUME NEW f \in Fields PROVE IdOf(m[a][f]) \in Objects \cup {Nil}
  BY Names DEF Slots
<1> QED  BY <1>1, GraphAssumption DEF Contents

(* A step that only moves objects leaves the heap of the graph alone.      *)
LEMMA SameHeap ==
  ASSUME IInv, IInv',
         \A a \in Fresh : \E b \in Fresh' : b[1] = a[1] /\ Contents(mem', b) = Contents(mem, a),
         \A b \in Fresh' : \E a \in Fresh : a[1] = b[1]
  PROVE  Heap' = Heap
<1>1. HeapShows /\ HeapShows'  BY Shows, ShowsNext
<1>2. ASSUME NEW o \in Objects PROVE Heap'[o] = Heap[o]
  <2>1. CASE \E a \in Fresh : a[1] = o
    <3>1. PICK a \in Fresh : a[1] = o  BY <2>1
    <3>2. PICK b \in Fresh' : b[1] = a[1] /\ Contents(mem', b) = Contents(mem, a)
      OBVIOUS
    <3> QED  BY <1>1, <3>1, <3>2 DEF HeapShows
  <2>2. CASE \A a \in Fresh : a[1] # o
    <3>1. \A b \in Fresh' : b[1] # o  BY <2>2
    <3> QED  BY <1>1, <2>2, <3>1 DEF HeapShows
  <2> QED  BY <2>1, <2>2
<1> QED  BY <1>1, <1>2 DEF HeapShows

(* Steps that leave the memory alone.                                      *)
LEMMA SameMemory ==
  ASSUME IInv, UNCHANGED <<mem, fwd>>, Allocated' = Allocated
  PROVE  UNCHANGED <<Root, Heap>>
<1>1. \A o : Current(o)' = Current(o)  BY DEF Current
<1> QED  BY <1>1 DEF Root, Heap
-----------------------------------------------------------------------------
(* The collector's steps but the last are stutters of the graph.           *)
LEMMA SameObjectInit == Init => SameObject
BY DEF Init, SameObject

LEMMA SameObjectStep == IInv /\ SameObject /\ [Next]_vars => SameObject'
<1> SUFFICES ASSUME IInv, SameObject, [Next]_vars PROVE SameObject'  OBVIOUS
<1>1. CASE UNCHANGED fwd  BY <1>1 DEF SameObject
<1>2. ASSUME NEW s \in left, NEW new \in Addr, phase = "gc", Copy(s, new) PROVE SameObject'
  <2>1. Pointee(s) \in Addr
    BY <1>2 DEF IInv, TypeOK, Copy, NeedsForward, Pointee, Word
  <2>2. /\ new[1] = Pointee(s)[1] /\ new # Nil
        /\ \A a \in Addr : fwd'[a] = IF a = Pointee(s) THEN new ELSE fwd[a]
    BY <1>2, <2>1, GenGCAssumption DEF Copy, SpareAddrs, IInv, TypeOK
  <2> QED  BY <2>2 DEF SameObject
<1>3. CASE FinishCollection
  BY <1>3 DEF FinishCollection, SameObject
<1>4. left # {} => (CHOOSE s \in left : TRUE) \in left  OBVIOUS
<1>5. CASE Mutator
  BY <1>1, <1>5 DEF Mutator, Allocate, Drop, Load, Store
<1>6. CASE Collector
  <2>1. ASSUME NEW s \in left, ForwardSlot(s) PROVE SameObject'
    BY <1>1, <1>2, <2>1 DEF ForwardSlot, Skip, Follow, Mark, heapVars
  <2> QED
    BY <1>1, <1>3, <1>4, <1>6, <2>1 DEF Collector, ScanEntry, ScanTospace, heapVars
<1> QED
  BY <1>1, <1>5, <1>6 DEF Next, StartCollection, vars, heapVars

LEMMA MarkSame ==
  ASSUME GraphInv, IInv', NEW s \in left, ForwardSlot(s), Mark(s)
  PROVE  UNCHANGED <<Root, Heap>>
<1>1. phase = "gc"  BY DEF ForwardSlot
<1>2. Pointee(s) \in Allocated /\ target \in Gens
  BY <1>1, CollectorFacts, ForwGsetFacts
  DEF GraphInv, IInv, TypeOK, Mark, NeedsForward, Pointee, Word, Allocated
<1>3. Allocated' = Allocated
  BY <1>2, GensArithmetic DEF Mark, Allocated, GraphInv, IInv, TypeOK
<1> QED  BY <1>3, SameMemory DEF Mark, GraphInv

(* A slot that is made to follow a forwarding pointer names the object that *)
(* it named before.                                                        *)
LEMMA FollowSame ==
  ASSUME GraphInv, IInv', NEW s \in left, ForwardSlot(s), Follow(s)
  PROVE  UNCHANGED <<Root, Heap>>
<1> DEFINE w == Pointee(s)
<1>1. /\ obj \in Addr \cup {Globals} /\ s \in Slots /\ w \in Addr
      /\ fwd[w] \in Addr /\ fwd[w][1] = w[1]
  BY DEF GraphInv, IInv, TypeOK, Follow, NeedsForward, Pointee, Word, SameObject
<1>2. IdOf(fwd[w]) = IdOf(w)  BY <1>1, GenGCAssumption DEF IdOf
<1>3. mem' = [mem EXCEPT ![obj][s] = fwd[w]] /\ UNCHANGED <<gen, fwd>>
  BY DEF Follow
<1>4. mem \in [Addr \cup {Globals} -> [Slots -> Word]] /\ w = mem[obj][s]
  BY DEF GraphInv, IInv, TypeOK, Pointee
<1>5. \A o \in Addr \cup {Globals}, t \in Slots : IdOf(mem'[o][t]) = IdOf(mem[o][t])
  <2> HIDE DEF w
  <2> SUFFICES ASSUME NEW o \in Addr \cup {Globals}, NEW t \in Slots
               PROVE  IdOf(mem'[o][t]) = IdOf(mem[o][t])
    OBVIOUS
  <2>1. CASE o = obj /\ t = s  BY <1>1, <1>2, <1>3, <1>4, <2>1
  <2>2. CASE ~(o = obj /\ t = s)  BY <1>1, <1>3, <1>4, <2>2
  <2> QED  BY <2>1, <2>2
<1>6. Fresh' = Fresh /\ Fresh \subseteq Addr  BY <1>3 DEF Fresh, Allocated
<1>7. \A a \in Fresh : Contents(mem', a) = Contents(mem, a)
  BY <1>5, <1>6 DEF Contents, Slots
<1>8. Heap' = Heap  BY <1>6, <1>7, SameHeap DEF GraphInv
<1>9. Root' = Root  BY <1>5 DEF Root, Slots
<1> QED  BY <1>8, <1>9

(* A copy takes the place of the object it is made of.                     *)
LEMMA CopySame ==
  ASSUME GraphInv, IInv', NEW s \in left, ForwardSlot(s), NEW new \in Addr, Copy(s, new)
  PROVE  UNCHANGED <<Root, Heap>>
<1> DEFINE w == Pointee(s)
<1>0. phase = "gc"  BY DEF ForwardSlot
<1>1. /\ obj \in Addr \cup {Globals} /\ s \in Slots /\ w \in Addr /\ fwd[w] = Nil
      /\ new[1] = w[1] /\ gen[new] = Free /\ new # Nil /\ w = mem[obj][s]
  BY GenGCAssumption
  DEF GraphInv, IInv, TypeOK, Copy, NeedsForward, Pointee, Word, SpareAddrs
<1>2. /\ gen' = [gen EXCEPT ![new] = target]
      /\ fwd' = [fwd EXCEPT ![w] = new]
      /\ mem' = [mem EXCEPT ![new] = mem[w], ![obj][s] = new]
  BY DEF Copy
<1>3. /\ mem \in [Addr \cup {Globals} -> [Slots -> Word]]
      /\ gen \in [Addr -> Gens \cup {Free}] /\ fwd \in [Addr -> Word]
  BY DEF GraphInv, IInv, TypeOK
<1>4. w \in Allocated /\ fwd[new] = Nil /\ target \in Gens /\ target # Free
  BY <1>0, <1>1, CollectorFacts, GensArithmetic
  DEF GraphInv, FreeInv, Allocated, Copy, NeedsForward
<1>5. obj # new /\ obj # w /\ new # w /\ new # Globals
  <2>1. obj \in Survivors  BY <1>0, CollectorFacts DEF GraphInv, RegistersInv
  <2>2. new \notin Allocated  BY <1>1 DEF Allocated
  <2>3. w \notin tospace
    <3>1. Pending(obj, s)  BY DEF Pending
    <3>2. obj \in Allocated \cup {Globals}  BY <2>1 DEF Survivors
    <3> QED  BY <1>0, <1>1, <3>1, <3>2, CollectorFacts DEF GraphInv, ColourInv, Copy
  <2>4. w \in FromSpace  BY <1>4, <2>3 DEF FromSpace, Copy, NeedsForward
  <2> QED  BY <2>1, <2>2, <2>4, <1>1, <1>4, GenGCAssumption DEF Survivors, Allocated, FromSpace
<1>6. IdOf(new) = IdOf(w)  BY <1>1, GenGCAssumption DEF IdOf
<1> HIDE DEF w
<1>7. \A o \in (Addr \cup {Globals}) \ {new}, t \in Slots : IdOf(mem'[o][t]) = IdOf(mem[o][t])
  <2> SUFFICES ASSUME NEW o \in (Addr \cup {Globals}) \ {new}, NEW t \in Slots
               PROVE  IdOf(mem'[o][t]) = IdOf(mem[o][t])
    OBVIOUS
  <2>1. CASE o = obj /\ t = s  BY <1>1, <1>2, <1>3, <1>5, <1>6, <2>1
  <2>2. CASE ~(o = obj /\ t = s)  BY <1>1, <1>2, <1>3, <1>5, <2>2
  <2> QED  BY <2>1, <2>2
<1>8. mem'[new] = mem[w]  BY <1>1, <1>2, <1>3, <1>5
<1>9. Allocated' = Allocated \cup {new} /\ Fresh' = (Fresh \ {w}) \cup {new}
  <2>1. Allocated' = Allocated \cup {new}  BY <1>2, <1>3, <1>4 DEF Allocated
  <2> QED  BY <2>1, <1>1, <1>2, <1>3, <1>4, <1>5 DEF Fresh, Allocated
<1>10. w \in Fresh /\ Fresh \subseteq Addr /\ new \notin Fresh
  BY <1>1, <1>4 DEF Fresh, Allocated
<1>11. \A a \in Fresh \ {w} : Contents(mem', a) = Contents(mem, a)
  BY <1>7, <1>10 DEF Contents, Slots
<1>12. Contents(mem', new) = Contents(mem, w)  BY <1>8 DEF Contents
<1>13. Heap' = Heap  BY <1>1, <1>9, <1>10, <1>11, <1>12, SameHeap DEF GraphInv
<1>14. Root' = Root  BY <1>5, <1>7 DEF Root, Slots
<1> QED  BY <1>13, <1>14

LEMMA ForwardSame ==
  ASSUME GraphInv, IInv', NEW s \in left, ForwardSlot(s)
  PROVE  UNCHANGED <<Root, Heap>>
<1>1. CASE Skip(s)
  BY <1>1, SameMemory DEF Skip, heapVars, Allocated, GraphInv
<1> QED  BY <1>1, MarkSame, FollowSame, CopySame DEF ForwardSlot
-----------------------------------------------------------------------------
(* The last step of a collection reclaims what has no copy outside of      *)
(* from-space; no pointer from outside leads there, so the program cannot  *)
(* reach it.                                                               *)
LEMMA FinishReclaims ==
  ASSUME GraphInv, IInv', FinishCollection
  PROVE  /\ Root' = Root
         /\ \E kept \in SUBSET Objects :
              /\ \A r \in Roots : Root[r] # Nil => Root[r] \in kept
              /\ \A o \in kept : Heap[o] # Nil /\ \A f \in Fields :
                   Heap[o][f] # Nil => Heap[o][f] \in kept
              /\ Heap' = [o \in Objects |-> IF o \in kept THEN Heap[o] ELSE Nil]
<1> DEFINE Stay == Fresh \ FromSpace
           kept == {a[1] : a \in Stay}
<1>1. /\ phase = "gc" /\ left = {} /\ entries = {} /\ grey = {}
      /\ gen' = [a \in Addr |-> IF a \in Reclaimed THEN Free ELSE gen[a]]
      /\ mem' = [o \in Addr \cup {Globals} |-> IF o \in Reclaimed THEN NoSlots ELSE mem[o]]
      /\ fwd' = [a \in Addr |-> IF a \in Reclaimed THEN Nil ELSE fwd[a]]
  BY DEF FinishCollection
<1>2. HeapShows /\ HeapShows'  BY Shows, ShowsNext DEF GraphInv
<1>3. /\ TypeOK /\ mem \in [Addr \cup {Globals} -> [Slots -> Word]]
      /\ Globals \notin Addr /\ Nil \notin Addr
  BY GenGCAssumption DEF GraphInv, IInv, TypeOK
<1>4. Reclaimed = FromSpace /\ FromSpace \subseteq Addr
  BY <1>1, FinishFrees DEF GraphInv, FromSpace, Allocated
<1>5. Fresh' = Stay /\ Stay \subseteq Addr
  BY <1>1, <1>3, <1>4, CollectorFacts, GensArithmetic
  DEF Fresh, Allocated, GraphInv, CopiesInv
(* What stays has no pointer into from-space, and what it points to stays. *)
<1>6. \A o \in Stay \cup {Globals}, s \in Slots :
        mem[o][s] # Nil => mem[o][s] \in Stay
  <2> SUFFICES ASSUME NEW o \in Stay \cup {Globals}, NEW s \in Slots, mem[o][s] # Nil
               PROVE  mem[o][s] \in Stay
    OBVIOUS
  <2>1. o \in Survivors /\ o \in Allocated \cup {Globals}  BY DEF Survivors, Fresh
  <2>2. mem[o][s] \in Allocated  BY <1>1, <2>1, CollectorFacts DEF GraphInv, PointersInv
  <2>3. mem[o][s] \notin FromSpace
    BY <1>1, <2>1, CollectorFacts DEF GraphInv, ColourInv, Pending
  <2> QED  BY <1>1, <2>2, <2>3, CollectorFacts DEF GraphInv, CopiesInv, Fresh, Allocated
<1>7. Root' = Root
  BY <1>1, <1>3, <1>4 DEF Root
<1>8. kept \in SUBSET Objects  BY <1>2 DEF HeapShows
<1>9. ASSUME NEW r \in Roots, Root[r] # Nil PROVE Root[r] \in kept
  <2>1. Root[r] = IdOf(mem[Globals][r]) /\ mem[Globals][r] # Nil
    BY <1>9 DEF Root, IdOf
  <2>2. mem[Globals][r] \in Stay  BY <1>6, <2>1 DEF Slots
  <2> QED  BY <2>1, <2>2 DEF IdOf
<1>10. ASSUME NEW o \in kept
       PROVE  Heap[o] # Nil /\ \A f \in Fields : Heap[o][f] # Nil => Heap[o][f] \in kept
  <2>1. PICK a \in Stay : a[1] = o  OBVIOUS
  <2>2. Heap[o] = Contents(mem, a) /\ a \in Addr  BY <1>2, <1>5, <2>1 DEF HeapShows
  <2>3. Heap[o] # Nil /\ \A f \in Fields : Heap[o][f] = IdOf(mem[a][f])
    <3>1. Contents(mem, a) # Nil /\ \A f \in Fields : Contents(mem, a)[f] = IdOf(mem[a][f])
      BY <1>3, <2>2, ContentsType
    <3> QED  BY <2>2, <3>1
  <2>4. ASSUME NEW f \in Fields, Heap[o][f] # Nil PROVE Heap[o][f] \in kept
    <3>1. mem[a][f] # Nil  BY <2>3, <2>4 DEF IdOf
    <3>2. mem[a][f] \in Stay  BY <1>6, <2>1, <3>1 DEF Slots
    <3> QED  BY <2>3, <3>1, <3>2 DEF IdOf
  <2> QED  BY <2>3, <2>4
<1>11. ASSUME NEW o \in Objects PROVE Heap'[o] = IF o \in kept THEN Heap[o] ELSE Nil
  <2>1. CASE o \in kept
    <3>1. PICK a \in Stay : a[1] = o  BY <2>1
    <3>2. mem'[a] = mem[a]  BY <1>1, <1>4, <1>5, <3>1
    <3>3. Contents(mem', a) = Contents(mem, a)  BY <3>2 DEF Contents
    <3> QED  BY <1>2, <1>5, <2>1, <3>1, <3>3 DEF HeapShows
  <2>2. CASE o \notin kept
    <3>1. \A b \in Fresh' : b[1] # o  BY <1>5, <2>2
    <3> QED  BY <1>2, <2>2, <3>1 DEF HeapShows
  <2> QED  BY <2>1, <2>2
<1>12. Heap' = [o \in Objects |-> IF o \in kept THEN Heap[o] ELSE Nil]
  BY <1>2, <1>11 DEF HeapShows
<1> HIDE DEF kept
<1> QED  BY <1>7, <1>8, <1>9, <1>10, <1>12
-----------------------------------------------------------------------------
(* What the program does to the memory it does to the graph.               *)
LEMMA HeldFacts ==
  ASSUME GraphInv, phase = "mutator", NEW q \in Roots
  PROVE  /\ Held(q) \in Word /\ Root[q] = IdOf(Held(q))
         /\ Held(q) # Nil => /\ Held(q) \in Fresh /\ Held(q) \in Addr
                            /\ Root[q] = Held(q)[1] /\ Root[q] # Nil
                            /\ Heap[Root[q]] = Contents(mem, Held(q))
<1>1. TypeOK /\ HeapShows  BY Shows DEF GraphInv, IInv
<1>2. Held(q) \in Word /\ Root[q] = IdOf(Held(q))
  BY <1>1 DEF TypeOK, Held, Root, Slots
<1>3. ASSUME Held(q) # Nil PROVE Held(q) \in Fresh
  BY <1>3 DEF GraphInv, IInv, HeapInv, PointersInv, MutatorInv, QuietInv, Held, Slots,
              Fresh, Allocated
<1> QED  BY <1>1, <1>2, <1>3, Names DEF HeapShows, IdOf, Fresh, Allocated

LEMMA DropGraph ==
  ASSUME GraphInv, IInv', NEW r \in Roots, Drop(r)
  PROVE  Root' = [Root EXCEPT ![r] = Nil] /\ Heap' = Heap
<1>1. /\ mem \in [Addr \cup {Globals} -> [Slots -> Word]] /\ Globals \notin Addr
      /\ mem' = [mem EXCEPT ![Globals][r] = Nil] /\ UNCHANGED <<gen, fwd>>
  BY GenGCAssumption DEF GraphInv, IInv, TypeOK, Drop, SetRoot
<1>2. Root' = [Root EXCEPT ![r] = Nil]  BY <1>1 DEF Root, IdOf, Slots
<1>3. Fresh' = Fresh /\ Fresh \subseteq Addr  BY <1>1 DEF Fresh, Allocated
<1>4. \A a \in Fresh : Contents(mem', a) = Contents(mem, a)  BY <1>1, <1>3 DEF Contents
<1> QED  BY <1>2, <1>3, <1>4, SameHeap DEF GraphInv

LEMMA LoadGraph ==
  ASSUME GraphInv, IInv', NEW r \in Roots, NEW q \in Roots, NEW f \in Fields, Load(r, q, f)
  PROVE  /\ Root[q] # Nil
         /\ Root' = [Root EXCEPT ![r] = Heap[Root[q]][f]] /\ Heap' = Heap
<1>1. /\ mem \in [Addr \cup {Globals} -> [Slots -> Word]] /\ Globals \notin Addr
      /\ mem' = [mem EXCEPT ![Globals][r] = mem[Held(q)][f]] /\ UNCHANGED <<gen, fwd>>
  BY GenGCAssumption DEF GraphInv, IInv, TypeOK, Load, SetRoot
<1>2. /\ Held(q) \in Addr /\ Root[q] # Nil
      /\ Heap[Root[q]][f] = IdOf(mem[Held(q)][f])
  BY HeldFacts DEF Load, Contents
<1>3. Root' = [Root EXCEPT ![r] = Heap[Root[q]][f]]  BY <1>1, <1>2 DEF Root, Slots
<1>4. Fresh' = Fresh /\ Fresh \subseteq Addr  BY <1>1 DEF Fresh, Allocated
<1>5. \A a \in Fresh : Contents(mem', a) = Contents(mem, a)  BY <1>1, <1>4 DEF Contents
<1> QED  BY <1>2, <1>3, <1>4, <1>5, SameHeap DEF GraphInv

LEMMA StoreGraph ==
  ASSUME GraphInv, IInv', NEW r \in Roots, NEW q \in Roots, NEW f \in Fields, Store(q, f, r)
  PROVE  /\ Root[q] # Nil
         /\ Heap' = [Heap EXCEPT ![Root[q]][f] = Root[r]] /\ Root' = Root
<1> DEFINE lhs == Held(q)
           new == [Heap EXCEPT ![Root[q]][f] = Root[r]]
<1>1. /\ mem \in [Addr \cup {Globals} -> [Slots -> Word]] /\ Globals \notin Addr
      /\ mem' = [mem EXCEPT ![lhs][f] = Held(r)] /\ UNCHANGED <<gen, fwd>>
      /\ phase = "mutator" /\ lhs # Nil
  BY GenGCAssumption DEF GraphInv, IInv, TypeOK, Store
<1>2. HeapShows /\ HeapShows'  BY Shows, ShowsNext DEF GraphInv
<1>3. /\ lhs \in Addr /\ lhs \in Fresh /\ Root[q] = lhs[1] /\ Root[q] # Nil
      /\ Heap[Root[q]] = Contents(mem, lhs) /\ Root[r] = IdOf(Held(r))
  BY <1>1, HeldFacts
<1>4. Fresh' = Fresh /\ Fresh \subseteq Addr  BY <1>1 DEF Fresh, Allocated
<1> HIDE DEF lhs
<1>5. Root' = Root  BY <1>1, <1>3 DEF Root
<1>6. ASSUME NEW o \in Objects PROVE Heap'[o] = new[o]
  <2>1. CASE o = lhs[1]
    <3>1. Contents(mem', lhs) = [Contents(mem, lhs) EXCEPT ![f] = IdOf(Held(r))]
      BY <1>1, <1>3 DEF Contents, Slots
    <3>2. Heap'[o] = Contents(mem', lhs)  BY <1>2, <1>3, <1>4, <2>1 DEF HeapShows
    <3>3. new[o] = [Contents(mem, lhs) EXCEPT ![f] = IdOf(Held(r))]
      BY <1>2, <1>3, <2>1 DEF HeapShows
    <3> QED  BY <3>1, <3>2, <3>3
  <2>2. CASE o # lhs[1] /\ \E a \in Fresh : a[1] = o
    <3>1. PICK a \in Fresh : a[1] = o  BY <2>2
    <3>2. mem'[a] = mem[a]  BY <1>1, <1>3, <1>4, <2>2, <3>1
    <3>3. Contents(mem', a) = Contents(mem, a)  BY <3>2 DEF Contents
    <3> QED  BY <1>2, <1>3, <1>4, <2>2, <3>1, <3>3 DEF HeapShows
  <2>3. CASE \A a \in Fresh : a[1] # o
    <3>1. o # lhs[1]  BY <1>3, <2>3
    <3> QED  BY <1>2, <1>3, <1>4, <2>3, <3>1 DEF HeapShows
  <2> QED  BY <2>1, <2>2, <2>3
<1>7. Heap' = new  BY <1>2, <1>6 DEF HeapShows
<1> QED  BY <1>3, <1>5, <1>7

LEMMA AllocateGraph ==
  ASSUME GraphInv, IInv', NEW r \in Roots, NEW o \in Objects, NEW kind \in Kinds,
         Allocate(r, o, kind)
  PROVE  \E init \in [Fields -> {Root[q] : q \in Roots} \cup {Nil}] :
           /\ Heap[o] = Nil
           /\ Heap' = [Heap EXCEPT ![o] = init]
           /\ Root' = [Root EXCEPT ![r] = o]
<1> DEFINE new == <<o, Home>>
<1>1. PICK image \in [Fields -> {Held(q) : q \in Roots} \cup {Nil}] :
        mem' = [mem EXCEPT ![new] = [s \in Slots |-> IF s \in Fields THEN image[s] ELSE Nil],
                           ![Globals][r] = new]
  BY DEF Allocate
<1> DEFINE init == [f \in Fields |-> IdOf(image[f])]
<1>2. /\ new \in Addr /\ new[1] = o /\ new # Globals /\ new # Nil /\ Globals \notin Addr
      /\ gen[new] = Free /\ fwd[new] = Nil /\ phase = "mutator"
      /\ mem \in [Addr \cup {Globals} -> [Slots -> Word]]
      /\ gen' = [gen EXCEPT ![new] = 0] /\ fwd' = fwd /\ gen \in [Addr -> Gens \cup {Free}]
  BY HomeAddr, GenGCAssumption
  DEF GraphInv, IInv, HeapInv, FreeInv, TypeOK, Allocate, Unused
<1>3. HeapShows /\ HeapShows'  BY Shows, ShowsNext DEF GraphInv
<1>4. \A a \in Fresh : a[1] # o
  BY DEF Fresh, Allocated, Addr, Allocate, Unused
<1> HIDE DEF new
<1>5. Fresh' = Fresh \cup {new} /\ Fresh \subseteq Addr /\ new \notin Fresh
  <2>1. Allocated' = Allocated \cup {new}  BY <1>2 DEF Allocated, Free
  <2> QED  BY <1>2, <2>1 DEF Fresh, Allocated
<1>6. init \in [Fields -> {Root[q] : q \in Roots} \cup {Nil}]
  <2>1. ASSUME NEW f \in Fields PROVE IdOf(image[f]) \in {Root[q] : q \in Roots} \cup {Nil}
    <3>1. CASE image[f] = Nil  BY <3>1 DEF IdOf
    <3>2. CASE image[f] # Nil
      <4>1. PICK q \in Roots : image[f] = Held(q)  BY <1>1, <3>2
      <4> QED  BY <1>2, <4>1, HeldFacts
    <3> QED  BY <3>1, <3>2
  <2> QED  BY <2>1
<1>7. Heap[o] = Nil  BY <1>3, <1>4 DEF HeapShows
<1>8. mem'[new] = [s \in Slots |-> IF s \in Fields THEN image[s] ELSE Nil]
  BY <1>1, <1>2
<1>9. Contents(mem', new) = init  BY <1>8 DEF Contents, Slots
<1>10. ASSUME NEW p \in Objects PROVE Heap'[p] = [Heap EXCEPT ![o] = init][p]
  <2> HIDE DEF init
  <2>1. CASE p = o  BY <1>2, <1>3, <1>5, <1>9, <2>1 DEF HeapShows
  <2>2. CASE p # o /\ \E a \in Fresh : a[1] = p
    <3>1. PICK a \in Fresh : a[1] = p  BY <2>2
    <3>2. mem'[a] = mem[a]  BY <1>1, <1>2, <1>5, <3>1
    <3>3. Contents(mem', a) = Contents(mem, a)  BY <3>2 DEF Contents
    <3> QED  BY <1>3, <1>5, <2>2, <3>1, <3>3 DEF HeapShows
  <2>3. CASE p # o /\ \A a \in Fresh : a[1] # p
    <3>1. \A b \in Fresh' : b[1] # p  BY <1>2, <1>5, <2>3
    <3> QED  BY <1>3, <2>3, <3>1 DEF HeapShows
  <2> QED  BY <2>1, <2>2, <2>3
<1>11. Heap' = [Heap EXCEPT ![o] = init]
  <2> HIDE DEF init
  <2> QED  BY <1>3, <1>10 DEF HeapShows
<1>12. Root' = [Root EXCEPT ![r] = o]
  <2>1. \A q \in Roots : mem'[Globals][q] = IF q = r THEN new ELSE mem[Globals][q]
    BY <1>1, <1>2 DEF Slots
  <2>2. IdOf(new) = o  BY <1>2 DEF IdOf
  <2> QED  BY <2>1, <2>2 DEF Root
<1> QED  BY <1>6, <1>7, <1>11, <1>12
-----------------------------------------------------------------------------
LEMMA InitGraph == Init => Graph!Init
<1> SUFFICES ASSUME Init PROVE Graph!Init  OBVIOUS
<1>1. HeapShows  BY InitInv, Shows
<1>2. /\ gen = [a \in Addr |-> IF a \in StaticObjs \X {Home} THEN Static ELSE Free]
      /\ fwd = [a \in Addr |-> Nil] /\ StaticObjs \X {Home} \subseteq Addr
      /\ Static # Free
  BY HomeAddr, GenGCAssumption, GensArithmetic DEF Init, Addr
<1>3. PICK image \in [Roots -> (StaticObjs \X {Home}) \cup {Nil}] :
        mem = [o \in Addr \cup {Globals} |->
                 [s \in Slots |-> IF o = Globals /\ s \in Roots THEN image[s] ELSE Nil]]
  BY DEF Init
<1>4. Fresh = StaticObjs \X {Home}  BY <1>2 DEF Fresh, Allocated
<1> DEFINE empty == [f \in Fields |-> Nil]
<1>5. \A a \in Fresh : Contents(mem, a) = empty
  BY <1>2, <1>3, <1>4, GenGCAssumption DEF Contents, IdOf, Slots
<1>6. empty # Nil
  <2>1. empty \in [Fields -> Objects \cup {Nil}]  OBVIOUS
  <2> QED  BY <2>1, GraphAssumption
<1> HIDE DEF empty
<1>7. \A o \in Objects : Heap[o] = IF o \in StaticObjs THEN empty ELSE Nil
  <2>1. ASSUME NEW o \in StaticObjs PROVE Heap[o] = empty
    <3>1. <<o, Home>> \in Fresh /\ <<o, Home>>[1] = o  BY <1>4, <2>1
    <3>2. Heap[o] = Contents(mem, <<o, Home>>)  BY <1>1, <3>1 DEF HeapShows
    <3> QED  BY <1>5, <3>1, <3>2
  <2>2. ASSUME NEW o \in Objects, o \notin StaticObjs PROVE Heap[o] = Nil
    <3>1. \A a \in Fresh : a[1] # o  BY <1>4, <2>2
    <3> QED  BY <1>1, <2>2, <3>1 DEF HeapShows
  <2> QED  BY <2>1, <2>2
<1>8. Heap = [o \in Objects |-> IF o \in StaticObjs THEN empty ELSE Nil]
  BY <1>1, <1>7 DEF HeapShows
<1>9. Root \in [Roots -> {o \in Objects : Heap[o] # Nil} \cup {Nil}]
  <2>1. ASSUME NEW r \in Roots PROVE Root[r] \in {o \in Objects : Heap[o] # Nil} \cup {Nil}
    <3>1. Root[r] = IdOf(image[r])  BY <1>3 DEF Root, Slots
    <3>2. CASE image[r] = Nil  BY <3>1, <3>2 DEF IdOf
    <3>3. CASE image[r] # Nil
      <4>1. PICK o \in StaticObjs : image[r] = <<o, Home>>  BY <3>3
      <4>2. Root[r] = o  BY <3>1, <3>3, <4>1 DEF IdOf
      <4> QED  BY <1>6, <1>7, <4>2, GenGCAssumption
    <3> QED  BY <3>2, <3>3
  <2> QED  BY <2>1 DEF Root
<1>10. \E statics \in SUBSET Objects :
         Heap = [o \in Objects |-> IF o \in statics THEN [f \in Fields |-> Nil] ELSE Nil]
  BY <1>8, GenGCAssumption DEF empty
<1> QED  BY <1>9, <1>10 DEF Graph!Init, Root, Heap

LEMMA StepGraph ==
  ASSUME GraphInv, IInv', [Next]_vars
  PROVE  \/ UNCHANGED <<Root, Heap>>
         \/ Graph!Next
<1>1. ASSUME NEW r \in Roots, NEW o \in Objects, NEW kind \in Kinds, Allocate(r, o, kind)
      PROVE  Graph!Next
  <2>1. Graph!Allocate(r)
    BY <1>1, AllocateGraph DEF Graph!Allocate, Root, Heap
  <2> QED  BY <2>1 DEF Graph!Next
<1>2. ASSUME NEW r \in Roots, Drop(r) PROVE Graph!Next
  <2>1. Graph!Drop(r)  BY <1>2, DropGraph DEF Graph!Drop, Root, Heap
  <2> QED  BY <2>1 DEF Graph!Next
<1>3. ASSUME NEW r \in Roots, NEW q \in Roots, NEW f \in Fields, Load(r, q, f)
      PROVE  Graph!Next
  <2>1. Graph!Load(r, q, f)  BY <1>3, LoadGraph DEF Graph!Load, Root, Heap
  <2> QED  BY <2>1 DEF Graph!Next
<1>4. ASSUME NEW r \in Roots, NEW q \in Roots, NEW f \in Fields, Store(q, f, r)
      PROVE  Graph!Next
  <2>1. Graph!Store(q, f, r)  BY <1>4, StoreGraph DEF Graph!Store, Root, Heap
  <2> QED  BY <2>1 DEF Graph!Next
<1>5. CASE FinishCollection
  <2>1. Graph!Reclaim
    BY <1>5, FinishReclaims DEF Graph!Reclaim, Graph!Live, Root, Heap
  <2> QED  BY <2>1 DEF Graph!Next
<1>6. ASSUME UNCHANGED heapVars PROVE UNCHANGED <<Root, Heap>>
  BY <1>6, SameMemory DEF heapVars, Allocated, GraphInv
<1>7. left # {} => (CHOOSE s \in left : TRUE) \in left  OBVIOUS
<1>8. CASE Mutator  BY <1>1, <1>2, <1>3, <1>4, <1>8 DEF Mutator
<1>9. CASE Collector
  BY <1>5, <1>6, <1>7, <1>9, ForwardSame DEF Collector, ScanEntry, ScanTospace
<1>10. CASE \E g, m : StartCollection(g, m)
  BY <1>6, <1>10 DEF StartCollection
<1>11. CASE UNCHANGED vars  BY <1>6, <1>11 DEF vars
<1> QED  BY <1>8, <1>9, <1>10, <1>11 DEF Next

LEMMA GraphInvHolds == NoAreaSkipped => (Spec => []GraphInv)
<1> SUFFICES ASSUME NoAreaSkipped PROVE Spec => []GraphInv  OBVIOUS
<1>1. Init => GraphInv  BY InitInv, SameObjectInit DEF GraphInv
<1>2. GraphInv /\ [Next]_vars => GraphInv'
  BY InvStep, SameObjectStep DEF GraphInv
<1> QED  BY <1>1, <1>2, PTL DEF Spec

(* To the program a collection is invisible: the steps of cheney.c and     *)
(* los.c leave the graph of its objects alone, and the last one of a       *)
(* collection only forgets objects that the program cannot reach; the      *)
(* stores, loads and allocations of the program do to the graph what they  *)
(* do to the memory.                                                       *)
THEOREM GraphImplemented == NoAreaSkipped => (Spec => ImplementsObjectHeap)
<1> SUFFICES ASSUME NoAreaSkipped PROVE Spec => ImplementsObjectHeap  OBVIOUS
<1>1. Init => Graph!Init  BY InitGraph
<1>2. GraphInv /\ GraphInv' /\ [Next]_vars
        => [Graph!Next]_<<[r \in Roots |-> IdOf(mem[Globals][r])],
                          [o \in Objects |->
                             IF Current(o) = {} THEN Nil
                             ELSE LET a == CHOOSE b \in Current(o) : TRUE
                                  IN  [f \in Fields |-> IdOf(mem[a][f])]]>>
  BY StepGraph DEF GraphInv, Root, Heap
<1> QED
  BY <1>1, <1>2, GraphInvHolds, PTL DEF Spec, ImplementsObjectHeap, Graph!Spec
=============================================================================
