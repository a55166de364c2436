----------------------------- MODULE LargeObjects -----------------------------
(***************************************************************************)
(* The large-object space of Rts/Sys/los.c, and what the copying collector *)
(* (cheney.c) does with it: circular, doubly linked lists of objects, one  *)
(* for each generation, and the mark list, to which an object moves when a *)
(* collection reaches it.  A marked object has no prev; the scan of the    *)
(* mark list follows next while the list grows.                            *)
(*                                                                         *)
(* mark2 is left out: only the non-predictive collector moves objects to   *)
(* it.                                                                     *)
(***************************************************************************)
EXTENDS Integers, Sequences, FiniteSets, FiniteSetsExt, SequencesExt

CONSTANTS Objects, Size,  \* the objects, and the size of each
          Mark1, Null,    \* the header of the mark list; a null pointer
          Free,           \* not allocated
          Systems,        \* which of "generational" and "regional"
          FirstGens, MaxGens \* generations at the start, and a bound

Headers == (1 .. MaxGens) \cup {Mark1}
Nodes == Objects \cup Headers

LargeObjectsAssumption ==
  /\ Size \in [Objects -> Nat \ {0}] /\ Objects \cap Headers = {}
  /\ {Mark1, Null, Free} \cap (Objects \cup Nat) = {} /\ Mark1 # Null
  /\ Systems \subseteq {"generational", "regional"}
  /\ FirstGens \in 2 .. MaxGens /\ MaxGens \in Nat

VARIABLES system,     \* the collector the command line chose
          los,        \* next, prev and the bytes of each list; gen: the page table
          lists,      \* object_lists: the header of each generation's list
          collecting, \* the generations collected and, generational, the target
          cursor,     \* los_p of the scan of the mark list
          scanned     \* history: what it has scanned
vars == <<system, los, lists, collecting, cursor, scanned>>

Idle == [gens |-> {}, to |-> 0]
Busy == collecting # Idle
ListOf(ls, g) == ls[g + 1]

ClearList(m, h) ==
  [m EXCEPT !.next[h] = h, !.prev[h] = h, !.bytes[h] = 0]

(* remove                                                                  *)
Detached(m, w) ==
  LET n == m.next[w]
      p == m.prev[w]
  IN  [m EXCEPT !.next = [[@ EXCEPT ![p] = n] EXCEPT ![w] = Null],
                !.prev = [[@ EXCEPT ![n] = p] EXCEPT ![w] = Null]]
(* Broken variant: insert_at_end at the front.                             *)
InsertAtFront(m, w, h) ==
  LET first == m.next[h]
  IN  [m EXCEPT !.next = [[@ EXCEPT ![h] = w] EXCEPT ![w] = first],
                !.prev = [[@ EXCEPT ![first] = w] EXCEPT ![w] = h],
                !.bytes[h] = @ + Size[w]]
InsertAtEnd(m, w, h) ==
  LET last == m.prev[h]
  IN  [m EXCEPT !.next = [[@ EXCEPT ![last] = w] EXCEPT ![w] = h],
                !.prev = [[@ EXCEPT ![w] = last] EXCEPT ![h] = w],
                !.bytes[h] = @ + Size[w]]

(* The walk of a list, no further than it can go.                          *)
Walk(m, h) ==
  LET from[k \in 0 .. Cardinality(Nodes)] ==
        IF k = 0 THEN << >>
        ELSE LET so == from[k - 1]
                 x == m.next[IF so = << >> THEN h ELSE Last(so)]
             IN  IF Len(so) < k - 1 \/ x = h THEN so ELSE Append(so, x)
  IN  from[Cardinality(Nodes)]

(* los_bytes_used_include_marklists                                        *)
SumSizes(S) == MapThenSumSet(LAMBDA o : Size[o], S)
OnMarkList(m, g) == {o \in ToSet(Walk(m, Mark1)) : m.gen[o] = g}
BytesUsed(g) == los.bytes[ListOf(lists, g)] + SumSizes(OnMarkList(los, g))

(* los_mark_and_set_generation.  Broken variants: "marked->bytes += ...";  *)
(* it is the target's list that shrinks.                                   *)
Marked(m, w) == m.prev[w] = Null
CountsTwice(m, w, g, to) ==
  IF Marked(m, w) THEN m
  ELSE LET from == [Detached(m, w) EXCEPT !.bytes[ListOf(lists, g)] = @ - Size[w]]
           moved == InsertAtEnd(from, w, Mark1)
       IN  [moved EXCEPT !.prev[w] = Null, !.gen[w] = to, !.bytes[Mark1] = @ + Size[w]]
ShrinksTarget(m, w, g, to) ==
  IF Marked(m, w) THEN m
  ELSE LET from == [Detached(m, w) EXCEPT !.bytes[ListOf(lists, to)] = @ - Size[w]]
           moved == InsertAtEnd(from, w, Mark1)
       IN  [moved EXCEPT !.prev[w] = Null, !.gen[w] = to]
MarkAndSetGeneration(m, w, g, to) ==
  IF Marked(m, w) THEN m
  ELSE LET from == [Detached(m, w) EXCEPT !.bytes[ListOf(lists, g)] = @ - Size[w]]
           moved == InsertAtEnd(from, w, Mark1)
       IN  [moved EXCEPT !.prev[w] = Null, !.gen[w] = to]

(* los_sweep                                                               *)
Sweep(m, h) ==
  LET gone == Walk(m, h)
      freed == FoldLeft(LAMBDA x, w : [Detached(x, w) EXCEPT !.gen[w] = Free], m, gone)
  IN  ClearList(freed, h)

(* los_append_and_clear_list: set_generation_number repairs prev.  Broken  *)
(* variant: it is called to set the generation only.                       *)
KeepsMarks(m, l, to) ==
  [m EXCEPT !.gen = [o \in Objects |-> IF o \in ToSet(Walk(m, l)) THEN to ELSE @[o]]]
SetGenerationNumber(m, l, to) ==
  LET seq == Walk(m, l)
  IN  [m EXCEPT !.gen = [o \in Objects |-> IF o \in ToSet(seq) THEN to ELSE @[o]],
                !.prev = [x \in DOMAIN @ |->
                            IF \E i \in DOMAIN seq : seq[i] = x
                            THEN LET i == CHOOSE i \in DOMAIN seq : seq[i] = x
                                 IN  IF i = 1 THEN l ELSE seq[i - 1]
                            ELSE @[x]]]
Splice(m, left, right) ==
  LET l == m.prev[left]
      first == m.next[right]
      last == m.prev[right]
      join == [m EXCEPT !.next = [[@ EXCEPT ![l] = first] EXCEPT ![last] = left],
                        !.prev = [[@ EXCEPT ![first] = l] EXCEPT ![left] = last],
                        !.bytes[left] = @ + m.bytes[right]]
  IN  IF first = right THEN m ELSE ClearList(join, right)
AppendAndClear(m, l, to) == Splice(SetGenerationNumber(m, l, to), ListOf(lists, to), l)

(* los_append_and_clear_list_infer_gen                                     *)
AppendAndClearInferGen(m, l) ==
  ClearList(FoldLeft(LAMBDA x, w : InsertAtEnd(x, w, ListOf(lists, x.gen[w])), m, Walk(m, l)), l)

-----------------------------------------------------------------------------
Init ==
  /\ system \in Systems
  /\ los = [next |-> [x \in Nodes |-> IF x \in Objects THEN Null ELSE x],
            prev |-> [x \in Nodes |-> IF x \in Objects THEN Null ELSE x],
            bytes |-> [h \in Headers |-> 0], gen |-> [o \in Objects |-> Free]]
  /\ lists = [i \in 1 .. FirstGens |-> i]
  /\ collecting = Idle /\ cursor = Null /\ scanned = << >>

Allocated(m, o, g) == InsertAtEnd([m EXCEPT !.gen[o] = g], o, ListOf(lists, g))

(* los_allocate, from the nursery                                          *)
Allocate(o) ==
  /\ ~Busy /\ los.gen[o] = Free /\ los' = Allocated(los, o, 0)
  /\ UNCHANGED <<system, lists, collecting, cursor, scanned>>

(* The last list is the static area's, which is not collected.             *)
Collectable == 0 .. Len(lists) - 2

(* A collection evacuates or promotes the generations below `to' or below  *)
(* and with it, a regional one the nursery and at most one region.         *)
Collected(gens, to) ==
  CASE system = "generational" -> gens = 0 .. to \/ (to > 0 /\ gens = 0 .. to - 1)
    [] system = "regional" -> 0 \in gens /\ Cardinality(gens) <= 2 /\ to \notin gens
Start(gens, to) ==
  /\ ~Busy /\ Collected(gens, to)
  /\ collecting' = [gens |-> gens, to |-> to]
  /\ cursor' = Null /\ scanned' = << >> /\ UNCHANGED <<system, los, lists>>

(* forward_large_object: a regional collection goes on to another region   *)
(* when the target is full.                                                *)
Targets ==
  IF system = "regional" THEN Collectable \ collecting.gens ELSE {collecting.to}
Forward(w, to) ==
  /\ Busy /\ (los.gen[w] \in collecting.gens \/ (los.gen[w] # Free /\ Marked(los, w)))
  /\ to \in Targets
  /\ los' = MarkAndSetGeneration(los, w, los.gen[w], to)
  /\ UNCHANGED <<system, lists, collecting, cursor, scanned>>

(* The object is large and lies in a semispace: it is moved.               *)
Move(w, g, to) ==
  /\ Busy /\ los.gen[w] = Free /\ g \in collecting.gens /\ to \in Targets
  /\ los' = MarkAndSetGeneration(Allocated(los, w, g), w, g, to)
  /\ UNCHANGED <<system, lists, collecting, cursor, scanned>>

(* los_walk_list, in the loops of scan_oflo_normal and its variants        *)
WalkFrom(p) == LET n == los.next[IF p = Null THEN Mark1 ELSE p] IN IF n = Mark1 THEN Null ELSE n
ScanLarge ==
  /\ Busy /\ WalkFrom(cursor) # Null
  /\ cursor' = WalkFrom(cursor) /\ scanned' = Append(scanned, WalkFrom(cursor))
  /\ UNCHANGED <<system, los, lists, collecting>>

(* sweep_large_objects, sweep_large_objects_in                             *)
Swept(m, gens) ==
  FoldLeft(LAMBDA x, g : Sweep(x, ListOf(lists, g)), m, SetToSortSeq(gens, <))
Finish ==
  /\ Busy /\ WalkFrom(cursor) = Null
  /\ los' = LET swept == Swept(los, collecting.gens)
            IN  IF system = "regional" THEN AppendAndClearInferGen(swept, Mark1)
                ELSE AppendAndClear(swept, Mark1, collecting.to)
  /\ collecting' = Idle /\ cursor' = Null /\ scanned' = << >>
  /\ UNCHANGED <<system, lists>>

(* expand_los_gnos: a region is inserted below the static area, during a   *)
(* collection that needs room or at other times.                           *)
ExpandGnos ==
  /\ system = "regional" /\ Len(lists) < MaxGens
  /\ lists' = InsertAt(lists, Len(lists), Len(lists) + 1)
  /\ los' = [los EXCEPT !.gen = [o \in Objects |->
                IF @[o] # Free /\ @[o] >= Len(lists) - 1 THEN @[o] + 1 ELSE @[o]]]
  /\ UNCHANGED <<system, collecting, cursor, scanned>>

Next ==
  \/ \E o \in Objects : Allocate(o)
  \/ \E gens \in SUBSET Collectable, to \in Collectable : Start(gens, to)
  \/ \E w \in Objects, to \in Collectable : Forward(w, to)
  \/ \E w \in Objects, g \in Collectable, to \in Collectable : Move(w, g, to)
  \/ ScanLarge \/ Finish \/ ExpandGnos

Spec == Init /\ [][Next]_vars
-----------------------------------------------------------------------------
Generations == 0 .. Len(lists) - 1
LosTypeOK ==
  /\ system \in Systems /\ lists \in Seq(Headers \ {Mark1}) /\ IsInjective(lists)
  /\ los.next \in [Nodes -> Nodes \cup {Null}] /\ los.prev \in [Nodes -> Nodes \cup {Null}]
  /\ los.bytes \in [Headers -> Nat] /\ los.gen \in [Objects -> Generations \cup {Free}]
  /\ collecting.gens \subseteq Collectable /\ (~Busy => cursor = Null)
  /\ cursor \in Objects \cup {Null}

(* Each object is on one list: that of its generation, which can be walked *)
(* both ways, or the mark list, which can be walked forward.               *)
MarkedObjects == {o \in Objects : los.gen[o] # Free /\ Marked(los, o)}
ListsWhole ==
  /\ \A g \in Generations :
       LET h == ListOf(lists, g)
           seq == Walk(los, h)
           ring == <<h>> \o seq \o <<h>>
       IN  /\ ToSet(seq) = {o \in Objects \ MarkedObjects : los.gen[o] = g}
           /\ \A i \in 1 .. Len(seq) + 1 : los.prev[ring[i + 1]] = ring[i]
  /\ ToSet(Walk(los, Mark1)) = MarkedObjects /\ IsInjective(Walk(los, Mark1))
  /\ ~Busy => MarkedObjects = {}

(* What los_bytes_used_include_marklists says a generation holds, by which *)
(* the collector decides when the region it copies to is full, is what it  *)
(* holds, during a collection too; and so is the count of the mark list.   *)
BytesAccounted ==
  /\ los.bytes[Mark1] = SumSizes(MarkedObjects)
  /\ \A g \in Generations : BytesUsed(g) = SumSizes({o \in Objects : los.gen[o] = g})

(* The lists implement the object space: whatever is marked while the mark *)
(* list is scanned is scanned, once; what is reached is kept; the rest of  *)
(* the collected generations, and nothing else, is freed.                  *)
Interface == INSTANCE ObjectSpace
           WITH Generations <- 0 .. MaxGens, gen <- los.gen, collected <- collecting.gens,
                kept <- MarkedObjects, owed <- MarkedObjects \ ToSet(scanned)
LosImplements == Interface!Spec

(* Every large object is in one list, that of its generation or the mark   *)
(* list while a collection runs, and the byte counts are those of the      *)
(* lists.                                                                  *)
LosExact == LosTypeOK /\ ListsWhole /\ BytesAccounted
===============================================================================
