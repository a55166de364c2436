------------------------------- MODULE Semispace -------------------------------
(***************************************************************************)
(* Two semispaces and any calls of the operations of semispace.c on them:  *)
(* data written into the current chunk must stay where it counts, and the  *)
(* memory be owned by one slot and given back.                             *)
(***************************************************************************)
EXTENDS SemispaceOps, Integers, Sequences, FiniteSets, FiniteSetsExt

CONSTANTS Names,       \* the semispaces
          Blocks,      \* a bound on the blocks of memory at one time
          Sizes,       \* the sizes asked for, in pages
          Gens,        \* the generations
          MaxSlots,    \* a bound on the chunk arrays
          Dead,        \* a semispace that was freed
          Edges        \* calls the operations do not survive

SemispaceAssumption ==
  /\ Sizes \subseteq Nat \ {0} /\ Gens \subseteq Nat /\ MaxSlots \in Nat /\ Blocks \in Nat
  /\ Edges \subseteq {"small spare", "empty", "assimilate", "behind", "data"}

VARIABLES w,       \* the semispaces and the memory
          written, \* history: what was written to each block, in half pages
          failed   \* an assertion that failed
vars == <<w, written, failed>>

Live(x) == w.ss[x] # Dead
Spare == \E i \in 1 .. Blocks : w.mem[i].bytes = 0
Room(x) == Live(x) /\ (EmptySlots(w.ss[x]) # {} \/ 2 * Len(w.ss[x].chunks) <= MaxSlots)
Chunk(x, i) == w.ss[x].chunks[i]

(* ss_invariants, at the end of an operation                               *)
InvariantsFail(s) ==
  \/ s # Dead /\ s.current > Len(s.chunks)
  \/ s # Dead /\ s.current > 0 /\ (s.chunks[s.current].bytes <= 0 \/ s.allocated <= 0)
Ending(v, fail) ==
  /\ w' = v /\ failed' = (fail \/ \E x \in Names : InvariantsFail(v.ss[x]))
  /\ written' = [i \in DOMAIN written |-> IF v.mem[i].bytes = 0 THEN 0 ELSE written[i]]

Init ==
  /\ w = [ss |-> [x \in Names |-> Dead], mem |-> [i \in 1 .. Blocks |-> NoBlock]]
  /\ written = [i \in 1 .. Blocks |-> 0] /\ failed = FALSE

CallCreate(x, n, bytes, gen) ==
  /\ ~Live(x) /\ Cardinality({i \in 1 .. Blocks : w.mem[i].bytes = 0}) >= n
  /\ Ending(Create(w, x, bytes, n, gen), FALSE)

(* The users write at the top of the current chunk: a little, or all of it. *)
Write(x, n) ==
  /\ Live(x) /\ w.ss[x].current > 0
  /\ LET i == w.ss[x].current
         c == Chunk(x, i)
     IN  /\ c.top < n /\ n \in {1, 2 * c.bytes}
         /\ w' = [w EXCEPT !.ss[x].chunks[i].top = n]
         /\ written' = [written EXCEPT ![c.id] = n]
  /\ UNCHANGED failed

CallExpand(x, bytes) ==
  /\ Room(x) /\ Spare
  /\ ExpandAsserts(w, x, bytes) => "small spare" \in Edges
  /\ IF ExpandAsserts(w, x, bytes) THEN failed' = TRUE /\ UNCHANGED <<w, written>>
     ELSE LET v == Expand(w, x, bytes)
              c == v.ss[x].chunks[v.ss[x].current]
          IN  /\ w' = v /\ failed' = FALSE
              /\ written' = [written EXCEPT ![c.id] = 0]

(* The semispace is reused: what was in it is dead.                        *)
CallReset(x) ==
  /\ Live(x) /\ w' = Reset(w, x) /\ failed' = FALSE
  /\ written' = [i \in DOMAIN written |->
                   IF \E k \in Slots(w.ss[x]) : Chunk(x, k).id = i THEN 0 ELSE written[i]]
CallPrune(x) ==
  /\ Live(x) /\ w' = Prune(w, x) /\ failed' = FALSE
  /\ written' = [i \in DOMAIN written |->
                   IF \E k \in Slots(w.ss[x]) : Chunk(x, k).id = i THEN 0 ELSE written[i]]
CallFree(x) == Live(x) /\ Ending(Free(w, x, Dead), FALSE)
CallFreeUnused(x) == Live(x) /\ Ending(FreeUnused(w, x), FALSE)
CallShrinkwrap(x) ==
  /\ Live(x) /\ w.ss[x].current > 0
  /\ Chunk(x, w.ss[x].current).top = 0 => "empty" \in Edges
  /\ LET v == Shrinkwrap(w, x)
         c == v.ss[x].chunks[v.ss[x].current]
     IN  /\ w' = v /\ failed' = InvariantsFail(v.ss[x])
         /\ written' = [written EXCEPT ![c.id] = c.top]

(* data_load_area of sc-heap.c and old-heap.c: the caller fills the block. *)
CallInsert(x, bytes) ==
  /\ Room(x) /\ Spare
  /\ ExpandAsserts(w, x, bytes) => "small spare" \in Edges
  /\ LET v == AllocateAndInsert(w, x, bytes)
         i == IF w.ss[x].current = 0 THEN 1 ELSE w.ss[x].current
     IN  /\ w' = v /\ failed' = ExpandAsserts(w, x, bytes)
         /\ written' = [written EXCEPT ![v.ss[x].chunks[i].id] =
                          IF "data" \in Edges THEN 2 * bytes ELSE 0]
CallUnconditionally(x, bytes) ==
  Room(x) /\ Spare /\ Ending(AllocateUnconditionally(w, x, bytes), FALSE)

CallMove(x, i, y) ==
  /\ x # y /\ Live(x) /\ Room(y) /\ i <= Len(w.ss[x].chunks) /\ Chunk(x, i).bytes > 0
  /\ w.ss[y].current > 0 \/ EmptySlots(w.ss[y]) = {} \/ EmptySlot(w.ss[y]) > 1 => "behind" \in Edges
  /\ Ending(MoveBlock(w, x, i, y), FALSE)
CallInsertBlock(x, i, y) ==
  /\ x # y /\ Live(x) /\ Room(y) /\ i <= Len(w.ss[x].chunks) /\ Chunk(x, i).bytes > 0
  /\ w.ss[y].current = 0 => Chunk(y, 1).bytes = 0
  /\ Ending(InsertBlock(w, x, i, y), FALSE)
CallFreeBlock(x, i) ==
  /\ Live(x) /\ i <= Len(w.ss[x].chunks) /\ Chunk(x, i).bytes > 0
  /\ Ending(FreeBlock(w, x, i), FALSE)
CallSetGenNo(x, gen) == Live(x) /\ Ending(SetGenNo(w, x, gen), FALSE)
CallAssimilate(x, y) ==
  /\ "assimilate" \in Edges /\ x # y /\ Live(x) /\ Live(y) /\ w.ss[x].current > 0
  /\ w.ss[x].gen = w.ss[y].gen /\ Len(w.ss[x].chunks) + w.ss[y].current <= MaxSlots
  /\ Ending(Assimilate(w, x, y, Dead), FALSE)

SlotsOf(x) == IF Live(x) THEN Slots(w.ss[x]) ELSE {}
Next ==
  /\ ~failed
  /\ \E x \in Names :
       \/ \E n \in 0 .. 2, bytes \in Sizes, gen \in Gens : CallCreate(x, n, bytes, gen)
       \/ \E n \in 1 .. 2 * Max(Sizes) : Write(x, n)
       \/ CallReset(x) \/ CallPrune(x) \/ CallFree(x)
       \/ CallFreeUnused(x) \/ CallShrinkwrap(x)
       \/ \E bytes \in Sizes : CallExpand(x, bytes)
       \/ \E bytes \in Sizes : CallInsert(x, bytes)
       \/ \E bytes \in Sizes : CallUnconditionally(x, bytes)
       \/ \E y \in Names, i \in SlotsOf(x) : CallMove(x, i, y)
       \/ \E y \in Names, i \in SlotsOf(x) : CallInsertBlock(x, i, y)
       \/ \E i \in SlotsOf(x) : CallFreeBlock(x, i)
       \/ \E gen \in Gens : CallSetGenNo(x, gen)
NextEdges == Next \/ \E x, y \in Names : ~failed /\ CallAssimilate(x, y)
Spec == Init /\ [][Next]_vars
EdgeSpec == Init /\ [][NextEdges]_vars
-----------------------------------------------------------------------------
Alive == {x \in Names : Live(x)}
(* The invariants semispace_t.h lists, but for the last two below.         *)
SemispaceTypeOK ==
  \A x \in Alive :
    LET s == w.ss[x]
    IN  /\ s.current \in 0 .. Len(s.chunks) /\ s.gen \in Gens
        /\ \A i \in 1 .. s.current : s.chunks[i].bytes > 0
        /\ \A i \in Slots(s) : s.chunks[i].top \in 0 .. 2 * s.chunks[i].bytes
        /\ \A i \in Slots(s) : s.chunks[i].bytes = 0 => s.chunks[i] = Empty

(* Each block of memory is in one slot of one semispace, which has its     *)
(* size right; no block is lost; and the page table knows whose it is.     *)
Owners(id) == {<<x, i>> \in Alive \X (1 .. MaxSlots) : i \in Slots(w.ss[x]) /\ Chunk(x, i).id = id}
BlocksOwned ==
  \A id \in 1 .. Blocks :
    IF w.mem[id].bytes = 0 THEN Owners(id) = {}
    ELSE \E x \in Alive, i \in 1 .. MaxSlots :
           /\ Owners(id) = {<<x, i>>} /\ Chunk(x, i).bytes = w.mem[id].bytes
           /\ w.ss[x].gen = w.mem[id].gen

(* "s.allocated is always accurate": the statistics, and through them the  *)
(* size of the heap, go by it.                                             *)
AllocatedAccurate == \A x \in Alive : w.ss[x].allocated = TotalBytes(w.ss[x])

(* "If k > s.current and s.chunks[k].bytes > 0 then the memory pointed to  *)
(* is free": all data is in chunks up to current and below their tops, so  *)
(* that ss_sync counts it and ss_enumerate comes to it.                    *)
DataInUse ==
  \A x \in Alive : \A i \in Slots(w.ss[x]) :
    Chunk(x, i).bytes > 0 =>
      IF i <= w.ss[x].current THEN Chunk(x, i).top = written[Chunk(x, i).id]
      ELSE written[Chunk(x, i).id] = 0

(* No assertion of the operations fails.                                   *)
NoAssertionFails == ~failed

(* What a semispace says it has: blocks belong to one semispace, allocated *)
(* is the sum of its chunks, data lies in chunks up to the current one,    *)
(* and none of semispace.c's assertions fails.                             *)
SemispaceSound ==
  /\ SemispaceTypeOK /\ BlocksOwned /\ AllocatedAccurate /\ DataInUse
  /\ NoAssertionFails
===============================================================================
