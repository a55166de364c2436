------------------------------ MODULE BlockCache ------------------------------
(***************************************************************************)
(* How Rts/Sys/osdep-unix.c keeps blocks between osdep_free_aligned and    *)
(* osdep_alloc_aligned instead of unmapping them (RETURN_MEMORY_TO_OS is   *)
(* not set): a quick list for each small size, whose length is bounded by  *)
(* what was allocated lately, and a cache of larger blocks in which they   *)
(* age.  Sizes count units of 4096 bytes.                                  *)
(***************************************************************************)
EXTENDS Integers, Sequences, FiniteSets, FiniteSetsExt, SequencesExt

CONSTANTS Blocks,               \* blocks the system can map
          QuickSizes, LargeSizes,
          NumHist, NumAvailable,
          PageSize,             \* of the system
          MaxAllocs             \* bound: allocations of a size between two frees

BlockCacheAssumption ==
  /\ QuickSizes \cup LargeSizes \subseteq Nat \ {0} /\ QuickSizes \cap LargeSizes = {}
  /\ NumHist \in Nat \ {0} /\ NumAvailable \in Nat \ {0}
  /\ PageSize \in Nat \ {0} /\ MaxAllocs \in Nat \ {0}

VARIABLES mapped, \* the size of each block, 0 if it is not mapped
          used,   \* history: blocks that are allocated
          quick,  \* the quick lists
          cache,  \* available: the slots that are not empty
          fragmentation
vars == <<mapped, used, quick, cache, fragmentation>>

(* What a block wastes of the system's pages.                              *)
Waste(size) == ((size + PageSize - 1) \div PageSize) * PageSize - size
WasteOf(bs) == MapThenSumSet(LAMBDA b : Waste(mapped[b]), bs)

(* alloc_block; free_block, of several blocks.  Broken variant: it      *)
(* does not say that what they wasted is gone.                             *)
AllocBlock(b, size) ==
  /\ mapped[b] = 0 /\ mapped' = [mapped EXCEPT ![b] = size]
  /\ fragmentation' = fragmentation + Waste(size)
FreesQuietly(bs) ==
  /\ mapped' = [b \in Blocks |-> IF b \in bs THEN 0 ELSE mapped[b]]
  /\ UNCHANGED fragmentation
FreeBlocks(bs) ==
  /\ mapped' = [b \in Blocks |-> IF b \in bs THEN 0 ELSE mapped[b]]
  /\ fragmentation' = fragmentation - WasteOf(bs)

-----------------------------------------------------------------------------
Init ==
  /\ mapped = [b \in Blocks |-> 0] /\ used = {} /\ cache = << >> /\ fragmentation = 0
  /\ quick = [s \in QuickSizes |-> [blocks |-> << >>, history |-> [j \in 1 .. NumHist |-> 0],
                                    numallocs |-> 0, bound |-> 0]]

AllocQuick(s, b) ==
  LET q == quick[s]
      counted == [q EXCEPT !.numallocs = @ + 1]
  IN  /\ q.numallocs < MaxAllocs
      /\ \/ /\ q.blocks # << >> /\ b = Head(q.blocks)
            /\ quick' = [quick EXCEPT ![s] = [counted EXCEPT !.blocks = Tail(@)]]
            /\ UNCHANGED <<mapped, fragmentation>>
         \/ q.blocks = << >> /\ AllocBlock(b, s) /\ quick' = [quick EXCEPT ![s] = counted]
      /\ used' = used \cup {b} /\ UNCHANGED cache

(* A block of this size, the first one, leaves the cache; the others age.  *)
(* Broken variant: it is evicted when it is older than that.               *)
LaterAged(c) ==
  LET old == {i \in DOMAIN c : c[i].age + 1 > 2 * NumAvailable}
  IN  [kept |-> FoldRight(LAMBDA i, k : IF i \in old THEN k
                             ELSE <<[c[i] EXCEPT !.age = @ + 1]>> \o k,
                          [i \in DOMAIN c |-> i], << >>),
       gone |-> {c[i].datum : i \in old}]
Aged(c) ==
  LET old == {i \in DOMAIN c : c[i].age + 1 >= 2 * NumAvailable}
  IN  [kept |-> FoldRight(LAMBDA i, k : IF i \in old THEN k
                             ELSE <<[c[i] EXCEPT !.age = @ + 1]>> \o k,
                          [i \in DOMAIN c |-> i], << >>),
       gone |-> {c[i].datum : i \in old}]
AllocLarge(s, b) ==
  LET fitting == {i \in DOMAIN cache : mapped[cache[i].datum] = s}
      aged == Aged(IF fitting = {} THEN cache ELSE RemoveAt(cache, Min(fitting)))
  IN  /\ IF fitting = {} THEN mapped[b] = 0 ELSE b = cache[Min(fitting)].datum
      /\ cache' = aged.kept
      /\ mapped' = [x \in Blocks |-> IF x = b THEN s ELSE IF x \in aged.gone THEN 0 ELSE mapped[x]]
      /\ fragmentation' = fragmentation - WasteOf(aged.gone)
                            + IF fitting = {} THEN Waste(s) ELSE 0
      /\ used' = used \cup {b} /\ UNCHANGED quick

(* The history moves up while it is summed: the sum is of the values       *)
(* before they move.                                                       *)
Sum(h, n) == MapThenSumSet(LAMBDA j : h[j], 1 .. n)
NextHistory(q) ==
  IF q.numallocs = 0 THEN q
  ELSE [q EXCEPT !.history = [j \in 1 .. NumHist |-> IF j < NumHist THEN @[j + 1] ELSE q.numallocs],
                 !.bound = (Sum(q.history, NumHist - 1) + q.numallocs) \div NumHist,
                 !.numallocs = 0]

(* What is above the bound is unmapped, the block too if there is no room. *)
(* Broken variants: the bound is passed by one; the block is pushed all    *)
(* the same.                                                               *)
PassesBound(q, b) ==
  LET next == NextHistory(q)
      keep == Len(q.blocks) <= next.bound
  IN  [q |-> [next EXCEPT !.blocks = IF keep THEN <<b>> \o q.blocks ELSE q.blocks],
       gone |-> IF keep THEN {} ELSE {b}]
PushesUnmapped(q, b) ==
  LET next == NextHistory(q)
      over == IF Len(q.blocks) > next.bound THEN Len(q.blocks) - next.bound ELSE 0
      left == SubSeq(q.blocks, over + 1, Len(q.blocks))
  IN  [q |-> [next EXCEPT !.blocks = <<b>> \o left],
       gone |-> ToSet(SubSeq(q.blocks, 1, over)) \cup IF Len(left) < next.bound THEN {} ELSE {b}]
Trimmed(q, b) ==
  LET next == NextHistory(q)
      over == IF Len(q.blocks) > next.bound THEN Len(q.blocks) - next.bound ELSE 0
      left == SubSeq(q.blocks, over + 1, Len(q.blocks))
      keep == Len(left) < next.bound
  IN  [q |-> [next EXCEPT !.blocks = IF keep THEN <<b>> \o left ELSE left],
       gone |-> ToSet(SubSeq(q.blocks, 1, over)) \cup IF keep THEN {} ELSE {b}]
FreeQuick(b) ==
  LET s == mapped[b]
      trimmed == Trimmed(quick[s], b)
  IN  /\ b \in used /\ s \in QuickSizes /\ used' = used \ {b}
      /\ quick' = [quick EXCEPT ![s] = trimmed.q]
      /\ FreeBlocks(trimmed.gone) /\ UNCHANGED cache

FreeLarge(b) ==
  LET full == Len(cache) = NumAvailable
      kept == IF full THEN Front(cache) ELSE cache
  IN  /\ b \in used /\ mapped[b] \in LargeSizes /\ used' = used \ {b}
      /\ cache' = <<[datum |-> b, age |-> 0]>> \o kept
      /\ FreeBlocks(IF full THEN {Last(cache).datum} ELSE {}) /\ UNCHANGED quick

Next ==
  \E b \in Blocks :
    \/ \E s \in QuickSizes : AllocQuick(s, b)
    \/ \E s \in LargeSizes : AllocLarge(s, b)
    \/ FreeQuick(b) \/ FreeLarge(b)

Spec == Init /\ [][Next]_vars
-----------------------------------------------------------------------------
Cached == {cache[i].datum : i \in DOMAIN cache}
BlockCacheTypeOK ==
  /\ mapped \in [Blocks -> QuickSizes \cup LargeSizes \cup {0}] /\ used \subseteq Blocks
  /\ \A s \in QuickSizes : quick[s].numallocs \in 0 .. MaxAllocs
  /\ Len(cache) <= NumAvailable /\ fragmentation \in Nat
  /\ \A i \in DOMAIN cache : cache[i].age \in 0 .. 2 * NumAvailable - 1

(* A block that is mapped is in one place: in use, on the quick list of    *)
(* its size, or in the cache.  None is lost, or handed out while another   *)
(* owner has it.                                                           *)
BlocksInOnePlace ==
  LET quicks == UNION {ToSet(quick[s].blocks) : s \in QuickSizes}
  IN  /\ {b \in Blocks : mapped[b] # 0} = used \cup quicks \cup Cached
      /\ used \cap quicks = {} /\ used \cap Cached = {} /\ quicks \cap Cached = {}
      /\ \A s \in QuickSizes : /\ IsInjective(quick[s].blocks)
                               /\ \A b \in ToSet(quick[s].blocks) : mapped[b] = s
      /\ IsInjective([i \in DOMAIN cache |-> cache[i].datum])

(* "Two mechanisms are used to combat retaining too much memory": a quick  *)
(* list is no longer than its bound, whatever the bound falls to.          *)
QuickListsBounded ==
  \A s \in QuickSizes : Len(quick[s].blocks) <= quick[s].bound

(* osdep_fragmentation is what the blocks waste, the ones kept included.   *)
FragmentationExact == fragmentation = WasteOf({b \in Blocks : mapped[b] # 0})

(* "the size of the quick list is bounded by the average of the values in  *)
(* the history buffer" (osdep-unix.c:399-402).                             *)
BoundIsAverage ==
  \A s \in QuickSizes : quick[s].bound = Sum(quick[s].history, NumHist) \div NumHist

(* A block of memory is used, on a quick list, in the cache or unmapped,   *)
(* in one of them; the bounds on the lists hold, and the fragmentation     *)
(* reported is what they hold.                                             *)
CacheExact ==
  /\ BlockCacheTypeOK /\ BlocksInOnePlace /\ QuickListsBounded
  /\ FragmentationExact
===============================================================================
