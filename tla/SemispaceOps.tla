----------------------------- MODULE SemispaceOps -----------------------------
(***************************************************************************)
(* The operations of Rts/Sys/semispace.c.  A semispace is an array of      *)
(* chunks: those up to current hold data, those past it are free memory or *)
(* empty slots.  Slots are counted from 1, so current is 0 where the code  *)
(* has -1.                                                                 *)
(*                                                                         *)
(* A world holds the semispaces (ss) and the blocks of heap memory they    *)
(* are made of (mem: the bytes of a block, in pages, and the generation    *)
(* the page table gives them).                                             *)
(***************************************************************************)
LOCAL INSTANCE Integers
LOCAL INSTANCE Sequences
LOCAL INSTANCE FiniteSetsExt
LOCAL INSTANCE SequencesExt

CONSTANT FirstSlots   \* the slots of a new chunk array: 5

NoBlock == [bytes |-> 0, gen |-> 0]
Empty == [bytes |-> 0, top |-> 0, id |-> 0]
Slots(s) == 1 .. Len(s.chunks)
TotalBytes(s) == FoldLeft(LAMBDA n, c : n + c.bytes, 0, s.chunks)

(* extend_chunk_array_to                                                   *)
Extended(s, n) == [s EXCEPT !.chunks = @ \o [i \in 1 .. n - Len(@) |-> Empty]]

(* allocate_chunk_memory and free_chunk_memory                             *)
FreshId(w) == Min({i \in DOMAIN w.mem : w.mem[i].bytes = 0})
AllocateChunk(w, x, i, bytes) ==
  LET id == FreshId(w)
  IN  [w EXCEPT !.mem[id] = [bytes |-> bytes, gen |-> w.ss[x].gen],
                !.ss[x].chunks[i] = [bytes |-> bytes, top |-> 0, id |-> id],
                !.ss[x].allocated = @ + bytes]
FreeChunk(w, x, i) ==
  LET c == w.ss[x].chunks[i]
  IN  IF c.bytes = 0 THEN w
      ELSE [w EXCEPT !.mem[c.id] = NoBlock, !.ss[x].chunks[i] = Empty,
                     !.ss[x].allocated = @ - c.bytes]
FreeFrom(w, x, first) ==
  FoldLeft(LAMBDA v, i : FreeChunk(v, x, i), w,
           [k \in 1 .. Len(w.ss[x].chunks) - first + 1 |-> first + k - 1])

(* create_semispace_n                                                      *)
Create(w, x, bytes, nchunks, gen) ==
  LET bare == [gen |-> gen, current |-> IF nchunks > 0 THEN 1 ELSE 0, allocated |-> 0,
               chunks |-> <<>>]
  IN  FoldLeft(LAMBDA v, i : AllocateChunk(v, x, i, bytes),
               [w EXCEPT !.ss[x] = Extended(bare, Max({FirstSlots, nchunks * 2}))],
               [i \in 1 .. nchunks |-> i])

(* find_empty_slot_and_chunk: the first empty slot past current, made if   *)
(* there is none, and the first chunk that is large enough.                *)
EmptySlots(s) == {i \in Slots(s) : i > s.current /\ s.chunks[i].bytes = 0}
WithSlot(s) == IF EmptySlots(s) # {} THEN s ELSE Extended(s, 2 * Len(s.chunks))
EmptySlot(s) == Min(EmptySlots(s))
FoundChunks(s, bytes) == {i \in Slots(s) : i > s.current /\ s.chunks[i].bytes >= bytes}

Swapped(s, i, j) ==
  [s EXCEPT !.chunks = [[@ EXCEPT ![i] = s.chunks[j]] EXCEPT ![j] = s.chunks[i]]]

(* ss_expand.  Broken variant: the chunk in the way is not kept.            *)
LosesNext(w, x, bytes) ==
  LET s == w.ss[x]
      next == s.current + 1
  IN  IF next > Len(s.chunks)
      THEN AllocateChunk([w EXCEPT !.ss[x] = [Extended(s, 2 * Len(s.chunks)) EXCEPT
                                                !.current = next]], x, next, bytes)
      ELSE AllocateChunk([w EXCEPT !.ss[x].current = next], x, next, bytes)
Expand(w, x, bytes) ==
  LET s == WithSlot(w.ss[x])
      next == s.current + 1
  IN  IF FoundChunks(s, bytes) # {}
      THEN [w EXCEPT !.ss[x] = [Swapped(s, Min(FoundChunks(s, bytes)), next) EXCEPT
                                  !.current = next, !.chunks[next].top = 0]]
      ELSE AllocateChunk(
             [w EXCEPT !.ss[x] = [s EXCEPT !.chunks[EmptySlot(s)] = s.chunks[next],
                                           !.current = next]], x, next, bytes)

(* The assertion of allocate_chunk_memory that its slot has no memory: the *)
(* chunk moved out of the way is still there too.                          *)
ExpandAsserts(w, x, bytes) ==
  LET s == WithSlot(w.ss[x])
  IN  FoundChunks(s, bytes) = {} /\ s.chunks[s.current + 1].bytes > 0

(* ss_reset, ss_prune, ss_free_unused_chunks, ss_free.  Broken variant: an *)
(* empty first slot is made current too.                                   *)
ToFirst(w, x) ==
  [w EXCEPT !.ss[x].chunks = [i \in DOMAIN @ |-> [@[i] EXCEPT !.top = 0]],
            !.ss[x].current = 1]
Reset(w, x) ==
  [w EXCEPT !.ss[x].chunks = [i \in DOMAIN @ |-> [@[i] EXCEPT !.top = 0]],
            !.ss[x].current = IF w.ss[x].chunks[1].bytes > 0 THEN 1 ELSE 0]
FreeUnused(w, x) == FreeFrom(w, x, w.ss[x].current + 1)
Prune(w, x) == Reset(FreeUnused(w, x), x)
Free(w, x, dead) == [FreeFrom(w, x, 1) EXCEPT !.ss[x] = dead]

(* ss_shrinkwrap: tops are in half pages, and the rest is filled with      *)
(* zeros.  Broken variant: allocated is not adjusted.                      *)
WrappedBytes(c) == (c.top + 1) \div 2
WrapsQuietly(w, x) ==
  LET freed == FreeUnused(w, x)
      i == freed.ss[x].current
      c == freed.ss[x].chunks[i]
      bytes == WrappedBytes(c)
  IN  IF i = 0 THEN freed
      ELSE [freed EXCEPT !.ss[x].chunks[i] = [@ EXCEPT !.bytes = bytes, !.top = 2 * bytes],
                         !.mem[c.id].bytes = bytes]
Shrinkwrap(w, x) ==
  LET freed == FreeUnused(w, x)
      i == freed.ss[x].current
      c == freed.ss[x].chunks[i]
      bytes == WrappedBytes(c)
  IN  IF i = 0 THEN freed
      ELSE [freed EXCEPT !.ss[x].chunks[i] = [@ EXCEPT !.bytes = bytes, !.top = 2 * bytes],
                         !.ss[x].allocated = @ - (c.bytes - bytes),
                         !.mem[c.id].bytes = bytes]

(* ss_sync: the value of used                                              *)
Used(s) == FoldLeft(LAMBDA n, i : n + s.chunks[i].top, 0, [i \in 1 .. s.current |-> i])

(* ss_allocate_and_insert_block, ss_allocate_block_unconditionally         *)
AllocateAndInsert(w, x, bytes) ==
  LET curr == w.ss[x].current
      e == Expand(w, x, bytes)
  IN  IF curr = 0 THEN e ELSE [e EXCEPT !.ss[x] = Swapped(@, curr, e.ss[x].current)]
AllocateUnconditionally(w, x, bytes) ==
  LET v == [w EXCEPT !.ss[x] = WithSlot(@)]
  IN  AllocateChunk(v, x, EmptySlot(v.ss[x]), bytes)

(* The hole of a chunk taken away: shift down, adjust current.             *)
LastInUse(s) == {i \in 1 .. s.current : s.chunks[i].bytes > 0}
Lowered(s) == [s EXCEPT !.current = IF LastInUse(s) = {} THEN 0 ELSE Max(LastInUse(s))]
WithoutChunk(s, i) ==
  Lowered([s EXCEPT !.chunks = Append(RemoveAt(@, i), Empty)])

(* ss_move_block_to_semispace and ss_insert_block_in_semispace             *)
Moved(w, x, i, y, target, slot) ==
  LET c == w.ss[x].chunks[i]
      given == [w EXCEPT !.ss[y] = [target EXCEPT !.chunks[slot] = c, !.allocated = @ + c.bytes],
                         !.ss[x] = [WithoutChunk(@, i) EXCEPT !.allocated = @ - c.bytes]]
  IN  [given EXCEPT !.mem[c.id].gen = w.ss[y].gen]
MoveBlock(w, x, i, y) ==
  LET s == WithSlot(w.ss[y])
  IN  Moved(w, x, i, y, [s EXCEPT !.current = IF @ = 0 THEN 1 ELSE @], EmptySlot(s))
WithHole(s) ==
  LET t == WithSlot(s)
  IN  [t EXCEPT !.chunks = [[@ EXCEPT ![EmptySlot(t)] = t.chunks[t.current + 1]]
                              EXCEPT ![t.current + 1] = t.chunks[t.current]],
                !.current = @ + 1]
(* Broken variant: current is left where it was.                           *)
InsertsBelow(w, x, i, y) ==
  LET s == w.ss[y]
  IN  IF s.current = 0 THEN Moved(w, x, i, y, [s EXCEPT !.current = 1], 1)
      ELSE Moved(w, x, i, y, [WithHole(s) EXCEPT !.current = s.current], s.current)
InsertBlock(w, x, i, y) ==
  LET s == w.ss[y]
  IN  IF s.current = 0 THEN Moved(w, x, i, y, [s EXCEPT !.current = 1], 1)
      ELSE Moved(w, x, i, y, WithHole(s), s.current)

(* ss_free_block                                                           *)
FreeBlock(w, x, i) == LET f == FreeChunk(w, x, i) IN [f EXCEPT !.ss[x] = WithoutChunk(@, i)]

(* ss_set_gen_no                                                           *)
SetGenNo(w, x, gen) ==
  [w EXCEPT !.ss[x].gen = gen,
            !.mem = [id \in DOMAIN @ |-> IF \E i \in Slots(w.ss[x]) : w.ss[x].chunks[i].id = id
                                         THEN [@[id] EXCEPT !.gen = gen] ELSE @[id]]]

(* ss_assimilate: the chunks are taken over, the count of bytes is not.    *)
Assimilate(w, x, y, dead) ==
  LET src == SubSeq(w.ss[y].chunks, 1, w.ss[y].current)
      tgt == w.ss[x]
      room == IF Len(tgt.chunks) - tgt.current < Len(src)
              THEN Extended(tgt, Len(tgt.chunks) + Len(src)) ELSE tgt
      joined == [room EXCEPT !.chunks = [i \in DOMAIN @ |->
                                 IF i \in tgt.current + 1 .. tgt.current + Len(src)
                                 THEN src[i - tgt.current] ELSE @[i]],
                             !.current = @ + Len(src)]
      bare == [w EXCEPT !.ss[y].chunks = [i \in DOMAIN @ |-> IF i <= Len(src) THEN Empty ELSE @[i]],
                        !.ss[y].current = 0, !.ss[x] = joined]
  IN  Free(bare, y, dead)
===============================================================================
