------------------------------- MODULE PageTable -------------------------------
(***************************************************************************)
(* The low-level allocator of Rts/Sys/alloc.c, with page tables that cover *)
(* the part of the address space that is in use: a table is slid when a    *)
(* block lies below it, and replaced by a larger one when the blocks span  *)
(* more pages than it has slots.  The write barrier keeps a copy of the    *)
(* table's address and of the base it is indexed from (barrier.c), and     *)
(* gen_of and attr_of look every address up.                               *)
(*                                                                         *)
(* Addresses are page numbers; where the operating system puts a block is  *)
(* arbitrary.  The counters of statistics (max_, peak_) are left out.      *)
(***************************************************************************)
EXTENDS Integers, FiniteSets, FiniteSetsExt

CONSTANTS Pages,        \* 1 .. Pages is the address space
          Lengths,      \* of blocks, in pages
          Gens,         \* generation numbers
          FirstSlots,   \* slots of the first table
          PageBytes, SlotBytes, HeapLimit,
          Foreign, Unallocated, RtsOwned

PageTableAssumption ==
  /\ Pages \in Nat \ {0} /\ Lengths \subseteq 1 .. Pages /\ FirstSlots \in Nat \ {0}
  /\ PageBytes \in Nat \ {0} /\ SlotBytes \in Nat \ {0} /\ HeapLimit \in Nat
  /\ {Foreign, Unallocated, RtsOwned} \cap Gens = {}
  /\ Cardinality({Foreign, Unallocated, RtsOwned}) = 3

Kinds == {"heap", "remset", "summary", "marker", "rts"}
RtsKinds == Kinds \ {"heap"}

VARIABLES table,   \* gclib_desc_g and gclib_desc_b, and which malloc block they are
          base,    \* gclib_pagebase, 0 before the first allocation
          mem,     \* membot, memtop, heapbot, heaplim
          bytes,   \* heap_bytes, remset_bytes, summ_bytes, smircy_bytes, rts_bytes
          barrier, \* G_GENV and G_PGBASE, when the barrier is enabled
          blocks   \* history: what is allocated
vars == <<table, base, mem, bytes, barrier, blocks>>

Slots(t) == Cardinality(DOMAIN t.gen)
TableBytes(slots) == 2 * slots * SlotBytes
Off == [id |-> 0, base |-> 0]

(* pageof, gen_of, attr_of                                                 *)
GenOf(p) == table.gen[p - base]
AttrOf(p) == table.attr[p - base]

Blank(id, slots) ==
  [id |-> id, gen |-> [i \in 0 .. slots - 1 |-> Foreign],
   attr |-> [i \in 0 .. slots - 1 |-> {"foreign"}]]
(* Entries for the pages from first to last - 1, with base b.              *)
Filled(t, b, first, last, gen, attr) ==
  [t EXCEPT !.gen = [i \in DOMAIN @ |-> IF b + i \in first .. last - 1 THEN gen ELSE @[i]],
            !.attr = [i \in DOMAIN @ |-> IF b + i \in first .. last - 1 THEN attr ELSE @[i]]]

(* grow_table                                                              *)
Bigger(a, b) == IF a > b THEN a ELSE b
Smaller(a, b) == IF a < b THEN a ELSE b
Grown(t, bot, top) ==
  LET slots == Bigger(top - bot, 2 * Slots(t))
      dest == base - bot
      copied == mem.top - mem.bot
      fresh == Blank(t.id + 1, slots)
      old(i) == i \in dest .. dest + copied - 1
  IN  [fresh EXCEPT !.gen = [i \in DOMAIN @ |-> IF old(i) THEN t.gen[i - dest] ELSE @[i]],
                    !.attr = [i \in DOMAIN @ |-> IF old(i) THEN t.attr[i - dest] ELSE @[i]]]
(* Broken variant: the entries are moved in the order they are stored in.  *)
SlidUpward(t, diff) ==
  [t EXCEPT !.gen = [i \in DOMAIN @ |-> @[i % diff]],
            !.attr = [i \in DOMAIN @ |-> @[i % diff]]]
Slid(t, diff) ==
  [t EXCEPT !.gen = [i \in DOMAIN @ |-> IF i >= diff THEN @[i - diff] ELSE @[i]],
            !.attr = [i \in DOMAIN @ |-> IF i >= diff THEN @[i - diff] ELSE @[i]]]

(* gclib_alloc: the table and the base that describe the block at p.       *)
Fits(first, last) == last - 1 - first < Slots(table)
BelowMembot(p, len) ==
  LET t == IF Fits(p, mem.top) THEN Slid(table, base - p) ELSE Grown(table, p, mem.top)
  IN  [table |-> Filled(t, p, p + len, base, Foreign, {"foreign"}), base |-> p,
       bot |-> p, top |-> mem.top, tell |-> TRUE]
(* Broken variant: the barrier is not told of a new table.                 *)
GrowsInSilence(p, len) ==
  LET t == IF Fits(base, p + len) THEN table ELSE Grown(table, base, p + len)
  IN  [table |-> Filled(t, base, mem.top, p, Foreign, {"foreign"}), base |-> base,
       bot |-> mem.bot, top |-> p + len, tell |-> FALSE]
AboveMemtop(p, len) ==
  LET t == IF Fits(base, p + len) THEN table ELSE Grown(table, base, p + len)
  IN  [table |-> Filled(t, base, mem.top, p, Foreign, {"foreign"}), base |-> base,
       bot |-> mem.bot, top |-> p + len, tell |-> t # table]
Covering(p, len) ==
  IF base = 0 THEN [table |-> table, base |-> p, bot |-> p, top |-> p + len, tell |-> FALSE]
  ELSE IF p < mem.bot THEN BelowMembot(p, len)
  ELSE IF p + len > mem.top THEN AboveMemtop(p, len)
  ELSE [table |-> table, base |-> base, bot |-> mem.bot, top |-> mem.top, tell |-> FALSE]

(* wb_re_setup                                                             *)
Told(c) ==
  IF c.tell /\ barrier # Off THEN [id |-> c.table.id, base |-> c.base] ELSE barrier

-----------------------------------------------------------------------------
Init ==
  /\ table = Blank(1, FirstSlots) /\ base = 0
  /\ mem = [bot |-> 0, top |-> 0, heapbot |-> 0, heaplim |-> 0]
  /\ bytes = [k \in Kinds |-> IF k = "rts" THEN TableBytes(FirstSlots) ELSE 0]
  /\ barrier = Off /\ blocks = {}

Span(b) == b.at .. b.at + b.len - 1
InUse == UNION {Span(b) : b \in blocks}

(* Broken variant: the range is that of the block allocated last.          *)
RangeOfBlock(kind, p, len) ==
  IF kind # "heap" THEN mem ELSE [mem EXCEPT !.heapbot = p, !.heaplim = p + len]
HeapRange(kind, p, len) ==
  IF kind # "heap" THEN mem
  ELSE [mem EXCEPT !.heapbot = IF @ = 0 THEN p ELSE Smaller(@, p), !.heaplim = Bigger(@, p + len)]

(* What both allocators do.                                                *)
Place(p, len, gen, attr, kind) ==
  LET c == Covering(p, len)
  IN  /\ p + len <= Pages + 1 /\ p .. p + len - 1 \cap InUse = {}
      /\ table' = Filled(c.table, c.base, p, p + len, gen, attr)
      /\ base' = c.base /\ barrier' = Told(c)
      /\ bytes' = [bytes EXCEPT ![kind] = @ + len * PageBytes,
                                !["rts"] = @ + TableBytes(Slots(c.table)) - TableBytes(Slots(table))]
      /\ mem' = [HeapRange(kind, p, len) EXCEPT !.bot = c.bot, !.top = c.top]
      /\ blocks' = blocks \cup {[at |-> p, len |-> len, gen |-> gen, attr |-> attr]}

(* gclib_alloc_heap: above the limit there is no memory.                   *)
AllocHeap(p, len, g) ==
  /\ HeapLimit = 0 \/ bytes["heap"] + len * PageBytes <= HeapLimit
  /\ Place(p, len, g, {"allocated", "heap"}, "heap")
(* gclib_alloc_rts                                                         *)
AllocRts(p, len, kind) ==
  Place(p, len, RtsOwned, {"allocated", "rts"} \cup ({kind} \ {"rts"}), kind)

(* gclib_free.  Broken variant: it is charged to what the name says.       *)
ChargedToHeap(attr) == "heap"
ChargedTo(attr) ==
  IF "heap" \in attr THEN "heap" ELSE IF "remset" \in attr THEN "remset"
  ELSE IF "summary" \in attr THEN "summary" ELSE IF "marker" \in attr THEN "marker" ELSE "rts"
Free(b) ==
  /\ b \in blocks /\ blocks' = blocks \ {b}
  /\ bytes' = [bytes EXCEPT ![ChargedTo(AttrOf(b.at))] = @ - b.len * PageBytes]
  /\ table' = Filled(table, base, b.at, b.at + b.len, Unallocated, {"foreign"})
  /\ UNCHANGED <<base, mem, barrier>>

(* gclib_set_generation, gclib_add_attribute: of one block of the heap.    *)
SetGeneration(b, g) ==
  /\ b \in blocks /\ "heap" \in b.attr
  /\ table' = [table EXCEPT !.gen =
                 [i \in DOMAIN @ |-> IF base + i \in Span(b) THEN g ELSE @[i]]]
  /\ blocks' = (blocks \ {b}) \cup {[b EXCEPT !.gen = g]}
  /\ UNCHANGED <<base, mem, bytes, barrier>>
AddAttribute(b) ==
  /\ b \in blocks /\ "heap" \in b.attr
  /\ table' = [table EXCEPT !.attr =
                 [i \in DOMAIN @ |-> IF base + i \in Span(b) THEN @[i] \cup {"large"} ELSE @[i]]]
  /\ blocks' = (blocks \ {b}) \cup {[b EXCEPT !.attr = @ \cup {"large"}]}
  /\ UNCHANGED <<base, mem, bytes, barrier>>

(* wb_setup, wb_disable_barrier                                            *)
EnableBarrier ==
  /\ base # 0 /\ barrier' = [id |-> table.id, base |-> base]
  /\ UNCHANGED <<table, base, mem, bytes, blocks>>
DisableBarrier ==
  /\ barrier' = Off /\ UNCHANGED <<table, base, mem, bytes, blocks>>

Next ==
  \/ \E p \in 1 .. Pages, len \in Lengths :
       \/ \E g \in Gens : AllocHeap(p, len, g)
       \/ \E kind \in RtsKinds : AllocRts(p, len, kind)
  \/ \E b \in blocks : Free(b) \/ AddAttribute(b) \/ \E g \in Gens : SetGeneration(b, g)
  \/ EnableBarrier \/ DisableBarrier

Spec == Init /\ [][Next]_vars
-----------------------------------------------------------------------------
PageTableTypeOK ==
  /\ DOMAIN table.gen = 0 .. Slots(table) - 1 /\ DOMAIN table.attr = DOMAIN table.gen
  /\ \A i \in DOMAIN table.gen : table.gen[i] \in Gens \cup {Foreign, Unallocated, RtsOwned}
  /\ bytes \in [Kinds -> Nat] /\ base = mem.bot

(* Whatever moved the table and whenever a block was placed, every address *)
(* between the lowest and the highest known word is in the table, and its  *)
(* generation and attributes are those of the block it belongs to; of a    *)
(* page that is nobody's they are no generation's ("By design, their       *)
(* values are larger than any generation number").                         *)
TableExact ==
  \A p \in mem.bot .. mem.top - 1 :
    /\ p - base \in DOMAIN table.gen
    /\ \A b \in blocks : p \in Span(b) => GenOf(p) = b.gen /\ AttrOf(p) = b.attr
    /\ p \notin InUse /\ base # 0 =>
         GenOf(p) \in {Foreign, Unallocated} /\ AttrOf(p) = {"foreign"}

(* The barrier looks up the table there is, not one that was freed, from   *)
(* the base it now has.                                                    *)
BarrierCurrent ==
  barrier # Off => barrier = [id |-> table.id, base |-> base]

(* Each counter is what is allocated of its kind, the tables included.     *)
BytesExact ==
  \A k \in Kinds :
    bytes[k] = (IF k = "rts" THEN TableBytes(Slots(table)) ELSE 0)
               + PageBytes * MapThenSumSet(LAMBDA b : b.len,
                                {b \in blocks : IF k = "rts" THEN b.attr = {"allocated", "rts"}
                                                             ELSE k \in b.attr})

(* "any pointer p where lowest <= p < highest can be looked up": and any   *)
(* pointer into the heap is between them.                                  *)
MemoryRangeHolds ==
  /\ (mem.heapbot # 0 => mem.heapbot >= mem.bot) /\ mem.heaplim <= mem.top
  /\ \A b \in blocks : "heap" \in b.attr => Span(b) \subseteq mem.heapbot .. mem.heaplim - 1

(* The page table (gclib_desc_b and _g) says of each page of the heap who  *)
(* has it, also after it slid or grew; the write barrier sees the newest   *)
(* table; the byte counts are those of the blocks.                         *)
PagesExact ==
  /\ PageTableTypeOK /\ TableExact /\ BarrierCurrent /\ BytesExact
  /\ MemoryRangeHolds
================================================================================
