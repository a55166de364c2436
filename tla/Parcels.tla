-------------------------------- MODULE Parcels --------------------------------
(***************************************************************************)
(* The portable block allocator of Rts/Sys/osdep-generic.c: blocks of 8K   *)
(* are parcelled out of larger ones, and a registry gives, for each        *)
(* aligned block, the pointer that malloc returned for it.                 *)
(***************************************************************************)
EXTENDS Integers, Sequences, FiniteSets, FiniteSetsExt, SequencesExt

CONSTANTS Memory,     \* the places where malloc finds memory
          BlocksPerEntry, MinRegistry,
          Deltas,     \* what aligning a block may waste
          BlockBytes  \* 8K
ParcelsAssumption ==
  /\ BlocksPerEntry \in Nat \ {0, 1} /\ MinRegistry \in Nat \ {0}
  /\ Deltas \subseteq Nat /\ BlockBytes \in Nat \ {0} /\ 0 \notin Memory

VARIABLES partial, filled, \* the lists of parcels
          registry,        \* its entries up to reg_next
          regSize,
          fragmentation,
          held             \* history: blocks handed out, <<start, offset>>, 8K or larger
vars == <<partial, filled, registry, regSize, fragmentation, held>>

Offsets == 0 .. BlocksPerEntry - 1
Whole == -1                     \* the offset of a block that is no parcel
Cleared == [derived |-> 0, frag |-> 0]
Live(r) == {r[i].derived : i \in DOMAIN r} \ {0}
Available == Memory \ Live(registry)

-----------------------------------------------------------------------------
(* register_pointer: when the registry is full its cleared entries are     *)
(* squeezed out, or it doubles.  Broken variants: the entries stay where   *)
(* they are; the size stays what it is.                                    *)
NeverGrows(r, size) ==
  LET kept == SelectSeq(r, LAMBDA e : e # Cleared)
  IN  [entries |-> IF Len(r) < size THEN r ELSE kept, size |-> Max({size, MinRegistry})]
CutsOff(r, size) ==
  LET kept == SelectSeq(r, LAMBDA e : e # Cleared)
  IN  IF Len(r) < size THEN [entries |-> r, size |-> size]
      ELSE IF Len(kept) < size THEN [entries |-> SubSeq(r, 1, Len(kept)), size |-> size]
      ELSE [entries |-> r, size |-> IF size = 0 THEN MinRegistry ELSE 2 * size]
MadeRoom(r, size) ==
  LET kept == SelectSeq(r, LAMBDA e : e # Cleared)
  IN  IF Len(r) < size THEN [entries |-> r, size |-> size]
      ELSE IF Len(kept) < size THEN [entries |-> kept, size |-> size]
      ELSE [entries |-> r, size |-> IF size = 0 THEN MinRegistry ELSE 2 * size]
(* alloc_aligned: malloc is tried until the block can be aligned.          *)
AllocAligned(start, delta) ==
  LET room == MadeRoom(registry, regSize)
  IN  /\ start \in Available
      /\ registry' = Append(room.entries, [derived |-> start, frag |-> delta])
      /\ regSize' = room.size
(* find_and_free_pointer                                                   *)
EntryOf(start) == Min({i \in DOMAIN registry : registry[i].derived = start})
(* Broken variant: it is read after the entry is cleared.                  *)
FragAfterwards(start) == 0
FragOf(start) == registry[EntryOf(start)].frag
FreeAligned(start) ==
  registry' = [registry EXCEPT ![EntryOf(start)] = Cleared] /\ UNCHANGED regSize

(* A block that is not of 8K.                                              *)
AllocWhole(start, delta) ==
  /\ AllocAligned(start, delta) /\ fragmentation' = fragmentation + delta
  /\ held' = held \cup {<<start, Whole>>} /\ UNCHANGED <<partial, filled>>
FreeWhole(start) ==
  /\ <<start, Whole>> \in held /\ held' = held \ {<<start, Whole>>}
  /\ fragmentation' = fragmentation - FragOf(start)
  /\ FreeAligned(start) /\ UNCHANGED <<partial, filled>>

(* alloc_aligned_8k, of a new parcel.                                      *)
AllocParcel(start, delta) ==
  /\ partial = << >> /\ AllocAligned(start, delta)
  /\ partial' = <<[start |-> start, inuse |-> {0}]>> /\ UNCHANGED filled
  /\ fragmentation' = fragmentation + delta + BlockBytes * (BlocksPerEntry - 1)
  /\ held' = held \cup {<<start, 0>>}

(* Of the first partial parcel: the loop over its blocks does not stop at  *)
(* the first that is free.                                                 *)
Taken(inuse) == [inuse |-> Offsets, block |-> Max(Offsets \ inuse)]
AllocBlock ==
  /\ partial # << >>
  /\ LET e == Head(partial)
         taken == Taken(e.inuse)
         e2 == [e EXCEPT !.inuse = taken.inuse]
     IN  /\ held' = held \cup {<<e.start, taken.block>>}
         /\ fragmentation' = fragmentation - BlockBytes * Cardinality(taken.inuse \ e.inuse)
         /\ IF taken.inuse = Offsets
            THEN partial' = Tail(partial) /\ filled' = <<e2>> \o filled
            ELSE partial' = <<e2>> \o Tail(partial) /\ UNCHANGED filled
  /\ UNCHANGED <<registry, regSize>>

(* free_aligned_8k: a parcel that was full goes to the front of the        *)
(* others; one that is empty is freed.  Broken variant: it stays.          *)
StaysFilled(start) == [partial |-> partial, filled |-> filled]
Refiled(start) ==
  LET there == {i \in DOMAIN filled : filled[i].start = start}
  IN  IF \E i \in DOMAIN partial : partial[i].start = start
      THEN [partial |-> partial, filled |-> filled]
      ELSE [partial |-> <<filled[Min(there)]>> \o partial, filled |-> RemoveAt(filled, Min(there))]
Without(entries, start, block) ==
  [i \in DOMAIN entries |-> IF entries[i].start = start
                            THEN [entries[i] EXCEPT !.inuse = @ \ {block}] ELSE entries[i]]
FreeBlock(start, block) ==
  LET at == Refiled(start)
      freed == Without(at.partial, start, block)
      kept == SelectSeq(freed, LAMBDA e : e.inuse # {})
  IN  /\ <<start, block>> \in held /\ block # Whole /\ held' = held \ {<<start, block>>}
      /\ filled' = Without(at.filled, start, block) /\ partial' = kept
      /\ IF kept = freed
         THEN fragmentation' = fragmentation + BlockBytes /\ UNCHANGED <<registry, regSize>>
         ELSE /\ fragmentation' = fragmentation - BlockBytes * (BlocksPerEntry - 1)
                                    - FragOf(start)
              /\ FreeAligned(start)

Init ==
  /\ partial = << >> /\ filled = << >> /\ registry = << >> /\ regSize = 0
  /\ fragmentation = 0 /\ held = {}
Next ==
  \/ \E m \in Memory, delta \in Deltas : AllocWhole(m, delta) \/ AllocParcel(m, delta)
  \/ AllocBlock
  \/ \E m \in Memory : FreeWhole(m) \/ \E block \in Offsets : FreeBlock(m, block)
Spec == Init /\ [][Next]_vars
-----------------------------------------------------------------------------
Parcels == ToSet(partial) \cup ToSet(filled)
ParcelsTypeOK ==
  /\ held \subseteq Memory \X (Offsets \cup {Whole}) /\ Len(registry) <= regSize
  /\ \A e \in Parcels : e.start \in Memory /\ e.inuse \subseteq Offsets

(* A parcel is on one list, the one that says whether it has room, and is  *)
(* not kept when it is empty; what is handed out is occupied in it.        *)
ParcelsFiled ==
  /\ \A e \in ToSet(partial) : e.inuse \notin {{}, Offsets}
  /\ \A e \in ToSet(filled) : e.inuse = Offsets
  /\ Cardinality({e.start : e \in Parcels}) = Len(partial) + Len(filled)
  /\ \A h \in held : h[2] # Whole => \E e \in Parcels : e.start = h[1] /\ h[2] \in e.inuse

(* The registry knows each block that malloc gave and that was not freed,  *)
(* once, whenever it was squeezed or copied.                               *)
RegistryExact ==
  /\ Live(registry) = {e.start : e \in Parcels} \cup {h[1] : h \in {x \in held : x[2] = Whole}}
  /\ \A i, j \in DOMAIN registry :
       registry[i].derived = registry[j].derived /\ registry[i] # Cleared => i = j

(* osdep_fragmentation: what aligning wastes, and the room in parcels.     *)
FragmentationExact ==
  fragmentation = BlockBytes * MapThenSumSet(LAMBDA e : BlocksPerEntry - Cardinality(e.inuse), Parcels)
                  + MapThenSumSet(LAMBDA i : registry[i].frag, DOMAIN registry)

(* "unsigned inuse;": "bitmask of occupied blocks" (osdep-generic.c).      *)
OccupiedAreHeld ==
  \A e \in Parcels : \A block \in e.inuse : <<e.start, block>> \in held

(* A parcel is filed under the list its free blocks call for and found     *)
(* through the registry; the fragmentation reported is that of the         *)
(* parcels.                                                                *)
ParcelsExact ==
  /\ ParcelsTypeOK /\ ParcelsFiled /\ RegistryExact /\ FragmentationExact
================================================================================
