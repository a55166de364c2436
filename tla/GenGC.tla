-------------------------------- MODULE GenGC --------------------------------
(***************************************************************************)
(* The generational collector of the run-time system: the mutator and its  *)
(* write barrier (Rts/IAssassin/millicode.c), the sequential store buffers *)
(* and remembered sets (seqbuf.c, remset.c, uremset_array.c), the policy   *)
(* that picks the area to collect (memmgr.c, nursery.c, old-heap.c) and    *)
(* the copying algorithm with its large-object space (cheney.c, los.c).    *)
(*                                                                         *)
(* Generation 0 is the nursery, 1 .. Ephemeral the ephemeral areas, then   *)
(* come the dynamic area and the static area.  The collector runs while    *)
(* the mutator is stopped, one slot per step.  Sizes are abstracted: where *)
(* the code compares byte counts to choose between passing the buck,       *)
(* promoting and collecting, the model allows each outcome.                *)
(***************************************************************************)
EXTENDS Integers, Sequences, FiniteSets

CONSTANTS Objects,     \* the objects the program can have at once
          Copies,      \* tells the places an object is moved between
          Globals,     \* the globals[] vector and the handles: the roots
          Fields,      \* the pointer fields of a heap object
          Roots,       \* the slots of Globals
          Nil,         \* any word that is not a pointer
          Ephemeral,   \* how many ephemeral areas there are (areas - 2)
          StaticObjs,  \* the objects of the static area
          Kinds,       \* "small" and "large", the objects that are allocated
          SsbWords,    \* the size of a sequential store buffer
          Requests     \* the (collect generation method) calls of the program

Dynamic == Ephemeral + 1
Static  == Ephemeral + 2
Gens    == 0 .. Static
Free    == -1                       \* the generation of unallocated memory
Methods == {"promote", "collect"}
(* An address names the object it holds a copy of, so that a copy can be   *)
(* told from another object with the same contents.  No code looks at it.  *)
Addr    == Objects \X Copies
Slots   == Fields \cup Roots
Word    == Addr \cup {Nil}

ASSUME GenGCAssumption ==
  /\ Ephemeral \in Nat /\ SsbWords \in Nat /\ SsbWords >= 2
  /\ Globals \notin Addr /\ Nil \notin Addr /\ Nil # Globals
  /\ StaticObjs \subseteq Objects /\ Copies # {}
  /\ Fields \cap Roots = {}
  /\ Kinds \subseteq {"small", "large"} /\ Requests \subseteq Gens \X Methods

VARIABLES
  gen,        \* the generation of each address (the page table), or Free
  large,      \* the objects of the large-object space
  mem,        \* the slots of every object, and of Globals
  fwd,        \* the forwarding pointer left in a copied object, or Nil
  ssb,        \* per generation pointed into: the stores logged by the barrier
  remset,     \* per generation: its objects that may point to younger ones
  phase,      \* "mutator" or "gc" (in_gc)
  target,     \* the generation of the to-space
  how,        \* "promote" into the target, or "collect" it as well
  clearAreas, clearRemsets,   \* must_clear_area, must_clear_remset
  entries,    \* remembered objects the collector has yet to enumerate
  obj, left,  \* the object being scanned and its slots yet to be forwarded
  tospace,    \* the objects copied or marked so far
  grey        \* those of them not scanned yet

heapVars == <<gen, large, mem, fwd>>
logVars  == <<ssb, remset>>
gcVars   == <<phase, target, how, clearAreas, clearRemsets, entries, obj, left,
              tospace, grey>>
vars     == <<heapVars, logVars, gcVars>>

TypeOK ==
  /\ gen \in [Addr -> Gens \cup {Free}]
  /\ large \subseteq Addr
  /\ mem \in [Addr \cup {Globals} -> [Slots -> Word]]
  /\ fwd \in [Addr -> Word]
  /\ ssb \in [Gens -> Seq(Addr)]
  /\ remset \in [Gens -> SUBSET Addr]
  /\ phase \in {"mutator", "gc"}
  /\ target \in Gens /\ how \in Methods
  /\ clearAreas \subseteq Gens /\ clearRemsets \subseteq Gens
  /\ entries \subseteq Addr
  /\ obj \in Addr \cup {Globals} /\ left \subseteq Slots
  /\ tospace \subseteq Addr /\ grey \subseteq tospace

SlotsOf(o) == IF o = Globals THEN Roots ELSE Fields
NoSlots    == [s \in Slots |-> Nil]
Allocated  == {a \in Addr : gen[a] # Free}
(* The home of a fresh object, and memory for another copy of one.         *)
Home       == CHOOSE c \in Copies : TRUE
Unused(o)  == \A c \in Copies : gen[<<o, c>>] = Free
SpareAddrs(w) == {a \in Addr : a[1] = w[1] /\ gen[a] = Free}
-----------------------------------------------------------------------------
(* The mutator starts on a loaded heap image: the static area is populated *)
(* and nothing else is.                                                    *)
Init ==
  /\ gen = [a \in Addr |-> IF a \in StaticObjs \X {Home} THEN Static ELSE Free]
  /\ large = {}
  /\ \E image \in [Roots -> (StaticObjs \X {Home}) \cup {Nil}] :
       mem = [o \in Addr \cup {Globals} |->
                [s \in Slots |-> IF o = Globals /\ s \in Roots
                                   THEN image[s] ELSE Nil]]
  /\ fwd = [a \in Addr |-> Nil]
  /\ ssb = [g \in Gens |-> << >>]
  /\ remset = [g \in Gens |-> {}]
  /\ phase = "mutator" /\ target = 0 /\ how = "promote"
  /\ clearAreas = {} /\ clearRemsets = {}
  /\ entries = {} /\ obj = Globals /\ left = {}
  /\ tospace = {} /\ grey = {}

(* process_seqbuf on every buffer: rs_add_elems_distribute files each      *)
(* logged object under its own generation.                                 *)
Logged(logs) == UNION {{logs[g][i] : i \in DOMAIN logs[g]} : g \in Gens}
Compacted(logs) ==
  [g \in Gens |-> remset[g] \cup {o \in Logged(logs) : gen[o] = g}]
EmptyLogs == [g \in Gens |-> << >>]

(* mc_full_barrier, mc_partial_barrier: the store of a non-pointer is not  *)
(* logged, nor is one that the filters of a generational system exclude.   *)
Filtered(lhs, rhs) ==
  \/ rhs = Nil
  \/ gen[lhs] <= gen[rhs]    \* gl == gr, G_FILTER_REMSET_GEN_ORDER
  \/ gen[rhs] = Static       \* G_FILTER_REMSET_RHS_NUM
  \/ gen[lhs] = 0            \* G_FILTER_REMSET_LHS_NUM

(* An entry of the buffer is two words, the object and the offset stored   *)
(* to.  The buffers are compacted when the one just used is full.          *)
(* Broken variant: the limit counts entries, not words.                     *)
CountsEntries(log) == Len(log) + 1 >= SsbWords
BufferFull(log) == 2 * Len(log) + 1 >= SsbWords

WriteBarrier(lhs, rhs) ==
  IF Filtered(lhs, rhs) THEN UNCHANGED logVars
  ELSE LET logs == [ssb EXCEPT ![gen[rhs]] = Append(@, lhs)]
       IN  IF BufferFull(logs[gen[rhs]])
             THEN remset' = Compacted(logs) /\ ssb' = EmptyLogs
             ELSE UNCHANGED remset /\ ssb' = logs
-----------------------------------------------------------------------------
(* What the mutator can do with the words it holds in Globals.             *)
Held(r) == mem[Globals][r]
SetRoot(r, w) == mem' = [mem EXCEPT ![Globals][r] = w]

(* Allocation in the nursery; a large object goes to the nursery's list of *)
(* the large-object space.                                                 *)
Allocate(r, o, kind) ==
  LET new == <<o, Home>> IN
  /\ phase = "mutator"
  /\ Unused(o)
  /\ \E init \in [Fields -> {Held(q) : q \in Roots} \cup {Nil}] :
       mem' = [mem EXCEPT ![new] = [s \in Slots |->
                             IF s \in Fields THEN init[s] ELSE Nil],
                          ![Globals][r] = new]
  /\ gen' = [gen EXCEPT ![new] = 0]
  /\ large' = IF kind = "large" THEN large \cup {new} ELSE large
  /\ UNCHANGED <<fwd, logVars, gcVars>>

Load(r, q, f) ==
  /\ phase = "mutator"
  /\ Held(q) # Nil
  /\ SetRoot(r, mem[Held(q)][f])
  /\ UNCHANGED <<gen, large, fwd, logVars, gcVars>>

Drop(r) ==
  /\ phase = "mutator"
  /\ SetRoot(r, Nil)
  /\ UNCHANGED <<gen, large, fwd, logVars, gcVars>>

Store(q, f, r) ==
  /\ phase = "mutator"
  /\ Held(q) # Nil
  /\ mem' = [mem EXCEPT ![Held(q)][f] = Held(r)]
  /\ WriteBarrier(Held(q), Held(r))
  /\ UNCHANGED <<gen, large, fwd, gcVars>>
-----------------------------------------------------------------------------
(* collect_generational: an evacuation of the nursery, or a request for    *)
(* generation 0, is a promotion into generation 1; a request for a later   *)
(* generation goes to that area, or to the dynamic area.                   *)
FirstArea(g) == IF g <= 1 THEN 1 ELSE IF g <= Dynamic THEN g ELSE Dynamic

(* The generations whose objects are evacuated (forw_gset), and those      *)
(* whose remembered objects are enumerated (enumerate_remsets_complement). *)
ForwGset(t, m) == 0 .. (IF m = "collect" THEN t ELSE t - 1)
(* Broken variant: the area with the highest number is left out.            *)
SkipsHighest(t, m) == (1 .. Dynamic) \ ForwGset(t, m)
Complement(t, m) == (1 .. Static) \ ForwGset(t, m)

(* must_clear_area and must_clear_remset along the way of the bucket.      *)
MustClearAreas(g, t) == FirstArea(g) .. (t - 1)
(* Broken variant: the set of the target itself is not cleared.             *)
KeepsTargetRemset(g, t) == FirstArea(g) .. (t - 1)
MustClearRemsets(g, t) == FirstArea(g) .. t

(* before_collection, then the policy.  Each ephemeral area either takes   *)
(* the collection or passes the buck to the next one (collect_ephemeral,   *)
(* decision); the dynamic area always takes it (collect_dynamic).          *)
StartCollection(g, method) ==
  /\ phase = "mutator"
  /\ \E t \in FirstArea(g) .. Dynamic, m \in Methods :
       /\ (g > 0 /\ method = "collect") => m = "collect"
       /\ target' = t /\ how' = m
       /\ clearAreas' = MustClearAreas(g, t)
       /\ clearRemsets' = MustClearRemsets(g, t)
       /\ remset' = Compacted(ssb) /\ ssb' = EmptyLogs
       /\ entries' = UNION {Compacted(ssb)[k] : k \in Complement(t, m)}
  /\ phase' = "gc"
  /\ obj' = Globals /\ left' = Roots
  /\ tospace' = {} /\ grey' = {}
  /\ UNCHANGED heapVars

(* forw_oflo, forward and forward_large_object on one slot of obj.  A slot *)
(* of a remembered object or of Globals is visited once, and to-space is   *)
(* scanned once: nothing else tells an object in to-space from an object   *)
(* still to be copied when the target is itself being collected.           *)
Pointee(s) == mem[obj][s]
NeedsForward(w) == w # Nil /\ gen[w] \in ForwGset(target, how)

Skip(s) ==
  /\ ~NeedsForward(Pointee(s))
  /\ UNCHANGED <<heapVars, tospace, grey>>

Follow(s) ==
  /\ NeedsForward(Pointee(s)) /\ fwd[Pointee(s)] # Nil
  /\ mem' = [mem EXCEPT ![obj][s] = fwd[Pointee(s)]]
  /\ UNCHANGED <<gen, large, fwd, tospace, grey>>

(* Broken variant: a marked object is queued and not moved to the list of   *)
(* the marked ones.                                                        *)
QueuesUnmarked(s) ==
  /\ NeedsForward(Pointee(s)) /\ Pointee(s) \in large
  /\ gen' = [gen EXCEPT ![Pointee(s)] = target]
  /\ grey' = IF Pointee(s) \in tospace THEN grey ELSE grey \cup {Pointee(s)}
  /\ UNCHANGED <<large, mem, fwd, tospace>>

Mark(s) ==
  /\ NeedsForward(Pointee(s)) /\ Pointee(s) \in large
  /\ gen' = [gen EXCEPT ![Pointee(s)] = target]
  /\ tospace' = tospace \cup {Pointee(s)}
  /\ grey' = IF Pointee(s) \in tospace THEN grey ELSE grey \cup {Pointee(s)}
  /\ UNCHANGED <<large, mem, fwd>>

(* Broken variant: no forwarding pointer is left behind.                    *)
CopyUnmarked(s, new) ==
  /\ NeedsForward(Pointee(s)) /\ Pointee(s) \notin large
  /\ new \in SpareAddrs(Pointee(s))
  /\ gen' = [gen EXCEPT ![new] = target]
  /\ mem' = [mem EXCEPT ![new] = mem[Pointee(s)], ![obj][s] = new]
  /\ tospace' = tospace \cup {new}
  /\ grey' = grey \cup {new}
  /\ UNCHANGED <<large, fwd>>

Copy(s, new) ==
  /\ NeedsForward(Pointee(s)) /\ fwd[Pointee(s)] = Nil /\ Pointee(s) \notin large
  /\ new \in SpareAddrs(Pointee(s))
  /\ gen' = [gen EXCEPT ![new] = target]
  /\ fwd' = [fwd EXCEPT ![Pointee(s)] = new]
  /\ mem' = [mem EXCEPT ![new] = mem[Pointee(s)], ![obj][s] = new]
  /\ tospace' = tospace \cup {new}
  /\ grey' = grey \cup {new}
  /\ UNCHANGED large

ForwardSlot(s) ==
  /\ phase = "gc"
  /\ \/ Skip(s) \/ Follow(s) \/ Mark(s)
     \/ \E new \in Addr : Copy(s, new)
  /\ left' = left \ {s}
  /\ UNCHANGED <<logVars, phase, target, how, clearAreas, clearRemsets, entries, obj>>

(* remset_scanner_oflo: the entry stays when the object pointed to a       *)
(* younger generation before its slots were forwarded.                     *)
(* Broken variant: only the pointers into from-space keep the entry.        *)
HasCollectedPtr(o) ==
  \E f \in Fields : mem[o][f] # Nil /\ gen[mem[o][f]] \in ForwGset(target, how)
HasIntergenPtr(o) ==
  \E f \in Fields : mem[o][f] # Nil /\ gen[mem[o][f]] < gen[o]

(* Broken variant: the walk of the remembered sets does not advance.        *)
RescansEntry(o) ==
  /\ phase = "gc" /\ left = {}
  /\ o \in entries
  /\ remset' = IF HasIntergenPtr(o) THEN remset
               ELSE [remset EXCEPT ![gen[o]] = @ \ {o}]
  /\ obj' = o /\ left' = Fields
  /\ UNCHANGED <<heapVars, ssb, phase, target, how, clearAreas, clearRemsets,
                 entries, tospace, grey>>
ScanEntry(o) ==
  /\ phase = "gc" /\ left = {}
  /\ o \in entries
  /\ entries' = entries \ {o}
  /\ remset' = IF HasIntergenPtr(o) THEN remset
               ELSE [remset EXCEPT ![gen[o]] = @ \ {o}]
  /\ obj' = o /\ left' = Fields
  /\ UNCHANGED <<heapVars, ssb, phase, target, how, clearAreas, clearRemsets,
                 tospace, grey>>

(* scan_oflo_normal: to-space and the list of marked large objects.        *)
ScanTospace(o) ==
  /\ phase = "gc" /\ left = {} /\ entries = {}
  /\ o \in grey
  /\ grey' = grey \ {o}
  /\ obj' = o /\ left' = Fields
  /\ UNCHANGED <<heapVars, logVars, phase, target, how, clearAreas,
                 clearRemsets, entries, tospace>>

(* What the end of a collection gives back: the large objects on the lists *)
(* of the evacuated generations (sweep_large_objects), the old semispace   *)
(* of a collected target (perform_collect), the nursery (nursery.c) and    *)
(* the areas that passed the buck (old-heap.c after_collection).           *)
(* Broken variant: the marked large objects are swept with their lists.     *)
SweepsMarked ==
  {a \in Allocated :
     IF a \in large THEN gen[a] \in ForwGset(target, how)
     ELSE /\ a \notin tospace
          /\ gen[a] = 0 \/ gen[a] \in clearAreas \/ (gen[a] = target /\ how = "collect")}
Reclaimed ==
  {a \in Allocated \ tospace :
     IF a \in large THEN gen[a] \in ForwGset(target, how)
     ELSE \/ gen[a] = 0
          \/ gen[a] \in clearAreas
          \/ gen[a] = target /\ how = "collect"}

FinishCollection ==
  /\ phase = "gc" /\ left = {} /\ entries = {} /\ grey = {}
  /\ gen' = [a \in Addr |-> IF a \in Reclaimed THEN Free ELSE gen[a]]
  /\ large' = large \ Reclaimed
  /\ mem' = [o \in Addr \cup {Globals} |->
               IF o \in Reclaimed THEN NoSlots ELSE mem[o]]
  /\ fwd' = [a \in Addr |-> IF a \in Reclaimed THEN Nil ELSE fwd[a]]
  /\ remset' = [g \in Gens |-> IF g \in clearRemsets THEN {} ELSE remset[g]]
  /\ phase' = "mutator" /\ target' = 0 /\ how' = "promote"
  /\ clearAreas' = {} /\ clearRemsets' = {}
  /\ obj' = Globals /\ tospace' = {}
  /\ UNCHANGED <<ssb, entries, left, grey>>
-----------------------------------------------------------------------------
Mutator ==
  \E r \in Roots :
    \/ \E o \in Objects, kind \in Kinds : Allocate(r, o, kind)
    \/ Drop(r)
    \/ \E q \in Roots, f \in Fields : Load(r, q, f) \/ Store(q, f, r)

Collector ==
  \/ left # {} /\ ForwardSlot(CHOOSE s \in left : TRUE)
  \/ \E o \in entries : ScanEntry(o)
  \/ \E o \in grey : ScanTospace(o)
  \/ FinishCollection

(* The nursery is evacuated when it is full (collect_if_no_room) or its    *)
(* stack cache overflows, which may be at any time.                        *)
Next ==
  \/ Mutator
  \/ StartCollection(0, "promote")
  \/ \E req \in Requests : StartCollection(req[1], req[2])
  \/ Collector

Spec == Init /\ [][Next]_vars
(* The collector is a call that runs to its end on the mutator's thread.   *)
FairSpec == Spec /\ WF_vars(Collector)
-----------------------------------------------------------------------------
(* An object holds the young end of an old-to-young pointer only if the    *)
(* collector can find it: it is in its generation's remembered set or in a *)
(* store buffer.  The barrier's filters, the compaction of the buffers,    *)
(* the dropping of entries by remset_scanner_oflo and the clearing of sets *)
(* by after_collection must all agree on this.                             *)
RemsetComplete ==
  phase = "mutator" =>
    \A o \in Allocated, f \in Fields :
      (mem[o][f] # Nil /\ gen[mem[o][f]] < gen[o])
        => o \in remset[gen[o]] \cup Logged(ssb)

(* Between collections every pointer, of the roots and of every object     *)
(* that still has its memory, leads to an object that has its own, and     *)
(* never to one left behind by a copy: no slot escapes root_scanner_oflo,  *)
(* remset_scanner_oflo and scan_oflo_normal.                               *)
NoDanglingPointers ==
  phase = "mutator" =>
    \A o \in Allocated \cup {Globals}, s \in Slots :
      mem[o][s] # Nil => mem[o][s] \in Allocated /\ fwd[mem[o][s]] = Nil

(* No object is copied twice: the copies that are not forwarded hold       *)
(* different objects, so eq? on pointers means identity of objects.  The   *)
(* forwarding test of forw_core cannot see that an object is already in    *)
(* to-space when the target generation is in forw_gset.                    *)
OneCopyEach ==
  \A a, b \in Allocated :
    (fwd[a] = Nil /\ fwd[b] = Nil /\ a[1] = b[1]) => a = b

(* The barrier stores two words before it looks at the limit of the        *)
(* buffer: there must be room for them before every store.                 *)
SsbHasRoom == \A g \in Gens : 2 * Len(ssb[g]) + 2 <= SsbWords

(* "the remset has dangling pointers in it until it is cleared by the      *)
(* oh_after_collection invocation above" (memmgr.c after_collection): none *)
(* is left when the mutator runs again.                                    *)
NoStaleEntries ==
  phase = "mutator" =>
    \A g \in Gens : \A o \in remset[g] : gen[o] = g /\ fwd[o] = Nil

(* A collection that is started comes to its end: to-space is finite and   *)
(* scanned once, and every remembered object is enumerated once.           *)
CollectionEnds == phase = "gc" ~> phase = "mutator"
=============================================================================
