--------------------------- MODULE SnapshotMarker ---------------------------
(***************************************************************************)
(* The incremental snapshot-at-the-beginning marker of the regional        *)
(* collector (Rts/Sys/smircy.c), with the parts of the memory manager that *)
(* drive it (Rts/Sys/memmgr.c: smircy_start, smircy_step,                  *)
(* initiate_refinement, ssb_process_satb, enumerate_smircy_roots) and the  *)
(* write barrier that feeds it (mc_satb_barrier).                          *)
(*                                                                         *)
(* The marker works in steps at the end of collections; between them the   *)
(* mutator runs.  Its mark stack is threaded by region, so that a major    *)
(* collection of a region can find, and use as roots, the entries whose    *)
(* objects it is about to move.  When the stack is empty the marks refine  *)
(* the remembered set: objects that are not marked are forgotten.          *)
(*                                                                         *)
(* Abstractions.  An object keeps its name when it is moved; its mark is   *)
(* the bit of the address it has.  Segments of the stacks are one segment  *)
(* each, of any length.  The store buffers are in remset already, since    *)
(* they are compacted before anybody reads it, and the summary of a region *)
(* is what the remembered set says when it is collected: how summaries are *)
(* built is module RegionSummaries.                                        *)
(***************************************************************************)
EXTENDS Integers, FiniteSets, SequencesExt

CONSTANTS
    Objects,    \* names of heap objects
    Nil,        \* not a pointer; also an entry of a stack that was killed
    Size,       \* Size[o]: the number of slots of o
    Window,     \* WINDOW_SIZE_LIMIT: larger objects are traced by a cursor
    Regions,    \* the regions there are at first are 1..Regions
    MaxRegions, \* bound: no region beyond this one is added
    MaxRoots,   \* bound: the program holds at most so many objects at once
    MaxStack,   \* bound: entries, killed ones included, of a mark stack
    LateStatic  \* are objects allocated in the static area while a marker runs?

ASSUME MarkerAssumption ==
    /\ Nil \notin Objects /\ IsFiniteSet(Objects)
    /\ Size \in [Objects -> Nat \ {0}]
    /\ Window \in Nat \ {0}
    /\ Regions \in Nat \ {0}
    /\ MaxRegions \in Nat /\ MaxRegions >= Regions
    /\ MaxRoots \in Nat /\ MaxStack \in Nat /\ LateStatic \in BOOLEAN

VARIABLES
    gen,    \* gen[o]: Free, 0 (nursery), a region, or Static
    field,  \* field[o][i]: slot i of o
    roots,  \* objects in registers, on the stack, in handles
    remset, \* the_remset: objects outside the nursery that point across
    nrgn,   \* number of regions
    satb,   \* satb_ssb: overwritten pointers not yet given to the marker
    mk,     \* the marker's context (smircy_context_t)
    cursor, \* the pass over the remembered set has yet to visit 1 .. cursor
    phase   \* "mutate", or "step" within smircy_step

vars == <<gen, field, roots, remset, nrgn, satb, mk, cursor, phase>>
heap == <<gen, field, roots, nrgn>>

Free == -1
Static == nrgn + 1
Old(o) == gen[o] >= 1
Slots(o) == 1 .. Size[o]
Targets(f, o) == {f[o][i] : i \in Slots(o)} \ {Nil}

\* What can be reached from S by the pointers f of the objects in D.
Reach(S, f, D) ==
    LET more[n \in 0 .. Cardinality(Objects)] ==
            IF n = 0 THEN S
            ELSE LET R == more[n - 1]
                 IN  R \union UNION {Targets(f, o) : o \in R \intersect D}
    IN  more[Cardinality(Objects)]

Live == Reach(roots, field, Objects)

-----------------------------------------------------------------------------
\* The context: the two stacks with the heads of their threads, one thread
\* for each generation; a link is the position of an entry, 0 is NULL.

NoContext ==
    [stage |-> "none", marked |-> {},
     stack |-> <<>>, head |-> [g \in 1 .. MaxRegions + 1 |-> 0], seg |-> FALSE,
     los |-> <<>>, losHead |-> [g \in 1 .. MaxRegions + 1 |-> 0], losSeg |-> FALSE]

StackEmpty(c) == c.stack = <<>> /\ ~c.seg /\ c.los = <<>> /\ ~c.losSeg

\* Mark on push; what is marked already is not pushed.
Push(c, g, o) ==
    IF o = Nil \/ o \in c.marked
    THEN c
    ELSE [c EXCEPT !.marked = @ \union {o}, !.seg = TRUE,
                   !.stack = Append(@, [val |-> o, next |-> c.head[g[o]]]),
                   !.head = [@ EXCEPT ![g[o]] = Len(c.stack) + 1]]

PushAll(c, g, os) ==
    LET pushed[n \in 0 .. Len(os)] ==
            IF n = 0 THEN c ELSE Push(pushed[n - 1], g, os[n])
    IN  pushed[Len(os)]

LosPush(c, g, o, i) ==
    [c EXCEPT !.losSeg = TRUE,
              !.los = Append(@, [obj |-> o, index |-> i, next |-> c.losHead[g[o]]]),
              !.losHead = [@ EXCEPT ![g[o]] = Len(c.los) + 1]]

Constituents(c, o) ==
    IF Size[o] > Window THEN LosPush(c, gen, o, 1) ELSE PushAll(c, gen, field[o])

\* The entry popped must be the head of its thread (asserted by the code).
Pop(c) ==
    LET e == Last(c.stack)
        d == [c EXCEPT !.stack = Front(@)]
    IN  IF e.val = Nil
        THEN d
        ELSE Constituents([d EXCEPT !.head = [@ EXCEPT ![gen[e.val]] = e.next]], e.val)

OneWindow(c) ==
    LET e == Last(c.los)
        d == [c EXCEPT !.los = Front(@), !.seg = FALSE]
    IN  IF e.obj = Nil THEN d
        ELSE Push([d EXCEPT !.losHead = [@ EXCEPT ![gen[e.obj]] = e.next]],
                  gen, field[e.obj][e.index])

\* The object stack has underflowed: a window of the large object on top.
FillFromLos(c) ==
    LET e == Last(c.los)
        d == [c EXCEPT !.los = Front(@), !.seg = FALSE]
        limit == IF e.index + Window - 1 < Size[e.obj] THEN e.index + Window - 1
                 ELSE Size[e.obj]
        window == PushAll([d EXCEPT !.losHead = [@ EXCEPT ![gen[e.obj]] = e.next]],
                          gen, SubSeq(field[e.obj], e.index, limit))
    IN  IF e.obj = Nil THEN d
        ELSE IF limit < Size[e.obj] THEN LosPush(window, gen, e.obj, limit + 1)
        ELSE window

\* The positions of a thread, from its head; seq has a link in each entry.
Thread(seq, first) ==
    LET from[n \in 0 .. Len(seq)] ==
            IF n = 0 THEN <<>>
            ELSE <<n>> \o (IF seq[n].next \in 0 .. n - 1 THEN from[seq[n].next] ELSE <<>>)
    IN  from[first]

\* What is marked would not be pushed: the mark is taken away first.
UnmarkLate(c, g, o) == LET d == Push(c, g, o) IN [d EXCEPT !.marked = @ \ {o}]
ForciblyPush(c, g, o) == Push([c EXCEPT !.marked = @ \ {o}], g, o)

\* The entries es of the stacks once more.
PushAgain(c, g, es) ==
    LET pushed[n \in 0 .. Len(es)] ==
            IF n = 0 THEN c
            ELSE IF es[n].val = Nil THEN pushed[n - 1]
            ELSE ForciblyPush(pushed[n - 1], g, es[n].val)
    IN  pushed[Len(es)]

LosPushAgain(c, g, es) ==
    LET pushed[n \in 0 .. Len(es)] ==
            IF n = 0 THEN c
            ELSE IF es[n].obj = Nil THEN pushed[n - 1]
            ELSE LosPush(pushed[n - 1], g, es[n].obj, es[n].index)
    IN  pushed[Len(es)]

\* Region r was collected, its objects are now where g says: the entries of
\* r are killed and pushed again, and the thread of r loses them.
Requeue(c, r, g) ==
    LET dead == Thread(c.stack, c.head[r])
        deadLos == Thread(c.los, c.losHead[r])
        killed == [c EXCEPT
            !.stack = [n \in DOMAIN @ |->
                IF n \in ToSet(dead) THEN [@[n] EXCEPT !.val = Nil] ELSE @[n]],
            !.los = [n \in DOMAIN @ |->
                IF n \in ToSet(deadLos) THEN [@[n] EXCEPT !.obj = Nil] ELSE @[n]],
            !.head = [@ EXCEPT ![r] = 0], !.losHead = [@ EXCEPT ![r] = 0]]
    IN  LosPushAgain(PushAgain(killed, g, [n \in DOMAIN dead |-> c.stack[dead[n]]]),
                     g, [n \in DOMAIN deadLos |-> c.los[deadLos[n]]])

\* A region is added below the static area: threads at or above it move up.
Shifted(h) == [g \in DOMAIN h |-> IF g <= nrgn THEN h[g]
                                  ELSE IF g = nrgn + 1 THEN 0 ELSE h[g - 1]]
ExpandNothing(c) == c
ExpandGnos(c) == [c EXCEPT !.head = Shifted(@), !.losHead = Shifted(@)]

-----------------------------------------------------------------------------
Init ==
    /\ gen = [o \in Objects |-> Free]
    /\ field = [o \in Objects |-> [i \in Slots(o) |-> Nil]]
    /\ roots = {} /\ remset = {} /\ satb = {} /\ cursor = 0
    /\ nrgn = Regions
    /\ mk = NoContext
    /\ phase = "mutate"

\* The mutator.  A name is allocated once no slot holds it any more.
Take(o) == /\ phase = "mutate"
           /\ roots' = roots \union {o} /\ Cardinality(roots') <= MaxRoots

Unused(o) == gen[o] = Free /\ \A x \in Objects : o \notin Targets(field, x)

Alloc(o) ==
    /\ Unused(o) /\ Take(o)
    /\ gen' = [gen EXCEPT ![o] = 0]
    /\ UNCHANGED <<field, remset, nrgn, satb, mk, cursor, phase>>

AllocStatic(o) ==
    /\ Unused(o) /\ Take(o)
    /\ mk.stage = "none" \/ LateStatic
    /\ gen' = [gen EXCEPT ![o] = Static]
    /\ UNCHANGED <<field, remset, nrgn, satb, mk, cursor, phase>>

Load(x, i) ==
    /\ x \in roots /\ field[x][i] # Nil /\ Take(field[x][i])
    /\ UNCHANGED <<gen, field, remset, nrgn, satb, mk, cursor, phase>>

Drop(o) ==
    /\ phase = "mutate" /\ o \in roots
    /\ roots' = roots \ {o}
    /\ UNCHANGED <<gen, field, remset, nrgn, satb, mk, cursor, phase>>

\* A store into slot i of x passes the snapshot barrier, which logs the
\* pointer it overwrites while a marker runs, and the generational barrier.
LogsInRegion(x, old) == mk.stage = "construction" /\ old # Nil /\ gen[x] # 0 /\ gen[old] = gen[x]
SatbLogs(x, old) == /\ mk.stage = "construction"
                    /\ old # Nil /\ gen[old] # 0 /\ gen[x] # 0

Store(x, i, y) ==
    /\ phase = "mutate" /\ x \in roots /\ y \in roots \union {Nil}
    /\ field' = [field EXCEPT ![x][i] = y]
    /\ satb' = IF SatbLogs(x, field[x][i]) THEN satb \union {field[x][i]} ELSE satb
    /\ remset' = IF y # Nil /\ gen[x] # 0 /\ gen[y] # gen[x] /\ gen[y] # Static
                 THEN remset \union {x} ELSE remset
    /\ UNCHANGED <<gen, roots, nrgn, mk, cursor, phase>>

-----------------------------------------------------------------------------
\* Collections.  cset is the set of generations that are evacuated into to,
\* from are the objects outside that the collector takes pointers from.

Flushed == IF mk.stage = "none" \/ StackEmpty(mk) THEN mk
           ELSE PushAll(mk, gen, SetToSeq(satb))

PointsAcross(o, g, f) == \E t \in Targets(f, o) : g[t] # g[o] /\ g[t] # Static

Evacuate(cset, to, start) ==
    LET inside == {o \in Objects : gen[o] \in cset}
        kept == Reach(start \intersect inside, field, inside) \intersect inside
        g == [o \in Objects |-> IF o \in kept THEN to
                                ELSE IF o \in inside THEN Free ELSE gen[o]]
        f == [o \in Objects |-> IF g[o] = Free THEN [i \in Slots(o) |-> Nil]
                                ELSE field[o]]
    IN  /\ gen' = g
        /\ field' = f
        /\ remset' = {o \in remset : gen[o] \notin cset}
                       \union {o \in kept : PointsAcross(o, g, f)}

\* The bit of an object that moved is the one it had; an object that leaves
\* the nursery is marked, and memory that is free has no bit worth keeping.
KeepsBit(c) == [c EXCEPT !.marked = {o \in @ : gen'[o] # Free}]
Forwarded(c) ==
    [c EXCEPT !.marked = {o \in Objects : /\ gen'[o] # Free
                                          /\ o \in c.marked \/ gen[o] = 0}]

\* smircy_step: end a marker that is through, start one if there is none.
StepBegins(c) ==
    IF c.stage \in {"none", "completed"}
    THEN PushAll([NoContext EXCEPT !.stage = "construction"], gen', SetToSeq(roots))
    ELSE c

RememberedTargets == UNION {Targets(field, o) : o \in remset}

MinorGC(to) ==
    /\ phase = "mutate"
    /\ Evacuate({0}, to, roots \union RememberedTargets)
    /\ mk' = StepBegins(Forwarded(Flushed))
    /\ satb' = {}
    /\ phase' = "step"
    /\ UNCHANGED <<roots, nrgn, cursor>>

\* Region r and the nursery.  The roots are the entries of the mark stack in
\* r, the program's, and the summary of r; while the marks are refining, the
\* summary leaves out what is not marked.
FiltersEarly(r, c) ==
    LET all == UNION {Targets(field, o) : o \in {x \in remset : gen[x] # r}}
    IN  IF mk.stage # "none" THEN {o \in all : gen[o] = 0 \/ o \in c.marked}
        ELSE all
SummaryOf(r, c) ==
    LET all == UNION {Targets(field, o) : o \in {x \in remset : gen[x] # r}}
    IN  IF mk.stage = "refinement" THEN {o \in all : gen[o] = 0 \/ o \in c.marked}
        ELSE all

StackOf(c, r) == {c.stack[n].val : n \in ToSet(Thread(c.stack, c.head[r]))}
LosOf(c, r) == {c.los[n].obj : n \in ToSet(Thread(c.los, c.losHead[r]))}

MajorGC(r, to) ==
    LET c == Flushed IN
    /\ phase = "mutate" /\ r # to
    /\ Len(mk.stack) <= MaxStack /\ Len(mk.los) <= MaxStack
    /\ Evacuate({0, r}, to, StackOf(c, r) \union LosOf(c, r)
                              \union roots \union SummaryOf(r, c))
    /\ satb' = {}
    /\ \/ /\ phase' = "step"        \* marking during major collections
          /\ mk' = StepBegins(Requeue(Forwarded(c), r, gen'))
       \/ /\ phase' = "mutate"
          /\ mk' = Requeue(Forwarded(c), r, gen')
    /\ UNCHANGED <<roots, nrgn, cursor>>

\* The heap gets one more region.
Grow ==
    /\ phase = "mutate" /\ nrgn < MaxRegions
    /\ nrgn' = nrgn + 1
    /\ gen' = [o \in Objects |-> IF gen[o] = Static THEN nrgn + 2 ELSE gen[o]]
    /\ mk' = ExpandGnos(mk)
    /\ cursor' = IF cursor = Static THEN nrgn + 2 ELSE cursor
    /\ UNCHANGED <<field, roots, remset, satb, phase>>

-----------------------------------------------------------------------------
\* The marker's step (smircy_progress): entries are popped until the budget
\* is used up, which leaves the step, or the stacks are empty.

Progress ==
    /\ phase = "step"
    /\ \/ mk.stack # <<>> /\ mk' = Pop(mk)
       \/ mk.stack = <<>> /\ mk.los # <<>> /\ mk' = FillFromLos(mk)
    /\ phase' \in {"step", "mutate"}
    /\ UNCHANGED <<heap, remset, satb, cursor>>

\* Both stacks are empty: the marks are complete, and refinement begins.
Underflow ==
    /\ phase = "step" /\ mk.stack = <<>> /\ mk.los = <<>>
    /\ mk' = [mk EXCEPT !.seg = FALSE, !.losSeg = FALSE,
                        !.stage = IF @ = "construction" THEN "refinement" ELSE @]
    /\ cursor' = IF mk.stage = "construction" THEN Static ELSE cursor
    /\ phase' = "mutate"
    /\ UNCHANGED <<heap, remset, satb>>

\* A summarization pass scans the remembered objects of one generation after
\* the other, from the last, and drops those that are not marked.
RefineLate ==
    /\ phase = "mutate" /\ mk.stage = "refinement"
    /\ remset' = {o \in remset : gen[o] # cursor \/ o \in mk.marked}
    /\ cursor' = cursor - 1
    /\ mk' = [mk EXCEPT !.stage = IF cursor = 0 THEN "completed" ELSE @]
    /\ UNCHANGED <<heap, satb, phase>>
Refine ==
    /\ phase = "mutate" /\ mk.stage = "refinement"
    /\ remset' = {o \in remset : gen[o] # cursor \/ o \in mk.marked}
    /\ cursor' = cursor - 1
    /\ mk' = [mk EXCEPT !.stage = IF cursor = 1 THEN "completed" ELSE @]
    /\ UNCHANGED <<heap, satb, phase>>

-----------------------------------------------------------------------------
Mutate ==
    \/ \E o \in Objects : Alloc(o) \/ AllocStatic(o) \/ Drop(o)
    \/ \E x \in Objects : \E i \in Slots(x) :
          \/ Load(x, i)
          \/ \E y \in Objects \union {Nil} : Store(x, i, y)

Minor == \E to \in 1 .. nrgn : MinorGC(to)
Major == \E r, to \in 1 .. nrgn : MajorGC(r, to)

Next == Mutate \/ Minor \/ Major \/ Grow \/ Progress \/ Underflow \/ Refine

Spec == Init /\ [][Next]_vars
=============================================================================
