-------------------------- MODULE MCSnapshotMarker --------------------------
EXTENDS SnapshotMarker

CONSTANTS Small, Large    \* the objects of the instance

MCSize == [o \in Objects |-> IF o = Large THEN 2 ELSE 1]

TypeOK ==
    /\ gen \in [Objects -> Free .. MaxRegions + 1]
    /\ \A o \in Objects : field[o] \in [Slots(o) -> Objects \union {Nil}]
    /\ roots \subseteq Objects /\ remset \subseteq Objects /\ satb \subseteq Objects
    /\ nrgn \in Regions .. MaxRegions /\ cursor \in 0 .. MaxRegions + 1
    /\ mk.stage \in {"none", "construction", "refinement", "completed"}
    /\ mk.marked \subseteq {o \in Objects : Old(o)}
    /\ phase \in {"mutate", "step"}

Entries(g) == {n \in DOMAIN mk.stack : mk.stack[n].val # Nil /\ gen[mk.stack[n].val] = g}
Cursors(g) == {n \in DOMAIN mk.los : mk.los[n].obj # Nil /\ gen[mk.los[n].obj] = g}
Gray == {mk.stack[n].val : n \in UNION {Entries(g) : g \in 1 .. Static}}
Unscanned == (UNION {{field[mk.los[n].obj][i] : i \in mk.los[n].index .. Size[mk.los[n].obj]} :
                        n \in UNION {Cursors(g) : g \in 1 .. Static}}) \ {Nil}

\* smircy_check_rep: the links from the head of a region visit exactly the
\* entries of objects that are in the region now, so that a collection of
\* the region finds all of them and no other.
ThreadsMatchStack ==
    \A g \in 1 .. Static :
        /\ ToSet(Thread(mk.stack, mk.head[g])) = Entries(g)
        /\ ToSet(Thread(mk.los, mk.losHead[g])) = Cursors(g)

\* What the program, the marker or a pass over the remembered set reads has
\* no pointer to storage that was reclaimed.  (An object that refinement is
\* about to drop may have one.)
NoDanglingPointers ==
    LET dropped == {o \in remset : /\ mk.stage = "refinement"
                                   /\ gen[o] <= cursor /\ o \notin mk.marked}
        read == Live \union (remset \ dropped) \union Gray
                  \union {mk.los[n].obj : n \in UNION {Cursors(g) : g \in 1 .. Static}}
    IN  \A o \in read : gen[o] # Free /\ \A t \in Targets(field, o) : gen[t] # Free

\* When the marks refine, they cover every object outside the nursery that
\* the program can reach, whether it was in the snapshot or came later.
SnapshotCoversLive ==
    mk.stage \in {"refinement", "completed"} =>
        \A o \in Live : Old(o) => o \in mk.marked

\* While marks are made, an object outside the nursery that the program can
\* reach and that is not marked is reachable from what the marker has yet to
\* scan or from the log of overwritten pointers.
FrontierCoversLive ==
    mk.stage = "construction" =>
        LET ahead == (UNION {Targets(field, o) : o \in Gray}) \union Unscanned \union satb
        IN  {o \in Live : Old(o)} \ mk.marked \subseteq Reach(ahead, field, Objects)

\* An object outside the nursery that the program can reach and that points
\* into another region is remembered, whatever refinement dropped.
RemsetComplete ==
    \A o \in Live : Old(o) /\ PointsAcross(o, gen, field) => o \in remset

\* Whatever moves or dies between two steps of the marker, what the program,
\* the marker and the remembered set hold on to is there, the marker's stacks
\* are threaded by region, and pointers between regions are remembered.
PointersKept ==
    TypeOK /\ ThreadsMatchStack /\ NoDanglingPointers /\ RemsetComplete

\* The marks, once complete, cover what the program can reach; until then
\* what the marker has yet to scan leads to the rest.
MarkingCovers == SnapshotCoversLive /\ FrontierCoversLive

\* A marker makes headway whatever the mutator and the collections do: no
\* object that is in the heap and marked loses its mark, and none that is
\* not marked joins the heap, until the marks are complete.
Unmarked == {o \in Objects : Old(o)} \ mk.marked
UnmarkedOnlyShrinks ==
    [][mk.stage = "construction" => Unmarked' \subseteq Unmarked]_vars
=============================================================================
