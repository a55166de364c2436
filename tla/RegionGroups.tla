---------------------------- MODULE RegionGroups ----------------------------
(***************************************************************************)
(* How the regional collector schedules its regions: the groups they are   *)
(* in (Rts/Sys/region_group.c), the policy that picks what to collect and  *)
(* where to (collect_rgnl_evacuate_nursery, collect_rgnl_majorgc,          *)
(* collect_rgnl_minorgc, find_space_rgnl of Rts/Sys/memmgr.c), and the     *)
(* summarizer's schedule (Rts/Sys/summ_matrix.c: waves, passes over the    *)
(* remembered set, popular regions, the end of refinement).                *)
(*                                                                         *)
(* Regions are 1 .. nrgn, in the order they were made; the static area is  *)
(* generation nrgn + 1, so gno_count is nrgn + 2.  What is in a region or  *)
(* a summary is module RegionSummaries; here a column is only counted.     *)
(*                                                                         *)
(* The policy's arithmetic over words allocated and mutator activity (A,   *)
(* A_target, m_cN) is abstracted to a choice; the arithmetic over groups   *)
(* and cursor that limits it is kept.  Assertions are compiled out, as in  *)
(* the shipped builds: the module's properties say when they would fail.   *)
(***************************************************************************)
EXTENDS Integers, FiniteSets, SequencesExt

CONSTANTS
    MaxRegions,     \* bound: the heap does not grow beyond so many regions
    EnoughRegions,  \* summaries begin when a cycle ends with more regions
    CoverInv,       \* F_1: summarize 1/F_1 of the regions at a time
    BudgetInv,      \* F_2: 1/(F_1*F_2) of them must succeed
    Popularity,     \* p: about 1/p of the regions may be popular
    MaxStars,       \* bound: regions that are popular at the same time
    Infamy,         \* the infamy factor: how much more than popular it is
    ChosenRises     \* may a region become infamous after it was chosen?

ASSUME GroupsAssumption ==
    /\ MaxRegions \in Nat /\ MaxRegions >= 2
    /\ EnoughRegions \in Nat /\ EnoughRegions >= 2
    /\ CoverInv \in Nat \ {0} /\ BudgetInv \in Nat \ {0}
    /\ Popularity \in Nat /\ Popularity >= 2
    /\ MaxStars \in Nat /\ Infamy \in Nat \ {0} /\ ChosenRises \in BOOLEAN

Groups == {"unfilled", "wait_w_sum", "wait_nosum", "summzing", "filled",
           "risingstar", "infamous", "hasbeen", "advertised"}

VARIABLES
    grp,    \* grp[g]: the regions of group g, first to last
    nrgn,   \* ephemeral_area_count
    count,  \* region_count: nrgn when the cycle began
    to,     \* rrof_to_region
    victim, \* rrof_next_region of the major collection that runs, or 0
    fills,  \* bound: a collection may still fill so many regions
    majors, \* major collections of this cycle, so far and in all
    sm,     \* the summarizer's state
    ref,    \* the marker's stage, and the state of refinement
    phase   \* "mutate", "pause", "minor" or "major" (copying), "rolled" (a
            \* cycle ends)

vars == <<grp, nrgn, count, to, victim, fills, majors, sm, ref, phase>>

Regions == 1 .. nrgn
In(g, r) == r \in ToSet(grp[g])
Number(G, g) == Len(G[g])
Stars(G) == Number(G, "risingstar") + Number(G, "infamous")
              + Number(G, "hasbeen") + Number(G, "advertised")

\* region_group_enq: to the end of another group; and all of a group.
Without(G, r) == [g \in Groups |-> RemoveFirst(G[g], r)]
EnqTwice(G, r, h) == [G EXCEPT ![h] = Append(@, r)]
Enq(G, r, h) == LET W == Without(G, r) IN [W EXCEPT ![h] = Append(@, r)]
EnqSome(G, s, h) ==
    LET moved[n \in 0 .. Len(s)] == IF n = 0 THEN G ELSE Enq(moved[n - 1], s[n], h)
    IN  moved[Len(s)]
EnqAll(G, g, h) == EnqSome(G, G[g], h)

NoSummaries == [on |-> FALSE, waiting |-> FALSE, complete |-> FALSE,
                cursor |-> 0, goal |-> 0, ready0 |-> 0, over |-> 0]
NoMarker == [stage |-> "none", predates |-> {}, left |-> 0, passed |-> FALSE]

GnoCount == nrgn + 2
Nonempty(G) == count + 1 - Number(G, "unfilled")
AtLeast1(n) == IF n < 1 THEN 1 ELSE n
Goal(ne) == AtLeast1(ne \div (CoverInv * BudgetInv))
Coverage(ne) == AtLeast1(ne \div CoverInv)

-----------------------------------------------------------------------------
\* The summarizer, as functions of a state s = [G, sm, ref].

Now == [G |-> grp, sm |-> sm, ref |-> ref]

\* check_if_refining_is_now_done
Checked(f) == IF f.stage = "refinement" /\ f.passed /\ f.left = 0
              THEN [f EXCEPT !.stage = "completed"] ELSE f

\* clear_col_cells: the summaries of R from before the snapshot are gone.
ClearedLate(f, R) == Checked([f EXCEPT !.predates = @ \ R])
Cleared(f, R) ==
    LET old == R \intersect f.predates
    IN  Checked([f EXCEPT !.predates = @ \ old, !.left = @ - Cardinality(old)])

\* switch_some_to_summarizing: filled regions first, then risen stars.
Switched(G, n) ==
    LET pool == G["filled"] \o G["risingstar"]
    IN  EnqSome(G, SubSeq(pool, 1, IF n < Len(pool) THEN n ELSE Len(pool)), "summzing")

\* sm_build_summaries_iteration_complete, for the infamous region that is
\* popular no more, if any (the loop leaves the list with the first).
IterationComplete(s, ne, drop) ==
    LET f == IF s.ref.stage = "refinement"
             THEN Checked([s.ref EXCEPT !.passed = TRUE]) ELSE s.ref
        D == EnqSome(s.G, drop, "hasbeen")
        W == EnqAll(D, "summzing", "wait_w_sum")
        wait == [s.sm EXCEPT !.waiting = TRUE, !.complete = TRUE,
                             !.goal = 0, !.ready0 = 0, !.cursor = GnoCount]
    IN  IF Number(W, "wait_w_sum") >= s.sm.goal
        THEN [G |-> W, sm |-> wait, ref |-> f]
        ELSE [G |-> Switched(W, (ne + CoverInv - 1) \div CoverInv),
              sm |-> [s.sm EXCEPT !.cursor = GnoCount, !.over = 0], ref |-> f]

\* gc_check_rise_to_infamy, as words that point into a region are counted: not
\* for one that has a summary, which its limit keeps small.  chosen are the
\* regions that this collection is about.
Risen(s, chosen) ==
    LET safe == (UNION {ToSet(s.G[g]) : g \in {"wait_w_sum", "summzing", "infamous"}})
                  \union (IF ChosenRises THEN {} ELSE chosen)
    IN  {R \in SUBSET (Regions \ safe) :
            Number(s.G, "infamous") + Cardinality(R) <= count \div (Popularity * Infamy)}
InfamousToo(s, R) == [s EXCEPT !.G = EnqSome(@, SetToSeq(R), "infamous")]

\* A summary overflows when the words that point into its region would fill
\* p regions: regions with objects bound how many can do so in one wave.
MayOverflow(s, n) ==
    /\ s.sm.over + n <= Nonempty(s.G) \div Popularity
    /\ Stars(s.G) + n <= MaxStars

\* sm_build_summaries_partial_n: the remembered sets of at least n more rows
\* are scanned (rows without any object do not count), the last one first, so
\* that the cursor stops at `stop'.  Meanwhile the summaries `over' overflow,
\* and the regions `up' rise to infamy.
ScannedTo(s, ne, stop, over, up, drop) ==
    LET t == InfamousToo(
                [s EXCEPT !.G = EnqSome(@, SetToSeq(over), "risingstar"),
                          !.ref = Cleared(@, over),
                          !.sm.over = @ + Cardinality(over)], up)
    IN  IF stop > 1 THEN [t EXCEPT !.sm.cursor = stop] ELSE IterationComplete(t, ne, drop)
Overflowing(s) == {R \in SUBSET ToSet(s.G["summzing"]) : MayOverflow(s, Cardinality(R))}
Dropping(s) == {<<>>} \union {<<r>> : r \in ToSet(s.G["infamous"])}
Scanned(s, ne, n, chosen) ==
    {ScannedTo(s, ne, stop, over, up, drop) :
        stop \in {c \in 1 .. s.sm.cursor - 1 : c <= AtLeast1(s.sm.cursor - n)},
        over \in Overflowing(s), up \in Risen(s, chosen), drop \in Dropping(s)}

\* setup_next_wave, with the scan of the static area's row.
Setup(s, ne, chosen) ==
    LET G == Switched(s.G, Coverage(ne))
    IN  Scanned([s EXCEPT !.G = G,
                          !.sm = [@ EXCEPT !.waiting = FALSE, !.complete = FALSE,
                                           !.goal = Goal(ne), !.cursor = GnoCount,
                                           !.over = 0, !.ready0 = Number(G, "wait_w_sum")]],
                ne, 1, chosen)

\* sm_is_waiting_or_complete
KeepsWaiting(s, ne) ==
    LET usable == Number(s.G, "wait_w_sum") + Number(s.G, "wait_nosum")
        maxPop == (ne + Popularity - 1) \div Popularity
    IN  usable - maxPop > Goal(ne) \/ Number(s.G, "filled") < Coverage(ne)

\* sm_construction_progress.  ready0 and 1 - rdyF, as a fraction of ready0,
\* rgnF as one of ne, speedups in tenths; the mutator's activity is unknown.
Ready(s) == Number(s.G, "wait_w_sum")
Behind(s) == AtLeast1(s.sm.ready0) - (Ready(s) - 1)
Passed(s, ne) == IF ne > s.sm.cursor THEN ne - s.sm.cursor ELSE 0
Speedup(kind) == IF kind = "timer" THEN 13 ELSE IF kind = "minor" THEN 11 ELSE 10

MustScan(s, ne, kind) ==
    /\ Speedup(kind) * Behind(s) * ne > 10 * Passed(s, ne) * AtLeast1(s.sm.ready0)
    /\ kind = "major" => 10 * Behind(s) >= 4 * AtLeast1(s.sm.ready0)

RowsAtLeisure(s, kind) ==
    IF kind = "timer" THEN 2
    ELSE IF Ready(s) > 2 THEN 1
    ELSE s.sm.cursor \div AtLeast1(Ready(s) + 1)
RowsToScan(s, kind) ==
    IF kind = "timer" THEN 2
    ELSE IF Ready(s) > 2 THEN 1
    ELSE s.sm.cursor \div AtLeast1(IF kind = "major" THEN Ready(s) - 1 ELSE Ready(s))

Progress(s, kind, chosen) ==
    LET ne == Nonempty(s.G)
        goesOn(t) == Scanned(t, ne, AtLeast1(RowsToScan(t, kind)), chosen)
        stays(t) == IF ne = 0 \/ ~MustScan(t, ne, kind) THEN {t} ELSE {}
        begun == IF s.sm.waiting THEN Setup(s, ne, chosen) ELSE {s}
    IN  IF ~s.sm.on \/ (s.sm.waiting /\ KeepsWaiting(s, ne)) THEN {s}
        ELSE UNION {goesOn(t) \union stays(t) : t \in begun}

\* initialize_summaries: the first filled region is collected without a
\* summary; a pass for no summary, which does not meet its goal, follows.
Initialized(G, regions) ==
    LET first == Enq(G, Head(G["filled"]), "wait_nosum")
    IN  Scanned([G |-> first, ref |-> ref,
                 sm |-> [NoSummaries EXCEPT !.on = TRUE, !.goal = Goal(regions),
                                            !.cursor = GnoCount]],
                regions, GnoCount, {})

\* sm_start_refinement
RefinementTakesAll(s) ==
    LET old == ToSet(s.G["summzing"]) \union ToSet(s.G["wait_w_sum"])
    IN  [s EXCEPT !.G = EnqAll(EnqAll(@, "hasbeen", "filled"), "advertised", "filled"),
                  !.ref = [stage |-> "refinement", predates |-> @.predates \union old,
                           left |-> Cardinality(old), passed |-> FALSE]]
RefinementStarts(s) ==
    LET old == ToSet(s.G["summzing"]) \union ToSet(s.G["wait_w_sum"])
    IN  [s EXCEPT !.G = EnqAll(s.G, "advertised", "filled"),
                  !.ref = [stage |-> "refinement", predates |-> @.predates \union old,
                           left |-> Cardinality(old), passed |-> FALSE]]

\* smircy_step: a marker that is through is ended, and another one started;
\* when its stack is empty, refinement starts (at once and for the whole
\* remembered set, if there are no summaries).
MarkerSteps(s) ==
    LET ended == [s EXCEPT !.ref = IF @.stage = "completed" THEN NoMarker ELSE @]
        begun == IF ended.ref.stage # "none" THEN ended
                 ELSE [ended EXCEPT !.G = EnqAll(@, "hasbeen", "advertised"),
                                    !.ref.stage = "construction"]
        marked == {InfamousToo(begun, R) : R \in Risen(begun, {})}
    IN  IF count <= 2 THEN {ended}
        ELSE marked \union IF begun.sm.on /\ begun.ref.stage = "construction"
                           THEN {RefinementStarts(m) : m \in marked} ELSE {}

-----------------------------------------------------------------------------
Init ==
    /\ nrgn = 2 /\ count = 2 /\ to = 1 /\ victim = 0 /\ fills = 0
    /\ grp = [g \in Groups |-> IF g = "unfilled" THEN <<1, 2>> ELSE <<>>]
    /\ majors = [sofar |-> 0, total |-> 1]
    /\ sm = NoSummaries /\ ref = NoMarker
    /\ phase = "mutate"

Becomes(s) == grp' = s.G /\ sm' = s.sm /\ ref' = s.ref

\* The timer lets the summarizer scan a little (incremental_rgnl_activity).
Timer ==
    /\ phase = "mutate" /\ sm.on
    /\ \E s \in Progress(Now, "timer", {}) : Becomes(s)
    /\ UNCHANGED <<nrgn, count, to, victim, majors, fills, phase>>

\* The mutator's stores or the collector's copies make the summary of r too
\* large (sm_add_ssb_elems_to_summary, sm_points_across_callback).
Overflow(r) ==
    /\ r \in Regions \ {victim}
    /\ In("summzing", r) \/ In("wait_w_sum", r)
    /\ MayOverflow(Now, 1)
    /\ grp' = Enq(grp, r, "risingstar")
    /\ ref' = Cleared(ref, {r})
    /\ sm' = [sm EXCEPT !.over = @ + 1]
    /\ UNCHANGED <<nrgn, count, to, victim, majors, fills, phase>>

\* Where to copy: the first region with room, or a new one.
NewTo(G) ==
    IF G["unfilled"] # <<>>
    THEN to' = Head(G["unfilled"]) /\ grp' = G /\ nrgn' = nrgn
    ELSE /\ nrgn < MaxRegions /\ nrgn' = nrgn + 1 /\ to' = nrgn + 1
         /\ grp' = [G EXCEPT !["unfilled"] = <<nrgn + 1>>]

StartPause ==
    /\ phase = "mutate" /\ phase' = "pause"
    /\ IF In("unfilled", to) THEN UNCHANGED <<grp, nrgn, to>> ELSE NewTo(grp)
    /\ UNCHANGED <<count, victim, majors, sm, ref, fills>>

\* The policy: what must be, and what may be, a major collection.
TwoRegionsOneFilled ==
    count = 2 /\ \E r \in {1, 2} : In("filled", r) /\ In("unfilled", 3 - r)
MustMajor == majors.sofar = 0 /\ TwoRegionsOneFilled
MayMajor == grp["wait_nosum"] \o grp["wait_w_sum"] \o grp["filled"] # <<>>

Minor ==
    /\ phase = "pause" /\ ~MustMajor
    /\ \E s \in Progress(Now, "minor", {to}) : Becomes(s)
    /\ phase' = "minor" /\ fills' = 1
    /\ UNCHANGED <<nrgn, count, to, victim, majors>>

\* find_appropriate_next
Candidates == grp["wait_nosum"] \o grp["wait_w_sum"] \o grp["filled"]

Major ==
    /\ phase = "pause" /\ MayMajor
    /\ victim' = Head(Candidates)
    /\ \E s \in Progress(Now, "major", {to, victim'}) : Becomes(s)
    /\ phase' = "major" /\ fills' = 2
    /\ UNCHANGED <<nrgn, count, to, majors>>

\* find_space_rgnl: the region copied to is full.
Fill ==
    /\ phase \in {"minor", "major"} /\ fills > 0
    /\ fills' = fills - 1
    /\ NewTo(Enq(grp, to, "filled"))
    /\ UNCHANGED <<count, victim, majors, sm, ref, phase>>

EndMinor ==
    /\ phase = "minor" /\ phase' = "mutate" /\ fills' = 0
    /\ \E s \in IF sm.on THEN MarkerSteps(Now) ELSE {Now} : Becomes(s)
    /\ UNCHANGED <<nrgn, count, to, victim, majors>>

EndMajor ==
    /\ phase = "major" /\ fills' = 0 /\ victim' = 0
    /\ majors' = [majors EXCEPT !.sofar = @ + 1]
    /\ phase' = IF majors'.sofar >= majors.total THEN "rolled" ELSE "mutate"
    /\ LET t == [G |-> Enq(grp, victim, "unfilled"), sm |-> sm,
                 ref |-> Cleared(ref, {victim})]
       IN  \E s \in {t} \union MarkerSteps(t) : Becomes(s)
    /\ UNCHANGED <<nrgn, count, to>>

\* rrof_completed_regional_cycle
Begins == ~sm.on /\ nrgn > EnoughRegions

EndCycle ==
    /\ phase = "rolled" /\ phase' = "mutate"
    /\ count' = nrgn
    /\ majors' = [sofar |-> 0, total |-> nrgn + 1 - Number(grp, "unfilled")]
    /\ Begins => Number(grp, "filled") >= 2
    /\ \E s \in IF Begins THEN Initialized(grp, nrgn) ELSE {Now} : Becomes(s)
    /\ UNCHANGED <<nrgn, to, victim, fills>>

Next ==
    \/ Timer \/ StartPause \/ Minor \/ Major \/ Fill
    \/ EndMinor \/ EndMajor \/ EndCycle
    \/ \E r \in 1 .. MaxRegions : Overflow(r)

Spec == Init /\ [][Next]_vars

-----------------------------------------------------------------------------
\* Every region is in exactly one group, once.
TypeOK ==
    /\ nrgn \in 2 .. MaxRegions /\ count \in 2 .. nrgn /\ to \in Regions
    /\ DOMAIN grp = Groups
    /\ \A r \in Regions : \E g \in Groups :
          /\ In(g, r)
          /\ \A h \in Groups \ {g} : ~In(h, r)
    /\ \A g \in Groups : IsInjective(grp[g]) /\ ToSet(grp[g]) \subseteq Regions
    /\ victim \in 0 .. nrgn /\ (victim # 0 <=> phase = "major")
    /\ sm.cursor \in 0 .. GnoCount
    /\ ref.stage \in {"none", "construction", "refinement", "completed"}

\* summ_matrix.c sm_construction_progress: a pass is certain to be finished
\* before the last region that is ready is collected.
FinishesInTime ==
    [][phase' = "major" /\ phase = "pause" /\ sm.on /\ ~sm.complete /\ Ready(Now) = 1
          => sm'.complete]_vars

\* memmgr.c collect_rgnl_majorgc, collect_rgnl_minorgc, find_space_rgnl: what
\* is copied to has room, and what is collected waits for it; none of the
\* steps in between took them out of their groups.
ChosenStayChosen ==
    /\ phase \in {"minor", "major"} => In("unfilled", to)
    /\ victim # 0 => ~In("infamous", victim) /\ ~In("hasbeen", victim)

\* summ_matrix.c check_if_refining_is_now_done: refinement counts exactly
\* the summaries older than the snapshot that are still to be used, and it
\* ends with the last of them.
RefinementCounts ==
    /\ ref.left = Cardinality(ref.predates)
    /\ ref.predates \subseteq ToSet(grp["summzing"]) \union ToSet(grp["wait_w_sum"])
    /\ ref.stage = "refinement" => ~(ref.passed /\ ref.left = 0)
    /\ ref.stage # "refinement" => ref.predates = {}

\* is_nonmoving and region_group: pointers into infamous regions are not
\* remembered, so such a region must go through a whole marking, which
\* remembers them again, before it can be collected.
InfamyEndsByMarking ==
    [][\A r \in Regions :
         /\ In("infamous", r) => (In("infamous", r) \/ In("hasbeen", r))'
         /\ In("hasbeen", r) => \/ (In("infamous", r) \/ In("hasbeen", r))'
                               \/ ref.stage # "construction"
         /\ In("advertised", r) =>
               \/ (In("advertised", r) \/ In("infamous", r) \/ In("hasbeen", r))'
               \/ (In("filled", r) /\ ref.stage = "refinement")']_vars
=============================================================================
