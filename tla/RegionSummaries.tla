--------------------------- MODULE RegionSummaries ---------------------------
(***************************************************************************)
(* What the summaries of the regional collector hold (the summary matrix   *)
(* of Rts/Sys/summ_matrix.c): for a region that is to be collected, the    *)
(* locations in other regions that point into it.  They are built row by   *)
(* row from the remembered set while the mutator runs, kept up to date by  *)
(* the write barrier's buffers and by the collector's copying, and used in *)
(* place of the remembered set when the region is collected.               *)
(*                                                                         *)
(* Which region is summarized, collected and copied to, and when, is the   *)
(* policy of module RegionGroups; here any choice is possible.  How marks  *)
(* are made is module SnapshotMarker: here a marker leaves unmarked what   *)
(* is dead when it has finished.                                           *)
(*                                                                         *)
(* Abstractions.  Objects have one slot, so a location is its object, and  *)
(* keep their names when they move.  Regions are 1 .. Regions, without a   *)
(* static area and without infamous regions.  How many words a summary may *)
(* have is a choice: any addition may be one too many.                     *)
(***************************************************************************)
EXTENDS Integers, FiniteSets, FiniteSetsExt, TLC

CONSTANTS
    Objects,  \* names of heap objects
    Nil,      \* not a pointer
    Regions,  \* number of regions
    MaxWork,  \* bound: allocations and stores of the program
    MaxRoots, \* bound: the program holds at most so many objects at once
    Stars,    \* may a summary become too large?
    Unsummarized, \* are regions without summaries collected during refinement?
    MidPass,  \* may refinement start in the middle of a pass?
    LateRest  \* does a summary that overflows keep the rest of the buffer?

ASSUME SummariesAssumption ==
    /\ Nil \notin Objects /\ IsFiniteSet(Objects)
    /\ Regions \in Nat /\ Regions >= 2
    /\ MaxRoots \in Nat /\ MaxWork \in Nat
    /\ {Stars, Unsummarized, MidPass, LateRest} \subseteq BOOLEAN

VARIABLES
    reg,   \* reg[o]: Free, 0 (nursery) or the region of o
    fld,   \* fld[o]: the slot of o
    roots, \* objects in registers, on the stack, in handles
    rem,   \* the_remset; a row is the part of it in one region
    ssb,   \* the store buffers: <<location, generation it points to>>
    nur,   \* nursery_locset: locations stored to since the last collection
    cells, \* cells[g][o]: how often o is in the cells of column g
    mut,   \* mut[g]: sum_mutator of column g
    grp,   \* grp[g]: region group
    pass,  \* the pass over the remembered set, if one is under way
    ref,   \* refinement by the marks of a snapshot
    work   \* bound: allocations and stores so far

vars == <<reg, fld, roots, rem, ssb, nur, cells, mut, grp, pass, ref, work>>

Free == -1
Rgns == 1 .. Regions
InUse(r, o) == r[o] # Free
Empty == [o \in Objects |-> 0]
NoRefining == [on |-> FALSE, unm |-> {}, passed |-> FALSE, left |-> {}]
Fresh == Regions + 1 \* gno_count: nothing is scanned yet

\* The objects of C reachable from S by way of objects of C only.
Reachable(f, S, C) ==
    LET next(T) == T \union ({f[o] : o \in T} \ {Nil})
        n == Cardinality(Objects)
        closure[i \in 0 .. n] == IF i = 0 THEN S \ {Nil}
                                 ELSE next(closure[i - 1] \cap C) \union closure[i - 1]
    IN  closure[n]
\* What the program can use, loading what it needs.
Live == Reachable(fld, roots, Objects)

\* A pointer of o that leaves its region r[o], and where it leads to.
Crosses(r, f, o) == f[o] # Nil /\ r[f[o]] # r[o]

-----------------------------------------------------------------------------
\* The heap when summaries begin to be made, without garbage: all that points
\* across is remembered.  All regions but one are filled (some with objects that
\* are dead already).
Init ==
    /\ reg \in [Objects -> {Free} \union Rgns]
    /\ fld \in [Objects -> Objects \union {Nil}]
    /\ \A o \in Objects : fld[o] # Nil => InUse(reg, o) /\ InUse(reg, fld[o])
    /\ \E o \in Objects : roots = {o}
    /\ Live = {o \in Objects : InUse(reg, o)}
    /\ rem = {o \in Objects : Crosses(reg, fld, o)}
    /\ ssb = {} /\ nur = {} /\ work = 0
    /\ cells = [g \in Rgns |-> Empty] /\ mut = [g \in Rgns |-> {}]
    /\ \E t \in Rgns : grp = [g \in Rgns |-> IF g = t THEN "unfilled" ELSE "filled"]
    /\ pass = [on |-> FALSE, cursor |-> Fresh]
    /\ ref = NoRefining

\* The mutator.
Alloc(o, v) ==
    /\ work < MaxWork /\ work' = work + 1
    /\ reg[o] = Free /\ v \in Live \union {Nil}
    /\ Cardinality(roots) < MaxRoots
    /\ reg' = [reg EXCEPT ![o] = 0] /\ fld' = [fld EXCEPT ![o] = v]
    /\ roots' = roots \union {o}
    /\ UNCHANGED <<rem, ssb, nur, cells, mut, grp, pass, ref>>

Drop(o) ==
    /\ o \in roots /\ roots' = roots \ {o}
    /\ UNCHANGED <<work, reg, fld, rem, ssb, nur, cells, mut, grp, pass, ref>>

\* The write barrier logs pointers from old objects to other generations.
Store(o, v) ==
    /\ work < MaxWork /\ work' = work + 1
    /\ o \in Live /\ v \in Live \union {Nil} /\ v # fld[o]
    /\ fld' = [fld EXCEPT ![o] = v]
    /\ ssb' = IF v # Nil /\ reg[o] # 0 /\ reg[o] # reg[v]
              THEN ssb \union {<<o, reg[v]>>} ELSE ssb
    /\ UNCHANGED <<reg, roots, rem, nur, cells, mut, grp, pass, ref>>

-----------------------------------------------------------------------------
\* check_if_refining_is_now_done
Checked(f) == IF f.on /\ f.passed /\ f.left = {} THEN NoRefining ELSE f
\* clear_col_cells: the end of a summary from before the snapshot.
KeepsCounting(f, G) == Checked(f)
ClearedCol(f, G) == Checked([f EXCEPT !.left = @ \ G])

HasSummary(G, g) == G[g] \in {"wait", "summzing"}

\* Summaries that grew too large: risen stars without a summary.
Overflowing(G, grown) ==
    IF Stars THEN SUBSET {g \in grown : HasSummary(G, g)} ELSE {{}}
Dropped(c, over) == [g \in Rgns |-> IF g \in over THEN Empty ELSE c[g]]
Risen(G, over) == [g \in Rgns |-> IF g \in over THEN "star" ELSE G[g]]

\* A store buffer is emptied: ssb_process_rrof, urs_add_elems and
\* sm_add_ssb_elems_to_summary.  A summary that overflows on the way keeps
\* what is added to it after that.
Flush(g) ==
    LET locs == {p[1] : p \in {q \in ssb : q[2] = g}}
    IN  /\ locs # {}
        /\ ssb' = {p \in ssb : p[2] # g}
        /\ rem' = rem \union locs /\ nur' = nur \union locs
        /\ \E over \in Overflowing(grp, {g} \cap Rgns) :
              /\ cells' = Dropped(cells, over)
              /\ grp' = Risen(grp, over)
              /\ ref' = ClearedCol(ref, over)
              /\ IF g \in over
                 THEN \E rest \in IF LateRest THEN (SUBSET locs) \ {locs} ELSE {{}} :
                         mut' = [mut EXCEPT ![g] = rest]
                 ELSE mut' = [h \in Rgns |-> IF h = g /\ HasSummary(grp, g)
                                             THEN mut[h] \union locs ELSE mut[h]]
        /\ UNCHANGED <<work, reg, fld, roots, pass>>

-----------------------------------------------------------------------------
\* setup_next_wave, switch_some_to_summarizing
Summarizing(G, S) == [g \in Rgns |-> IF g \in S THEN "summzing" ELSE G[g]]
Summarizable(G) == {g \in Rgns : G[g] \in {"filled", "star"}}

StartWave ==
    /\ ~pass.on
    /\ Summarizable(grp) # {} /\ grp' = Summarizing(grp, Summarizable(grp))
    /\ pass' = [on |-> TRUE, cursor |-> Fresh]
    /\ UNCHANGED <<work, reg, fld, roots, rem, ssb, nur, cells, mut, ref>>

\* sm_build_summaries_iteration_complete: with too few summaries there is
\* another pass, for more regions.
IterationComplete(G) ==
    LET done == [g \in Rgns |-> IF G[g] = "summzing" THEN "wait" ELSE G[g]]
    IN  \/ grp' = done /\ pass' = [on |-> FALSE, cursor |-> Fresh]
        \/ /\ Summarizable(done) # {} /\ grp' = Summarizing(done, Summarizable(done))
           /\ pass' = [on |-> TRUE, cursor |-> Fresh]

\* sm_build_summaries_by_scanning, scan_object_for_remset_summary: some rows,
\* to the next one in which something is left (those without do not count),
\* or to the last.  Objects that are not marked, or point nowhere else, are
\* forgotten.
KeepsCorpses == {o \in rem : Crosses(reg, fld, o)}
Keeps == {o \in rem : ~(ref.on /\ o \in ref.unm) /\ Crosses(reg, fld, o)}

ScanRows ==
    LET r == Max({1} \union {reg[o] : o \in {p \in Keeps : reg[p] < pass.cursor}})
        rows == {o \in rem : reg[o] >= r /\ reg[o] < pass.cursor}
        into(g) == {o \in rows \cap Keeps : reg[fld[o]] = g /\ grp[g] = "summzing"}
        scanned == [g \in Rgns |->
                       [o \in Objects |-> cells[g][o] + IF o \in into(g) THEN 1 ELSE 0]]
    IN  /\ pass.on
        /\ rem' = rem \ (rows \ Keeps)
        /\ \E over \in Overflowing(grp, {g \in Rgns : into(g) # {}}) :
              /\ cells' = Dropped(scanned, over)
              /\ mut' = [g \in Rgns |-> IF g \in over THEN {} ELSE mut[g]]
              /\ IF r > 1
                 THEN /\ grp' = Risen(grp, over) /\ pass' = [pass EXCEPT !.cursor = r]
                      /\ ref' = ClearedCol(ref, over)
                 ELSE /\ IterationComplete(Risen(grp, over))
                      /\ ref' = ClearedCol([ref EXCEPT !.passed = ref.on], over)
        /\ UNCHANGED <<work, reg, fld, roots, ssb, nur>>

-----------------------------------------------------------------------------
(***************************************************************************)
(* A collection that moves what it keeps of the nursery, and of region R   *)
(* unless R is 0, to region t.  locs are the locations used as roots, and  *)
(* before(s) what was done to the matrix before copying.                   *)
(***************************************************************************)
AliveInSnapshot(o) == fld[o] # Nil /\ (reg[fld[o]] = 0 \/ fld[o] \notin ref.unm)
Filtered(S) == {o \in S : ref.on => AliveInSnapshot(o)}

\* sm_fold_in_nursery_and_init_summary
WithoutNursery(R) ==
    LET inCells == {o \in Objects : cells[R][o] > 0}
    IN  Filtered(mut[R]) \union Filtered(inCells \ mut[R])
SummaryOf(R) ==
    LET inCells == {o \in Objects : cells[R][o] > 0}
    IN  (nur \ mut[R]) \union Filtered(mut[R])
          \union Filtered(inCells \ (mut[R] \union nur))

\* enumerate_remsets_complement: all that is remembered outside R.
RemsetFor(R) == {o \in rem : reg[o] # R}

\* sm_points_across_callback: the copies are in a row that is scanned
\* already, or in a column that no scan will add to.
AlwaysTakes(g, t) == HasSummary(grp, g)
OnlyWhenReady(g, t) == grp[g] = "wait"
TakesCopies(g, t) ==
    \/ grp[g] = "wait"
    \/ grp[g] = "summzing" /\ t >= pass.cursor

Collected(R) == {o \in Objects : InUse(reg, o) /\ (reg[o] = 0 \/ reg[o] = R)}
Kept(R, locs) == Reachable(fld, roots \union {fld[o] : o \in locs}, Collected(R))
                   \cap Collected(R)

\* sm_clear_contribution_to_summaries
ClearedRow(R, c) == [g \in Rgns |-> [o \in Objects |-> IF reg[o] = R THEN 0 ELSE c[g][o]]]
ClearedMut(R) == [g \in Rgns |-> {o \in mut[g] : reg[o] # R}]

\* smircy_step at the end of a collection: when all is marked, refinement
\* starts.  What is dead in heap r, f is unmarked.
Unmarked(r, f) ==
    {o \in Objects : InUse(r, o) /\ o \notin Reachable(f, roots, Objects)}

Refines(f, r, h, G) ==
    \/ ref' = f
    \/ /\ ~f.on /\ (MidPass \/ pass.cursor = Fresh)
       /\ ref' = [on |-> TRUE, unm |-> Unmarked(r, h), passed |-> FALSE,
                  left |-> {g \in Rgns : HasSummary(G, g)}]

Copying(R, t, locs) ==
    LET kept == Kept(R, locs)
        lost == Collected(R) \ kept
        moved == [o \in Objects |-> IF o \in kept THEN t
                                    ELSE IF o \in lost THEN Free ELSE reg[o]]
        f == [o \in Objects |-> IF o \in lost THEN Nil ELSE fld[o]]
        across == {o \in kept : Crosses(moved, f, o)}
        into(g) == {o \in across : moved[f[o]] = g /\ TakesCopies(g, t)}
        cleared == ClearedRow(R, cells)
        copied == [g \in Rgns |-> [o \in Objects |->
                      cleared[g][o] + IF o \in into(g) THEN 1 ELSE 0]]
    IN  /\ ssb = {} \* before_collection empties them (Flush)
        /\ grp[t] = "unfilled" /\ t # R
        /\ reg' = moved /\ fld' = f
        /\ rem' = {o \in rem : reg[o] # R} \union across
        /\ nur' = {}
        /\ \E over \in Overflowing(grp, {g \in Rgns \ {R} : into(g) # {}}) :
              /\ cells' = Dropped(copied, over \union {R})
              /\ mut' = [g \in Rgns |-> IF g \in over \union {R} THEN {}
                                        ELSE ClearedMut(R)[g]]
              /\ \E after \in {"unfilled", "filled"} :
                    /\ after = "filled" => t \in {moved[o] : o \in Objects}
                    /\ grp' = [g \in Rgns |-> IF g = t THEN after
                                              ELSE IF g = R THEN "unfilled"
                                              ELSE Risen(grp, over)[g]]
              /\ Refines(ClearedCol([ref EXCEPT !.unm = @ \ lost], over \union {R}),
                         moved, f, grp')
        /\ UNCHANGED <<work, roots, ssb, pass>>

\* collect_rgnl_minorgc; and collect_rgnl_majorgc of a region with a summary,
\* and of one without.
Minor(t) == Copying(0, t, nur)
Major(R, t) == grp[R] = "wait" /\ Copying(R, t, SummaryOf(R))
MajorWithout(R, t) ==
    grp[R] = "filled" /\ (ref.on => Unsummarized) /\ Copying(R, t, RemsetFor(R))

\* Refinement is over when a marker's steps find it so; nothing else happens.
Next ==
    \/ \E o \in Objects : \/ Drop(o)
                          \/ \E v \in Objects \union {Nil} : Alloc(o, v) \/ Store(o, v)
    \/ \E g \in 0 .. Regions : Flush(g)
    \/ StartWave \/ ScanRows
    \/ \E t \in Rgns : Minor(t) \/ \E R \in Rgns : Major(R, t) \/ MajorWithout(R, t)

Spec == Init /\ [][Next]_vars

-----------------------------------------------------------------------------
\* The shape of the state; what refinement still waits for are summaries that
\* exist (left is counted down in clear_col_cells).
TypeOK ==
    /\ reg \in [Objects -> {Free} \union 0 .. Regions]
    /\ fld \in [Objects -> Objects \union {Nil}]
    /\ roots \subseteq Objects /\ rem \subseteq Objects /\ nur \subseteq Objects
    /\ ssb \subseteq Objects \X (0 .. Regions)
    /\ cells \in [Rgns -> [Objects -> Nat]] /\ mut \in [Rgns -> SUBSET Objects]
    /\ grp \in [Rgns -> {"unfilled", "filled", "summzing", "wait", "star"}]
    /\ pass \in [on : BOOLEAN, cursor : 2 .. Fresh]
    /\ ref.left \subseteq {g \in Rgns : HasSummary(grp, g)}

\* verify_summaries_msgc_fcn: a location of a live object that points into
\* another region is in the summary of that region, if it has one, or if one
\* is being made and the row of the location was scanned.
SummaryComplete ==
    \A o \in Live :
        Crosses(reg, fld, o) /\ reg[o] > 0 /\ reg[fld[o]] > 0 =>
            LET g == reg[fld[o]]
            IN  grp[g] = "wait" \/ (grp[g] = "summzing" /\ reg[o] >= pass.cursor) =>
                    cells[g][o] > 0 \/ o \in mut[g] \/ <<o, g>> \in ssb

\* fold_col_into_locset: no location is in two cells of a column.
NoDuplicates == \A g \in Rgns, o \in Objects : cells[g][o] <= 1

\* Every summary that is used, and every part of one under construction that
\* is said to be done, is complete and names each location once, however
\* often the objects moved since.
SummariesComplete == TypeOK /\ SummaryComplete /\ NoDuplicates

\* Nothing that the program can reach is lost.
NothingLost == \A o \in Live : InUse(reg, o)

\* summ_matrix.c, struct refining: when the snapshot is discarded the whole
\* remembered set was refined; what is remembered is no corpse that points
\* to where a collected object was.
RemsetSound ==
    \A o \in rem : ~(ref.on /\ o \in ref.unm) =>
        InUse(reg, o) /\ (fld[o] # Nil => InUse(reg, fld[o]))

\* For TLC: objects are interchangeable.
ObjectSymmetry == Permutations(Objects)
=============================================================================
