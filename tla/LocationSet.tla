------------------------------ MODULE LocationSet ------------------------------
(***************************************************************************)
(* The location sets of Rts/Sys/locset.c, and the summary that             *)
(* summ_matrix.c composes of three of them (summary.c) when a region is    *)
(* collected: the locations the program stored to since the last           *)
(* collection (nursery_locset), those logged for the region (sum_mutator)  *)
(* and the cells of the region's column.                                   *)
(*                                                                         *)
(* A location set is a hash table of chains whose entries are taken in     *)
(* order from pool segments.  An entry is never unlinked: it is cleared,   *)
(* stays in its chain, and a summary hands it out all the same.            *)
(***************************************************************************)
EXTENDS Naturals, Sequences, FiniteSets, FiniteSetsExt, SequencesExt

CONSTANTS Locations,
          Buckets, Hash, \* the hash table, and the bucket of each location
          Cleared,       \* what clear_loc leaves
          PoolEntries,   \* entries of a segment
          MaxPools       \* bound: segments of a set

LocationSetAssumption ==
  /\ Hash \in [Locations -> Buckets] /\ Cleared \notin Locations
  /\ PoolEntries \in Nat \ {0} /\ MaxPools \in Nat \ {0}

VARIABLES nursery,  \* nursery_locset
          mutator,  \* sum_mutator of the column
          column    \* what the locs_pools of its cells hold, once each
vars == <<nursery, mutator, column>>

(* An entry is named by its segment and its place there.                   *)
None == <<0, 0>>
EmptySet == [tbl |-> [b \in Buckets |-> None], pools |-> << << >> >>, live |-> 0]
Entry(ls, e) == ls.pools[e[1]][e[2]]
Entries(ls) == UNION {{<<s, i>> : i \in DOMAIN ls.pools[s]} : s \in DOMAIN ls.pools}
Members(ls) == {Entry(ls, e).loc : e \in Entries(ls)} \ {Cleared}

(* The walk of ls_add_loc and ls_ismember.                                 *)
Lookup(ls, l) ==
  LET find[e \in Entries(ls) \cup {None}] ==
        IF e = None \/ Entry(ls, e).loc = l THEN e ELSE find[Entry(ls, e).next]
  IN  find[ls.tbl[Hash[l]]]
IsMember(ls, l) == Lookup(ls, l) # None

(* handle_overflow: the next segment, when this one is full.               *)
WithRoom(pools) == IF Len(Last(pools)) = PoolEntries THEN Append(pools, << >>) ELSE pools
(* Broken variant: it looks at the head of the chain only.                 *)
AddsUnlessFirst(ls, l) ==
  LET pools == WithRoom(ls.pools)
      s == Len(pools)
      head == ls.tbl[Hash[l]]
  IN  IF head # None /\ Entry(ls, head).loc = l THEN ls
      ELSE [tbl |-> [ls.tbl EXCEPT ![Hash[l]] = <<s, Len(pools[s]) + 1>>],
            pools |-> [pools EXCEPT ![s] = Append(@, [loc |-> l, next |-> head])],
            live |-> ls.live + 1]
AddLoc(ls, l) ==
  IF IsMember(ls, l) THEN ls
  ELSE LET pools == WithRoom(ls.pools)
           s == Len(pools)
           entry == [loc |-> l, next |-> ls.tbl[Hash[l]]]
       IN  [tbl |-> [ls.tbl EXCEPT ![Hash[l]] = <<s, Len(pools[s]) + 1>>],
            pools |-> [pools EXCEPT ![s] = Append(@, entry)],
            live |-> ls.live + 1]

(* ls_enumerate and ls_enumerate_locs, with a scanner that refuses drop.   *)
(* Broken variant: it counts what it is to refuse, not what it refuses.    *)
CountsRefused(ls, drop) ==
  [ls EXCEPT !.pools = [s \in DOMAIN @ |-> [i \in DOMAIN @[s] |->
                 IF @[s][i].loc \in drop THEN [@[s][i] EXCEPT !.loc = Cleared] ELSE @[s][i]]],
             !.live = @ - Cardinality(drop)]
Enumerate(ls, drop) ==
  [ls EXCEPT !.pools = [s \in DOMAIN @ |-> [i \in DOMAIN @[s] |->
                 IF @[s][i].loc \in drop THEN [@[s][i] EXCEPT !.loc = Cleared] ELSE @[s][i]]],
             !.live = @ - Cardinality({e \in Entries(ls) : Entry(ls, e).loc \in drop})]

-----------------------------------------------------------------------------
(* ls_init_summary, ls_pool_next_chunk_locs: the cursor is an entry; past  *)
(* the last of a segment it goes on to the next segment that has any.      *)
NextSegment(ls, s) ==
  LET some == {t \in s + 1 .. Len(ls.pools) : ls.pools[t] # << >>}
  IN  IF some = {} THEN <<s, Len(ls.pools[s]) + 1>> ELSE <<Min(some), 1>>
Advance(ls, e) ==
  IF e[2] < Len(ls.pools[e[1]]) THEN <<e[1], e[2] + 1>> ELSE NextSegment(ls, e[1])
HandedOut(ls) ==
  LET from[e \in (1 .. Len(ls.pools)) \X (1 .. PoolEntries + 1)] ==
        IF e[2] > Len(ls.pools[e[1]]) THEN << >>
        ELSE <<Entry(ls, e).loc>> \o from[Advance(ls, e)]
  IN  from[IF ls.pools[1] = << >> THEN NextSegment(ls, 1) ELSE <<1, 1>>]

(* summary_enumerate_locs_dispatch passes over cleared entries and what    *)
(* the filter refuses.                                                     *)
Dispatched(locs, filter) == SelectSeq(locs, LAMBDA l : l \in filter)

(* filter_mutated_elem_locs: what the other two parts have is left out,    *)
(* and during refinement what holds a pointer to a dead object.            *)
(* Broken variant: what the program stored to lately is not left out.      *)
NotLogged(nur, mut, dead) == {l \in Locations : ~IsMember(mut, l)} \ dead
NotElsewhere(nur, mut, dead) ==
  {l \in Locations : ~IsMember(mut, l) /\ ~IsMember(nur, l)} \ dead

(* sm_fold_in_nursery_and_init_summary, summary_compose: the order of the  *)
(* parts, which are filtered before, and what summary_enumerate_locs meets.*)
Folded(dead) ==
  LET nur == Enumerate(nursery, Members(mutator))
      mut == Enumerate(mutator, dead)
  IN  [entries |-> nur.live + mut.live + Cardinality(column),
       visited |-> Dispatched(HandedOut(nur), Locations)
                     \o Dispatched(HandedOut(mut), Locations)
                     \o Dispatched(SetToSeq(column), NotElsewhere(nur, mut, dead))]

-----------------------------------------------------------------------------
Init ==
  nursery = EmptySet /\ mutator = EmptySet /\ column = {}

HasRoom(ls) == Len(WithRoom(ls.pools)) <= MaxPools

(* sm_add_ssb_elems_to_summary: of this region, or of another one.         *)
Log(l, here) ==
  /\ HasRoom(nursery) /\ HasRoom(mutator)
  /\ nursery' = AddLoc(nursery, l)
  /\ mutator' = IF here THEN AddLoc(mutator, l) ELSE mutator
  /\ UNCHANGED column

(* scan_object_for_remset_summary; no location is in the column twice      *)
(* (NoDuplicates of module RegionSummaries).                               *)
Scan(l) ==
  /\ l \notin column /\ column' = column \cup {l}
  /\ UNCHANGED <<nursery, mutator>>

(* sm_clear_contribution_to_summaries: what lies in another region that is *)
(* now collected.  A minor collection clears the nursery's set.            *)
ClearContribution(gone) ==
  /\ mutator' = Enumerate(mutator, gone) /\ nursery' = EmptySet
  /\ column' = column \ gone

(* The region is collected, with its summary, which is cleared then.       *)
Collect == nursery' = EmptySet /\ mutator' = EmptySet /\ column' = {}

Next ==
  \/ \E l \in Locations : Scan(l) \/ \E here \in BOOLEAN : Log(l, here)
  \/ \E S \in SUBSET Locations : ClearContribution(S)
  \/ Collect

Spec == Init /\ [][Next]_vars
-----------------------------------------------------------------------------
IsSet(ls) ==
  /\ ls.tbl \in [Buckets -> Entries(ls) \cup {None}] /\ ls.live \in Nat
  /\ Len(ls.pools) <= MaxPools
  /\ \A s \in DOMAIN ls.pools : Len(ls.pools[s]) <= PoolEntries
(* The shape of the sets; every segment but the last is full.              *)
SetsTypeOK ==
  \A ls \in {nursery, mutator} :
    IsSet(ls) /\ \A s \in 1 .. Len(ls.pools) - 1 : Len(ls.pools[s]) = PoolEntries

(* What ls_ismember finds by way of the table is what a summary hands out  *)
(* of the segments, once each; ls->live is their number.                   *)
SetsAgree ==
  \A ls \in {nursery, mutator} :
    LET handed == Dispatched(HandedOut(ls), Locations)
    IN  /\ Range(handed) = {l \in Locations : IsMember(ls, l)}
        /\ IsInjective(handed) /\ Len(handed) = ls.live

(* The summary of a region: every location that any of its parts has is    *)
(* visited, once ("to avoid repeat traversal"), and none that points to a  *)
(* dead object but for those stored to since the last collection; there    *)
(* are no more than it announced.                                          *)
SummaryVisitsOnce ==
  \A dead \in SUBSET Locations :
    LET s == Folded(dead)
        fresh == Members(nursery) \ Members(mutator)
    IN  /\ IsInjective(s.visited) /\ Len(s.visited) <= s.entries
        /\ Range(s.visited) =
             fresh \cup ((Members(mutator) \cup column) \ dead)

(* A location set and the log of the mutator hold the same locations       *)
(* however they overflow and are cleared, and a summary visits each once.  *)
LocsetExact == SetsTypeOK /\ SetsAgree /\ SummaryVisitsOnce
=============================================================================
