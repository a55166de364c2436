----------------------------- MODULE SummaryMatrix -----------------------------
(***************************************************************************)
(* The sparse matrix of summaries, Rts/Sys/summ_matrix.c.  The locations   *)
(* in region s that point into region t are kept in a cell, which is on    *)
(* the circular list of row s and on that of column t, both sorted; two    *)
(* caches remember cells.  What the mutator stored is kept per column, in  *)
(* a location set from a pool.                                             *)
(***************************************************************************)
EXTENDS Integers, Sequences, FiniteSets, FiniteSetsExt, SequencesExt

CONSTANTS FirstRegions,    \* the regions at the start; the last is the static area
          MaxRegions, MaxCells, MaxLocsets, MaxWords,  \* bounds
          Locs,            \* what tells the locations in a region apart
          MaxBatch,        \* bound on the entries of the mutator's buffer
          PopularityLimit  \* popularity_limit, in words
SummaryMatrixAssumption ==
  /\ {FirstRegions, MaxRegions, MaxCells, MaxLocsets, MaxWords, PopularityLimit} \subseteq Nat \ {0}
  /\ 1 < FirstRegions /\ FirstRegions <= MaxRegions

VARIABLES cells,    \* the memory: cells and the sentinels of the lists
          rows,     \* [lft, rgt]: the sentinel and the last cell
          cols,     \* [top, bot, words]: likewise, and col_words, the sum of its counters
          cache,    \* row_cache: last, valid, table
          mutator,  \* sum_mutator of each column: a location set, or None
          pool,     \* locset_pool
          locsets,  \* the contents of the location sets there are, <<source, location>>
          summarized, \* the regions summarized, or being so
          recorded  \* history: what was entered and not cleared, <<source, target, location>>
vars == <<cells, rows, cols, cache, mutator, pool, locsets, summarized, recorded>>

None == 0
Sentinel == -1
Regions == DOMAIN rows
Targets == 1 .. Len(rows) - 1
MaxIds == MaxCells + 2 * MaxRegions
FreshId(c) == CHOOSE i \in 1 .. MaxIds : i \notin DOMAIN c /\ \A j \in 1 .. i - 1 : j \in DOMAIN c
AllWords == MapThenSumSet(LAMBDA t : cols[t].words, Regions)
CellsUsed == Cardinality(DOMAIN cells) - 2 * Len(rows)

\* make_sentinel_cell, make_cell
Cell(s, t, self) == [source |-> s, target |-> t, locs |-> {}, next_row |-> self,
                     prev_row |-> self, next_col |-> self, prev_col |-> self]
With(c, id, cell) == [i \in DOMAIN c \cup {id} |-> IF i = id THEN cell ELSE c[i]]

-----------------------------------------------------------------------------
(* The cells of a list, from the sentinel on in one direction.             *)
Chain(c, sentinel, next) ==
  LET from[i \in DOMAIN c, left \in 0 .. MaxCells] ==
        IF i = sentinel \/ left = 0 THEN << >> ELSE <<i>> \o from[c[i][next], left - 1]
  IN  from[c[sentinel][next], MaxCells]
RowChain(s) == Chain(cells, rows[s].lft, "next_row")
ColumnChain(t) == Chain(cells, cols[t].top, "next_col")

(* scan_row_for_cell, scan_col_for_cell: the last cell before the number.  *)
Before(chain, sentinel, field, gno) ==
  LET before == SelectSeq(chain, LAMBDA i : cells[i][field] < gno)
  IN  IF before = << >> THEN sentinel ELSE Last(before)
Found(s, t) == {i \in ToSet(RowChain(s)) : cells[i].target = t}

(* summ_cell makes the cell that is missing, between its neighbours.       *)
MadeCell(s, t) ==
  LET id == FreshId(cells)
      w == Before(RowChain(s), rows[s].lft, "target", t)
      e == cells[w].next_row
      n == Before(ColumnChain(t), cols[t].top, "source", s)
      so == cells[n].next_col
      new == [Cell(s, t, id) EXCEPT !.next_row = e, !.prev_row = w, !.next_col = so, !.prev_col = n]
  IN  [id |-> id,
       cells |-> [With(cells, id, new) EXCEPT ![e].prev_row = id, ![w].next_row = id,
                                              ![so].prev_col = id, ![n].next_col = id],
       rows |-> IF rows[s].rgt = w THEN [rows EXCEPT ![s].rgt = id] ELSE rows,
       cols |-> IF cols[t].bot = n THEN [cols EXCEPT ![t].bot = id] ELSE cols]

(* The caches of summ_cell, looked at in this order.  Broken variant: the  *)
(* row of a cell in the table is not looked at.                            *)
CachedOf(s, t) ==
  IF cache.valid /\ cells[cache.last].target = t THEN cache.last ELSE cache.table[t]
Cached(s, t) ==
  IF cache.valid /\ cells[cache.last].source = s /\ cells[cache.last].target = t
  THEN cache.last
  ELSE IF cache.table[t] # None /\ cells[cache.table[t]].source = s THEN cache.table[t] ELSE None
SummCell(s, t) ==
  LET there == IF Cached(s, t) # None THEN {Cached(s, t)} ELSE Found(s, t)
  IN  IF there # {} THEN [id |-> Min(there), cells |-> cells, rows |-> rows, cols |-> cols]
      ELSE MadeCell(s, t)

-----------------------------------------------------------------------------
(* free_cell, and taking a cell off both lists.  Broken variants: the      *)
(* cache keeps the cell; the links back are not updated.                   *)
KeepsTable(m, id) == [m EXCEPT !.cells = [i \in DOMAIN m.cells \ {id} |-> m.cells[i]]]
Freed(m, id) ==
  LET t == m.cells[id].target
  IN  [m EXCEPT !.cells = [i \in DOMAIN m.cells \ {id} |-> m.cells[i]],
                !.table = IF @[t] = id THEN [@ EXCEPT ![t] = None] ELSE @]
UnlinkedForward(c, id) ==
  [c EXCEPT ![c[id].prev_col].next_col = c[id].next_col,
            ![c[id].prev_row].next_row = c[id].next_row]
Unlinked(c, id) ==
  [c EXCEPT ![c[id].prev_col].next_col = c[id].next_col,
            ![c[id].next_col].prev_col = c[id].prev_col,
            ![c[id].prev_row].next_row = c[id].next_row,
            ![c[id].next_row].prev_row = c[id].prev_row]
\* Everything but the summarized regions, for steps made of several.
Now == [cells |-> cells, rows |-> rows, cols |-> cols, table |-> cache.table,
        last |-> cache.last, valid |-> cache.valid,
        mutator |-> mutator, pool |-> pool, locsets |-> locsets, recorded |-> recorded]
Becomes(m) ==
  /\ cells' = m.cells /\ rows' = m.rows /\ cols' = m.cols
  /\ cache' = [table |-> m.table, last |-> m.last, valid |-> m.valid]
  /\ mutator' = m.mutator /\ pool' = m.pool /\ locsets' = m.locsets
  /\ recorded' = m.recorded

(* clear_col_cells.  Broken variant: the row does not learn that its last  *)
(* cell is gone.                                                           *)
ForgetsRight(m, id) == Freed([m EXCEPT !.cells = Unlinked(@, id)], id)
WithoutOfColumn(m, id) ==
  LET s == m.cells[id].source
      rgt == IF m.rows[s].rgt = id THEN m.cells[id].prev_row ELSE m.rows[s].rgt
  IN  Freed([m EXCEPT !.cells = Unlinked(@, id), !.rows[s].rgt = rgt], id)
ColumnCleared(m, t) ==
  LET sentinel == m.cols[t].top
      chain == Chain(m.cells, sentinel, "next_col")
      closed == [m EXCEPT !.cells[sentinel].next_col = sentinel, !.cells[sentinel].prev_col = sentinel,
                          !.cols[t].bot = sentinel, !.cols[t].words = 0]
  IN  FoldLeft(WithoutOfColumn, closed, chain)

(* sm_clear_contribution_to_summaries, of one cell: the words are *)
(* taken from the counters only for the last cell of the column.        *)
WithoutOfRow(m, id) ==
  LET t == m.cells[id].target
      col == m.cols[t]
      left == IF col.bot = id
              THEN [col EXCEPT !.bot = m.cells[id].prev_col,
                               !.words = @ - Cardinality(m.cells[id].locs)]
              ELSE col
  IN  Freed([m EXCEPT !.cells = Unlinked(@, id), !.cols[t] = left], id)
RowCleared(m, s) ==
  LET sentinel == m.rows[s].lft
      chain == Chain(m.cells, sentinel, "next_row")
      closed == [m EXCEPT !.cells[sentinel].next_row = sentinel, !.cells[sentinel].prev_row = sentinel,
                          !.rows[s].rgt = sentinel]
  IN  FoldLeft(WithoutOfRow, closed, chain)

(* grab_from_locset_pool, return_to_locset_pool                            *)
Grabbed(m) ==
  LET full == {i \in DOMAIN m.pool : m.pool[i] # None}
      new == Cardinality(DOMAIN m.locsets) + 1
  IN  IF full # {}
      THEN [id |-> m.pool[Min(full)], pool |-> [m.pool EXCEPT ![Min(full)] = None],
            locsets |-> m.locsets]
      ELSE [id |-> new, pool |-> Append(m.pool, None), locsets |-> With(m.locsets, new, {})]
Slot(p) == Min({i \in DOMAIN p : p[i] = None})
WithMutator(m, t) ==
  IF m.mutator[t] # None THEN m
  ELSE LET g == Grabbed(m)
       IN  [m EXCEPT !.mutator[t] = g.id, !.pool = g.pool, !.locsets = g.locsets]

(* clear_col_mutator_rs.  Broken variant: the set keeps its contents.      *)
ReturnsFull(m, t) ==
  IF m.mutator[t] = None THEN m
  ELSE [m EXCEPT !.pool[Slot(m.pool)] = m.mutator[t], !.mutator[t] = None]
MutatorCleared(m, t) ==
  IF m.mutator[t] = None THEN m
  ELSE [m EXCEPT !.locsets[m.mutator[t]] = {},
                 !.pool[Slot(m.pool)] = m.mutator[t], !.mutator[t] = None]
GivenUp(m, t) ==
  MutatorCleared([ColumnCleared(m, t) EXCEPT !.valid = FALSE,
                                             !.recorded = {e \in @ : e[2] # t}], t)

(* oflo_check_word.  Broken variant: one word too late.                    *)
Popular(m, t) == m.cols[t].words > PopularityLimit
ChecksLate(m, t) == IF m.cols[t].words > PopularityLimit + 1 THEN GivenUp(m, t) ELSE m
Checked(m, t) == IF Popular(m, t) THEN GivenUp(m, t) ELSE m

-----------------------------------------------------------------------------
(* add_loc_to_sum_array, for a location not in the column, while a region  *)
(* is scanned or objects are moved.                                        *)
AddLoc(s, t, loc) ==
  LET m == SummCell(s, t)
      entered == [Now EXCEPT !.cells = [m.cells EXCEPT ![m.id].locs = @ \cup {<<s, loc>>}],
                             !.rows = m.rows,
                             !.cols = [m.cols EXCEPT ![t].words = @ + 1],
                             !.table[t] = m.id, !.last = m.id, !.valid = TRUE,
                             !.recorded = @ \cup {<<s, t, loc>>}]
  IN  /\ s # t /\ t \in summarized /\ ~Popular(Now, t)
      /\ \A i \in Found(s, t) : <<s, loc>> \notin cells[i].locs
      /\ AllWords < MaxWords /\ (CellsUsed < MaxCells \/ Found(s, t) # {})
      /\ Becomes(Checked(entered, t))
      /\ summarized' = IF Popular(entered, t) THEN summarized \ {t} ELSE summarized

(* sm_add_ssb_elems_to_summary: the words are checked after each location, *)
(* and the rest of the batch is entered all the same.                      *)
Logged(m, t, e) ==
  IF Popular(m, t) THEN m
  ELSE LET w == WithMutator(m, t)
       IN  Checked([w EXCEPT !.locsets[w.mutator[t]] = @ \cup {e}, !.cols[t].words = @ + 1,
                              !.recorded = @ \cup {<<e[1], t, e[2]>>}], t)
AddBatch(t, batch) ==
  LET after == FoldLeft(LAMBDA m, e : Logged(m, t, e), Now, batch)
  IN  /\ t \in summarized /\ \A i \in DOMAIN batch : batch[i][1] # t
      /\ Cardinality(DOMAIN locsets) < MaxLocsets /\ AllWords < MaxWords
      /\ Becomes(after)
      /\ summarized' = IF after.cols[t].words = cols[t].words + Len(batch)
                       THEN summarized ELSE summarized \ {t}

(* switch_some_to_summarizing                                              *)
StartSummary(t) ==
  /\ t \in Targets \ summarized /\ summarized' = summarized \cup {t}
  /\ UNCHANGED <<cells, rows, cols, cache, mutator, pool, locsets, recorded>>
(* sm_clear_summary, once the region is collected (or its summary of no    *)
(* use); sm_clear_contribution_to_summaries, when it is about to be.       *)
ClearSummary(t) ==
  Becomes(GivenUp(Now, t)) /\ summarized' = summarized \ {t}
(* filter_objects_from_sum_remset.  Broken variant: the mutator's locations *)
(* are left alone.                                                         *)
KeepsAll(set, s) == set
Filtered(set, s) == {e \in set : e[1] # s}
ClearContribution(s) ==
  LET cleared == [RowCleared(Now, s) EXCEPT !.valid = FALSE]
  IN  /\ Becomes([cleared EXCEPT
             !.recorded = {e \in @ : e[1] # s},
             !.locsets = [i \in DOMAIN locsets |-> Filtered(locsets[i], s)]])
      /\ UNCHANGED summarized
(* sm_fold_in_nursery_and_init_summary                                     *)
Fold(t) ==
  /\ t \in summarized /\ mutator[t] = None /\ Cardinality(DOMAIN locsets) < MaxLocsets
  /\ Becomes(WithMutator(Now, t)) /\ UNCHANGED summarized

(* sm_expand_gnos: a row and a column more; the numbers from there on move *)
(* up, in the cells too (and those of the regions the locations are in).   *)
Above(i, fresh) == IF i < fresh THEN i ELSE i + 1
Renumbered(c, fresh) ==
  [i \in DOMAIN c |->
     [c[i] EXCEPT !.locs = {<<Above(e[1], fresh), e[2]>> : e \in @},
                  !.source = IF i \in UNION {{rows[s].lft} \cup ToSet(RowChain(s)) : s \in Regions}
                             THEN Above(@, fresh) ELSE @,
                  !.target = IF i \in UNION {{cols[t].top} \cup ToSet(ColumnChain(t)) : t \in Regions}
                             THEN Above(@, fresh) ELSE @]]
FreshTable(fresh) == [t \in 1 .. Len(cache.table) + 1 |-> None]
Expand(fresh) ==
  LET moved == Renumbered(cells, fresh)
      row == FreshId(moved)
      with_row == With(moved, row, Cell(fresh, Sentinel, row))
      col == FreshId(with_row)
  IN  /\ Len(rows) < MaxRegions
      /\ Becomes([Now EXCEPT
           !.cells = With(with_row, col, Cell(Sentinel, fresh, col)),
           !.rows = InsertAt(@, fresh, [lft |-> row, rgt |-> row]),
           !.cols = InsertAt(@, fresh, [top |-> col, bot |-> col, words |-> 0]),
           !.table = FreshTable(fresh), !.mutator = InsertAt(@, fresh, None),
           !.recorded = {<<Above(e[1], fresh), Above(e[2], fresh), e[3]>> : e \in @},
           !.locsets = [i \in DOMAIN @ |-> {<<Above(e[1], fresh), e[2]>> : e \in @[i]}]])
      /\ summarized' = {Above(t, fresh) : t \in summarized}

Init ==
  /\ cells = [i \in 1 .. 2 * FirstRegions |->
                IF i <= FirstRegions THEN Cell(i, Sentinel, i)
                ELSE Cell(Sentinel, i - FirstRegions, i)]
  /\ rows = [s \in 1 .. FirstRegions |-> [lft |-> s, rgt |-> s]]
  /\ cols = [t \in 1 .. FirstRegions |->
               [top |-> FirstRegions + t, bot |-> FirstRegions + t, words |-> 0]]
  /\ cache = [table |-> [t \in 1 .. FirstRegions |-> None], last |-> None, valid |-> FALSE]
  /\ mutator = [t \in 1 .. FirstRegions |-> None] /\ pool = << >>
  /\ locsets = [i \in {} |-> {}] /\ summarized = {} /\ recorded = {}
Next ==
  \/ \E s \in Regions, t \in Targets, loc \in Locs : AddLoc(s, t, loc)
  \/ \E t \in Targets :
       \/ \E batch \in SeqOf(Regions \X Locs, MaxBatch) \ {<< >>} : AddBatch(t, batch)
       \/ StartSummary(t) \/ ClearSummary(t) \/ ClearContribution(t) \/ Fold(t)
  \/ \E fresh \in Targets : Expand(fresh)
Spec == Init /\ [][Next]_vars
-----------------------------------------------------------------------------
Sentinels == {rows[s].lft : s \in Regions} \cup {cols[t].top : t \in Regions}
InRows == UNION {ToSet(RowChain(s)) : s \in Regions}
MatrixTypeOK ==
  /\ DOMAIN cols = Regions /\ DOMAIN cache.table = Regions /\ DOMAIN mutator = Regions
  /\ ToSet(pool) \subseteq DOMAIN locsets \cup {None} /\ summarized \subseteq Targets
  /\ \A i \in DOMAIN cells : \A next \in {"next_row", "prev_row", "next_col", "prev_col"} :
       cells[i][next] \in DOMAIN cells

(* The lists are circles, joined in both directions and sorted, and their  *)
(* ends are what the row and the column say: a cell taken off the one list *)
(* is taken off the other too.                                             *)
Joined(chain, sentinel, end, next, prev, field) ==
  LET nodes == <<sentinel>> \o chain
      At(k) == nodes[((k - 1) % Len(nodes)) + 1]
  IN  /\ end = Last(nodes)
      /\ \A k \in DOMAIN nodes : cells[nodes[k]][next] = At(k + 1) /\ cells[At(k + 1)][prev] = nodes[k]
      /\ \A k \in 1 .. Len(chain) - 1 : cells[chain[k]][field] < cells[chain[k + 1]][field]
ListsJoined ==
  /\ \A s \in Regions : Joined(RowChain(s), rows[s].lft, rows[s].rgt, "next_row", "prev_row", "target")
  /\ \A t \in Regions : Joined(ColumnChain(t), cols[t].top, cols[t].bot, "next_col", "prev_col", "source")

(* A cell is on the row and the column that its numbers name, whatever     *)
(* region was put in between; it is not empty, and its column is wanted    *)
(* ("row_cell == col_cell", summ_cell).                                    *)
CellsFiled ==
  /\ DOMAIN cells = InRows \cup Sentinels
  /\ \A s, t \in Regions :
       {i \in ToSet(RowChain(s)) : cells[i].target = t} = {i \in ToSet(ColumnChain(t)) : cells[i].source = s}
  /\ \A i \in InRows : /\ i \in ToSet(RowChain(cells[i].source))
                        /\ cells[i].locs # {} /\ \A e \in cells[i].locs : e[1] = cells[i].source
                        /\ cells[i].target \in summarized

(* The caches name no cell that was freed, and none of another column.     *)
CachesCurrent ==
  /\ cache.valid => cache.last \in InRows
  /\ \A t \in Regions : cache.table[t] # None =>
       cache.table[t] \in InRows /\ cells[cache.table[t]].target = t

(* Each location set is some column's or in the pool, and is then empty;   *)
(* the pool has room for each of them ("should never get here").           *)
PoolExact ==
  LET Out == {t \in Regions : mutator[t] # None}
  IN  /\ Len(pool) = Cardinality(DOMAIN locsets)
      /\ \A i \in DOMAIN locsets :
           Cardinality({k \in DOMAIN pool : pool[k] = i}) + Cardinality({t \in Out : mutator[t] = i}) = 1
      /\ \A i \in ToSet(pool) \ {None} : locsets[i] = {}

(* col_words counts no less than there is: the limit bounds the summary.   *)
Contents(t) == MapThenSumSet(LAMBDA i : Cardinality(cells[i].locs), ToSet(ColumnChain(t)))
Mutated(t) == IF mutator[t] = None THEN {} ELSE locsets[mutator[t]]
WordsCover ==
  \A t \in Regions : /\ Contents(t) + Cardinality(Mutated(t)) <= cols[t].words
                     /\ cols[t].words <= PopularityLimit

(* "Keep below in sync with col_incr_words_sm" (summ_matrix.c, where the   *)
(* contribution of a region is cleared): the words of all that is removed  *)
(* are taken from the count.                                               *)
WordsInSync ==
  \A t \in Regions : mutator[t] = None => cols[t].words = Contents(t)

(* The summary of a region, read off its column, is what was entered into  *)
(* it and not cleared since, with the summary or with the contribution of  *)
(* the region that holds the location.                                     *)
SummariesExact ==
  recorded = UNION {UNION {{<<e[1], t, e[2]>> : e \in cells[i].locs} : i \in ToSet(ColumnChain(t))}
                    \cup {<<e[1], t, e[2]>> : e \in Mutated(t)} : t \in Regions}

(* The matrix of summaries stays whole: cells are joined in both of their  *)
(* lists and filed where rows, columns and caches look for them, freed     *)
(* ones are in the pool, word counts cover what is summarized, and a       *)
(* summary is exactly what was recorded.                                   *)
MatrixExact ==
  /\ MatrixTypeOK /\ ListsJoined /\ CellsFiled /\ CachesCurrent /\ PoolExact
  /\ WordsCover /\ SummariesExact
=============================================================================
