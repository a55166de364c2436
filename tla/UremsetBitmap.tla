------------------------------ MODULE UremsetBitmap ------------------------------
(***************************************************************************)
(* The remembered set of Rts/Sys/uremset_extbmp.c: a minor and a major     *)
(* bitmap of the whole heap (module ExtBitmap), in which a generation is   *)
(* found by the addresses it has at the time, and a count of entries per   *)
(* generation.                                                             *)
(***************************************************************************)
EXTENDS Naturals, Sequences, FiniteSets, FiniteSetsExt, SequencesExt

CONSTANTS Objects, Home, Static, FirstGnos, MaxGnos, \* as in UnifiedRemset
          MaxCount \* bound: live_count of a generation

VARIABLES gnos, minor, major,
          live, \* live_count[1 ..]
          job   \* the enumeration under way
vars == <<gnos, minor, major, live, job>>

GenOf(o) == IF Home[o] = Static THEN gnos - 1 ELSE Home[o]
InHeap(o) == Home[o] # Static => Home[o] < gnos - 1
In(g) == {o \in Objects : InHeap(o) /\ GenOf(o) = g}

(* i is the generation that extbmp_enumerate_in was called for, static     *)
(* whether that was the static area's then; left is what it has yet to     *)
(* meet in the bitmap and handed what the scanner has got (for the         *)
(* refinement only).                                                       *)
NoJob ==
  [kind |-> "none", gset |-> {}, ecount |-> 0, i |-> 0, static |-> FALSE, left |-> {}, handed |-> {}]
Idle == job = NoJob

Init ==
  /\ gnos = FirstGnos /\ minor = {} /\ major = {} /\ job = NoJob
  /\ live = [g \in 1 .. gnos - 1 |-> 0]

IsRemembered(o) == o \in minor \cup major
Counted(o, present) ==
  /\ present \/ live[GenOf(o)] < MaxCount
  /\ live' = IF present THEN live ELSE [live EXCEPT ![GenOf(o)] = @ + 1]
AddElems(o) ==
  /\ Idle /\ InHeap(o)
  /\ minor' = minor \cup {o} /\ Counted(o, o \in minor)
  /\ UNCHANGED <<gnos, major, job>>
AddElemNew(o) ==
  /\ Idle /\ InHeap(o) /\ ~IsRemembered(o)
  /\ major' = major \cup {o} /\ Counted(o, FALSE)
  /\ UNCHANGED <<gnos, minor, job>>
AddElem(o) ==
  /\ Idle /\ InHeap(o)
  /\ major' = major \cup {o} /\ Counted(o, o \in major)
  /\ UNCHANGED <<gnos, minor, job>>
(* clear leaves the count as it is.                                        *)
ClearGno(g) ==
  /\ Idle
  /\ minor' = minor \ In(g) /\ major' = major \ In(g)
  /\ UNCHANGED <<gnos, live, job>>
CopyAndClearMinor ==
  /\ Idle
  /\ major' = major \cup minor /\ minor' = {}
  /\ UNCHANGED <<gnos, live, job>>

-----------------------------------------------------------------------------
Further(j) ==
  IF j.kind = "complement"
    THEN {k \in 1 .. j.ecount - 2 : k \notin j.gset /\ (j.static \/ k > j.i)}
    ELSE {}
(* "Copy minor to major so scanner encounters objects at most once."       *)
EnumerateGno(j, k, static) ==
  LET here == In(k)
  IN  /\ major' = major \cup (minor \cap here)
      /\ job' = [j EXCEPT !.i = k, !.static = static, !.left = major' \cap here]

Begin(kind, g, gset) ==
  /\ Idle
  /\ LET j == [NoJob EXCEPT !.kind = kind, !.gset = gset, !.ecount = gnos]
     IN  CASE kind = "gno" -> EnumerateGno(j, g, g = gnos - 1)
           [] kind = "complement" -> EnumerateGno(j, gnos - 1, TRUE)
           [] kind = "all" ->
                /\ major' = major \cup minor
                /\ job' = [j EXCEPT !.left = major']
           [] OTHER ->
                /\ gset = {} \* assert: the nursery only
                /\ job' = [j EXCEPT !.left = minor] /\ UNCHANGED major
  /\ UNCHANGED <<gnos, minor, live>>
NextGno ==
  /\ ~Idle /\ job.left = {}
  /\ IF Further(job) = {} THEN job' = NoJob /\ UNCHANGED major
     ELSE EnumerateGno(job, Min(Further(job)), FALSE)
  /\ UNCHANGED <<gnos, minor, live>>

(* The test that tnode_enum_leaf makes of each object.                     *)
(* Broken variant: it looks for the static area under its old number.      *)
OldNumber(o) == job.kind \in {"gno", "complement"} => GenOf(o) = job.i
Wanted(o) ==
  job.kind \in {"gno", "complement"} =>
    GenOf(o) = IF job.static THEN gnos - 1 ELSE job.i

(* What is removed: by the wrapper, also from the minor bitmap.            *)
(* Broken variant: without the wrapper.                                    *)
MajorOnly(o) ==
  IF job.kind = "minor complement" THEN minor' = minor \ {o} /\ UNCHANGED major
  ELSE major' = major \ {o} /\ UNCHANGED minor
RemoveRefused(o) ==
  IF job.kind = "minor complement" THEN minor' = minor \ {o} /\ UNCHANGED major
  ELSE major' = major \ {o} /\ minor' = minor \ {o}
Scan(o, keep) ==
  /\ ~Idle /\ o \in job.left
  /\ job' = [job EXCEPT !.left = @ \ {o},
                        !.handed = IF Wanted(o) THEN @ \cup {o} ELSE @]
  /\ IF Wanted(o) /\ ~keep THEN RemoveRefused(o) ELSE UNCHANGED <<minor, major>>
  /\ UNCHANGED <<gnos, live>>

(* Broken variant: the new generation gets the static area's count.        *)
AppendsCount == Append(live, 0)
InsertsCount == InsertAt(live, gnos - 1, 0)
ExpandGnos ==
  /\ gnos < MaxGnos /\ job.kind \in {"none", "complement", "minor complement"}
  /\ gnos' = gnos + 1 /\ live' = InsertsCount
  /\ UNCHANGED <<minor, major, job>>

Next ==
  \/ \E o \in Objects : AddElems(o) \/ AddElemNew(o) \/ AddElem(o)
  \/ \E g \in 1 .. gnos - 1 : ClearGno(g)
  \/ CopyAndClearMinor
  \/ \E kind \in {"gno", "all", "complement", "minor complement"}, g \in 1 .. gnos - 1,
        gset \in {{}, {1}} : Begin(kind, g, gset)
  \/ NextGno
  \/ \E o \in job.left, keep \in BOOLEAN : Scan(o, keep)
  \/ ExpandGnos

Spec == Init /\ [][Next]_vars
-----------------------------------------------------------------------------
(* The types; and a generation whose count is zero has no entries, so that *)
(* a scan that is taken for trivial is.                                    *)
BitmapsTypeOK ==
  /\ gnos \in FirstGnos .. MaxGnos
  /\ minor \cup major \subseteq {o \in Objects : InHeap(o)}
  /\ live \in [1 .. gnos - 1 -> 0 .. MaxCount]
  /\ \A o \in minor \cup major : live[GenOf(o)] > 0

(* The bitmaps implement the interface of uremset_t.h.                     *)
Owed ==
  {o \in job.left : Wanted(o)}
    \cup {o \in minor \cup major : \E k \in Further(job) : GenOf(o) = k}
Interface == INSTANCE UnifiedRemset WITH
  remembered <- minor \cup major, logged <- minor, visiting <- job.kind, owed <- Owed,
  handed <- job.handed
BitmapsImplement == Interface!Spec
=============================================================================
