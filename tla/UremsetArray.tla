------------------------------ MODULE UremsetArray ------------------------------
(***************************************************************************)
(* The remembered set of Rts/Sys/uremset_array.c: an array of minor and an *)
(* array of major hash sets, indexed by generation.  A scanner may cause   *)
(* regions to be inserted: the arrays shift under the enumeration, which   *)
(* goes on with the set it holds.                                          *)
(***************************************************************************)
EXTENDS Naturals, Sequences, FiniteSets, FiniteSetsExt, SequencesExt

CONSTANTS Objects, Home, Static, FirstGnos, MaxGnos, \* as in UnifiedRemset
          MinorExpands \* may regions be inserted in a minor enumeration?

VARIABLES gnos,         \* remset_count, gno_count
          minor, major, \* remset[1 ..], major_remset[1 ..]
          job           \* the enumeration under way
vars == <<gnos, minor, major, job>>

GenOf(o) == IF Home[o] = Static THEN gnos - 1 ELSE Home[o]
InHeap(o) == Home[o] # Static => Home[o] < gnos - 1
Sets == [1 .. gnos - 1 -> SUBSET Objects]

(* i is the loop's variable, ecount its end and set the index of the set   *)
(* rs_enumerate is in; left is what it has yet to meet there and handed    *)
(* what the scanner has got (for the refinement only).                     *)
NoJob ==
  [kind |-> "none", gset |-> {}, ecount |-> 0, i |-> 0, static |-> FALSE,
   inMajor |-> FALSE, set |-> 0, left |-> {}, handed |-> {}]
Idle == job = NoJob

Init ==
  /\ gnos = FirstGnos /\ job = NoJob
  /\ minor = [g \in 1 .. gnos - 1 |-> {}] /\ major = minor

IsRemembered(o) == o \in minor[GenOf(o)] \cup major[GenOf(o)]
(* rs_add_elems_distribute, for one entry of the store buffers.            *)
AddElems(o) ==
  /\ Idle /\ InHeap(o)
  /\ minor' = [minor EXCEPT ![GenOf(o)] = @ \cup {o}]
  /\ UNCHANGED <<gnos, major, job>>
AddElemNew(o) ==
  /\ Idle /\ InHeap(o) /\ ~IsRemembered(o)
  /\ major' = [major EXCEPT ![GenOf(o)] = @ \cup {o}]
  /\ UNCHANGED <<gnos, minor, job>>
ClearGno(g) ==
  /\ Idle
  /\ minor' = [minor EXCEPT ![g] = {}] /\ major' = [major EXCEPT ![g] = {}]
  /\ UNCHANGED <<gnos, job>>
CopyAndClearMinor ==
  /\ Idle
  /\ major' = [g \in DOMAIN major |-> major[g] \cup minor[g]]
  /\ minor' = [g \in DOMAIN minor |-> {}]
  /\ UNCHANGED <<gnos, job>>

-----------------------------------------------------------------------------
(* The sets that an enumeration has yet to open.                           *)
Further(j) ==
  CASE j.kind = "complement" ->
         {k \in 1 .. j.ecount - 2 : k \notin j.gset /\ (j.static \/ k > j.i)}
    [] j.kind = "minor complement" ->
         {k \in 1 .. j.ecount - 1 : k \notin j.gset /\ k > j.i}
    [] j.kind = "all" -> {k \in 1 .. gnos - 1 : k > j.i}
    [] OTHER -> {}
Minor(j, k) ==
  [j EXCEPT !.i = k, !.set = k, !.inMajor = FALSE, !.left = minor[k]]
Onward(j) == IF Further(j) = {} THEN NoJob ELSE Minor([j EXCEPT !.static = FALSE], Min(Further(j)))

(* enumerate_complement begins with the static area; a minor collection    *)
(* asks for all regions (gset has the nursery only).                       *)
Begin(kind, g, gset) ==
  /\ Idle
  /\ kind = "minor complement" => gset = {}
  /\ LET j == [NoJob EXCEPT !.kind = kind, !.gset = gset, !.ecount = gnos]
     IN  job' = CASE kind = "gno" -> Minor(j, g)
                  [] kind = "complement" -> Minor([j EXCEPT !.static = TRUE], gnos - 1)
                  [] OTHER -> Onward(j)
  /\ UNCHANGED <<gnos, minor, major>>

(* The end of a set: its major set follows, whose index is taken anew for  *)
(* the static area.                                                        *)
(* Broken variant: it is not.                                              *)
KeepsIndex(j) == j.i
MajorOf(j) == IF j.static THEN gnos - 1 ELSE j.i
NextSet ==
  /\ ~Idle /\ job.left = {}
  /\ job' = IF job.inMajor \/ job.kind = "minor complement" THEN Onward(job)
            ELSE LET k == MajorOf(job)
                 IN  [job EXCEPT !.i = k, !.set = k, !.inMajor = TRUE, !.left = major[k]]
  /\ UNCHANGED <<gnos, minor, major>>

(* apply_scanner_to_rs: filter_these is the major set when the minor one   *)
(* is enumerated; mirror_these the other way round.                        *)
(* Broken variant: without the filter, what is in both is scanned twice.   *)
NeverFiltered(o) == FALSE
Filtered(o) ==
  ~job.inMajor /\ job.kind # "minor complement" /\ o \in major[job.set]
Scan(o, keep) ==
  /\ ~Idle /\ o \in job.left
  /\ job' = [job EXCEPT !.left = @ \ {o},
                        !.handed = IF Filtered(o) THEN @ ELSE @ \cup {o}]
  /\ IF Filtered(o) \/ keep THEN UNCHANGED <<minor, major>>
     ELSE IF job.inMajor
     THEN /\ major' = [major EXCEPT ![job.set] = @ \ {o}]
          /\ minor' = [minor EXCEPT ![job.set] = @ \ {o}]
     ELSE minor' = [minor EXCEPT ![job.set] = @ \ {o}] /\ UNCHANGED major
  /\ UNCHANGED gnos

(* expand_remset_gnos, in a collection; only the collector's scanners make *)
(* room.                                                                   *)
(* Broken variant: the static area's set gets the new region's number.     *)
Appended(sets) == Append(sets, {})
Inserted(sets) == InsertAt(sets, gnos - 1, {})
ExpandGnos ==
  /\ gnos < MaxGnos
  /\ \/ job.kind \in {"none", "complement"}
     \/ job.kind = "minor complement" /\ MinorExpands
  /\ gnos' = gnos + 1
  /\ minor' = Inserted(minor) /\ major' = Inserted(major)
  /\ job' = [job EXCEPT !.set = IF @ = gnos - 1 THEN gnos ELSE @]

Next ==
  \/ \E o \in Objects : AddElems(o) \/ AddElemNew(o)
  \/ \E g \in 1 .. gnos - 1 : ClearGno(g)
  \/ CopyAndClearMinor
  \/ \E kind \in {"gno", "all", "complement", "minor complement"}, g \in 1 .. gnos - 1,
        gset \in {{}, {1}, {2}} : Begin(kind, g, gset)
  \/ NextSet
  \/ \E o \in job.left, keep \in BOOLEAN : Scan(o, keep)
  \/ ExpandGnos

Spec == Init /\ [][Next]_vars
-----------------------------------------------------------------------------
ArrayTypeOK ==
  /\ gnos \in FirstGnos .. MaxGnos
  /\ minor \in Sets /\ major \in Sets
  /\ \A g \in 1 .. gnos - 1 : \A o \in minor[g] \cup major[g] : GenOf(o) = g
  /\ job.set \in 0 .. gnos - 1 /\ (job.left # {} => Idle \/ job.set > 0)

(* "Enumerates all objects in generations (regions) *not* in genset that   *)
(* (may) have region-crossing references": the arrays implement the        *)
(* interface, regions inserted during the enumeration or not.              *)
Owed ==
  LET both(k) == minor[k] \cup IF job.kind = "minor complement" THEN {} ELSE major[k]
  IN  {o \in job.left : ~Filtered(o)}
        \cup (IF Idle \/ job.inMajor \/ job.kind = "minor complement" THEN {}
              ELSE major[job.set])
        \cup UNION {both(k) : k \in Further(job)}
Interface == INSTANCE UnifiedRemset WITH
  remembered <- UNION Range(minor \o major), logged <- UNION Range(minor),
  visiting <- job.kind, owed <- Owed,
  handed <- job.handed
ArrayImplements == Interface!Spec
=============================================================================
