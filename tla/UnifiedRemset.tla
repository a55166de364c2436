----------------------------- MODULE UnifiedRemset -----------------------------
(***************************************************************************)
(* What the interface of Rts/Sys/uremset_t.h promises: one remembered set  *)
(* for the whole heap, whose enumerations hand out every object they owe   *)
(* once and remove what the scanner refuses, also when the scanner makes   *)
(* room and thereby inserts a region below the static area.                *)
(***************************************************************************)
EXTENDS Naturals, FiniteSets

CONSTANTS Objects,
          Home, Static, \* the region of each object, or Static
          FirstGnos,    \* gno_count at the start; the static area's is the last
          MaxGnos       \* bound: gno_count

UnifiedRemsetAssumption ==
  /\ FirstGnos \in Nat /\ MaxGnos \in Nat /\ 2 <= FirstGnos /\ Static \notin Nat
  /\ Home \in [Objects -> (1 .. MaxGnos - 2) \cup {Static}]

VARIABLES gnos,
          remembered, \* the set
          logged,     \* its minor part, which the mutator's stores make
          visiting,   \* the enumeration under way
          owed,       \* what it has yet to hand out
          handed      \* what it has handed out
vars == <<gnos, remembered, logged, visiting, owed, handed>>
enumeration == <<visiting, owed, handed>>

Kinds == {"gno", "all", "complement", "minor complement"}
GenOf(o) == IF Home[o] = Static THEN gnos - 1 ELSE Home[o]
InHeap(o) == Home[o] # Static => Home[o] < gnos - 1
In(g) == {o \in Objects : InHeap(o) /\ GenOf(o) = g}
Idle == visiting = "none"

Init ==
  /\ gnos = FirstGnos /\ remembered = {} /\ logged = {}
  /\ visiting = "none" /\ owed = {} /\ handed = {}

Log(o) ==
  /\ Idle /\ InHeap(o)
  /\ remembered' = remembered \cup {o} /\ logged' = logged \cup {o}
  /\ UNCHANGED <<gnos, enumeration>>
Remember(o) ==
  /\ Idle /\ InHeap(o)
  /\ remembered' = remembered \cup {o}
  /\ UNCHANGED <<gnos, logged, enumeration>>
Clear(g) ==
  /\ Idle
  /\ remembered' = remembered \ In(g) /\ logged' = logged \ In(g)
  /\ UNCHANGED <<gnos, enumeration>>
(* copy_minor_to_major, then clear_minor.                                  *)
Settle == Idle /\ logged' = {} /\ UNCHANGED <<gnos, remembered, enumeration>>

Outside(S, gset) == {o \in S : Home[o] = Static \/ Home[o] \notin gset}
Begin(kind, g, gset) ==
  /\ Idle /\ visiting' = kind
  /\ owed' = CASE kind = "gno" -> remembered \cap In(g)
               [] kind = "all" -> remembered
               [] kind = "complement" -> Outside(remembered, gset)
               [] OTHER -> Outside(logged, gset)
  /\ handed' = {}
  /\ UNCHANGED <<gnos, remembered, logged>>

HandOut(o) == owed' = owed \ {o} /\ handed' = handed \cup {o}
Keep(o) == HandOut(o) /\ UNCHANGED <<gnos, remembered, logged, visiting>>
(* What the minor enumeration refuses may be in the major part.            *)
Refuse(o) ==
  /\ HandOut(o) /\ logged' = logged \ {o}
  /\ \/ remembered' = remembered \ {o}
     \/ visiting = "minor complement" /\ remembered' = remembered
  /\ UNCHANGED <<gnos, visiting>>
Finish ==
  /\ owed = {} /\ visiting' = "none" /\ handed' = {}
  /\ UNCHANGED <<gnos, remembered, logged, owed>>

ExpandGnos == gnos' = gnos + 1 /\ UNCHANGED <<remembered, logged, enumeration>>

Next ==
  \/ \E o \in Objects : Log(o) \/ Remember(o)
  \/ \E g \in 1 .. gnos - 1 : Clear(g)
  \/ Settle
  \/ \E kind \in Kinds, g \in 1 .. gnos - 1, gset \in SUBSET (1 .. gnos - 2) :
       Begin(kind, g, gset)
  \/ \E o \in owed : Keep(o) \/ Refuse(o)
  \/ Finish \/ ExpandGnos

Spec == Init /\ [][Next]_vars
=============================================================================
