---------------------------- MODULE RememberedSet ----------------------------
(***************************************************************************)
(* One remembered set of Rts/Sys/remset.c: a hash table of chains whose    *)
(* nodes are taken in order from pool segments.  A node is never unlinked: *)
(* its object is overwritten by zero when it is removed, and the node is   *)
(* reused only after the set is cleared.  The nodes of all segments in use *)
(* make one sequence, for a new segment is begun when the last is full.    *)
(***************************************************************************)
EXTENDS Naturals, Sequences, FiniteSets

CONSTANTS Words,         \* the objects
          Buckets, Hash, \* the hash table, and the bucket of each object
          Zero,          \* the word of a removed node
          PoolEntries,   \* nodes of a segment
          MaxNodes       \* nodes between two clearings, a bound of the model

RememberedSetAssumption ==
  /\ Hash \in [Words -> Buckets] /\ Zero \notin Words
  /\ PoolEntries \in Nat \ {0} /\ MaxNodes \in Nat

VARIABLES tbl,        \* the first node of each bucket's chain, 0 for none
          nodes,      \* each an object, or Zero, and the next node
          numpools, overflowed, live    \* numpools, has_overflowed, live

vars == <<tbl, nodes, numpools, overflowed, live>>

TypeOK ==
  /\ tbl \in [Buckets -> 0 .. Len(nodes)]
  /\ nodes \in Seq([word : Words \cup {Zero}, next : 0 .. Len(nodes)])
  /\ Len(nodes) <= numpools * PoolEntries
  /\ overflowed \in BOOLEAN /\ live \in Nat

(* The walk of rs_isremembered, rs_add_elem and rs_del_elem: the first     *)
(* node of the chain that holds w, or 0.                                   *)
Lookup(w) ==
  LET find[n \in 0 .. Len(nodes)] ==
        IF n = 0 \/ nodes[n].word = w THEN n ELSE find[nodes[n].next]
  IN  find[tbl[Hash[w]]]
IsRemembered(w) == Lookup(w) # 0

Init ==
  /\ tbl = [b \in Buckets |-> 0] /\ nodes = << >>
  /\ numpools = 1 /\ overflowed = FALSE /\ live = 0

(* handle_overflow, when the segment is full.                              *)
Overflow ==
  IF Len(nodes) = numpools * PoolEntries
    THEN numpools' = numpools + 1 /\ overflowed' = TRUE
    ELSE UNCHANGED <<numpools, overflowed>>

(* Broken variant: the new node does not lead to the old head.             *)
CutsChain(w) ==
  /\ Len(nodes) < MaxNodes
  /\ Overflow
  /\ nodes' = Append(nodes, [word |-> w, next |-> 0])
  /\ tbl' = [tbl EXCEPT ![Hash[w]] = Len(nodes) + 1]
  /\ live' = live + 1
Insert(w) ==
  /\ Len(nodes) < MaxNodes
  /\ Overflow
  /\ nodes' = Append(nodes, [word |-> w, next |-> tbl[Hash[w]]])
  /\ tbl' = [tbl EXCEPT ![Hash[w]] = Len(nodes) + 1]
  /\ live' = live + 1

(* rs_add_elem_new is asked only for an object that is not remembered.     *)
AddElemNew(w) == ~IsRemembered(w) /\ Insert(w)

(* Broken variant: the walk stops at the first removed node.               *)
AddsAfterRemoved(w) ==
  LET first == tbl[Hash[w]] IN
  IF first # 0 /\ nodes[first].word = Zero THEN Insert(w)
  ELSE IF IsRemembered(w) THEN UNCHANGED vars ELSE Insert(w)
AddElem(w) == IF IsRemembered(w) THEN UNCHANGED vars ELSE Insert(w)

(* Broken variants: the count goes down whether w was there or not; and    *)
(* the head of the chain is removed in place of w.                         *)
AlwaysCounts(w) ==
  /\ nodes' = IF IsRemembered(w) THEN [nodes EXCEPT ![Lookup(w)].word = Zero] ELSE nodes
  /\ live' = IF live = 0 THEN 0 ELSE live - 1
  /\ UNCHANGED <<tbl, numpools, overflowed>>
DelsFirst(w) ==
  IF ~IsRemembered(w) THEN UNCHANGED vars
  ELSE /\ nodes' = [nodes EXCEPT ![tbl[Hash[w]]].word = Zero]
       /\ live' = live - 1
       /\ UNCHANGED <<tbl, numpools, overflowed>>
DelElem(w) ==
  IF ~IsRemembered(w) THEN UNCHANGED vars
  ELSE /\ nodes' = [nodes EXCEPT ![Lookup(w)].word = Zero]
       /\ live' = live - 1
       /\ UNCHANGED <<tbl, numpools, overflowed>>

(* rs_enumerate: the scanner is called on every node that is not removed,  *)
(* segment by segment, and refuses those that hold one of drop.            *)
Scanned == {n \in DOMAIN nodes : nodes[n].word # Zero}
Refused(drop) == {n \in Scanned : nodes[n].word \in drop}
Enumerate(drop) ==
  /\ nodes' = [n \in DOMAIN nodes |->
                 IF n \in Refused(drop) THEN [nodes[n] EXCEPT !.word = Zero]
                 ELSE nodes[n]]
  /\ live' = live - Cardinality(Refused(drop))
  /\ UNCHANGED <<tbl, numpools, overflowed>>

(* Broken variant: the table still leads into the pool.                    *)
ClearsPool ==
  /\ nodes' = << >>
  /\ tbl' = [b \in Buckets |-> IF tbl[b] = 0 THEN 0 ELSE 1]
  /\ numpools' = 1 /\ overflowed' = FALSE /\ live' = 0
Clear ==
  /\ tbl' = [b \in Buckets |-> 0] /\ nodes' = << >>
  /\ numpools' = 1 /\ overflowed' = FALSE /\ live' = 0

Next ==
  \/ \E w \in Words : AddElemNew(w) \/ AddElem(w) \/ DelElem(w)
  \/ \E drop \in SUBSET Words : Enumerate(drop)
  \/ Clear

Spec == Init /\ [][Next]_vars
-----------------------------------------------------------------------------
Members == {nodes[n].word : n \in Scanned}

(* rs_enumerate and the summary's iteration (duplicate_entries = FALSE)    *)
(* visit an object once, though the chains keep nodes of removed objects   *)
(* between the live ones and rs_add_elem walks over them.                  *)
NoDuplicates == \A m, n \in Scanned : nodes[m].word = nodes[n].word => m = n

(* The chains and the pool tell the same: what rs_isremembered finds       *)
(* through the table is what rs_enumerate meets in the segments.           *)
ChainsMatchPool == \A w \in Words : IsRemembered(w) <=> w \in Members

(* "Number of live entries in the set" (remset_t.h): the count agrees with *)
(* the pool after every mix of insertions, removals and enumerations.      *)
LiveIsExact == live = Cardinality(Members)

(* The operations act on the set as remset_t.h says: "Copies w into the    *)
(* remset", "Removes w from the remset", whichever node the walk ends at.  *)
OperationsActOnSet ==
  [][\A w \in Words :
       /\ AddElem(w) \/ AddElemNew(w) => Members' = Members \cup {w}
       /\ DelElem(w) => Members' = Members \ {w}]_vars

(* The hash table, its chains and the pool agree on the set, each member   *)
(* is in one node, and live counts the nodes that hold one, whatever the   *)
(* mutator, rs_clear and a growing pool do in between.                     *)
RemsetExact == TypeOK /\ NoDuplicates /\ ChainsMatchPool /\ LiveIsExact
==============================================================================
