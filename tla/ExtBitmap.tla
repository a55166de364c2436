------------------------------- MODULE ExtBitmap -------------------------------
(***************************************************************************)
(* The extensible bitmap of Rts/Sys/extbmp.c: a set of heap addresses kept *)
(* as a tree of inodes whose leaves are bitmaps of LeafWords words each.   *)
(* Nodes are allocated when an address is added, and freed when an         *)
(* enumeration leaves them empty; the leaf used last is cached.            *)
(*                                                                         *)
(* Addresses count double words, as the bits of the bitmap do.  The tree   *)
(* covers more than the address space, so that the ends of a node's range  *)
(* wrap around (the type word).  A node is named by the indices on the way *)
(* to it from the root.                                                    *)
(***************************************************************************)
EXTENDS Integers, Sequences, FiniteSets, FiniteSetsExt, SequencesExt

CONSTANTS WordBits, LeafWords, \* BITS_IN_WORD, leaf_words
          Branch,              \* entries_per_inode
          Space,               \* SHIFTED_ADDRESS_SPACE
          Objects,             \* the addresses at which there are objects
          Ranges,              \* Ranges[h]: the address ranges of area h, in order
          MaxGnos              \* bound: gno_count

LeafSpan == WordBits * LeafWords
(* create_extensible_bitmap_params: a depth at which there are enough      *)
(* leaves.                                                                 *)
Depth ==
  LET deeper[n \in Nat] ==
        IF n >= Space \div LeafSpan THEN 0 ELSE 1 + deeper[Branch * n]
  IN  deeper[1]
(* The addresses that a node d steps above the leaves covers.              *)
Span(d) == LeafSpan * Branch ^ d

(* The system gives no heap memory at the very end of the address space:   *)
(* the end of the last leaf's range wraps to 0, and the leaf would be      *)
(* passed over.                                                            *)
ASSUME ExtBitmapAssumption ==
  /\ WordBits \in Nat \ {0} /\ LeafWords \in Nat \ {0} /\ Branch \in Nat \ {0, 1}
  /\ Space % LeafSpan = 0 /\ Space > LeafSpan /\ (LeafSpan * Branch) % 4 = 0
  /\ Objects \subseteq 0 .. Space - LeafSpan - 1
  /\ \A a \in Objects : \E h \in DOMAIN Ranges : \E r \in Range(Ranges[h]) :
       r[1] <= a /\ a < r[2]

VARIABLES tree,     \* the nodes there are, but for the root
          bits,     \* the bits that are set in leaves of the tree
          leafGno,  \* leaf->gno: the generation of what it holds, 0 if mixed
          mru,      \* mru_cache: a leaf, or Root if invalid
          gnos      \* gno_count; the last area is the static area
vars == <<tree, bits, leafGno, mru, gnos>>

Root == << >>
Paths == UNION {[1 .. d -> 0 .. Branch - 1] : d \in 0 .. Depth}
Leaves == [1 .. Depth -> 0 .. Branch - 1]
First(p) ==
  LET number[d \in 0 .. Len(p)] == IF d = 0 THEN 0 ELSE Branch * number[d - 1] + p[d]
  IN  number[Len(p)] * Span(Depth - Len(p))
(* The way that find_leaf_calc_offset_recur takes to an address.           *)
Way == [a \in Objects |-> [d \in 1 .. Depth |-> (a \div Span(Depth - d)) % Branch]]
PathTo(a) == Way[a]
NodesTo(p) == {SubSeq(p, 1, d) : d \in 1 .. Len(p)}

Area ==
  [a \in Objects |->
     CHOOSE h \in DOMAIN Ranges : \E r \in Range(Ranges[h]) : r[1] <= a /\ a < r[2]]
Static == Len(Ranges)
(* gen_of: the static area has the highest number.                         *)
GenOf(a) == IF Area[a] = Static THEN gnos - 1 ELSE Area[a]

-----------------------------------------------------------------------------
Init ==
  /\ tree = {} /\ bits = {} /\ leafGno = << >> /\ mru = Root
  /\ gnos = Static + 1

(* find_leaf_calc_offset: the cached leaf if it covers a, or the tree's.   *)
Covers(p, a) == p # Root /\ First(p) <= a /\ a < First(p) + LeafSpan
Found(a) == Covers(mru, a) \/ PathTo(a) \in tree
LeafFor(a) == IF Covers(mru, a) THEN mru ELSE PathTo(a)
Cached(a) == mru' = IF Found(a) THEN LeafFor(a) ELSE mru

(* The gno of a leaf after a is added: insert_leaf_in_list for a new one,  *)
(* move_leaf_to_mixed_list if it held another.                             *)
GnoWith(a) ==
  LET p == PathTo(a)
  IN  IF p \notin DOMAIN leafGno \/ leafGno[p] = GenOf(a) THEN GenOf(a) ELSE 0

AddElem(a) ==
  /\ tree' = tree \cup (IF Found(a) THEN {} ELSE NodesTo(PathTo(a)))
  /\ bits' = bits \cup {a}
  /\ mru' = LeafFor(a)
  /\ leafGno' = [p \in DOMAIN leafGno \cup {LeafFor(a)} |->
                   IF p = LeafFor(a) THEN GnoWith(a) ELSE leafGno[p]]
  /\ UNCHANGED gnos

DelElem(a) ==
  /\ bits' = IF Found(a) THEN bits \ {a} ELSE bits
  /\ Cached(a)
  /\ UNCHANGED <<tree, leafGno, gnos>>

IsMember(a) == Found(a) /\ a \in bits

-----------------------------------------------------------------------------
(* The words of a leaf that are looked at for the range e .. l - 1, rounded*)
(* to words, and whether others are skipped.                               *)
LeafLimit(p) == (First(p) + LeafSpan) % Space
LeafWindow(p, e, l) ==
  [from |-> IF e > First(p) THEN (e - First(p)) \div WordBits ELSE 0,
   to |-> IF l < LeafLimit(p) THEN LeafWords - (LeafLimit(p) - l) \div WordBits ELSE LeafWords]
InWindow(p, w) ==
  {a \in bits : PathTo(a) = p /\ (a - First(p)) \div WordBits \in w.from .. w.to - 1}

(* tnode_enum_leaf: what is seen of the range e .. l - 1, and whether the  *)
(* leaf is known to be clear when the scanner has refused drop.  g is All  *)
(* if all generations are enumerated.                                      *)
All == 0
OfGen(a, g) == g = All \/ GenOf(a) = g
LeafOutside(p, e, l) == e >= LeafLimit(p) \/ l <= First(p)
Seen(p, g, e, l) ==
  IF LeafOutside(p, e, l) THEN {}
  ELSE {a \in InWindow(p, LeafWindow(p, e, l)) : OfGen(a, g)}
(* Broken variant: words that were skipped count as empty.                 *)
ClearSoFar(p, g, e, l, drop) ==
  /\ ~LeafOutside(p, e, l)
  /\ InWindow(p, LeafWindow(p, e, l)) \subseteq Seen(p, g, e, l) \cap drop
LeafClear(p, g, e, l, drop) ==
  /\ ~LeafOutside(p, e, l)
  /\ LeafWindow(p, e, l) = [from |-> 0, to |-> LeafWords]
  /\ InWindow(p, LeafWindow(p, e, l)) \subseteq Seen(p, g, e, l) \cap drop

(* tnode_enumerate: the children of an inode that are looked at; an inode  *)
(* is clear if none is passed over and all that are there are clear.       *)
(* The limit adds a number of words to an address in bytes: it is not the  *)
(* end of the inode's range but that of its first quarter.                 *)
Limit(p) == (First(p) + Span(Depth - Len(p)) \div 4) % Space
(* Broken variant: the end of the window is rounded down.                  *)
Shortened(p, e, l) ==
  LET child == Span(Depth - Len(p) - 1)
  IN  [from |-> IF e > First(p) THEN (e - First(p)) \div child ELSE 0,
       to |-> IF l < Limit(p) THEN (l - First(p)) \div child ELSE Branch]
Window(p, e, l) ==
  LET child == Span(Depth - Len(p) - 1)
  IN  [from |-> IF e > First(p) THEN (e - First(p)) \div child ELSE 0,
       to |-> IF l < Limit(p) THEN Branch - (Limit(p) - l) \div child ELSE Branch]
Outside(p, e, l) == l <= First(p) \/ e > First(p) + Span(Depth - Len(p))
Covered(p, e, l) == ~Outside(p, e, l) /\ Window(p, e, l) = [from |-> 0, to |-> Branch]

EnumNode(t, g, e, l, drop) ==
  LET above(p) == {SubSeq(p, 1, d) : d \in 0 .. Len(p) - 1}
      visited == {p \in t : \A q \in above(p) :
                    /\ ~Outside(q, e, l)
                    /\ p[Len(q) + 1] >= Window(q, e, l).from
                    /\ p[Len(q) + 1] < Window(q, e, l).to}
      clear(p) == \A q \in {p} \cup {c \in t : p \in above(c)} :
                    IF Len(q) = Depth THEN LeafClear(q, g, e, l, drop) ELSE Covered(q, e, l)
  IN  [seen |-> UNION {Seen(p, g, e, l) : p \in visited \cap Leaves},
       freed |-> {p \in visited : clear(p)}]

(* extbmp_enumerate_in goes over the ranges of a generation, one by one    *)
(* (what it drops of one is in no other); extbmp_enumerate over all.       *)
RangesOf(g) ==
  IF g = All THEN <<<<0, Space - 1>>>>
  ELSE IF g = gnos - 1 THEN Ranges[Static]
  ELSE IF g < Static THEN Ranges[g] ELSE << >>
Enumerated(g, drop) ==
  LET step(r, range) ==
        LET now == EnumNode(r.tree, g, range[1], range[2], drop)
        IN  [tree |-> r.tree \ now.freed, seen |-> Append(r.seen, now.seen)]
  IN  FoldLeft(step, [tree |-> tree, seen |-> << >>], RangesOf(g))

(* The bits that are left, in the leaves that are left.                    *)
Left(r, drop) == {a \in bits \ (UNION Range(r.seen) \cap drop) : PathTo(a) \in r.tree}
Enumerate(g, drop) ==
  LET r == Enumerated(g, drop)
  IN  /\ tree' = r.tree /\ bits' = Left(r, drop)
      /\ leafGno' = [p \in DOMAIN leafGno \cap r.tree |-> leafGno[p]]
      /\ mru' = IF mru \in r.tree THEN mru ELSE Root
      /\ UNCHANGED gnos

(* extbmp_expand_remset_gnos: a new generation below the static area.      *)
(* Broken variant: the leaves of the static area keep its old number.      *)
KeepsStaticGno ==
  /\ gnos < MaxGnos
  /\ gnos' = gnos + 1
  /\ UNCHANGED <<tree, bits, leafGno, mru>>
ExpandGnos ==
  /\ gnos < MaxGnos
  /\ gnos' = gnos + 1
  /\ leafGno' = [p \in DOMAIN leafGno |->
                   IF leafGno[p] >= gnos - 1 THEN leafGno[p] + 1 ELSE leafGno[p]]
  /\ UNCHANGED <<tree, bits, mru>>

(* What the scanner can refuse.                                            *)
OfGno(g) == {a \in bits : OfGen(a, g)}
BitmapNext ==
  \/ \E a \in Objects : AddElem(a) \/ DelElem(a)
  \/ \E g \in 0 .. gnos - 1 : \E drop \in SUBSET OfGno(g) : Enumerate(g, drop)
  \/ ExpandGnos

Spec == Init /\ [][BitmapNext]_vars
-----------------------------------------------------------------------------
(* The shape of the tree: every node hangs on its parent, only leaves of   *)
(* the tree are cached or have bits, and a leaf that is not mixed holds    *)
(* addresses of its generation only.                                       *)
TreeTypeOK ==
  /\ tree \subseteq Paths \ {Root} /\ \A p \in tree : NodesTo(p) \subseteq tree
  /\ bits \subseteq Objects /\ \A a \in bits : PathTo(a) \in tree
  /\ mru \in {Root} \cup (tree \cap Leaves)
  /\ DOMAIN leafGno = tree \cap Leaves
  /\ \A a \in bits : leafGno[PathTo(a)] \in {0, GenOf(a)}

(* What is recorded is found again, from the cached leaf or the root.      *)
MembersFound == bits = {a \in Objects : IsMember(a)}

(* "for each w in (ebmp & addresses(gno)) invoke scanner", "if scanner     *)
(* returns FALSE, ebmp := ebmp \ { w }": the words and inodes that an      *)
(* enumeration skips hold nothing it should see, though the ends of node   *)
(* ranges wrap, no address is seen twice, and it removes what the scanner  *)
(* refuses and, with the nodes that it frees, nothing else.                *)
EnumerationExact ==
  \A g \in 0 .. gnos - 1 : \A drop \in SUBSET OfGno(g) :
    LET r == Enumerated(g, drop)
    IN  /\ UNION Range(r.seen) = OfGno(g)
        /\ \A i, j \in DOMAIN r.seen : i # j => r.seen[i] \cap r.seen[j] = {}
        /\ Left(r, drop) = bits \ drop

(* An enumeration of the bitmap delivers exactly the members inside the    *)
(* regions asked for, across leaves and words they share, also when the    *)
(* callback takes members out.                                             *)
BitmapExact == TreeTypeOK /\ MembersFound /\ EnumerationExact
=============================================================================
