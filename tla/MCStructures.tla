---------------------------- MODULE MCStructures ----------------------------
(***************************************************************************)
(* Small instances of the parts of the runtime system that one actor uses  *)
(* at a time: the remembered sets and their summaries, the large-object    *)
(* lists, the page table, the mark stack and compiled code.  A behaviour   *)
(* is one of the part named by which; its variables are the first of the   *)
(* variables v, those of the extensible bitmap its own.                    *)
(***************************************************************************)
EXTENDS ExtBitmap, TLC

CONSTANTS Parts,          \* the parts to run
          o1, o2, o3, o4,     \* objects and locations
          none, free, mark1, static

VARIABLES which, v1, v2, v3, v4, v5, v6, v7, v8, v9, v10, v11, v12, v13

(* Ten leaves of two words of two bits, in inodes of eight entries, the    *)
(* second of which ends beyond the address space: two regions that share a *)
(* leaf, the first with another range, which is empty, and a static area   *)
(* in both inodes.                                                         *)
Areas == << <<<<0, 4>>, <<6, 7>>>>, <<<<4, 6>>>>, <<<<8, 10>>, <<32, 36>>>> >>
(* Two of three collide.                                                   *)
Colliding == (o1 :> 0) @@ (o2 :> 0) @@ (o3 :> 1)
(* Where the objects of the unified remembered sets live.                 *)
ArrayHomes == (o1 :> 1) @@ (o2 :> 2) @@ (o3 :> 3) @@ (o4 :> static)
BitmapHomes == (o1 :> 1) @@ (o3 :> 2) @@ (o4 :> static)
LargeSizes == (o1 :> 1) @@ (o2 :> 2) @@ (o3 :> 4)
(* A pair, two vectors, a string and what they may hold.                   *)
Content == (o1 :> {<<x, y>> : x \in {o2, o3, none}, y \in {o1, o4}}) @@
           (o2 :> {<<x, none, y>> : x \in {o3, o4, none}, y \in {o1, o2, none}}) @@
           (o3 :> {<<x, y, z>> : x \in {o2, o3}, y \in {o1, none}, z \in {o4, none}}) @@
           (o4 :> {<< >>})
(* Seven-bit words: fixnums from -16 to 15, eight characters, objects.     *)
Pointees == (1 :> [hdr |-> "pair", size |-> 8]) @@ (3 :> [hdr |-> "vector", size |-> 8])
       @@ (11 :> [hdr |-> "vector", size |-> 0]) @@ (19 :> [hdr |-> "structure", size |-> 12])
       @@ (5 :> [hdr |-> "bytevector", size |-> 3]) @@ (13 :> [hdr |-> "string", size |-> 2])
       @@ (21 :> [hdr |-> "ustring", size |-> 4]) @@ (7 :> [hdr |-> "procedure", size |-> 12])
Operands == {4 * n : n \in 0 .. 31} \cup {2, 34, 98, 6, 14, 22} \cup DOMAIN Pointees

RS == INSTANCE RememberedSet WITH
  Words <- {o1, o2, o3}, Buckets <- {0, 1}, Hash <- Colliding, Zero <- none,
  PoolEntries <- 2, MaxNodes <- 6,
  tbl <- v1, nodes <- v2, numpools <- v3, overflowed <- v4, live <- v5
LS == INSTANCE LocationSet WITH
  Locations <- {o1, o2, o3}, Buckets <- {0, 1}, Hash <- Colliding, Cleared <- none,
  PoolEntries <- 2, MaxPools <- 2,
  nursery <- v1, mutator <- v2, column <- v3
UA == INSTANCE UremsetArray WITH
  Objects <- {o1, o2, o3, o4}, Home <- ArrayHomes, Static <- static,
  FirstGnos <- 4, MaxGnos <- 5, MinorExpands <- FALSE,
  gnos <- v1, minor <- v2, major <- v3, job <- v4
UB == INSTANCE UremsetBitmap WITH
  Objects <- {o1, o3, o4}, Home <- BitmapHomes, Static <- static,
  FirstGnos <- 3, MaxGnos <- 4, MaxCount <- 3,
  gnos <- v1, minor <- v2, major <- v3, live <- v4, job <- v5
SM == INSTANCE SummaryMatrix WITH
  FirstRegions <- 2, MaxRegions <- 3, MaxCells <- 3, MaxLocsets <- 2, MaxWords <- 3,
  Locs <- {1}, MaxBatch <- 2, PopularityLimit <- 2,
  cells <- v1, rows <- v2, cols <- v3, cache <- v4, mutator <- v5,
  pool <- v6, locsets <- v7, summarized <- v8, recorded <- v9
LO == INSTANCE LargeObjects WITH
  Objects <- {o1, o2, o3}, Size <- LargeSizes, Mark1 <- mark1, Null <- none, Free <- free,
  Systems <- {"generational", "regional"}, FirstGens <- 3, MaxGens <- 5,
  system <- v1, los <- v2, lists <- v3, collecting <- v4, cursor <- v5,
  scanned <- v6
PT == INSTANCE PageTable WITH
  Pages <- 4, Lengths <- {1, 2}, Gens <- {0, 1}, FirstSlots <- 2, PageBytes <- 8, SlotBytes <- 1,
  HeapLimit <- 24, Foreign <- none, Unallocated <- free, RtsOwned <- mark1,
  table <- v1, base <- v2, mem <- v3, bytes <- v4, barrier <- v5,
  blocks <- v6
MK == INSTANCE MarkStack WITH
  Objects <- {o1, o2, o3, o4}, Pairs <- {o1}, Vectors <- {o2, o3}, Fix <- none, Contents <- Content,
  RootLists <- {<<o1>>, <<o2, o3>>, <<o4, none, o2>>}, Remembered <- {{}, {o1}, {o2, o3}}, Region <- {o1, o3, o4},
  StackSize <- 2, LargeLimit <- 2,
  heap <- v1, roots <- v2, remset <- v3, use <- v4, target <- v5, via <- v6,
  pc <- v7, left <- v8, cx <- v9, saved <- v10, floats <- v11, path <- v12,
  leaked <- v13
PP == INSTANCE PetitPrimitives WITH
  Half <- 64, CharBits <- 16, CharTag <- 2, CharLimit <- 7, SurrogateFirst <- 5, SurrogateLast <- 5,
  ByteLimit <- 4, ShiftLimit <- 7, Heap <- Pointees, Words <- Operands, Fills <- {0, 12, 16, 124, 18, 6},
  RESULT <- v1, reg <- v2, ran <- v3
PM == INSTANCE PetitMachine WITH
  LASTREG <- 3, Objects <- 7, MaxArgs <- 4, MaxSteps <- 2, MaxFrames <- 1,
  m <- v1, pc <- v2, steps <- v3, args <- v4, val <- v5

ASSUME Parts \subseteq
  {"extensible bitmap", "remembered set", "location sets", "remset array",
  "remset bitmaps", "summary matrix", "large objects", "page table",
  "mark stack", "primitives", "compiled code"}
ASSUME RS!RememberedSetAssumption
ASSUME LS!LocationSetAssumption
ASSUME UA!Interface!UnifiedRemsetAssumption
ASSUME UB!Interface!UnifiedRemsetAssumption
ASSUME SM!SummaryMatrixAssumption
ASSUME LO!LargeObjectsAssumption
ASSUME PT!PageTableAssumption
ASSUME MK!MarkStackAssumption
ASSUME PP!PrimitivesAssumption
ASSUME PM!PetitMachineAssumption

(* A part uses the first of the variables v and leaves the others, and     *)
(* those of the modules above, alone.                                      *)
Unused10 == v10 = 0 /\ v11 = 0 /\ v12 = 0 /\ v13 = 0
Unused7 == v7 = 0 /\ v8 = 0 /\ v9 = 0 /\ Unused10
Unused6 == v6 = 0 /\ Unused7
Unused5 == v5 = 0 /\ Unused6
Unused4 == v4 = 0 /\ Unused5
Unused1 == v1 = 0 /\ v2 = 0 /\ v3 = 0 /\ Unused4
Rest10 == <<v10, v11, v12, v13>>
Rest7 == <<v7, v8, v9, Rest10>>
Rest6 == <<v6, Rest7>>
Rest5 == <<v5, Rest6>>
Rest4 == <<v4, Rest5>>
Rest1 == <<v1, v2, v3, Rest4>>
AllVars == <<which, vars, Rest1>>

PartsInit ==
  /\ which \in Parts /\ Init
  /\ \/ which = "extensible bitmap" /\ Unused1
     \/ which = "remembered set" /\ RS!Init /\ Unused6
     \/ which = "location sets" /\ LS!Init /\ Unused4
     \/ which = "remset array" /\ UA!Init /\ Unused5
     \/ which = "remset bitmaps" /\ UB!Init /\ Unused6
     \/ which = "summary matrix" /\ SM!Init /\ Unused10
     \/ which = "large objects" /\ LO!Init /\ Unused7
     \/ which = "page table" /\ PT!Init /\ Unused7
     \/ which = "mark stack" /\ MK!Init
     \/ which = "primitives" /\ PP!Init /\ Unused4
     \/ which = "compiled code" /\ PM!Init /\ Unused6

PartsNext ==
  /\ UNCHANGED which
  /\ \/ which = "extensible bitmap" /\ BitmapNext /\ UNCHANGED Rest1
     \/ which = "remembered set" /\ RS!Next /\ UNCHANGED <<vars, Rest6>>
     \/ which = "location sets" /\ LS!Next /\ UNCHANGED <<vars, Rest4>>
     \/ which = "remset array" /\ UA!Next /\ UNCHANGED <<vars, Rest5>>
     \/ which = "remset bitmaps" /\ UB!Next /\ UNCHANGED <<vars, Rest6>>
     \/ which = "summary matrix" /\ SM!Next /\ UNCHANGED <<vars, Rest10>>
     \/ which = "large objects" /\ LO!Next /\ UNCHANGED <<vars, Rest7>>
     \/ which = "page table" /\ PT!Next /\ UNCHANGED <<vars, Rest7>>
     \/ which = "mark stack" /\ MK!Next /\ UNCHANGED <<vars>>
     \/ which = "primitives" /\ PP!Next /\ UNCHANGED <<vars, Rest4>>
     \/ which = "compiled code" /\ PM!Next /\ UNCHANGED <<vars, Rest6>>

PartsSpec == PartsInit /\ [][PartsNext]_AllVars
-----------------------------------------------------------------------------
(* The sets of objects and locations that the collectors keep hold what    *)
(* was put into them and not taken out, once each, in whatever order their *)
(* tables, pools, bitmaps and numbers are filled, grown and cleared.       *)
RemsetsExact ==
  /\ which = "remembered set" => RS!RemsetExact
  /\ which = "location sets" => LS!LocsetExact
  /\ which = "extensible bitmap" => BitmapExact
  /\ which = "remset array" => UA!ArrayTypeOK
  /\ which = "remset bitmaps" => UB!BitmapsTypeOK

(* The remembered set's operations act on the set as remset_t.h says, the  *)
(* two unified remembered sets implement the interface of uremset_t.h, and *)
(* the large-object lists implement the object space: initial states are   *)
(* initial states, and steps are steps or stutters.                        *)
InterfacesImplemented ==
  /\ which = "remset array" => UA!Interface!Init
  /\ which = "remset bitmaps" => UB!Interface!Init
  /\ which = "large objects" => LO!Interface!Init
  /\ [][/\ which = "remset array" => [UA!Interface!Next]_(UA!Interface!vars)
        /\ which = "remset bitmaps" => [UB!Interface!Next]_(UB!Interface!vars)
        /\ which = "large objects" => [LO!Interface!Next]_(LO!Interface!vars)
        /\ which = "remembered set" =>
             \A w \in {o1, o2, o3} :
               /\ RS!AddElem(w) \/ RS!AddElemNew(w) => RS!Members' = RS!Members \cup {w}
               /\ RS!DelElem(w) => RS!Members' = RS!Members \ {w}]_AllVars

(* The summary matrix stays whole: cells are joined in both of their lists *)
(* and filed where rows, columns and caches look for them, freed ones are  *)
(* in the pool, word counts cover what is summarized, and a summary is     *)
(* exactly what was recorded (summ_matrix.c).                              *)
SummariesWhole == which = "summary matrix" => SM!MatrixExact

(* The page table says who has each page, however it slides and grows, and *)
(* every large object is in the one list that its generation calls for:    *)
(* what alloc.c and los.c report as used is what is used.                  *)
MemoryAccounted ==
  /\ which = "page table" => PT!PagesExact
  /\ which = "large objects" => LO!LosExact

(* The marker of msgc-core.c marks, counts and shows exactly what can be   *)
(* reached, however its stacks end and begin segments, and its uses report *)
(* what it found.                                                          *)
MarkingMeasures == which = "mark stack" => MK!MarkingExact

(* The arithmetic, comparisons and accesses of petit-instr.h give what     *)
(* their operands stand for, or trap.                                      *)
ArithmeticExact == which = "primitives" => PP!PrimitivesExact

(* Compiled code over a moving collector: no register or slot is stale     *)
(* after an instruction that allocates, and what each stands for is what   *)
(* the instruction should have put there.                                  *)
CodeSurvivesCollections == which = "compiled code" => PM!MachineSound
=============================================================================
