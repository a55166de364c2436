----------------------------- MODULE MCLibrary ------------------------------
(***************************************************************************)
(* Small instances of parts whose objects TLC may take for interchangeable *)
(* (extents and continuations, pairs of a queue, blocks, semispaces), and  *)
(* of the stop-and-copy heap.  A behaviour is one of the part named by     *)
(* which.  The model values of the extents serve the queue as pairs and    *)
(* the allocators as blocks, those of the continuations the semispaces, so *)
(* that one symmetry set is enough.                                        *)
(***************************************************************************)
EXTENDS DynamicWind, TLC

CONSTANTS Parts,          \* the parts to run
          t1, m1, noTask, noMutex

VARIABLES which, v1, v2, v3, v4, v5, v6

LibrarySymmetry == Permutations(Extents) \cup Permutations(Konts)

QU == INSTANCE Queue WITH
  Objs <- {m1, t1}, Cells <- Extents \cup {noTask}, Nil <- noMutex,
  head <- v1, tail <- v2, car <- v3, cdr <- v4
BC == INSTANCE BlockCache WITH
  Blocks <- Extents \cup {t1}, QuickSizes <- {1}, LargeSizes <- {3, 4}, NumHist <- 2,
  NumAvailable <- 2, PageSize <- 2, MaxAllocs <- 3,
  mapped <- v1, used <- v2, quick <- v3, cache <- v4, fragmentation <- v5
PA == INSTANCE Parcels WITH
  Memory <- Extents, BlocksPerEntry <- 4, MinRegistry <- 2, Deltas <- {0, 1}, BlockBytes <- 2,
  partial <- v1, filled <- v2, registry <- v3, regSize <- v4,
  fragmentation <- v5, held <- v6
SS == INSTANCE Semispace WITH
  Names <- Konts, Blocks <- 2, Sizes <- {1, 2}, Gens <- {0, 1}, MaxSlots <- 4, FirstSlots <- 2,
  Dead <- noTask, Edges <- {},
  w <- v1, written <- v2, failed <- v3
SC == INSTANCE StopCopyHeap WITH
  FirstSlots <- 2, Page <- 8, ChunkSize <- 16, LargeLimit <- 8, StackRoom <- 2,
  MakeRoomSize <- 8, SceBuffer <- 1, BaseSize <- 1, AllocationRoom <- 48, LoadFactor <- 3,
  LowerLimit <- 0, UpperLimit <- 0, StaticUsed <- 0, Objects <- {5, 10}, Frames <- {1, 3},
  Blocks <- 10, MaxDepth <- 2, MaxUsed <- 50, Dead <- noTask,
  heap <- v1, wanted <- v2, called <- v3, kont <- v4, failed <- v5

ASSUME Parts \subseteq
  {"dynamic wind", "queue", "block cache", "parcels", "semispaces",
  "stop and copy"}
ASSUME QU!QueueAssumption
ASSUME BC!BlockCacheAssumption
ASSUME PA!ParcelsAssumption
ASSUME SS!SemispaceAssumption
ASSUME SC!StopCopyAssumption

(* A part uses the first of the variables v and leaves the others, and     *)
(* those of the modules above, alone.                                      *)
Unused6 == v6 = 0
Unused5 == v5 = 0 /\ Unused6
Unused4 == v4 = 0 /\ Unused5
Unused1 == v1 = 0 /\ v2 = 0 /\ v3 = 0 /\ Unused4
Rest6 == <<v6>>
Rest5 == <<v5, Rest6>>
Rest4 == <<v4, Rest5>>
Rest1 == <<v1, v2, v3, Rest4>>
AllVars == <<which, vars, Rest1>>

PartsInit ==
  /\ which \in Parts /\ Init
  /\ \/ which = "dynamic wind" /\ Unused1
     \/ which = "queue" /\ QU!Init /\ Unused5
     \/ which = "block cache" /\ BC!Init /\ Unused6
     \/ which = "parcels" /\ PA!Init
     \/ which = "semispaces" /\ SS!Init /\ Unused4
     \/ which = "stop and copy" /\ SC!Init /\ Unused6

PartsNext ==
  /\ UNCHANGED which
  /\ \/ which = "dynamic wind" /\ Next /\ UNCHANGED Rest1
     \/ which = "queue" /\ QU!Next /\ UNCHANGED <<vars, Rest5>>
     \/ which = "block cache" /\ BC!Next /\ UNCHANGED <<vars, Rest6>>
     \/ which = "parcels" /\ PA!Next /\ UNCHANGED <<vars>>
     \/ which = "semispaces" /\ SS!Next /\ UNCHANGED <<vars, Rest4>>
     \/ which = "stop and copy" /\ SC!Next /\ UNCHANGED <<vars, Rest6>>

PartsSpec == PartsInit /\ [][PartsNext]_AllVars
-----------------------------------------------------------------------------
(* The block caches of osdep-unix.c and osdep-generic.c and the semispaces *)
(* above them account for every block: it has one owner, the bounds of the *)
(* lists hold, and the sizes and the fragmentation reported are those of   *)
(* the blocks.                                                             *)
BlocksAccounted ==
  /\ which = "block cache" => BC!CacheExact
  /\ which = "parcels" => PA!ParcelsExact
  /\ which = "semispaces" => SS!SemispaceSound

(* What the program saved is kept through stack flushes and collections    *)
(* of the stop-and-copy heap, none of sc-heap.c's assertions fails, its    *)
(* handlers leave room for what trapped, its collections room to allocate. *)
StackAndHeapFit == which = "stop and copy" => SC!StopCopySound

(* Every operation on the cells does to the queue's contents, and to the   *)
(* place of its tail, what the operator of QueueOps says: queue-put!,      *)
(* queue-get! and queue-remove! of queue.sch; and the tail, on which       *)
(* queue-put! stores, always ends its own list.                            *)
QueueIsQueue ==
  /\ which = "queue" => QU!Abstract!Init
  /\ [](which = "queue" => QU!TypeOK /\ QU!TailEndsItsList)
  /\ [][which = "queue" => [QU!Abstract!Next]_(QU!View)]_AllVars
=============================================================================
