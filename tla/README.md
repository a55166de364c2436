# A verification model of Larceny

Larceny is a Scheme system: a C run-time system with a family of garbage
collectors (`src/src/Rts`), a Scheme library (`src/src/Lib`, `src/lib`) and the
Twobit compiler (`src/src/Compiler`, `src/src/Asm`).  This directory holds TLA+
models of the parts of Larceny whose correctness depends on the order of events
or on how several structures agree: the generational collector with its write
barrier and remembered sets; the regional collector with its incremental marker,
its summaries and its schedule; the structures these keep their data in; the
allocators below them; the stack cache, interrupts and compiled code beside
them; and, on the Scheme side, preemptive tasks, mutexes, barriers and dynamic
winds.  Each model is translated from the code; `PROJECT.json` maps every
definition to its lines, lists the hazards the properties are for, and the
theorems.

## The system

Paths are below `src/src` (`Rts`, `Lib`) or `src` (`lib`, `include`).

| Component | Source | State it keeps | Operations | What makes it correct |
|---|---|---|---|---|
| write barrier, store buffers (SSB) | `Rts/IAssassin/millicode.c`, `Sys/seqbuf.c` | one buffer per generation pointed into | log a store, compact all buffers | no old-to-young pointer is missed; no store past the limit |
| remembered sets | `Sys/remset.c`, `uremset_array.c`, `uremset_extbmp.c`, `extbmp.c` | hash chains over a pool, or an extensible bitmap; minor and major parts | add, delete, enumerate with removal, clear, insert a region | representation and set agree, each object once, exact counts |
| nursery | `Sys/nursery.c` | allocation area, stack cache | allocate, collect when full, overflow | everything live is evacuated before reuse |
| old areas and policy | `Sys/old-heap.c` | ephemeral areas, dynamic area, must-clear flags | promote, collect, pass the buck, clear later | what was evacuated is cleared, nothing else is |
| memory manager | `Sys/memmgr.c` | generations, nesting depth | choose the area, before/after collection, enumerate roots and sets | every root and every entry outside the collected generations is seen |
| copying collector | `Sys/cheney.c` | to-space, scan pointer, mark list | forward, scan, scan remembered objects | object graph and identity preserved, termination |
| large objects | `Sys/los.c` | doubly linked list per generation, mark list | mark, sweep, move | marked once, survivors kept, others freed |
| regional policy | `Sys/memmgr.c`, `region_group.c`, `summ_matrix.c` | the group of each region, waves of summaries, refinement | pick regions to collect and to fill, advance the cycle | a region is collected only with what it needs; the waves finish in time |
| summaries | `Sys/summ_matrix.c`, `summary.c`, `locset.c` | a sparse matrix of cells, caches, counts, location sets | scan rows, add, clear, fold, compose | a summary covers all pointers into its region |
| snapshot marker | `Sys/smircy.c` | mark bitmap, mark stacks threaded by region | push, progress, refine | what the snapshot reached is marked, whatever moves meanwhile |
| marker for measurement | `Sys/msgc-core.c`, `memmgr_flt.c`, `memmgr_vfy.c` | bitmap, segmented stacks | mark, measure, show a path | marks and counts are exact |
| semispace heap | `Sys/sc-heap.c`, `semispace.c` | chunk arrays, budget, stack | allocate, collect, expand, seal, prune | data stays where it counts; blocks have one owner |
| stack cache | `Sys/stack.c`, `callback.c` | frames in the cache and in the heap | flush, restore, overflow, underflow, capture | no frame lost or run twice |
| page table | `Sys/alloc.c`, `barrier.c` | generation and attributes per page | allocate, free, slide, grow | every page has its owner; the barrier's copy follows |
| block allocators | `Sys/osdep-unix.c`, `osdep-generic.c` | quick lists, cache with ages; parcels and registry | allocate, free | blocks have one owner, statistics are true |
| interrupts | millicode of three platforms, `Sys/signals.c`, `syscall.c` | timer counters, flags, millicode frames | tick, enable, disable, check, call out | an interrupt that is due stays due, code resumes unharmed |
| compiled code | `include/Standard-C/petit-instr.h` | VM registers, frames | primitives, calls, closures, allocation | exact arithmetic; nothing stale after a collection |
| non-predictive and conservative collectors | `Sys/*np*.c`, `Sys/bdw-*.c` | other build configurations | | |
| FFI, heap images, statistics | `Sys/ffi.c`, `heapio.c`, `stats.c`, `gc_mmu_log.c` | handles, files | system calls | |
| queues | `lib/Standard/queue.sch` | head, tail, cells | put, get, remove | first in, first out, nothing lost |
| tasking | `lib/Standard/tasking.sch` | task records, run queue, current task | spawn, kill, yield, block, unblock, timer, schedule | the invariants in its comments; every task runs |
| mutex, monitor, barrier | `lib/Standard/mutex.sch`, ... | holder, count, waiters | acquire, release, enter | mutual exclusion, wake-up |
| tasking with I/O, coroutines | `lib/Standard/tasking-with-io.sch`, `coroutine.sch` | tasks blocked on descriptors; continuations | poll, idle; resume | a ready task is woken |
| timer and critical sections | `Lib/Common/timer.sch` | tick count | call-without-interrupts | off exactly inside |
| continuations, dynamic-wind | `Lib/Common/control.sch` | `*here*`, wind tree | call/cc, reroot! | before and after thunks in order |
| library, compiler, assemblers | rest of `src` | sequential | | tested by the repository's suites |

Interactions.  Compiled code stores through the barrier, which fills the SSB of
the generation pointed into; a full buffer or the start of a collection empties
all buffers into the remembered sets; the collector reads the sets of the
generations it does not collect as roots and drops useless entries while it
reads them; the areas call back into the memory manager to pass a collection
on, and are told afterwards to clear themselves.  In the regional collector the
remembered set feeds the summaries a few rows per collection, the summaries
stand in for it when their region is collected, and the snapshot marker, which
advances at the end of collections and is fed by the same barrier, later takes
dead objects out of it.  Collections move what is on the marker's stacks, in
the stack cache and in the registers of compiled code; each of these has its
own way to be told.  On the Scheme side, tasks switch by throwing to a scheduler
continuation: `reroot!` runs the after thunks of the task's critical sections,
among them those that turn the timer on, and the timer's handler itself switches
tasks.  The hard behaviours are therefore: stores between the steps of a marker
or of a summary; state that is read before an object moves and used after;
switches and interrupts at any call; operations that end half done; and
structures with caches, pools and segments at their boundaries.

## Modules

| Module | Models |
|---|---|
| `GenGC` | mutator, generational write barrier, SSBs, remembered sets, policy, copying, large objects |
| `ObjectHeap` | the promise to the program: an object graph that only the program changes |
| `MCGenGC` | instances for TLC and the refinement `GenGC => ObjectHeap` |
| `SnapshotMarker`, `MCSnapshotMarker` | the incremental marker between stores and collections; its instance and properties |
| `RegionGroups` | the schedule: region groups, waves, popular and infamous regions, refinement |
| `RegionSummaries` | what summaries hold while they are built and used |
| `SummaryMatrix` | the matrix of cells the summaries are kept in |
| `LocationSet` | location sets, and a summary composed of three of them |
| `RememberedSet` | one remembered set: hash table, chains, node pool |
| `UnifiedRemset` | what `uremset_t.h` promises |
| `UremsetArray`, `UremsetBitmap` | its two implementations, shown to implement it |
| `ExtBitmap` | the extensible bitmap: tree, leaves, generations that share a leaf |
| `LargeObjects`, `ObjectSpace` | the lists of `los.c`, shown to implement what `los_t.h` promises |
| `MarkStack` | the marker of `msgc-core.c` and its uses |
| `PageTable` | `alloc.c` with its page tables and the barrier's copy of them |
| `BlockCache`, `Parcels` | the block allocators of `osdep-unix.c` and `osdep-generic.c` |
| `SemispaceOps`, `Semispace` | the operations of `semispace.c`; any calls of them |
| `StopCopyHeap` | `sc-heap.c` over `SemispaceOps` |
| `StackCache` | the continuation: cache, heap frames, callouts |
| `Interrupts` | timer and keyboard interrupts, callouts, callbacks, system calls |
| `PetitPrimitives`, `PetitMachine` | inlined primitives on words; calls and allocation over a moving collector |
| `QueueOps`, `Queue`, `QueueSpec` | queue operations as operators; the cells, shown to implement them |
| `Tasking` | tasks, scheduler, timer, critical sections, over `QueueOps` |
| `TaskBlocking`, `Mutex`, `Barrier` | blocking inside a critical section; `mutex.sch`, `barrier-sync.sch` |
| `DynamicWind` | `dynamic-wind`, `call/cc` and `reroot!` of `control.sch` |
| `MCControl` | tasks, mutexes, barriers, stack cache, interrupts: small instances, one run |
| `MCLibrary` | dynamic winds, queue, allocators, semispaces, stop-and-copy heap: one run |
| `MCStructures` | the data structures of the run-time system and compiled code: one run |
| `GenGCProofs`, `SnapshotMarkerProofs`, `RegionSummariesProofs`, `RegionGroupsProofs`, `ControlProofs`, `StackCacheProofs`, `InterruptsProofs`, `DynamicWindProofs` | the theorems |

The three composite modules hold several small models that do not interact: the
variable `which`, chosen at the start, says which of them runs; the others stay
in their initial states, and a property speaks of one of them by its value (those
of `Mutex` and `Barrier` hold of untouched initial states as well).  Their constants are bound in the module, next to
each `INSTANCE`, and repeated with their assumptions; those of the stack cache
and of interrupts, about which there are theorems, are the composite module's own.

### GenGC

Generation 0 is the nursery, `1 .. Ephemeral` are the ephemeral areas, then
come the dynamic area and the static area.  An address is a pair of the object
it holds and a copy number: the name of the object is a ghost by which copies
are told apart, and no action looks at it except to find memory for a copy.
`gen` is the page table, `fwd` the forwarding pointers, `ssb` and `remset` the
buffers and sets, `target`, `how`, `clearAreas` and `clearRemsets` the decision
of the policy, `entries`, `obj`, `left`, `grey` and `tospace` the progress of
the collector.

| Action | Code |
|---|---|
| `Allocate`, `Load`, `Store`, `Drop` | the mutator; `Store` includes the whole barrier with the compaction of full buffers |
| `StartCollection(g, m)` | `collect_generational`, `before_collection`, and the chain of `collect_ephemeral` / `collect_dynamic` calls that picks the area and sets the flags |
| `ForwardSlot` | `forw_oflo` and `forward` on one slot: `Skip`, `Follow`, `Mark`, `Copy` |
| `ScanEntry` | one object of `rs_enumerate` with `remset_scanner_oflo` |
| `ScanTospace` | one object of `scan_oflo_normal` |
| `FinishCollection` | sweeping, freeing, `after_collection` of every area |

Abstractions: sizes (a choice by byte counts is a free choice, so the model has
every outcome the code has); order of the grey objects (any order, the code's
is one of them); `has_intergen_ptr` is computed when the scan of an entry
begins.  This gives what the code's slot-by-slot test gives: the code reads the
generation of each slot's object before it forwards that slot, and only an
earlier slot of the same entry can have changed it (by marking a large object
that both slots share); that earlier slot has then contributed the old
generation, so the disjunction over all slots is the same.  The stack is among the roots:
`flush_stack` puts its frames in the heap before a collection.  The SSB entry
is two words (object and offset), as in the default build.

### The regional collector

`SnapshotMarker` is `smircy.c` between the mutator and the collections: `Alloc`,
`Load`, `Drop`, `Store` (with both barriers), `Minor` and `Major` collections,
which move objects and tell the marker (`Requeue`), `Grow` (a region is
inserted), `Progress`, `Underflow` and `Refine`.  The object stack and the stack of
large-object cursors are sequences whose entries are threaded by region, as in
the code.  `RegionSummaries` takes from it only that what is dead may be
unmarked; the remembered set it refines is there scanned row by row
(`ScanRows`), while `Flush`, `Minor`, `Major` and `MajorWithout` (a region without a
summary) move objects and locations.  `RegionGroups` is the policy: which region
is collected, which is copied to, which summaries are made; what is in
a region is abstracted to how the words may fall (`Overflow`, `Fill`, `Risen`).
`SummaryMatrix` and `LocationSet` are the structures below a summary.  Constants
let a reader turn on what the runs leave out because it breaks the
properties: `LateStatic`, `ChosenRises`, `MidPass`, `Unsummarized`, `LateRest` (see
"Seen on the way").

### Remembered sets and bitmaps

In `RememberedSet` `nodes` is the sequence of nodes of all segments in use; a
node holds an object or zero and the next node of its chain.  `rs_enumerate` is one
step, because in the generational collector the scanner touches no set but by
its answer.  `rs_recycle` has no caller and is left out.  This module is why
`GenGC` may treat a remembered set as a set.  `UremsetArray` has two arrays of
such sets, `UremsetBitmap` two bitmaps of the kind of `ExtBitmap` in which a generation is
found by its addresses; both enumerate set by set, object by object
(`Begin`, `Scan`, `NextSet`), and both let a scanner insert a region meanwhile
(`ExpandGnos`).  `UnifiedRemset` is what they implement: an enumeration owes
each object once and removes what the scanner refuses.

### Memory

`PageTable` has the tables as they are indexed, with the base that slides;
`BlockCache` and `Parcels` what the two `osdep` files keep of freed memory.
`SemispaceOps` has one operator per function of `semispace.c`, on a record of
semispaces and blocks; `Semispace` calls them in any order, within what its
constant `Edges` allows, and `StopCopyHeap` as `sc-heap.c` does.
`LargeObjects` has the lists pointer by pointer, `MarkStack` the segments.

### Control and compiled code

`StackCache` keeps, beside the frames, the continuation the program built
(`kont`), against which the frames are compared; return addresses are
addresses in the cache and offsets in the heap.  `Interrupts` has one step per
statement of `check_signals` and per call; `Platform` chooses the millicode.  A keyboard
interrupt may come at any time, also while another is pending; `owed` says whether one is
due, or was missed: it came when `check_signals` had only the clearing of `G_SIGNAL` left.
`PetitPrimitives` runs one primitive on words of seven bits: `ran` records
operands and outcome, and the properties compare it with the integers,
characters and objects the words stand for.  `PetitMachine` has the register
machine over a collector that moves every object (an epoch in each pointer),
and beside it the values that registers should hold.

### Queue and Tasking

`QueueOps` keeps one bit beside the contents, `linked`: whether the tail field
ends the list, which `queue-remove!` can break.  `Queue` has the cells and TLC
checks that it implements `QueueOps` step by step; `Tasking` uses the
operators for the run queue.

In `Tasking` the timer has three values: `off`, `fresh` (a full slice, which
lasts through the scheduler's few calls) and `low` (a remainder, which may end
at any call).  `wind` is the stack of critical sections with the value
`call-without-interrupts` saved at entry.  A captured continuation (`kont`)
has the place, the winds, the scheduler's local task and whether
`tasks/without-interrupts` turns the timer on again.  The scheduler is five
steps, so that a timer that runs in it can strike between them.  `Uses` says
which unusual things the programs do:

* `"switch in critical"`: yield, block or end themselves inside
  `call-without-interrupts`;
* `"evict last"`: block or kill the last of several queued tasks;
* `"block dead"`: block a task that has ended.

With `Uses = {}` the promises hold (run `control`, and proved); each of the
three breaks one of them: `"evict last"` `RunnableIsQueued` (run
`task_evict_last`), `"switch in critical"` `SchedulerNotInterrupted` and
`PreemptableOutside`, `"block dead"` `DeadStayDead`.  The default handlers are
modelled; errors that a task raises itself and raw calls of
`disable-interrupts` are not.

### Mutex and Barrier

Both extend `Tasking`: the scheduler, the timer and the switch are its actions,
and the programs of the tasks may do what it lets them, between the calls of
`mutex-acquire` and the others.  An operation that does not block is one step,
since interrupts are off in it; one that blocks ends in the switch to the
scheduler, and the task goes on in a step of its own (`Retry`, `GoOn`).
Blocking inside a critical section is the first of the unusual things above, and
mutexes and barriers do it themselves: the scheduler then runs with the timer on, which may
strike in it and put the task that has just blocked on the run queue.  `QuickScheduler` says that
what is left of a timeslice lasts through the scheduler, which the code does not see to.
Neither the runs nor the theorems about mutual exclusion, lost wakeups and the meeting at a
barrier assume it; two theorems do (below).  Programs unblock each other's tasks at will at a mutex, and not at a
barrier, which does not look again; they end or kill no task that holds a
mutex, for which the code has no remedy.

### DynamicWind

The cells of the wind tree are explicit (`car`, `next`, `here`), one step per
turned edge.  The control stack has a level for each body, each thunk and each
rerooting in progress, and at every level but the last a program may enter an
extent, return, capture the continuation or throw to a captured one; so a
rerooting can be abandoned, and one that was captured half done can be resumed.
`parent`, `entered` and `plain` are ghosts: where each extent was entered, how
often its before thunk ran more than its after thunk, and whether no thunk that
`reroot!` runs has entered an extent of its own.  `InterruptsRestored` needs
`plain` (finding 3), the properties of the tree do not.  The links made by
`dynamic-wind` after the before thunk are one step: no procedure is called
among them, so no timer interrupt can fall there.

## What is checked

| Run | Properties | Bounds |
|---|---|---|
| `gc_generations` | `RemsetComplete`, `NoDanglingPointers`, `SsbHasRoom`, `NoStaleEntries` | two dynamic objects, one static, one field, two roots, one ephemeral area, buffers of two entries |
| `gc_large_objects` | `OneCopyEach`, the refinement `ImplementsObjectHeap`, and `CollectionEnds` under fairness of the collector | two objects of two fields, small or large, no ephemeral area, buffers of one entry |
| `gc_skip` | violates `NoStaleEntries` | three copies, since the stale object keeps its memory |
| `snapshot_marker` | `PointersKept`, `MarkingCovers`, `UnmarkedOnlyShrinks` | a small and a large object, of one and two slots, windows of one, one region that may become two, stacks of one live entry |
| `regions` | `TypeOK`, `RefinementCounts`, `InfamyEndsByMarking`, `FinishesInTime` | up to four regions, one popular at a time |
| `summaries` | `SummariesComplete`, `NothingLost`, `RemsetSound` | two objects, three regions, two allocations or stores |
| `control` | `TasksInOrder`, `SchedulerHasNoError`, `TimerFollowsWinds`, `OneOwner`, `NoLostWakeup`, `BarrierHolds`, `BarrierOpens`, `StackKept`, `InterruptsHandled`; `TasksGetTheirTurn` and `SaveFinishes` under fairness | three tasks, sections nested twice, one mutex held at most twice, a barrier for three, the timer may strike in the scheduler (`QuickScheduler = FALSE`); a nursery of seven words, in which two frames of the largest size just fit, two procedures; a timer of three ticks on the platform `fence` |
| `library` | `WindInvariants`, `InterruptsRestored`, `BlocksAccounted`, `StackAndHeapFit`, `QueueIsQueue` | three extents, two saved continuations, a control stack of three levels; four cells, four blocks, two semispaces of up to four slots |
| `structures` | `RemsetsExact`, `SummariesWhole`, `MemoryAccounted`, `MarkingMeasures`, `ArithmeticExact`, `CodeSurvivesCollections`, `InterfacesImplemented` | three or four objects each, segments of two, up to five generations, four pages, words of seven bits, three registers |
| `task_evict_last` | violates `RunnableIsQueued` | three tasks |
| `wind_throw_from_nested` | violates `AbandonedRestores` | two extents, one continuation |
| `mutex_loses_task` | violates `WaitersKeepTheirPlace` | three tasks, `QuickScheduler = FALSE` |

What the properties are about is said at each of them; the compound ones
(`StackKept`, `BlocksAccounted`, ...) join what their module states part by part.

Why the bounds are enough to be interesting: two objects give sharing, cycles,
self pointers and an old-to-young pair; one ephemeral area beside the dynamic
area gives a promotion, a collection and a passed buck, and the static area gives
an object that is never collected; the smallest buffers overflow at every
other store; three objects in two buckets give chains with a removed node in
the middle; pools get segments beyond the first; a large object of two windows
is traced in two steps with a collection or a store between them; four regions
give a wave while another is used up, a popular region and an inserted one; ten leaves
under two inodes, the second of which ends beyond the address space, give windows that end
in the first quarter of an inode, behind it and past the wrapped end; three
tasks show the order of the queue and a barrier that one is killed at or comes
to late; three extents can be nested or siblings, so that a rerooting
leaves some and enters others; three registers, of which the last holds a list, and four
arguments make calls with and without a list.

Symmetry is used on objects, extents and continuations in `gc_generations`,
`summaries` and `library`, where no liveness is checked.  `CHECK_DEADLOCK FALSE`
stands where a system or its bounds really end: `end-tasking` ends tasking
(`control`, `task_evict_last`, `mutex_loses_task`), the bounds on work, on
names or on regions end a behaviour (`snapshot_marker`, `regions`, `summaries`), a block
allocator with nothing left to give out stops (`library`).

Every property of a passing run has a broken variant of a modelled definition that
violates it ("Broken variant" in the modules): a barrier limit that counts
entries, an enumeration that misses the highest area, a missing forwarding
pointer, a set that is not cleared, a mark list that is swept, a queue that puts in
front, a scheduler entered with the timer on, and so on.

Fairness.  `GenGC!FairSpec` has weak fairness of `Collector`: a collection is one call
on the mutator's thread.  `MCControl!FairParts` has weak fairness of the scheduler's
steps (the same processor), strong fairness of the timer (the ticks that remain
are kept over a critical section, so they run out however often it is disabled)
and fairness of `Leave`: a critical section ends, weakly for the innermost one
and strongly for the outermost, which may enter others again and again before
it does.  A task that never leaves an outermost section keeps the processor by
design.  For `SaveFinishes` it has weak fairness of the test that compiled code
repeats until it has its frame.  Nothing is assumed of programs otherwise.

## What is proved

TLAPS checks every proof; the theorems hold for all values of the constants.

**`GenGCProofs`**, for every number of objects, copies, fields, roots and
ephemeral areas and every buffer size of at least two words (`GenGCAssumption`):

* `TypeCorrect`: `Spec => []TypeOK`, without further assumption;
* under `NoAreaSkipped` (every request starts at generation 0 or 1, as
  evacuations of the nursery do): `RemsetsStayComplete`, `PointersStayGood`,
  `ObjectsStayUnique`, `BuffersNeverOverflow`, `EntriesStayFresh`.

`NoAreaSkipped` is needed: `gc_skip` is the counterexample without it.
None of the five is inductive: what the mutator may rely on
between collections follows from what the collector has yet to do in the
middle of one.  The inductive invariant `IInv` joins `TypeOK` with named parts:
how the heap is laid out (what is free is empty, large objects are never
forwarded), where forwarding pointers lead (from collected memory to an unforwarded copy of
the same object in to-space), what the unfinished work is (every slot that still
points into from-space belongs to a root not yet scanned, a remembered entry not yet enumerated,
the object being scanned or a grey object), which entries are kept for older
generations, and the shape of the buffers.  `InitInv`, one lemma per action and
`InvStep` give `IInv`; each theorem then follows from `IInv` alone.  The barrier step (`StoreInv`)
is where the filters meet the remembered sets; `FinishInv` is where reclaiming,
clearing and the empty worklists give back the mutator's promises.

**`ControlProofs`** begins with the tasks.  For every number of tasks and any nesting of critical
sections, under `SwitchOutside` (`Uses = {}`, each of whose elements
breaks one of the results, see above), it proves `TasksTyped`, `SchedulerUninterrupted`,
`InterruptsOutside` and the action property `DeadTasksStayDead`.  Two inductive
invariants carry them.  `TaskInv` strengthens the invariants of the comments
by what holds between the scheduler's five steps (whom `picked` names, that the
queue is not empty when it is read, that every queued task has a
continuation in user code) and by the queue's own shape (`QueueGood`: no task
twice, the tail linked), for which there are lemmas about `QueuePut`,
`QueueGet`, `QueueRemove` and `QueuePutAll`: what they hold afterwards, and that
they keep it good.  `TaskInv` needs only that the timer does not strike in the
scheduler; that is the second, `TimerInv`, which ties the timer to the winds of
the running task and of every saved continuation.  The two are apart because
mutexes and barriers, which switch inside a critical section, break the second always
and the first when the timer strikes in the scheduler.

Of the part `tasking` of the composite module it shows `InvariantsOfTasks` (`[]TasksInOrder`),
`SchedulerErrorFree` (`[]SchedulerHasNoError`) and `TimerKeepsToTheWinds` (`[]TimerFollowsWinds`);
it states the results about the stack cache and interrupts (below),
and has the proofs about mutexes and barriers.  These are for every number of tasks, mutexes, parties
and nested acquires, under `Ordinary` (no `"evict last"`, no `"block dead"`; a
switch inside a critical section may be used), wherever the timer strikes, be it in the
scheduler: `MutexesTyped`, `MutualExclusion` (`[]OneOwner`), `NoWakeupIsLost`
(`[]NoLostWakeup`), `NoneComesOutEarly` (`[]BarrierHolds`) and `NoneStaysBlocked`
(`[]BarrierOpens`).  `NoLostWakeup` speaks of tasks that are blocked.  A task that the timer takes out of that
state in the scheduler is on the run queue although nobody has released the mutex, and its
continuation is the scheduler's: it never returns to the loop of `mutex-acquire`.  That is finding 4, which
two more theorems exclude by assuming `QuickScheduler`: `MutexesKeepTasks`
(`TaskInvariants` and `NoSchedulerError` survive what mutexes do) and
`WaitersStayInTheLoop` (`[]WaitersKeepTheirPlace`, by the invariant `PlaceKept`: a
continuation is captured in the task's own code, or outside of the loop).  What the timer cannot
disturb in the scheduler is `Scheduled(S)`, weaker than `TaskInv`: there is a set `S` of tasks that the
scheduler may come to, on the queue or in the continuation of a scheduler that was interrupted, and
code runs only in tasks that are running.  `MutexInv` adds to it that a task in the loop of `mutex-acquire` does not hold the mutex and, while it is
blocked, is on the list of a mutex that is held (`WaitersWait`), and that the holder of a
mutex is alive and has acquired it at least once (`HolderLives`); `BarrierInv` that, while the
barrier is closed, `remaining` and the number of tasks that have entered add up to
the parties and every task that entered is outside of `S` and dead or blocked on the list, or lost in the
scheduler, and that, once it is open, all parties have entered and none of them is blocked.
The steps of `Tasking` are not proved again: the lemmas `NextKeeps`,
`BlockHereKeeps`, `UnblockAllKeeps` and those about `Scheduled` are stated for the
actions that the three share.

**`StackCacheProofs`** is for any procedures, return points, sizes of frames and sizes
of the nursery under `StackCacheAssumption`, which asks for room for two frames beside the
buffer for the barrier's entries (`nursery.c:298` takes that for granted):
`ContinuationIsKept` (`Spec => []StackSound`).  `MCControl` instantiates this module, so its
lemmas are about the run's instance, for any values of the constants, and `ControlProofs` cites
them for `StackIsKept` (`[]StackKept`).  `Chain` is what the cache and the heap mean together: the
frames in the cache as they would be flushed, then those in the heap.  `StackInv` says that the state is
well formed (`Good`: the frames fill the cache's words exactly, and their return addresses
are in the code of their procedures where it is now) and that the targets of
`Chain` are the program's continuation.  There is one lemma for every
operator (`FlushGood`, `RestoreGood`, `CollectGood`, `PushGood`, `PopGood`, ...), of the form: a
good state becomes a good state with the same `Chain`, or with one frame more or fewer, and with so much
room; the lemma about an action chains them.  Writing the lemma about `creg_get` showed that its
assertion of room (`nursery.c:320`) needs a nursery for two frames and two underflow frames; it is
the conjunct `CaptureHasRoom` now.

**`InterruptsProofs`** is for any times, steps of the timer and depths
(`InterruptsAssumption`: times fit in a word, and the value that Fence makes up is one that
`enable-interrupts` takes).  `InterruptsAreKept` (`Spec => []InterruptKept`) is for
the three platforms, with callbacks.  Its invariant `KeptInv` says what the millicode may still have to
do: what `check_signals` has left (`Fronts`), then a statement of its caller's or
nothing (`Rests`); and that an interrupt that is due has both flags set, with no statement left that
clears one without a callout, or its handler is the next to be called.  So a signal between the test
of `G_SIGINT` and the callout is only delayed.  One between the callout and the clearing of `G_SIGNAL` is
not due but missed (`owed`), of which the theorem says nothing.  The other
conjuncts of `InterruptsSound` hold on Fence without callbacks (`FenceAlone`,
`FenceIsSound`); on the other platforms, or with callbacks, the code does what is told under
"Seen on the way".  `FenceInv` adds that `timer_exception` is entered with the first timer at 0
(so that what is left is the second), that there is room for the frames of the handlers that may be called
(`Cost`), and that C's stack is the dispatch loop and at most one system call.  TLC
had checked it on the run's instance.  `ControlProofs` cites its lemmas for
`InterruptsAreHandled` (`[]InterruptsHandled`).

**`DynamicWindProofs`** is for any finite number of extents, any continuations and
any depth of the control stack.  `InterruptsComeBack` is `Spec => []InterruptsRestored`, which
speaks of states without a rerooting; the invariant `OffInv` says what holds
inside one: interrupts are off only if the top of the stack is a rerooting that
was entered with interrupts on and `*enable-interrupts-when-done*` says so,
which is all that a throw looks at.  A thunk that enters an extent puts a level on
top of the rerooting, and there the invariant, and the code, fail.

`ExtentsSound` is `Spec => []WindInvariants`.  Its invariant `ExtentInv` has two
halves.  `TreeInv` says of the cells that every one but `*here*` points along an
edge of the tree of parents, of the two ends of an edge the one farther from
`*here*` to the other (`OrientedInv`), that depths and ranks exist that make
both the parents and the pointers well founded, and which extents lie around each
cell; turning an edge (`TurnTree`) and entering a cell (`EnterTree`) keep it.
`PlacesInv` and `LevelsInv` say of the control stack and of every saved one where
the code of each level stands, that what `reroot!` has still to do is a walk along
edges to where it returns (`WayWalks`, `WalkOn`), and that a cell about to be
entered, perhaps by several continuations, has one place in the tree.  `EdgesLeadHere` and
`EnteredExactly` follow chains of cells, which TLAPS cannot do by induction: `Reaches` and
`AroundIs` take the least counterexample instead (`LeastNat`), and `Reaches` the pigeonhole
principle: a chain of ranks that falls cannot be longer than there are cells.

**`RegionGroupsProofs`** is for any number of regions that the heap may grow to and any
parameters of the policy (`GroupsAssumption`): `GroupsTyped` (`[]TypeOK`: every region
is in exactly one group, once) and `RefinementIsCounted` (`[]RefinementCounts`), and, under
`~ChosenRises` (see below), `ChosenAreKept` and `OnlyMarkingEndsInfamy`
(`InfamyEndsByMarking`).  `IInv`, which `Inductive` shows at every step and TLC had checked on the
run's instance, says that the groups partition the regions (`Sorted`), that
refinement's count is the number of summaries it waits for, each of which is being made or
waits with its summary (`Counted`, `Good`), and where what is copied to and what is collected are.
The steps of the program are compositions: a pause scans rows, which may overflow summaries,
end a pass and start the next wave.  So there is a lemma about every such part that
assumes a `Good` state and gives one, and `Kept` says where regions may have gone in between:
out of infamy only to be awaiting a marker, never into it from among those chosen.
`Kept` composes, which makes the lemma about an action a chain of its parts'.

**`SnapshotMarkerProofs`** is for any finite number of objects of any size, any regions
and any window, under `~LateStatic` (objects are not made static while a marker runs; see
below for what the code does then): `PointersAreKept` (`[]PointersKept`), `MarkingCoversLive`
(`[]MarkingCovers`) and the action property `MarkersMakeHeadway`
(`UnmarkedOnlyShrinks`).  The invariant `IInv` says of a marker by itself that the entries on
its stacks are marked and in the heap and that the thread of a region links exactly
the region's entries, newest first (`ContextOK`).  `MarkInv` relates the marker to the heap by two
sets of objects that no pointer leads out of and that hold what the program can reach:
`All`, which the remembered set is good for, and `Snap`, which the marker covers.  Two are
needed because the remembered set must be right for dead objects too, which a pass over it
still reads, while marks cover the snapshot; they are equal once marks are complete.  "Covers"
is stated without paths: every set that holds what the marker has yet to look at
and that no pointer between unmarked objects leads out of (`ToMark`) has all of `Snap` that is
not marked.  A step keeps this if such a set of the new state, with what the step
marked, is such a set of the old state: `PopFacts` and `FillFromLosFacts` for scanning,
the store's log for an overwritten pointer, `MarkingGoesOn` for evacuations, after which
both sets do without what died, since nothing that is left in them points to it.  `ThreadVisits`, `PushAgainFacts` and `ReachWithin` take the
least counterexample for walks, pushes and reachability.

**`RegionSummariesProofs`** is for any finite number of objects, any number of regions and any
overflows of summaries: `SummariesStayComplete` (`[]SummariesComplete`), `NothingIsLost`
(`[]NothingLost`) and `RemsetStaysSound` (`[]RemsetSound`), under `~MidPass`, `~Unsummarized`
and `~LateRest`; each of the three has a counterexample to `RemsetSound` without it (see below).
The invariant `IInv` names a set `G` of objects that no pointer leads out of and that holds the
roots and the nursery.  For `G`, and not only for what the program can reach, the remembered set
(`RemInv`), the nursery's locations (`NurInv`) and the summaries, those being made up to the
row of the scan (`SumInv`), are complete.  Nothing else may be named anywhere
(`From`) but the corpses that refinement is to forget: unmarked objects in a row that the pass has yet
to scan (`ToForget`), or in a summary that refinement waits for.  A collection
keeps nothing outside of `G`, because the filters of a summary take none of its corpses
and the pass finds the rest (`KeptGood`), and leaves out none of `G`'s locations; when refinement
starts, `G` becomes what is alive in the snapshot.  TLC had checked `IInv` on the run's
instance before it was proved.  `Reachable` is a recursive function, reasoned about by
the least counterexample.

**`GenGCProofs`** also proves the refinement, `GraphImplemented`: under `NoAreaSkipped`,
`Spec => ImplementsObjectHeap`, if `Nil` is neither an object nor the contents of one (`GraphAssumption`).  The invariant
is `IInv` with `SameObject`: a forwarding pointer leads to a copy of the same
object.  `Shows` says what the mapping makes of a state, in which every object
has at most one copy that is not forwarded.  Marking, following a forwarding pointer and copying leave
the graph alone (`MarkSame`, `FollowSame`, `CopySame`); the step that ends a collection
is `Reclaim`, and the objects kept are those with a copy outside of from-space, which by
`IInv` nothing points into (`FinishReclaims`); the mutator's actions are the graph's
(`DropGraph`, `LoadGraph`, `StoreGraph`, `AllocateGraph`).

Only model-checked: `CollectionEnds`, `TasksGetTheirTurn` and `SaveFinishes`
(liveness is out of the prover's reach); `FinishesInTime`, which depends on the parameters of
the policy (with `CoverInv = BudgetInv = 1` the goal of a wave is several summaries, and a pass that ends
short of it starts another, so that the last region that is ready may be collected before the
wave is complete; with the run's values one summary is enough); the refinements of `Queue`, the remembered sets and the large-object space;
and the modules that have no proofs yet: the allocators and semispaces, and the data structures of the run-time system.  What recurses over data there (reachability,
walks of chains and lists, folds) needs the argument by least counterexamples of
`DynamicWindProofs`, `SnapshotMarkerProofs` and `RegionSummariesProofs` for each definition, since the provers cannot apply an induction
theorem; the arithmetic of `PetitPrimitives` is about words of one width, which the run
enumerates.

## Findings

1. `gc_skip`: `(collect 2)` with ephemeral areas leaves forwarded objects in them and
   dangling entries in their remembered sets (`memmgr.c:424`).
2. `task_evict_last`: removing the last queued task loses the next one (`queue.sch:62`).
3. `wind_throw_from_nested`: a throw out of a thunk that has entered and left an extent
   leaves interrupts disabled for good (`control.sch:313`).
4. `mutex_loses_task`: a switch inside a critical section runs the scheduler with the
   timer on (`tasking.sch:336`, `timer.sch:21`), and the timer can then overwrite the
   continuation of a task that has just blocked on a mutex (`mutex.sch:47`).

### Seen on the way

These have no runs of their own.  Where a constant is named, setting it shows
the behaviour.

* Tasks.  After a switch inside a critical section interrupts stay off for the task
  that is resumed in it (`timer.sch:19`), so a task that had to wait for a mutex or
  at a barrier is no longer preempted; this is why `TimerFollowsWinds` speaks of
  `which = "tasking"` only.  `block` revives a dead task (`tasking.sch:166`,
  `Uses = {"block dead"}`).
* Interrupts.  A keyboard interrupt that comes between the callout of `check_signals` and
  `G_SIGNAL = 0` (`fence-millicode.c:822-824`: "Really a race condition") leaves `G_SIGINT` at 1 and
  `G_SIGNAL` at 0, and `check_signals` looks at the first only under the second (819): although
  `inthandler` says "wait for the flag to be discovered" (`signals.c:190`), it is not delivered
  before another one comes.  `InterruptKept` tells these (`owed = "missed"`) from the others.
  IAssassin's `timer_exception` (`millicode.c:190`) calls `check_signals`
  and goes on: when that has begun a callout, the timer's exception begins a
  second one in its midst.  On Standard-C the sum that `disable-interrupts`
  returns can be 0 (`mc_disable_interrupts`); `fence-millicode.c:251` says that it must not
  and guards it.  `Callbacks = TRUE`: a callback during an interruptible system
  call meets an asynchronous signal that jumps over it (`signals.h:39`).
* Snapshot marker.  `LateStatic = TRUE`: an object that `allocate_nonmoving`
  (`memmgr.c:368`) makes while a marker runs is not marked, though
  `smircy.c:32` says objects allocated later need to be treated as marked.
* Regions.  `ChosenRises = TRUE`: `gc_check_rise_to_infamy` (`memmgr.c:2354`) may take
  the region that the policy has just chosen; an assertion (`memmgr.c:1739`) says the region
  copied to is unfilled.  `MidPass = TRUE`: a pass that was under way when refinement began
  counts as the whole pass that `summ_matrix.c:290` asks for (`summ_matrix.c:2629`).
  `Unsummarized = TRUE` with four objects and six regions: during refinement a region without a
  summary is collected by way of the whole remembered set (`memmgr.c:1502`, where the assertion
  at 1451 admits its group with an XXX), unmarked objects included; what these keep
  may be remembered in a row that was refined already, and still is when what it points to is
  reclaimed (`RemsetSound`).
  `LateRest = TRUE` with three objects: a summary that grows too large in the midst of a
  store buffer is cleared (`summ_matrix.c:1934`) and its words are reset to 0 ("recent add;
  is it ok?", 1936), so the loop that adds the buffer while there are not too many
  words (2133) goes on and the column keeps the rest, though its region has no summary now; no
  refinement waits for it, so an object that dies meanwhile can be a root of the region's next
  collection, and is remembered with a pointer to reclaimed storage (`RemsetSound`).
  The assertion at `summ_matrix.c:2564` says that the column is empty then.
  `summ_matrix.c:3607` takes words off a column's count only for
  its last cell (`WordsInSync` of `SummaryMatrix`): the count is too high afterwards.
* Remembered sets.  `MinorExpands = TRUE`: a region inserted during
  `enumerate_minor_complement` (`uremset_array.c:207`) moves the static set beyond the
  bound read before it.  A collection that enumerates minor sets (`memmgr.c:2604-2646`) may insert
  regions, so `InterfacesImplemented` says nothing of it: the run has `MinorExpands = FALSE`.
  `extbmp.c:1032-1034` computes the limit of an inode with a cast that binds before the `+`: a number of
  words is added to an address in bytes, and the limit is the end of the first quarter of the
  inode's range.  `Limit` of `ExtBitmap` does the same; the enumeration then visits more
  children than it would have to, takes more windows for full, and `RemsetsExact` shows that it
  still sees each member once and frees nothing that holds one.
* Memory.  `osdep-unix.c:399` says that a quick list is bounded by the average of the
  history; the code (`osdep-unix.c:572`) recomputes the bound only after an allocation.
  `osdep-generic.c:560` marks every free parcel as used to hand out one.
  `Edges` of `Semispace`: calls that the operations do not survive (expanding when
  a spare chunk is too small, shrink-wrapping an empty current chunk, inserting a
  block that its caller fills at once, moving a block into a slot that the mark of
  the current chunk is behind, `ss_assimilate`).
* Compiled code.  `fx--` of 0 raises an exception (`petit-instr.h:1350`), though 0 is
  representable (`doc/UserManual/fixnums.txt`).

## Not modelled, and why

Monitors, tasking with I/O and coroutines (see the hazards for what a model of
the first two would find); the non-predictive and conservative collectors
(other builds; the unified remembered sets do not support the first any more, for
`urs_assimilate_and_clear` asserts 0); the static heap, heap images, FFI, statistics (loaded
once, system calls and I/O); the dispatch loop of Standard-C, flonums and generic
arithmetic; the vendored assembler; the Scheme library, the compiler and the assemblers
(sequential data processing, for which small-state checking says little beyond
the repository's tests).  The components table of `PROJECT.json` says
for each part what of it is left out.

## Plan

1. `TasksTyped` without a hypothesis on the programs, and the timers of the other two platforms.
2. The parts of `SummaryMatrix` that need no folds.
3. Models of `monitor.sch` and of `tasking-with-io.sch` over `Tasking` and `Mutex`.

