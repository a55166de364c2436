----------------------------- MODULE StopCopyHeap -----------------------------
(***************************************************************************)
(* The heap of the non-generational collector: Rts/Sys/sc-heap.c, over the *)
(* semispaces of semispace.c.  In the current chunk objects grow up from   *)
(* bot (G_ETOP) and the stack cache down from lim (G_STKP).  A full chunk  *)
(* is sealed and another one taken while the budget lasts; then all that   *)
(* lives is copied to a new semispace and a new budget is computed.        *)
(***************************************************************************)
EXTENDS SemispaceOps, Integers, Sequences, FiniteSets, FiniteSetsExt, SequencesExt

CONSTANTS Page, ChunkSize,      \* PAGESIZE, GC_CHUNK_SIZE
          LargeLimit,           \* GC_LARGE_OBJECT_LIMIT
          StackRoom, MakeRoomSize, SceBuffer, BaseSize, \* STACK_ROOM, 4*KILOBYTE, SCE_BUFFER, STACK_BASE_SIZE
          AllocationRoom,       \* the 65536 of compute_target_size
          LoadFactor, LowerLimit, UpperLimit, StaticUsed, \* policy
          Objects, Frames,      \* sizes of objects and of frames
          Blocks, MaxDepth, MaxUsed, Dead \* bounds, and a semispace that was freed
StopCopyAssumption ==
  /\ ChunkSize % Page = 0 /\ MakeRoomSize <= LargeLimit /\ LoadFactor \in Nat \ {0}
  /\ Objects \subseteq Nat \ {0} /\ Frames \subseteq Nat \ {0}
  /\ \A f \in Frames : f + BaseSize + SceBuffer <= ChunkSize   \* sc-heap.c:373

VARIABLES heap,   \* the chunks (w), G_ETOP, G_STKP, G_STKBOT, the frames in the cache
                  \* and in the heap, bytes of large objects, target_size;
                  \* history: bytes of live objects, the budget after a collection
          wanted, \* the frame a save instruction waits for, or 0
          called, \* the overflow or underflow handler has been called for a frame
          kont,   \* history: the frames to return to, newest first
          failed  \* an assertion that failed
vars == <<heap, wanted, called, kont, failed>>

RoundUpPage(n) == Page * ((n + Page - 1) \div Page)
Total(frames) == FoldLeft(+, 0, frames)
Space(h) == h.w.ss.heap
Lim(h) == Space(h).chunks[Space(h).current].bytes

(* mode_globals_to_ss, mode_ss_to_globals                                  *)
ToSpace(h) == [h EXCEPT !.w.ss.heap.chunks[Space(h).current].top = h.etop]
ToGlobals(h) ==
  [h EXCEPT !.etop = Space(h).chunks[Space(h).current].top, !.stkp = Lim(h)]

FreeCurrentChunk(h) == h.stkp - h.etop - SceBuffer
UsedStack(h) == Lim(h) - h.stkp
UsedSpace(h) == Used(Space(ToSpace(h))) + UsedStack(h) + h.los
FreeSpace(h) == h.target - UsedSpace(h)

(* stk_size_for_top_stack_frame, stk_flush, stk_create, stk_restore_frame  *)
TopFrame(h) == IF h.stack = <<>> THEN Head(h.cont) ELSE Head(h.stack)
TopSize(h) == TopFrame(h) + BaseSize
Flush(h) == [h EXCEPT !.cont = h.stack \o @, !.stack = <<>>, !.stkbot = h.stkp]
Create1(h) == [h EXCEPT !.stkp = @ - BaseSize, !.stkbot = h.stkp - BaseSize]
(* Broken variant: the link is not followed.                               *)
Fits(h) == h.stkp - Head(h.cont) >= h.etop
Unlinked(h) == [h EXCEPT !.stkp = @ - Head(h.cont), !.stack = <<Head(h.cont)>>]
Restore(h) == [h EXCEPT !.stkp = @ - Head(h.cont), !.stack = <<Head(h.cont)>>, !.cont = Tail(@)]
(* stk_clear, for the frames past n in the heap.  Broken variant: the      *)
(* stack pointer is left alone.                                            *)
OnlyEmpties(h, n) == [h EXCEPT !.stack = <<>>, !.cont = SubSeq(@, n + 1, Len(@))]
Cleared(h, n) ==
  [h EXCEPT !.stkp = h.stkbot, !.stack = <<>>, !.cont = SubSeq(@, n + 1, Len(@))]
(* must_create_stack, must_restore_frame                                   *)
CanRestack(h) == h.stkp - SceBuffer >= h.etop /\ Fits(Create1(h))
Restacked(h) == IF CanRestack(h) THEN Restore(Create1(h)) ELSE [h EXCEPT !.ok = FALSE]
Checked(h, cond) == [h EXCEPT !.ok = @ /\ cond]

-----------------------------------------------------------------------------
(* make_space_for.  Broken variant: no room is asked for the top frame.    *)
ForgetsFrame(h, nbytes, extra) == RoundUpPage(Max({Min({ChunkSize, FreeSpace(h)}), nbytes}))
NextChunk(h, nbytes, extra) ==
  RoundUpPage(Max({Min({ChunkSize, FreeSpace(h)}), nbytes + extra}))
Sealed(h) == [h EXCEPT !.w.ss.heap.chunks[Space(h).current].top = Lim(h)]
InNextChunk(h, bytes) == ToGlobals([Sealed(h) EXCEPT !.w = Expand(@, "heap", bytes)])
MakeSpaceFor(h, nbytes, stackOk) ==
  IF FreeCurrentChunk(h) >= nbytes THEN h
  ELSE LET extra == IF stackOk THEN TopSize(h) ELSE 0
           flushed == IF stackOk THEN Flush(h) ELSE h
           next == InNextChunk(flushed, NextChunk(flushed, nbytes, extra))
           end == IF stackOk THEN Restacked(next) ELSE next
       IN  Checked(end, FreeCurrentChunk(end) >= nbytes)

(* gc_compute_dynamic_size of memmgr.c and compute_target_size: the budget *)
(* for D bytes copied and Q bytes of large objects.                        *)
DynamicSize(D, Q) ==
  LET live == D + StaticUsed + Q
      m == LoadFactor * live
      low == IF LowerLimit > 0 THEN Max({m, LowerLimit}) ELSE m
      next == IF LowerLimit > 0 THEN Max({low \div LoadFactor, live}) ELSE live
      high == Min({low, UpperLimit})
      short == live + next - high
      size == IF UpperLimit = 0 THEN low
              ELSE IF short > 0 THEN high + RoundUpPage(short) ELSE high
  IN  IF LowerLimit > 0 /\ UpperLimit = LowerLimit
      THEN RoundUpPage(UpperLimit - UpperLimit \div LoadFactor)
      ELSE RoundUpPage(size - next)
(* Broken variant: there may be no room left.                              *)
NoMinimum(D, Q) == DynamicSize(D, Q)
TargetSize(D, Q) ==
  LET s == DynamicSize(D, Q) IN IF s - D < AllocationRoom THEN s + AllocationRoom ELSE s

(* gclib_stopcopy_collect_and_scan_static: the new semispace, with D bytes *)
(* of live data in it.                                                     *)
CopiedTo(D) ==
  LET first == Create([ss |-> [heap |-> Dead], mem |-> [i \in 1 .. Blocks |-> NoBlock]],
                      "heap", ChunkSize, 1, 0)
      more == Max({0, (D - 1) \div ChunkSize})
      all == FoldLeft(LAMBDA v, i : Expand(v, "heap", ChunkSize), first, [i \in 1 .. more |-> i])
      chunks == all.ss.heap.chunks
      top(i) == IF i <= more THEN ChunkSize ELSE IF i = more + 1 THEN D - more * ChunkSize ELSE 0
  IN  [all EXCEPT !.ss.heap.chunks = [i \in DOMAIN chunks |-> [chunks[i] EXCEPT !.top = top(i)]]]

(* collect: the program's objects take live bytes, its large ones los.     *)
Collect(h, bytes, live, los) ==
  LET request == IF bytes = 0 THEN LargeLimit ELSE bytes
      total == TopSize(h) + (IF request <= LargeLimit THEN request ELSE 0)
      flushed == Flush(h)
      D == live + Total(flushed.cont)
      copied == ToGlobals([flushed EXCEPT !.w = CopiedTo(D), !.los = los, !.live = live,
                                          !.target = TargetSize(D, los)])
      end == Restacked(MakeSpaceFor(copied, total, FALSE))
  IN  [Checked(end, FreeCurrentChunk(end) >= request) EXCEPT !.budget = FreeSpace(end)]
(* collect_if_no_room                                                      *)
NoRoom(h, n) == FreeSpace(h) < n
CollectIfNoRoom(h, n, live, los) ==
  IF NoRoom(h, n) THEN Collect(h, IF n <= LargeLimit THEN n ELSE 0, live, los) ELSE h

(* allocate, make_room                                                     *)
Allocated(h, n) ==
  IF n <= LargeLimit
  THEN LET v == MakeSpaceFor(h, n, TRUE) IN [v EXCEPT !.etop = @ + n, !.live = @ + n]
  ELSE [h EXCEPT !.los = @ + n]
(* stack_overflow, stack_underflow.  Broken variant: the handler is happy  *)
(* when nothing was collected.                                             *)
Overflows(h, live, los) == IF NoRoom(h, 0) THEN Collect(h, 0, live, los) ELSE h
Overflow(h, live, los) ==
  IF NoRoom(h, 0) THEN Collect(h, 0, live, los) ELSE MakeSpaceFor(h, StackRoom, TRUE)
(* creg_get                                                                *)
Captured(h, live, los) ==
  LET room == TopSize(h)
  IN  Restacked(MakeSpaceFor(Flush(CollectIfNoRoom(h, room, live, los)), room, FALSE))

-----------------------------------------------------------------------------
(* What a collection may find alive, when there is one.                    *)
Lives(h, collects) == IF collects THEN {0, h.live} ELSE {h.live}
LargeLives(h, collects) == IF collects THEN {0, h.los} ELSE {h.los}
Becomes(h) == heap' = h /\ failed' = ~h.ok
Bounded(n) == UsedSpace(heap) + n <= MaxUsed
Running == ~failed /\ wanted = 0

Init ==
  /\ LET h == ToGlobals([w |-> CopiedTo(0), etop |-> 0, stkp |-> 0, stkbot |-> 0, stack |-> <<>>,
                         cont |-> <<>>, los |-> 0, live |-> 0, target |-> TargetSize(0, 0), budget |-> TargetSize(0, 0),
                         ok |-> TRUE])
         s == Create1(h)
     IN  heap = [s EXCEPT !.stkp = @ - Min(Frames), !.stack = <<Min(Frames)>>]
  /\ wanted = 0 /\ called = FALSE /\ kont = <<Min(Frames)>> /\ failed = FALSE

(* mc_alloc, and allocate for what does not fit.                           *)
Alloc(n) ==
  /\ Running /\ Bounded(n)
  /\ IF heap.etop + n <= heap.stkp - SceBuffer
     THEN Becomes([heap EXCEPT !.etop = @ + n, !.live = @ + n])
     ELSE \E live \in Lives(heap, NoRoom(heap, n)), los \in LargeLives(heap, NoRoom(heap, n)) :
            Becomes(Allocated(CollectIfNoRoom(heap, n, live, los), n))
  /\ called' = FALSE /\ UNCHANGED <<wanted, kont>>
MakeRoom ==
  /\ Running /\ Bounded(0) /\ FreeCurrentChunk(heap) < MakeRoomSize
  /\ \E live \in Lives(heap, NoRoom(heap, MakeRoomSize)),
        los \in LargeLives(heap, NoRoom(heap, MakeRoomSize)) :
       Becomes(MakeSpaceFor(CollectIfNoRoom(heap, MakeRoomSize, live, los), MakeRoomSize, TRUE))
  /\ called' = FALSE /\ UNCHANGED <<wanted, kont>>
CollectNow ==
  /\ Running
  /\ \E live \in Lives(heap, TRUE), los \in LargeLives(heap, TRUE) :
       Becomes(Collect(heap, 0, live, los) )
  /\ called' = FALSE /\ UNCHANGED <<wanted, kont>>

(* A save instruction, tried again after the handler.                      *)
Save(size) ==
  /\ Running /\ Len(kont) < MaxDepth /\ Bounded(size) /\ wanted' = size
  /\ called' = FALSE /\ UNCHANGED <<heap, kont, failed>>
PushFrame ==
  /\ ~failed /\ wanted > 0 /\ heap.stkp - wanted >= heap.etop
  /\ heap' = [heap EXCEPT !.stkp = @ - wanted, !.stack = <<wanted>> \o @]
  /\ wanted' = 0 /\ called' = FALSE /\ kont' = <<wanted>> \o kont
  /\ UNCHANGED failed
StackOverflow ==
  /\ ~failed /\ wanted > 0 /\ heap.stkp - wanted < heap.etop
  /\ \E live \in Lives(heap, NoRoom(heap, 0)), los \in LargeLives(heap, NoRoom(heap, 0)) :
       Becomes(Overflow(heap, live, los) )
  /\ called' = TRUE /\ UNCHANGED <<wanted, kont>>

(* A return; with the cache empty the underflow handler comes first.       *)
Return ==
  /\ ~failed /\ wanted = 0 /\ heap.stack # <<>> /\ Len(kont) > 1
  /\ heap' = [heap EXCEPT !.stkp = @ + Head(heap.stack), !.stack = Tail(@)]
  /\ kont' = Tail(kont) /\ called' = FALSE /\ UNCHANGED <<wanted, failed>>
StackUnderflow ==
  /\ ~failed /\ wanted = 0 /\ heap.stack = <<>>
  /\ IF Fits(heap) THEN Becomes(Restore(heap))
     ELSE \E live \in Lives(heap, NoRoom(heap, 0)), los \in LargeLives(heap, NoRoom(heap, 0)) :
            Becomes(Overflow(heap, live, los) )
  /\ called' = TRUE /\ UNCHANGED <<wanted, kont>>

(* creg_get, and creg_set with an older part of the same continuation.     *)
CregGet ==
  /\ Running /\ Bounded(0)
  /\ LET collects == NoRoom(heap, TopSize(heap))
     IN  \E live \in Lives(heap, collects), los \in LargeLives(heap, collects) :
           Becomes(Captured(heap, live, los) )
  /\ called' = FALSE /\ UNCHANGED <<wanted, kont>>
CregSet(n) ==
  /\ Running /\ Bounded(0) /\ n < Len(heap.cont)
  /\ LET cut == Cleared(heap, n)
     IN  /\ kont' = cut.cont
         /\ IF Fits(cut) THEN Becomes(Restore(cut)) /\ called' = FALSE
            ELSE /\ \E live \in Lives(cut, NoRoom(cut, 0)), los \in LargeLives(cut, NoRoom(cut, 0)) :
                      Becomes(Overflow(cut, live, los) )
                 /\ called' = TRUE
  /\ UNCHANGED wanted

Next ==
  \/ \E n \in Objects : Alloc(n)
  \/ MakeRoom \/ CollectNow \/ PushFrame \/ StackOverflow \/ Return \/ StackUnderflow \/ CregGet
  \/ \E size \in Frames : Save(size)
  \/ \E n \in 0 .. MaxDepth : CregSet(n)
Spec == Init /\ [][Next]_vars
-----------------------------------------------------------------------------
StopCopyTypeOK ==
  /\ heap.etop \in 0 .. Lim(heap) /\ heap.etop <= heap.stkp /\ heap.stkp <= heap.stkbot
  /\ heap.stkbot <= Lim(heap) - BaseSize
  /\ heap.stkbot - heap.stkp = Total(heap.stack)
  /\ wanted \in {0} \cup Frames /\ called \in BOOLEAN /\ failed \in BOOLEAN

(* The frames are those the program has saved, whatever was flushed,       *)
(* copied and restored in between.                                         *)
FramesKept == heap.stack \o heap.cont = kont

(* The assertions that there is room after make_space_for, collect and     *)
(* must_create_stack, must_restore_frame.                                  *)
NoAssertionFails == ~failed

(* When the stack handlers return, what they were called for can be done:  *)
(* the instruction that trapped is executed again.                         *)
HandlerHelps ==
  called => IF wanted > 0 THEN heap.stkp - wanted >= heap.etop ELSE heap.stack # <<>>

(* "gc_compute_dynamic_size() may return with no room for allocation", so  *)
(* compute_target_size adds some: the next collection is not due at once.  *)
RoomAfterCollection == heap.budget >= LargeLimit

(* What the program saved is kept through stack flushes and collections,   *)
(* none of sc-heap.c's assertions fails, a handler leaves room for what    *)
(* trapped, and a collection leaves room to allocate.                      *)
StopCopySound ==
  /\ StopCopyTypeOK /\ FramesKept /\ NoAssertionFails /\ HandlerHelps
  /\ RoomAfterCollection
===============================================================================
