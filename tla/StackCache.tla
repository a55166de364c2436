------------------------------ MODULE StackCache ------------------------------
(***************************************************************************)
(* The continuation: Rts/Sys/stack.c, its users in the nursery and in the  *)
(* millicode, the frame instructions of petit-instr.h and the call-ins of  *)
(* callback.c.  The newest frames are in the stack cache, at the high end  *)
(* of the nursery; older ones are heap objects chained from G_CONT.  A     *)
(* return address is a machine address in the cache, an offset into the    *)
(* code vector of the frame's procedure in the heap, for a collection may  *)
(* move code vectors.                                                      *)
(***************************************************************************)
EXTENDS Integers, Sequences, FiniteSets, FiniteSetsExt, SequencesExt

CONSTANTS Procs, Points, Sizes, \* a procedure, its return points, sizes of its frames
          Movable,              \* the procedures whose code is not in the static area
          Handler,              \* the procedure in the callout vector
          CalloutSize, UnderflowSize, SceBuffer, NurserySize,
          MaxDepth              \* bound: frames of a continuation
NoProc == "no procedure"
StackCacheAssumption ==
  /\ Movable \subseteq Procs /\ Handler \in Procs /\ NoProc \notin Procs
  /\ Sizes \subseteq Nat \ {0} /\ Points \subseteq Nat \ {0} /\ MaxDepth \in Nat
  /\ {CalloutSize, UnderflowSize} \subseteq Nat \ {0} /\ {SceBuffer, NurserySize} \subseteq Nat
  (* what nursery.c:298-300 takes for granted: two frames fit             *)
  /\ \A s \in Sizes \cup {CalloutSize} : SceBuffer + 2 * (UnderflowSize + s) <= NurserySize

VARIABLES cache,    \* G_ETOP, G_STKP, G_STKBOT, the frames between the last two,
                    \* G_CONT, and where the code vectors are
          wanted,   \* the frame a save instruction is waiting to push
          control,  \* REG0 and the point in its code
          captured, \* the value of a call of creg_get
          kont, capturedKont  \* history: what is to be returned to, newest first
vars == <<cache, wanted, control, captured, kont, capturedKont>>

None == [size |-> 0, point |-> 0]
Lost == <<NoProc, 0>>
Controls == Procs \X (Points \cup {0})
Frame(size, proc, ret, saved) == [size |-> size, proc |-> proc, ret |-> ret, saved |-> saved]
Bottom == Frame(CalloutSize, NoProc, 0, <<NoProc, 0>>)

-----------------------------------------------------------------------------
(* Return addresses: code of p is at place[p].                             *)
Address(place, p, point) == <<place[p], point>>
(* stk_flush.  Broken variant: the frames are chained the other way round. *)
OffsetIn(place, f) ==
  IF f.proc = NoProc THEN f ELSE [f EXCEPT !.ret = f.ret[2]]
FlushBackwards(s) ==
  [s EXCEPT !.cont = [i \in DOMAIN s.stack |-> OffsetIn(s.place, Reverse(s.stack)[i])] \o s.cont,
            !.stack = <<>>, !.stkbot = s.stkp]
Flush(s) ==
  [s EXCEPT !.cont = [i \in DOMAIN s.stack |-> OffsetIn(s.place, s.stack[i])] \o s.cont,
            !.stack = <<>>, !.stkbot = s.stkp]
(* stk_create                                                              *)
Create(s) == [s EXCEPT !.stkp = @ - UnderflowSize, !.stkbot = s.stkp - UnderflowSize]
(* stk_clear                                                               *)
Clear(s) == [s EXCEPT !.stkp = s.stkbot, !.stack = <<>>]
(* stk_restore_frame.  Broken variant: code is where it was loaded.        *)
AddressAsLoaded(place, f) ==
  IF f.proc = NoProc THEN f ELSE [f EXCEPT !.ret = <<0, f.ret>>]
AddressIn(place, f) ==
  IF f.proc = NoProc THEN f ELSE [f EXCEPT !.ret = Address(place, f.proc, f.ret)]
Fits(s) == s.stkp - Head(s.cont).size >= s.etop
Restore(s) ==
  [s EXCEPT !.stkp = @ - Head(s.cont).size, !.stack = <<AddressIn(s.place, Head(s.cont))>>,
            !.cont = Tail(s.cont)]
(* stk_size_for_top_stack_frame                                            *)
TopSize(s) ==
  UnderflowSize + (IF s.stack = <<>> THEN Head(s.cont).size ELSE Head(s.stack).size)

(* A collection, which empties the nursery and moves some code vectors.    *)
(* Broken variant: the frames stay in the cache.                           *)
Moved(s, moved) == [p \in Procs |-> IF p \in moved THEN 1 - s.place[p] ELSE s.place[p]]
CollectInPlace(s, moved) ==
  IF s.stack = <<>>
  THEN Restore(Create([s EXCEPT !.etop = 0, !.stkp = NurserySize, !.place = Moved(s, moved)]))
  ELSE [s EXCEPT !.etop = 0, !.place = Moved(s, moved)]
Collect(s, moved) ==
  Restore(Create([Flush(s) EXCEPT !.etop = 0, !.stkp = NurserySize, !.place = Moved(s, moved)]))
FreeSpace(s) == s.stkp - SceBuffer - s.etop
(* the code vectors that a collection moves, when there is one             *)
Moves(collects) == IF collects THEN SUBSET Movable ELSE {{}}
RefillCollects(s) == IF s.stack = <<>> THEN ~Fits(s) ELSE FALSE
(* collect_if_no_room *)
WithRoom(s, room, moved) == IF FreeSpace(s) < room THEN Collect(s, moved) ELSE s
(* stack_underflow: stack_overflow, "[sic]", when the frame does not fit   *)
Refilled(s, moved) == IF Fits(s) THEN Restore(s) ELSE Collect(s, moved)
Push(s, f) == [s EXCEPT !.stkp = @ - f.size, !.stack = <<f>> \o @]
Pop(s) == [s EXCEPT !.stkp = @ + Head(s.stack).size, !.stack = Tail(@)]

-----------------------------------------------------------------------------
(* twobit_save asks for a frame and collects until there is room for it;   *)
(* setrtn puts the return address in.                                      *)
Save(size, point) ==
  /\ wanted = None /\ control[1] \in Procs /\ Len(kont) < MaxDepth
  /\ wanted' = [size |-> size, point |-> point]
  /\ UNCHANGED <<cache, control, captured, kont, capturedKont>>
PushFrame ==
  /\ wanted # None /\ cache.stkp - wanted.size >= cache.etop
  /\ cache' = Push(cache, Frame(wanted.size, control[1],
                                Address(cache.place, control[1], wanted.point), Lost))
  /\ wanted' = None
  /\ kont' = <<<<control[1], wanted.point>>>> \o kont
  /\ UNCHANGED <<control, captured, capturedKont>>
StackOverflow ==
  /\ wanted # None /\ cache.stkp - wanted.size < cache.etop
  /\ \E moved \in SUBSET Movable : cache' = Collect(cache, moved)
  /\ UNCHANGED <<wanted, control, captured, kont, capturedKont>>
Invoke(p) ==
  /\ wanted = None /\ control' = <<p, 0>>
  /\ UNCHANGED <<cache, wanted, captured, kont, capturedKont>>
(* Where a frame of the cache returns to.                                  *)
Target(place, f) ==
  IF f.proc = NoProc THEN f.saved
  ELSE IF f.ret[1] = place[f.proc] THEN <<f.proc, f.ret[2]>> ELSE Lost
(* twobit_return, and the pop at the return point; the underflow handler   *)
(* refills an empty cache first.                                           *)
Return ==
  /\ wanted = None /\ Len(kont) > 1
  /\ \E moved \in Moves(RefillCollects(cache)) :
       LET s == IF cache.stack = <<>> THEN Refilled(cache, moved) ELSE cache
       IN  /\ Head(s.stack).proc # NoProc
           /\ control' = Target(s.place, Head(s.stack))
           /\ cache' = Pop(s)
  /\ kont' = Tail(kont)
  /\ UNCHANGED <<wanted, captured, capturedKont>>
(* mc_scheme_callout: every register is saved in a frame of its own, the   *)
(* handler's procedure is entered.                                         *)
Callout ==
  /\ wanted = None /\ control[1] \in Procs /\ Len(kont) < MaxDepth
  /\ LET full == cache.stkp - CalloutSize < cache.etop + SceBuffer
     IN  \E moved \in Moves(full) :
           cache' = Push(IF full THEN Collect(cache, moved) ELSE cache,
                         Frame(CalloutSize, NoProc, 0, control))
  /\ control' = <<Handler, 0>> /\ kont' = <<control>> \o kont
  /\ UNCHANGED <<wanted, captured, capturedKont>>
(* larceny_call, which a foreign procedure calls; without room it fails.   *)
Callback(p) ==
  /\ wanted = None /\ control[1] \in Procs /\ Len(kont) < MaxDepth
  /\ FreeSpace(cache) >= CalloutSize
  /\ cache' = Push(cache, Frame(CalloutSize, NoProc, 1, control))
  /\ control' = <<p, 0>> /\ kont' = <<control>> \o kont
  /\ UNCHANGED <<wanted, captured, capturedKont>>
(* return_from_scheme and restore_context (the cache is refilled at once   *)
(* when it is empty); dispatch_loop_return and the end of larceny_call.    *)
RestoreContext ==
  /\ wanted = None /\ Len(kont) > 1
  /\ \E first \in Moves(RefillCollects(cache)) :
     LET s == IF cache.stack = <<>> THEN Refilled(cache, first) ELSE cache
         t == Pop(s)
     IN  \E moved \in Moves(RefillCollects(t)) :
           /\ Head(s.stack).proc = NoProc
           /\ control' = Head(s.stack).saved
           /\ cache' = IF Head(s.stack).ret = 0 /\ t.stack = <<>> THEN Refilled(t, moved) ELSE t
  /\ kont' = Tail(kont)
  /\ UNCHANGED <<wanted, captured, capturedKont>>
(* Allocation by compiled code and by mc_alloc.                            *)
Alloc(n) ==
  /\ wanted = None /\ n <= NurserySize - UnderflowSize - SceBuffer - CalloutSize
  /\ \E moved \in Moves(FreeSpace(cache) < n) :
       LET s == WithRoom(cache, n, moved) IN cache' = [s EXCEPT !.etop = @ + n]
  /\ UNCHANGED <<wanted, control, captured, kont, capturedKont>>
(* creg_get                                                                *)
RoomMade(s, moved) == WithRoom(s, TopSize(s), moved)
Capture ==
  /\ wanted = None
  /\ \E moved \in Moves(FreeSpace(cache) < TopSize(cache)) :
       LET s == Flush(RoomMade(cache, moved))
       IN  captured' = s.cont /\ cache' = Restore(Create(s))
  /\ capturedKont' = kont
  /\ UNCHANGED <<wanted, control, kont>>
(* creg_set.  Broken variant: the frames of the cache stay.                *)
NotCleared(s) == s
Cleared(s) == Clear(s)
Reinstate ==
  /\ wanted = None /\ captured # <<>>
  /\ LET s == [Cleared(cache) EXCEPT !.cont = captured]
     IN  \E moved \in Moves(~Fits(s)) : cache' = Refilled(s, moved)
  /\ kont' = capturedKont
  /\ UNCHANGED <<wanted, control, captured, capturedKont>>

Init ==
  /\ \E p \in Procs : control = <<p, 0>>
  /\ cache = Push(Create([etop |-> 0, stkp |-> NurserySize, stkbot |-> NurserySize,
                          stack |-> <<>>, cont |-> <<>>, place |-> [p \in Procs |-> 0]]), Bottom)
  /\ wanted = None /\ captured = <<>>
  /\ kont = <<Bottom.saved>> /\ capturedKont = <<>>
Next ==
  \/ \E size \in Sizes, point \in Points : Save(size, point)
  \/ PushFrame \/ StackOverflow
  \/ \E p \in Procs : Invoke(p) \/ Callback(p)
  \/ Callout \/ Return \/ RestoreContext \/ Capture \/ Reinstate
  \/ \E n \in Sizes : Alloc(n)
Spec == Init /\ [][Next]_vars
(* Compiled code repeats the test of save until it has its frame.          *)
FairSpec == Spec /\ WF_vars(PushFrame \/ StackOverflow)

-----------------------------------------------------------------------------
(* The fields of the cache, the frame wanted and the control.              *)
CacheTypeOK ==
  /\ cache.etop \in 0 .. NurserySize /\ cache.stkp \in 0 .. NurserySize
  /\ cache.place \in [Procs -> {0, 1}]
  /\ wanted \in {None} \cup [size : Sizes, point : Points]
  /\ control \in Controls
(* The frames of the cache fill the space between its top and its bottom,  *)
(* and never reach down into what the program has allocated, whoever       *)
(* pushes or restores them.                                                *)
Words(frames) ==
  LET sum[n \in 0 .. Len(frames)] == IF n = 0 THEN 0 ELSE sum[n - 1] + frames[n].size
  IN  sum[Len(frames)]
FramesLaidOut ==
  /\ cache.etop <= cache.stkp /\ cache.stkbot <= NurserySize
  /\ cache.stkp + Words(cache.stack) = cache.stkbot
(* creg_get finds the room that it asserts after a collection (nursery.c   *)
(* 318-322), so the top frame can be restored above its flushed self.      *)
CaptureHasRoom ==
  wanted = None =>
    \A moved \in Moves(FreeSpace(cache) < TopSize(cache)) :
      FreeSpace(RoomMade(cache, moved)) >= TopSize(cache)
(* However frames are flushed, restored, captured, reinstated and moved by *)
(* collections, the cache and the chain in the heap are the continuation   *)
(* the program built, and so is a captured one (stack.c 124-252).          *)
HeapTarget(f) == IF f.proc = NoProc THEN f.saved ELSE <<f.proc, f.ret>>
ContinuationKept ==
  /\ [i \in DOMAIN cache.stack |-> Target(cache.place, cache.stack[i])]
       \o [i \in DOMAIN cache.cont |-> HeapTarget(cache.cont[i])] = kont
  /\ [i \in DOMAIN captured |-> HeapTarget(captured[i])] = capturedKont
(* A procedure that asks for a frame gets it (nursery.c 298-300 says that  *)
(* it would loop forever if the frame were larger than the nursery).       *)
SaveFinishes == wanted # None ~> wanted = None

(* Whatever is flushed, restored, captured, reinstated and moved, the      *)
(* frames of the cache are laid out in its space and, with those in the    *)
(* heap, are the continuation that the program built.                      *)
StackSound == CacheTypeOK /\ FramesLaidOut /\ CaptureHasRoom /\ ContinuationKept
===============================================================================
