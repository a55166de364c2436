------------------------------- MODULE MarkStack -------------------------------
(***************************************************************************)
(* The marker of Rts/Sys/msgc-core.c on a heap that stands still, and its  *)
(* uses: the measure of floating garbage (memmgr_flt.c) marks once from    *)
(* the roots and once from the roots and the remembered sets; the search   *)
(* for a path to an object that should not be there (memmgr_vfy.c) marks   *)
(* until the object is pushed, then looks for the object that held it.     *)
(*                                                                         *)
(* The stacks are lists of segments.  The addresses behind the bitmap are  *)
(* left out: the bitmap is a set of objects.                               *)
(***************************************************************************)
EXTENDS Integers, Sequences, FiniteSets, FiniteSetsExt, SequencesExt

CONSTANTS Objects, Pairs, Vectors, \* the others hold no pointers
          Fix,                     \* any value that is not a pointer
          Contents,                \* the fields each object may have
          RootLists,               \* the lists of roots
          Remembered,              \* what the remembered sets may hold
          Region,                  \* the objects of the region measured
          StackSize,               \* STACKSIZE
          LargeLimit               \* LARGE_OBJECT_LIMIT

MarkStackAssumption ==
  /\ Pairs \cup Vectors \subseteq Objects /\ Pairs \cap Vectors = {} /\ Fix \notin Objects
  /\ Remembered \subseteq SUBSET Objects /\ Region \subseteq Objects
  /\ \A o \in Objects : \A f \in Contents[o] : f \in Seq(Objects \cup {Fix})
  /\ \A o \in Pairs : \A f \in Contents[o] : Len(f) = 2
  /\ StackSize \in Nat \ {0} /\ StackSize % 2 = 0 /\ LargeLimit \in Nat \ {0}

VARIABLES heap, roots, remset, \* the heap: it does not change
          use, target,         \* the use made of the marker; the object looked for
          via,                 \* whether it marks from the remembered sets too
          pc, left,            \* what the marker is doing; roots or entries left
          cx,                  \* the context
          saved,               \* context: marked from the roots alone
          floats,              \* the words counted
          path,                \* the objects on the path printed
          leaked               \* history: segments never freed
vars == <<heap, roots, remset, use, target, via, pc, left, cx, saved, floats, path, leaked>>
world == <<heap, roots, remset, use>>

-----------------------------------------------------------------------------
(* The stacks.  A segment once allocated stays, with what it held.         *)
EmptyStack == [segs |-> << << >> >>, seg |-> 1, sp |-> 0]

(* push_segment, where stkp = stklim; the store that follows.              *)
Room(s) == IF s.sp < StackSize THEN s
           ELSE [s EXCEPT !.segs = IF s.seg < Len(@) THEN @ ELSE Append(@, << >>),
                          !.seg = @ + 1, !.sp = 0]
Store(s, x) == [s EXCEPT !.segs[s.seg] = SubSeq(@, 1, s.sp) \o <<x>> \o SubSeq(@, s.sp + 2, Len(@)),
                         !.sp = @ + 1]
(* Broken variants: the full segment is used again; stklim is not looked   *)
(* at.                                                                     *)
LosesFull(s, x) == Store(IF s.sp < StackSize THEN s ELSE [s EXCEPT !.sp = 0], x)
NoCheck(s, x) == Store(s, x)
Push(s, x) == Store(Room(s), x)

(* pop_segment fails at the oldest segment.                                *)
Drained(s) == s.sp = 0 /\ s.seg = 1
Filled(s) == IF s.sp = 0 THEN [s EXCEPT !.seg = @ - 1, !.sp = StackSize] ELSE s
Top(s) == LET f == Filled(s) IN f.segs[f.seg][f.sp]
Popped(s) == LET f == Filled(s) IN [f EXCEPT !.sp = @ - 1]

StackWords(s) == FlattenSeq(SubSeq(s.segs, 1, s.seg - 1)) \o SubSeq(s.segs[s.seg], 1, s.sp)

-----------------------------------------------------------------------------
(* PUSH: the visitor, the stop condition, the stack.                       *)
StopsHere(c, obj) == use = "path" /\ ~c.stop /\ obj = target
PushObj(c, obj, src, offset) ==
  [c EXCEPT !.visited = IF src = Fix THEN @ ELSE Append(@, <<src, offset>>),
            !.stop = @ \/ StopsHere(c, obj),
            !.src = IF StopsHere(c, obj) THEN src ELSE @,
            !.stack = IF obj \in Objects THEN Push(@, obj) ELSE @]
(* LOS_PUSH: one check for both words                                      *)
LosPush(c, next, obj) == [c EXCEPT !.los = Store(Store(Room(@), next), obj)]

PushFields(c, w, from, to) ==
  FoldLeft(LAMBDA x, i : PushObj(x, heap[w][i], w, i), c, [j \in 1 .. to - from |-> from + j])

(* fill_from_los_stack.  Broken variant: k = LARGE_OBJECT_LIMIT - 1 of a   *)
(* chunk are pushed, and next+k is as before.                              *)
SkipsOne(c) ==
  LET obj == Top(c.los)
      next == Top(Popped(c.los))
      k == Min({Len(heap[obj]) - next, LargeLimit})
      filled == PushFields([c EXCEPT !.los = Popped(Popped(@))], obj, next, next + k - 1)
  IN  IF next + k < Len(heap[obj]) THEN LosPush(filled, next + k, obj) ELSE filled
FillFromLos(c) ==
  LET obj == Top(c.los)
      next == Top(Popped(c.los))
      k == Min({Len(heap[obj]) - next, LargeLimit})
      filled == PushFields([c EXCEPT !.los = Popped(Popped(@))], obj, next, next + k)
  IN  IF next + k < Len(heap[obj]) THEN LosPush(filled, next + k, obj) ELSE filled

(* push_constituents: the car of a pair on top of the cdr                  *)
PushConstituents(c, w) ==
  CASE w \in Pairs -> PushObj(PushObj(c, heap[w][2], w, 2), heap[w][1], w, 1)
    [] w \in Vectors -> IF Len(heap[w]) > LargeLimit THEN LosPush(c, 0, w)
                        ELSE PushFields(c, w, 0, Len(heap[w]))
    [] OTHER -> c
WordsPushed(w) ==
  IF w \in Pairs THEN 2 ELSE IF w \in Vectors THEN Len(heap[w]) + 1 ELSE 0

(* The body of the loop of mark_from_stack.  Broken variant: an object is  *)
(* not asked whether it was marked already.                                *)
CountsAgain(c) ==
  LET w == Top(c.stack)
      popped == [c EXCEPT !.stack = Popped(@), !.traced = @ + 1, !.marked = @ + 1]
  IN  IF w \in c.marks THEN popped
      ELSE PushConstituents([popped EXCEPT !.marks = @ \cup {w}, !.words = @ + WordsPushed(w)], w)
MarkOne(c) ==
  LET w == Top(c.stack)
      popped == [c EXCEPT !.stack = Popped(@), !.traced = @ + 1]
  IN  IF w \in c.marks THEN popped
      ELSE PushConstituents([popped EXCEPT !.marks = @ \cup {w}, !.marked = @ + 1,
                                           !.words = @ + WordsPushed(w)], w)

(* msgc_begin                                                              *)
NewContext ==
  [marks |-> {}, stack |-> EmptyStack, los |-> EmptyStack, traced |-> 0, marked |-> 0,
   words |-> 0, visited |-> << >>, stop |-> FALSE, src |-> Fix]

(* msgc_end: free_stack frees the current segment and the younger ones.    *)
Leaks(c) == (c.stack.seg - 1) + (c.los.seg - 1)

-----------------------------------------------------------------------------
Init ==
  /\ heap \in {h \in [Objects -> UNION {Contents[o] : o \in Objects}] :
                 \A o \in Objects : h[o] \in Contents[o]}
  /\ roots \in RootLists /\ remset \in Remembered
  /\ use \in {"float", "path"}
  /\ target \in IF use = "path" THEN Objects ELSE {Fix}
  /\ via = "roots" /\ pc = "roots" /\ left = roots /\ cx = NewContext
  /\ saved = {} /\ floats = << >> /\ path = << >> /\ leaked = 0

(* push_root.  gc_enumerate_roots goes on after a stop.                    *)
PushRoot ==
  /\ pc = "roots" /\ left # << >>
  /\ cx' = PushObj(cx, Head(left), Fix, 0) /\ left' = Tail(left)
  /\ UNCHANGED <<world, target, via, pc, saved, floats, path, leaked>>
RootsDone ==
  /\ pc = "roots" /\ left = << >> /\ pc' = "marking"
  /\ left' = IF via = "remsets" THEN SetToSeq(remset) ELSE << >>
  /\ UNCHANGED <<world, target, via, cx, saved, floats, path, leaked>>

(* mark_from_stack                                                         *)
Mark ==
  /\ pc = "marking" /\ ~cx.stop /\ ~Drained(cx.stack) /\ cx' = MarkOne(cx)
  /\ UNCHANGED <<world, target, via, pc, left, saved, floats, path, leaked>>
Fill ==
  /\ pc = "marking" /\ ~cx.stop /\ Drained(cx.stack) /\ ~Drained(cx.los)
  /\ cx' = FillFromLos(cx)
  /\ UNCHANGED <<world, target, via, pc, left, saved, floats, path, leaked>>
MarkingDone ==
  /\ pc = "marking" /\ (cx.stop \/ (Drained(cx.stack) /\ Drained(cx.los)))
  /\ pc' = IF left # << >> THEN "remsets" ELSE "marked"
  /\ UNCHANGED <<world, target, via, left, cx, saved, floats, path, leaked>>

(* push_remset_entry                                                       *)
PushRemsetEntry ==
  /\ pc = "remsets" /\ cx' = PushObj(cx, Head(left), Fix, 0)
  /\ left' = Tail(left) /\ pc' = "marking"
  /\ UNCHANGED <<world, target, via, saved, floats, path, leaked>>

Again(v) == pc' = "roots" /\ left' = roots /\ cx' = NewContext /\ via' = v /\ leaked' = leaked + Leaks(cx)
Stop == pc' = "done" /\ leaked' = leaked + Leaks(cx) /\ UNCHANGED <<left, cx, via>>

(* print_float_stats: the second context; visit_measuring_float            *)
Bytes8(w) == IF w \in Pairs THEN 2 ELSE 2 * ((Len(heap[w]) + 2) \div 2)
SumWords(S) == MapThenSumSet(Bytes8, S)
(* Broken variant: what the remembered sets reach is measured on its own.  *)
CountsSecond ==
  [total |-> SumWords(Region), zzflt |-> SumWords({w \in Region : w \notin cx.marks}),
   rsflt |-> SumWords({w \in Region : w \notin saved}), objs |-> 0]
Count ==
  [total |-> SumWords(Region),
   zzflt |-> SumWords({w \in Region : w \notin saved /\ w \notin cx.marks}),
   rsflt |-> SumWords({w \in Region : w \notin saved /\ w \in cx.marks}),
   objs |-> Cardinality({w \in Region : w \notin saved /\ w \in cx.marks})]
Measure ==
  /\ pc = "marked" /\ use = "float"
  /\ IF via = "roots" THEN saved' = cx.marks /\ floats' = floats /\ Again("remsets")
     ELSE Stop /\ floats' = Count /\ saved' = saved
  /\ UNCHANGED <<world, target, path>>

(* print_path_to; check_valid_object calls it for the roots alone first.   *)
(* Broken variant: the object looked for is the one found.                 *)
KeepsLooking == target
NextTarget == cx.src
PrintPath ==
  /\ pc = "marked" /\ use = "path"
  /\ path' = IF cx.stop THEN Append(path, target) ELSE path
  /\ IF cx.stop /\ cx.src \in Objects THEN Again(via) /\ target' = NextTarget
     ELSE IF ~cx.stop /\ path = << >> /\ via = "roots" THEN Again("remsets") /\ target' = target
     ELSE Stop /\ target' = target
  /\ UNCHANGED <<world, saved, floats>>

Ended == pc = "done" /\ UNCHANGED vars
Next ==
  \/ PushRoot \/ RootsDone \/ Mark \/ Fill \/ MarkingDone \/ PushRemsetEntry
  \/ Measure \/ PrintPath \/ Ended
Spec == Init /\ [][Next]_vars
-----------------------------------------------------------------------------
MarkStackTypeOK ==
  /\ cx.marks \subseteq Objects /\ cx.src \in Objects \cup {Fix}
  /\ \A s \in {cx.stack, cx.los} : s.seg \in 1 .. Len(s.segs) /\ s.sp \in 0 .. StackSize
  /\ ToSet(StackWords(cx.stack)) \subseteq Objects
  /\ pc \in {"roots", "marking", "remsets", "marked", "done"}

Fields(o) == ToSet(heap[o]) \cap Objects
Reach(S) ==
  LET from[n \in Nat] == IF n = 0 THEN S
                         ELSE LET so == from[n - 1] IN so \cup UNION {Fields(o) : o \in so}
  IN  from[Cardinality(Objects)]
RootSet == ToSet(roots) \cap Objects
StartSet == IF via = "remsets" THEN RootSet \cup remset ELSE RootSet

(* No marked object points to one the marker will not come to: what it     *)
(* holds is marked, on the stack, or in a part of it not yet pushed that   *)
(* the other stack remembers.  What is on the stacks is never lost where a *)
(* segment ends.                                                           *)
OnLos(o) == LET ws == StackWords(cx.los)
            IN  {i \in 1 .. Len(heap[o]) : \E j \in 1 .. Len(ws) - 1 :
                   j % 2 = 1 /\ ws[j + 1] = o /\ i > ws[j]}
NothingForgotten ==
  \A o \in cx.marks : \A i \in 1 .. Len(heap[o]) :
    heap[o][i] = Fix \/ heap[o][i] \in cx.marks \/ i \in OnLos(o)
      \/ heap[o][i] \in ToSet(StackWords(cx.stack))

(* A marking that was not stopped marked what can be reached and nothing   *)
(* else, counted the objects, words and pointers once each, and showed the *)
(* visitor every field of every object reached, once: the oracles that     *)
(* check the remembered sets and summaries look at each field so.          *)
Edges(S) == {<<o, i>> \in S \X (1 .. Max({Len(heap[o]) : o \in Objects})) : i <= Len(heap[o])}
Holders(S) == {o \in S : o \in Pairs \cup Vectors}
MarkedExactly ==
  (pc = "marked" /\ ~cx.stop) =>
    LET live == Reach(StartSet)
        edges == Edges(Holders(live))
        first == Len(SelectSeq(roots, LAMBDA r : r \in Objects))
                   + (IF via = "remsets" THEN Cardinality(remset) ELSE 0)
    IN  /\ cx.marks = live /\ cx.marked = Cardinality(live)
        /\ cx.words = MapThenSumSet(WordsPushed, live)
        /\ ToSet(cx.visited) = edges /\ Len(cx.visited) = Cardinality(edges)
        /\ cx.traced = first + Cardinality({e \in edges : heap[e[1]][e[2]] \in Objects})

(* The words reported as floating are those of the region's objects that   *)
(* the roots do not reach, split by whether the remembered sets do.        *)
FloatMeasured ==
  floats # << >> =>
    LET dead == Region \ Reach(RootSet)
    IN  /\ floats.rsflt = SumWords(dead \cap Reach(RootSet \cup remset))
        /\ floats.zzflt + floats.rsflt = SumWords(dead)

(* The path printed leads from the object back to a root or to an entry of *)
(* the remembered sets; there is one if the object can be reached.  Each   *)
(* object on it was pushed before the last one, so on a heap with cycles   *)
(* too the search ends.                                                    *)
PathLeadsBack ==
  use = "path" =>
    /\ IsInjective(path)
    /\ \A i \in 1 .. Len(path) - 1 : path[i] \in Fields(path[i + 1])
    /\ pc = "done" => IF path = << >> THEN target \notin Reach(RootSet \cup remset)
                      ELSE Last(path) \in StartSet

(* "Free the context data structure and any resources it uses"             *)
(* (msgc-core.h): it does not when the marking was stopped deep.           *)
ResourcesFreed == leaked = 0

(* However the segments of the mark stack fill up and large objects are    *)
(* taken up again in parts, a marking marks, counts and shows exactly what *)
(* can be reached, and its uses report what it found.                      *)
MarkingExact ==
  /\ MarkStackTypeOK /\ NothingForgotten /\ MarkedExactly /\ FloatMeasured
  /\ PathLeadsBack
===============================================================================
