----------------------------- MODULE DynamicWind ------------------------------
(***************************************************************************)
(* dynamic-wind and call/cc of Lib/Common/control.sch.  The dynamic        *)
(* extents are the nodes of a tree whose edges all point towards *here*;   *)
(* reroot! turns the edges on the way to another node around, one by one,  *)
(* and runs the before or after thunk that stands on each of them.  Every  *)
(* thunk and body is a program that may do all a program can: enter an     *)
(* extent, return, capture a continuation or throw to one.                 *)
(***************************************************************************)
EXTENDS Integers, Sequences, FiniteSets

CONSTANTS Extents, Root, Nil,   \* the cells, that of the top level, '()
          Konts,                \* variables that hold continuations
          MaxDepth              \* nesting of the control stack, a bound

ASSUME WindAssumption ==
  /\ Root \notin Extents /\ Nil \notin Extents \cup {Root}
  /\ MaxDepth \in Nat /\ IsFiniteSet(Extents)

VARIABLES
  here,       \* *here*
  car, next,  \* of each cell: the thunks on its edge, the cell it points to
  whenDone,   \* *enable-interrupts-when-done*
  on,         \* are timer interrupts enabled?
  stack,      \* the control stack, top last
  saved,      \* the continuation in each variable, or Nil
  parent,     \* of each extent: the one it was entered in, Nil before that
  plain,      \* has no thunk that reroot! runs entered an extent of its own?
  entered     \* how often its before thunk has run more than its after thunk

tree == <<here, car, next, parent, entered>>
vars == <<tree, whenDone, on, stack, saved, plain>>

Cells    == Extents \cup {Root}
NoThunks == << >>
Before(n) == <<"before", n>>
After(n)  == <<"after", n>>

(* What runs at each level of the stack: a thunk that dynamic-wind calls   *)
(* to enter cell, a body in cell, reroot! between two thunks, or a thunk   *)
(* called by reroot!.  Back is the cell to return to, todo the cells still *)
(* on the way, ticks is reroot!'s variable.                                *)
Levels == {"before", "body", "reroot", "thunk"}
Level(a, c, b, t, x) == [at |-> a, cell |-> c, back |-> b, todo |-> t, ticks |-> x]
Top  == stack[Len(stack)]
Rest == SubSeq(stack, 1, Len(stack) - 1)
Now(a) == Level(a, Top.cell, Top.back, Top.todo, Top.ticks)
In(a) == stack # << >> /\ Top.at = a

Init ==
  /\ here = Root /\ plain = TRUE
  /\ car = [c \in Cells |-> NoThunks] /\ next = [c \in Cells |-> Nil]
  /\ whenDone = FALSE /\ on = TRUE
  /\ stack = << >> /\ saved = [k \in Konts |-> Nil]
  /\ parent = [n \in Extents |-> Nil] /\ entered = [n \in Extents |-> 0]
-----------------------------------------------------------------------------
(* The cells that f leads to from c on.                                    *)
Chain(f, c) ==
  LET hop[i \in 0 .. Cardinality(Cells)] ==
        IF i = 0 THEN c ELSE IF hop[i - 1] \in DOMAIN f THEN f[hop[i - 1]] ELSE Nil
  IN  hop

(* reroot! up to its loop, to be followed by the levels rest.  The loop    *)
(* first recurs along the edges from there to *here*.                      *)
WayTo(there) ==
  LET hop == Chain(next, there)
      far == CHOOSE i \in DOMAIN hop :
               hop[i] = here /\ \A j \in 0 .. i - 1 : hop[j] # here
  IN  [j \in 1 .. far |-> hop[far - j]]

Reroot(there, rest, ticks) ==
  /\ stack' = Append(rest, Level("reroot", here, there, WayTo(there), ticks))
  /\ on' = FALSE /\ whenDone' = ticks
  /\ UNCHANGED tree

(* One turn of the loop: the edge is turned around, then its thunk runs.   *)
(* Broken variants: the thunks keep their places on the edge, the thunk    *)
(* for the other direction runs.                                           *)
Unswapped(p)  == p
Swapped(p)    == <<p[2], p[1]>>
OtherThunk(p) == p[2]
Thunk(p)      == p[1]
Run(thunk) ==
  entered' = [entered EXCEPT ![thunk[2]] = IF thunk[1] = "before" THEN @ + 1 ELSE @ - 1]

Move ==
  /\ In("reroot") /\ Top.todo # << >>
  /\ LET there == Head(Top.todo)
         pair  == car[there]
     IN  /\ car'  = [car EXCEPT ![here] = Swapped(pair), ![there] = NoThunks]
         /\ next' = [next EXCEPT ![here] = there, ![there] = Nil]
         /\ here' = there
         /\ Run(Thunk(pair))
         /\ stack' = Append(Rest, Level("thunk", there, Top.back, Tail(Top.todo),
                                         Top.ticks))
  /\ UNCHANGED <<whenDone, on, saved, parent, plain>>

ThunkReturns ==
  /\ In("thunk")
  /\ stack' = Append(Rest, Now("reroot"))
  /\ UNCHANGED <<tree, whenDone, on, saved, plain>>

Done ==
  /\ In("reroot") /\ Top.todo = << >>
  /\ whenDone' = FALSE
  /\ on' = (on \/ Top.ticks)
  /\ stack' = Rest
  /\ UNCHANGED <<tree, saved, plain>>
-----------------------------------------------------------------------------
(* dynamic-wind: the cell is made, the before thunk is called, the cell is *)
(* put below *here*, the body is called, and reroot! leaves the extent.    *)
Program == ~In("reroot")
InThunk == \E i \in DOMAIN stack : stack[i].at = "thunk"
Fresh(n) ==
  /\ parent[n] = Nil /\ \A i \in DOMAIN stack : stack[i].cell # n
  /\ \A k \in Konts : saved[k] # Nil =>
       \A i \in DOMAIN saved[k].stack : saved[k].stack[i].cell # n

Wind(n) ==
  /\ Program /\ Len(stack) < MaxDepth /\ plain' = (plain /\ ~InThunk)
  /\ Fresh(n)
  /\ stack' = Append(stack, Level("before", n, here, << >>, FALSE))
  /\ UNCHANGED <<tree, whenDone, on, saved>>

(* Broken variant: the edge of the old *here* is not set.                  *)
BeginUnlinked ==
  /\ In("before")
  /\ car'  = [car EXCEPT ![here] = <<After(Top.cell), Before(Top.cell)>>]
  /\ here' = Top.cell /\ parent' = [parent EXCEPT ![Top.cell] = here]
  /\ Run(Before(Top.cell))
  /\ stack' = Append(Rest, Now("body"))
  /\ UNCHANGED <<next, whenDone, on, saved, plain>>
Begin ==
  /\ In("before")
  /\ LET there == Top.cell IN
       /\ car'  = [car EXCEPT ![here] = <<After(there), Before(there)>>]
       /\ next' = [next EXCEPT ![here] = there]
       /\ here' = there
       /\ parent' = [parent EXCEPT ![there] = here]
       /\ Run(Before(there))
  /\ stack' = Append(Rest, Now("body"))
  /\ UNCHANGED <<whenDone, on, saved, plain>>

(* Broken variant: the body returns without rerooting.                     *)
ExitOnly ==
  In("body") /\ stack' = Rest /\ UNCHANGED <<tree, whenDone, on, saved, plain>>
Exit ==
  /\ In("body")
  /\ Reroot(Top.back, Rest, on)
  /\ UNCHANGED <<saved, plain>>

(* call/cc keeps *here* with the continuation.                             *)
Capture(k) ==
  /\ Program
  /\ saved' = [saved EXCEPT ![k] = [here |-> here, stack |-> stack]]
  /\ UNCHANGED <<tree, whenDone, on, stack, plain>>

(* A rerooting in progress is abandoned: if it disabled interrupts they    *)
(* are first enabled again.                                                *)
(* Broken variant: as it was before ticket #670.                           *)
ThrowKeeps(k) ==
  /\ Program /\ saved[k] # Nil /\ Len(saved[k].stack) < MaxDepth
  /\ Reroot(saved[k].here, saved[k].stack, on)
  /\ UNCHANGED <<saved, plain>>
Throw(k) ==
  /\ Program /\ saved[k] # Nil /\ Len(saved[k].stack) < MaxDepth
  /\ Reroot(saved[k].here, saved[k].stack, on \/ whenDone)
  /\ UNCHANGED <<saved, plain>>

Next ==
  \/ Move \/ ThunkReturns \/ Done \/ Begin \/ Exit
  \/ \E n \in Extents : Wind(n)
  \/ \E k \in Konts : Capture(k) \/ Throw(k)

Spec == Init /\ [][Next]_vars
-----------------------------------------------------------------------------
Stacks == Seq([at : Levels, cell : Cells, back : Cells, todo : Seq(Cells), ticks : BOOLEAN])
TypeOK ==
  /\ here \in Cells /\ {whenDone, on, plain} \subseteq BOOLEAN
  /\ next \in [Cells -> Cells \cup {Nil}] /\ DOMAIN car = Cells
  /\ stack \in Stacks
  /\ saved \in [Konts -> [here : Cells, stack : Stacks] \cup {Nil}]
  /\ parent \in [Extents -> Cells \cup {Nil}] /\ entered \in [Extents -> 0 .. 1]

(* However the program throws about, the edges of the tree stay those that *)
(* dynamic-wind made, all lead to *here*, and bear the thunk that is to    *)
(* run when it is crossed next: after an extent to leave it, before to     *)
(* enter it.                                                               *)
EdgesLeadHere ==
  LET linked == {n \in Extents : parent[n] # Nil} \cup {Root} IN
  \A c \in linked :
    /\ \E i \in 0 .. Cardinality(Cells) : Chain(next, c)[i] = here
    /\ c # here =>
         \/ c # Root /\ next[c] = parent[c] /\ car[c] = <<Before(c), After(c)>>
         \/ /\ next[c] \in Extents /\ parent[next[c]] = c
            /\ car[c] = <<After(next[c]), Before(next[c])>>

(* before and after thunks alternate and nest: those extents are entered,  *)
(* and once, that *here* lies in, also while thunks run and throw.         *)
Around(c) == {Chain(parent, c)[i] : i \in 0 .. Cardinality(Cells)}
EnteredExactly ==
  \A n \in Extents : entered[n] = IF n \in Around(here) THEN 1 ELSE 0

(* Code runs in the extents it stands in: whoever threw or returned, a     *)
(* body runs in its own extent, a thunk in the one outside its own, and    *)
(* the top level in none.                                                  *)
RunsInItsExtent ==
  /\ stack = << >> => here = Root
  /\ In("before") => here = Top.back
  /\ In("body") \/ In("thunk") => here = Top.cell

(* "Any rerooting that was in progress will be abandoned, so restore       *)
(* interrupt status": outside of rerooting, interrupts are enabled.        *)
AbandonedRestores ==
  (\A i \in DOMAIN stack : stack[i].at \in {"before", "body"}) => on

(* The same, as far as it is true: while no thunk that reroot! runs has    *)
(* entered an extent of its own.                                           *)
InterruptsRestored == plain => AbandonedRestores

(* The tree of extents, its thunks and the places code runs in agree at    *)
(* every step of a rerooting, however it is abandoned.                     *)
WindInvariants == TypeOK /\ EdgesLeadHere /\ EnteredExactly /\ RunsInItsExtent
=============================================================================
