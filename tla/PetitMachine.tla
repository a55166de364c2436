------------------------------ MODULE PetitMachine ------------------------------
(***************************************************************************)
(* The register machine of compiled code over a collector that moves       *)
(* objects: the macros of include/Standard-C/petit-instr.h for calls,      *)
(* arguments, closures, frames and inlined allocation, and the millicode   *)
(* that applies a procedure to a list and conses up rest arguments.        *)
(* Arguments beyond the last register are passed in a list in it.  Any     *)
(* allocation may collect; then what is not in a root is out of date.      *)
(***************************************************************************)
EXTENDS Integers, Sequences, FiniteSets

CONSTANTS LASTREG, Objects,               \* the registers 0 .. LASTREG, the space for objects
          MaxArgs, MaxSteps, MaxFrames    \* bounds on the program
PetitMachineAssumption == {LASTREG, MaxArgs, MaxSteps, MaxFrames} \subseteq Nat /\ LASTREG > 2

VARIABLES m,     \* RESULT, SECOND, THIRD, the registers, the stack, a global; the objects
          pc, steps,
          args,  \* history: the arguments of the call that is being executed, and of its callers
          val    \* history: the values in RESULT, the registers and the frames
vars == <<m, pc, steps, args, val>>

(* Words: immediates, and pointers that carry the number of the collection *)
(* they are good for.                                                      *)
Imm(n) == <<"imm", n>>
Ptr(o, epoch) == <<"ptr", o, epoch>>
NIL_CONST == Imm(-1)
FALSE_CONST == Imm(-2)
UNSPECIFIED_CONST == Imm(-3)
IsPtr(w) == w[1] = "ptr"
NoObject == [kind |-> "none", f |-> <<>>]
Obj(s, w) == s.obj[w[2]]
Current(s, w) == IsPtr(w) => w[3] = s.epoch

-----------------------------------------------------------------------------
(* A collection: every root and every field of what is reached is          *)
(* forwarded; what C code holds elsewhere is not.                          *)
Roots(s) == {s.result, s.second, s.third, s.global} \cup {s.reg[k] : k \in 0 .. LASTREG}
            \cup UNION {{fr[i] : i \in DOMAIN fr} : fr \in {s.stack[i] : i \in DOMAIN s.stack}}
Targets(s, words) == {w[2] : w \in {v \in words : IsPtr(v) /\ v[3] = s.epoch}}
Fields(o) == {o.f[i] : i \in DOMAIN o.f}
Reached(s) ==
  LET step[n \in 0 .. Objects] ==
        IF n = 0 THEN Targets(s, Roots(s))
        ELSE LET nearer == step[n - 1] IN nearer \cup Targets(s, UNION {Fields(s.obj[o]) : o \in nearer})
  IN  step[Objects]
Collected(s) ==
  LET live == Reached(s)
      fwd(w) == IF IsPtr(w) /\ w[3] = s.epoch THEN Ptr(w[2], 1 - s.epoch) ELSE w
      all(f) == [i \in DOMAIN f |-> fwd(f[i])]
  IN  [s EXCEPT !.epoch = 1 - @, !.result = fwd(@), !.second = fwd(@), !.third = fwd(@), !.global = fwd(@),
                !.reg = all(@), !.stack = [i \in DOMAIN @ |-> all(@[i])],
                !.obj = [o \in DOMAIN @ |-> IF o \in live THEN [@[o] EXCEPT !.f = all(@)] ELSE NoObject]]
Unused(s) == {o \in 1 .. Objects : s.obj[o].kind = "none"}

(* mc_alloc for n objects: their addresses; gc: the allocation collects.   *)
Room(s, n) == Cardinality(Unused(s)) >= n
Allocate(s, n, gc) == IF gc \/ ~Room(s, n) THEN Collected([s EXCEPT !.result = Imm(n)]) ELSE [s EXCEPT !.result = Imm(n)]
NthUnused(s, i) == CHOOSE o \in Unused(s) : Cardinality({x \in Unused(s) : x <= o}) = i
Made(s, kind, f) ==
  LET o == NthUnused(s, 1) IN [s EXCEPT !.obj[o] = [kind |-> kind, f |-> f], !.result = Ptr(o, s.epoch)]
(* A list of words in consecutive pairs, and its head.                     *)
RECURSIVE Listed(_, _)
Listed(s, words) ==
  IF words = <<>> THEN [s |-> s, list |-> NIL_CONST]
  ELSE LET rest == Listed(s, Tail(words))
           o == NthUnused(rest.s, 1)
       IN  [s |-> [rest.s EXCEPT !.obj[o] = [kind |-> "pair", f |-> <<Head(words), rest.list>>]],
            list |-> Ptr(o, s.epoch)]
RECURSIVE Elements(_, _)
Elements(s, w) == IF w = NIL_CONST THEN <<>> ELSE <<Obj(s, w).f[1]>> \o Elements(s, Obj(s, w).f[2])

-----------------------------------------------------------------------------
(* mc_apply: the list in SECOND goes to the registers, its end to the last.*)
(* Broken variant: the last register is filled like the others.            *)
FillsLast(s) ==
  LET words == Elements(s, s.second)
  IN  [s EXCEPT !.reg = [k \in 0 .. LASTREG |-> IF k = 0 THEN s.result ELSE IF k <= Len(words) THEN words[k] ELSE s.reg[k]],
                !.result = s.third]
Apply(s) ==
  LET words == Elements(s, s.second)
      rest[i \in 0 .. LASTREG - 1] ==
        IF i = 0 THEN s.second
        ELSE LET before == rest[i - 1] IN IF before = NIL_CONST THEN NIL_CONST ELSE Obj(s, before).f[2]
  IN  [s EXCEPT !.reg = [k \in 0 .. LASTREG |->
                           IF k = 0 THEN s.result ELSE IF k = LASTREG THEN rest[LASTREG - 1]
                           ELSE IF k <= Len(words) THEN words[k] ELSE s.reg[k]],
                !.result = s.third]

(* mc_restargs: the arguments from n + 1 to j become a list.  Broken       *)
(* variants: the registers are read before the allocation; a list of       *)
(* passed arguments is left out.                                           *)
Least(a, b) == IF a < b THEN a ELSE b
RestWords(s, n, j) ==
  [i \in 1 .. Least(j, LASTREG - 1) - n |-> s.reg[n + i]]
    \o (IF j >= LASTREG THEN Elements(s, s.reg[LASTREG]) ELSE <<>>)
ReadsEarly(s, n, j, gc) ==
  IF j = n THEN [s EXCEPT !.reg[n + 1] = NIL_CONST]
  ELSE LET a == [Allocate(s, j - n, gc) EXCEPT !.result = FALSE_CONST]
           made == Listed(a, RestWords(s, n, j))
       IN  [made.s EXCEPT !.reg[n + 1] = made.list]
RegistersOnly(s, n, j, gc) ==
  IF j = n THEN [s EXCEPT !.reg[n + 1] = NIL_CONST]
  ELSE LET a == [Allocate(s, j - n, gc) EXCEPT !.result = FALSE_CONST]
           made == Listed(a, [i \in 1 .. Least(j, LASTREG) - n |-> a.reg[n + i]])
       IN  [made.s EXCEPT !.reg[n + 1] = made.list]
RestArgs(s, n, j, gc) ==
  IF j = n THEN [s EXCEPT !.reg[n + 1] = NIL_CONST]
  ELSE LET a == [Allocate(s, j - n, gc) EXCEPT !.result = FALSE_CONST]
           made == Listed(a, RestWords(a, n, j))
       IN  [made.s EXCEPT !.reg[n + 1] = made.list]

(* init_closure for registers 0 .. regs: those past the last one are in    *)
(* its list.  twobit_lambda and twobit_lexes: the code is new, or that of  *)
(* the closure that runs.  Broken variant: the list is captured whole.     *)
Captures(s, regs) == [k \in 1 .. regs + 1 |-> IF k - 1 <= LASTREG THEN s.reg[k - 1] ELSE NIL_CONST]
Captured(s, regs) ==
  [k \in 1 .. regs + 1 |-> IF k - 1 < LASTREG THEN s.reg[k - 1] ELSE Elements(s, s.reg[LASTREG])[k - LASTREG]]
Lambda(s, regs, gc) == LET a == Allocate(s, 1, gc) IN Made(a, "proc", <<Imm(regs)>> \o Captured(a, regs))
Lexes(s, regs, gc) ==
  LET a == Allocate(s, 1, gc) IN Made(a, "proc", <<Obj(a, a.reg[0]).f[1]>> \o Captured(a, regs))

(* twobit_lexical, twobit_jump: up through the closures in slot 0.         *)
Slot(n) == n + 2
Outer(s, levels) ==
  LET up[i \in 0 .. levels] == IF i = 0 THEN s.reg[0] ELSE Obj(s, up[i - 1]).f[Slot(0)] IN up[levels]

(* cons, make-vector, make-vector:n, sys$partial-list->vector.  Broken     *)
(* variant: the operand is kept in a C variable.                           *)
KeepsOperand(s, k, gc) == LET a == Allocate([s EXCEPT !.third = s.result], 1, gc) IN Made(a, "pair", <<s.result, a.reg[k]>>)
Cons(s, k, gc) == LET a == Allocate([s EXCEPT !.third = s.result], 1, gc) IN Made(a, "pair", <<a.third, a.reg[k]>>)
MakeVector(s, n, k, gc) ==
  LET a == Allocate([s EXCEPT !.second = s.reg[k]], 1, gc) IN Made(a, "vector", [i \in 1 .. n |-> a.second])
MakeKnownVector(s, n, k, gc) ==
  LET a == Allocate(s, 1, gc) IN Made([a EXCEPT !.second = a.reg[k]], "vector", [i \in 1 .. n |-> a.reg[k]])
ListToVector(s, n, gc) ==
  LET a == Allocate([s EXCEPT !.third = s.result, !.second = Imm(n)], 1, gc)
  IN  Made(a, "vector", SubSeq(Elements(a, a.third), 1, n))

-----------------------------------------------------------------------------
(* Values, as the program sees them: what a word means.                    *)
RECURSIVE Meaning(_, _)
Meaning(s, w) ==
  IF ~IsPtr(w) THEN w ELSE IF ~Current(s, w) THEN <<"stale">>
  ELSE <<Obj(s, w).kind, [i \in DOMAIN Obj(s, w).f |-> Meaning(s, Obj(s, w).f[i])]>>
Meanings(s) ==
  [result |-> Meaning(s, s.result), reg |-> [k \in 0 .. LASTREG |-> Meaning(s, s.reg[k])],
   stack |-> [i \in DOMAIN s.stack |-> [k \in DOMAIN s.stack[i] |-> Meaning(s, s.stack[i][k])]]]
RECURSIVE ListOf(_)
ListOf(vals) == IF vals = <<>> THEN NIL_CONST ELSE <<"pair", <<Head(vals), ListOf(Tail(vals))>>>>
RECURSIVE ValuesOf(_)
ValuesOf(list) == IF list = NIL_CONST THEN <<>> ELSE <<list[2][1]>> \o ValuesOf(list[2][2])
RECURSIVE IsList(_)
IsList(v) == v = NIL_CONST \/ (v[1] = "pair" /\ IsList(v[2][2]))
Procedure(code, vals) == <<"proc", <<code>> \o vals>>
(* The registers 0 .. n as a procedure with many parameters sees them.     *)
Environment(n) ==
  [k \in 1 .. n + 1 |-> IF k - 1 < LASTREG THEN val.reg[k - 1] ELSE ValuesOf(val.reg[LASTREG])[k - LASTREG]]
Depth(v) == IF v[2][Slot(0)][1] = "proc" THEN 1 ELSE 0

-----------------------------------------------------------------------------
Main == 1
Init ==
  /\ m = [result |-> UNSPECIFIED_CONST, second |-> UNSPECIFIED_CONST, third |-> UNSPECIFIED_CONST,
          global |-> Ptr(Main, 0), reg |-> [k \in 0 .. LASTREG |-> IF k = 0 THEN Ptr(Main, 0) ELSE UNSPECIFIED_CONST],
          stack |-> <<>>, epoch |-> 0,
          obj |-> [o \in 1 .. Objects |-> IF o = Main THEN [kind |-> "proc", f |-> <<Imm(0), Imm(0)>>] ELSE NoObject]]
  /\ pc = "body" /\ steps = 0 /\ args = <<>> /\ val = Meanings(m)

(* The program ends; another one begins, after a collection.               *)
Ends ==
  /\ m' = Collected([m EXCEPT !.stack = <<>>,
                              !.reg = [k \in 0 .. LASTREG |-> IF k = 0 THEN m.global ELSE UNSPECIFIED_CONST],
                              !.result = UNSPECIFIED_CONST, !.second = UNSPECIFIED_CONST, !.third = UNSPECIFIED_CONST])
  /\ pc' = "body" /\ steps' = 0 /\ args' = <<>> /\ val' = Meanings(m')

MayStep == pc = "body" /\ steps < MaxSteps
Enough(n) == Cardinality(Reached(m)) + n <= Objects
Does(s, v) == m' = s /\ val' = v /\ steps' = steps + 1 /\ UNCHANGED <<pc, args>>

(* A call of the procedure in RESULT, or of the global one, with j         *)
(* arguments: by invoke, the compiled code having set the registers, or by *)
(* apply.  The caller has saved its registers.                             *)
Actuals(j) == [i \in 1 .. j |-> Imm(10 * (Len(m.stack) + 1) + i)]
Callee(s) == IF IsPtr(s.result) /\ Obj(s, s.result).kind = "proc" THEN s.result ELSE s.global
ToCall(j, gc) ==
  LET a == Allocate([m EXCEPT !.reg[0] = Callee(m)], j, gc)
  IN  [a EXCEPT !.result = a.reg[0]]
Entered(s, j) ==
  /\ m' = s /\ pc' = "entered" /\ args' = <<Actuals(j)>> \o args /\ UNCHANGED steps
  /\ val' = Meanings(s)
Invoke(j, gc) ==
  LET a == ToCall(j, gc)
      tail == Listed(a, IF j >= LASTREG THEN SubSeq(Actuals(j), LASTREG, j) ELSE <<>>)
      s == tail.s
  IN  /\ MayStep /\ Len(args) = Len(m.stack) /\ Enough(j)
      /\ Entered([s EXCEPT !.reg = [k \in 0 .. LASTREG |->
                                      IF k = 0 THEN s.result
                                      ELSE IF k = LASTREG /\ j >= LASTREG THEN tail.list
                                      ELSE IF k <= j THEN Actuals(j)[k] ELSE s.reg[k]],
                           !.result = Imm(j)], j)
ApplyList(j, gc) ==
  LET a == ToCall(j, gc)
      list == Listed(a, Actuals(j))
  IN  /\ MayStep /\ Len(args) = Len(m.stack) /\ Enough(j)
      /\ Entered(Apply([list.s EXCEPT !.second = list.list, !.third = Imm(j)]), j)

(* twobit_argseq, twobit_argsge; the exception ends the program.           *)
Checks(s, n) == [s EXCEPT !.second = Imm(n), !.third = s.reg[0]]
ArgsEq(n) ==
  /\ pc = "entered"
  /\ IF m.result # Imm(n) THEN Ends
     ELSE m' = Checks(m, n) /\ pc' = "body" /\ UNCHANGED <<args, steps, val>>
ArgsGe(n, gc) ==
  /\ pc = "entered" /\ Enough(MaxArgs)
  /\ IF m.result[2] < n THEN Ends
     ELSE LET j == m.result[2] s == RestArgs(Checks(m, n), n, j, gc)
          IN  /\ m' = s /\ pc' = "body" /\ UNCHANGED <<args, steps>>
              /\ val' = [val EXCEPT !.reg[n + 1] = ListOf(SubSeq(args[1], n + 1, j)),
                                    !.result = IF j > n THEN FALSE_CONST ELSE @]

(* What runs in the body of a procedure.                                   *)
CanCapture(n) == n < LASTREG \/ (IsList(val.reg[LASTREG]) /\ n - LASTREG < Len(ValuesOf(val.reg[LASTREG])))
DoLambda(n, gc) ==
  /\ MayStep /\ Enough(1) /\ CanCapture(n)
  /\ Does(Lambda(m, n, gc), [val EXCEPT !.result = Procedure(Imm(n), Environment(n))])
DoLexes(n, gc) ==
  /\ MayStep /\ Enough(1) /\ CanCapture(n)
  /\ Does(Lexes(m, n, gc), [val EXCEPT !.result = Procedure(val.reg[0][2][1], Environment(n))])
Lexical(levels, n) ==
  /\ MayStep /\ levels <= Depth(val.reg[0]) /\ Slot(n) \in DOMAIN Obj(m, Outer(m, levels)).f
  /\ LET closure == IF levels = 0 THEN val.reg[0] ELSE val.reg[0][2][Slot(0)]
     IN  Does([m EXCEPT !.result = Obj(m, Outer(m, levels)).f[Slot(n)]], [val EXCEPT !.result = closure[2][Slot(n)]])
DoCons(k, gc) ==
  /\ MayStep /\ Enough(1)
  /\ Does(Cons(m, k, gc), [val EXCEPT !.result = <<"pair", <<val.result, val.reg[k]>>>>])
DoMakeVector(n, k, gc) ==
  /\ MayStep /\ Enough(1)
  /\ \E v \in {MakeVector(m, n, k, gc), MakeKnownVector(m, n, k, gc)} :
       Does(v, [val EXCEPT !.result = <<"vector", [i \in 1 .. n |-> val.reg[k]]>>])
DoListToVector(gc) ==
  /\ MayStep /\ Enough(1) /\ IsList(val.result)
  /\ LET vals == ValuesOf(val.result)
     IN  Does(ListToVector(m, Len(vals), gc), [val EXCEPT !.result = <<"vector", vals>>])
Reg(k) == MayStep /\ Does([m EXCEPT !.result = m.reg[k]], [val EXCEPT !.result = val.reg[k]])
SetReg(k) == MayStep /\ Does([m EXCEPT !.reg[k] = m.result], [val EXCEPT !.reg[k] = val.result])

(* twobit_jump, to the code of an enclosing procedure.                     *)
Jump(levels) ==
  /\ MayStep /\ levels <= Depth(val.reg[0])
  /\ Does([m EXCEPT !.reg[0] = Outer(m, levels)], [val EXCEPT !.reg[0] = IF levels = 0 THEN @ ELSE @[2][Slot(0)]])

(* twobit_save with a store of each register, then setrtn; twobit_return,  *)
(* twobit_restore and twobit_pop.                                          *)
Save ==
  /\ MayStep /\ Len(m.stack) < MaxFrames /\ Len(args) = Len(m.stack) + 1
  /\ Does([m EXCEPT !.stack = <<m.reg>> \o @], [val EXCEPT !.stack = <<val.reg>> \o @])
Return ==
  /\ pc = "body" /\ m.stack # <<>> /\ Len(args) = Len(m.stack) + 1
  /\ m' = [m EXCEPT !.reg = m.stack[1], !.stack = Tail(@)]
  /\ val' = [val EXCEPT !.reg = val.stack[1], !.stack = Tail(@)]
  /\ args' = Tail(args) /\ UNCHANGED <<pc, steps>>
GoOn == pc = "body" /\ steps = MaxSteps /\ Ends

Next ==
  \/ \E gc \in BOOLEAN :
       \/ \E j \in 0 .. MaxArgs : Invoke(j, gc) \/ ApplyList(j, gc)
       \/ \E n \in 0 .. LASTREG - 2 : ArgsGe(n, gc)
       \/ \E n \in 0 .. MaxArgs : DoLambda(n, gc) \/ DoLexes(n, gc)
       \/ \E k \in {1, LASTREG} : DoCons(k, gc) \/ \E n \in {0, 2} : DoMakeVector(n, k, gc)
       \/ DoListToVector(gc)
  \/ \E n \in 0 .. MaxArgs : ArgsEq(n)
  \/ \E k \in 0 .. LASTREG : Reg(k)
  \/ \E k \in 1 .. LASTREG : SetReg(k)
  \/ \E levels \in {0, 1} : Jump(levels) \/ \E n \in 0 .. MaxArgs : Lexical(levels, n)
  \/ Save \/ Return \/ GoOn
Spec == Init /\ [][Next]_vars

-----------------------------------------------------------------------------
(* The state has the types the code gives it.                              *)
MachineTypeOK ==
  /\ \A w \in Roots(m) : IF IsPtr(w) THEN w \in {Ptr(o, e) : o \in 1 .. Objects, e \in {0, 1}} ELSE w[1] = "imm"
  /\ DOMAIN m.reg = 0 .. LASTREG /\ Len(m.stack) <= MaxFrames /\ m.epoch \in {0, 1}
  /\ pc \in {"body", "entered"} /\ steps \in 0 .. MaxSteps
  /\ Len(args) \in {Len(m.stack), Len(m.stack) + 1} \cup (IF m.stack = <<>> THEN {1} ELSE {})

(* No register, frame or live object holds an address from before the last *)
(* collection, wherever in a macro or a millicode the collection came.     *)
NothingStale ==
  /\ \A w \in Roots(m) : Current(m, w)
  /\ \A o \in Reached(m) : \A w \in Fields(m.obj[o]) : Current(m, w)

(* RESULT, the registers and the frames mean what the program computed:    *)
(* rest lists, closures and vectors hold the arguments in order, also those*)
(* passed in the last register's list, across any collection.              *)
MeaningKept == Meanings(m) = val

(* On entry to a procedure the registers and the list in the last one hold *)
(* the arguments of the call, whether passed by invoke or by apply.        *)
ArgumentsArrive == pc = "entered" => Tail(Environment(val.result[2])) = args[1]

(* Compiled code over a moving collector: no register or slot is stale     *)
(* after an instruction that allocates, and what each stands for is what   *)
(* the instruction should have put there.                                  *)
MachineSound == MachineTypeOK /\ NothingStale /\ MeaningKept /\ ArgumentsArrive
=================================================================================
