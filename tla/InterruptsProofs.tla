-------------------------- MODULE InterruptsProofs --------------------------
(***************************************************************************)
(* Interrupts that do not come in the window of check_signals stay due, on *)
(* any platform; and on the one for ARM, while foreign procedures do not   *)
(* call Scheme, code resumes with what it was interrupted with, the timers *)
(* hold what is left of the time, and a longjmp has its target, for any    *)
(* times, steps of the timer and depths.                                   *)
(***************************************************************************)
EXTENDS Interrupts, SequenceTheorems, TLAPS

FenceAlone == Platform = "fence" /\ ~Callbacks

(* What the millicode may still have to do: the rest of check_signals, and *)
(* then, of timer_exception or of enable_interrupts, one statement.        *)
Statements == {"check", "timer", "clearSigint", "call", "clearSignal", "fpe"}
ToCheck == <<"check">>
ToClear == <<"clearSignal">>
ToFault == <<"fpe">>
ToTime == <<"timer">>
AfterClear == <<"call", "clearSignal">>
Fronts == {<< >>, ToCheck, SeenInterrupt, AfterClear, ToClear, ToFault}
Rests == {<< >>, ToTime, ToCheck}
(* It does p, and then r; its next statement is x, with rest to follow.    *)
Splits(t, p, r) == p \in Fronts /\ r \in Rests /\ t = p \o r
Takes(t, x, rest) == t # << >> /\ Head(t) = x /\ Tail(t) = rest
(* The handlers that it may still call.                                    *)
Cost(s) == IF s \in {<< >>, ToClear} THEN 0 ELSE 1

(* An interrupt that is due is recorded in both flags; and the rest of     *)
(* check_signals calls its handler, or does not end by clearing one.       *)
Fates == {"none", "due", "missed"}
Noted == owed \in Fates /\ (owed = "due" => sigint = 1 /\ signal = 1)
Awaited(p) ==
  /\ owed \in Fates
  /\ owed = "due" => p = AfterClear \/ (p # ToClear /\ sigint = 1 /\ signal = 1)
KeptInv == \E p \in Fronts, r \in Rests : Splits(todo, p, r) /\ Awaited(p)

Places == {User, Handler} \X {0, 1, 2, 9}
Results == {Undefined, Value, Argc}
GoodFrames ==
  {f \in [proc : {User, Handler}, k : {0, 1, 2, 9}, result : Results, was : Places, value : Results] :
     <<f.proc, f.k>> = f.was /\ f.result = f.value}

(* The machine, and the time that is left.                                 *)
MachineInv ==
  /\ timer \in 0 .. WordSize - 1 /\ timer2 \in 0 .. MaxTime /\ enabled \in BOOLEAN
  /\ signal \in {0, 1} /\ sigint \in {0, 1} /\ fpe \in {0, 1}
  /\ control \in Places /\ result \in Results /\ frames \in Seq(GoodFrames)
  /\ left \in Int /\ left <= MaxTime /\ returned \in 1 .. MaxTime
  /\ enabled => timer + timer2 = left
(* When timer_exception is to come, the timer has run out; and there is    *)
(* room for the frames of the handlers that may be called.                 *)
TodoInv ==
  \E p \in Fronts, r \in Rests :
    /\ Splits(todo, p, r) /\ Awaited(p)
    /\ enabled /\ r = ToTime => timer = 0
    /\ Len(frames) + Cost(p) + Cost(r) <= MaxFrames
(* C's stack has the dispatch loop and at most one system call.            *)
Base == [kind |-> "loop", at |-> <<User, 1>>]
InLoop == cstack = <<Base>> /\ syscall = NoSyscall
StackInv ==
  /\ loop = 1
  /\ \/ InLoop
     \/ \E at \in Places, kind \in {"interruptible", "syscall"} :
          /\ cstack = <<[kind |-> kind, at |-> at], Base>>
          /\ syscall = IF kind = "interruptible" THEN [on |-> TRUE, to |-> 1] ELSE NoSyscall
          /\ todo = << >> /\ Len(frames) < MaxFrames
FenceInv == MachineInv /\ TodoInv /\ StackInv
-----------------------------------------------------------------------------
LEMMA TupleFacts ==
  /\ ToCheck \o ToTime = <<"check", "timer">>
  /\ ToCheck \o ToCheck = <<"check", "check">>
  /\ ToCheck \o << >> = ToCheck
  /\ << >> \o << >> = << >>
  /\ Fronts \subseteq Seq(Statements) /\ Rests \subseteq Seq(Statements)
<1>1. << >> \in Seq(Statements) /\ ToCheck \in Seq(Statements) /\ SeenInterrupt \in Seq(Statements)
      /\ AfterClear \in Seq(Statements) /\ ToClear \in Seq(Statements)
      /\ ToFault \in Seq(Statements) /\ ToTime \in Seq(Statements)
  BY DEF Statements, SeenInterrupt, AfterClear, ToCheck, ToClear, ToFault, ToTime
<1>2. Fronts \subseteq Seq(Statements) /\ Rests \subseteq Seq(Statements)
  BY <1>1 DEF Fronts, Rests
<1>3. ASSUME NEW x \in Statements PROVE ToCheck \o <<x>> = <<"check", x>>
  <2>1. ToCheck \in Seq(Statements) /\ <<x>> \in Seq(Statements) /\ <<"check", x>> \in Seq(Statements)
    BY <1>3 DEF Statements, ToCheck
  <2>2. Len(ToCheck) = 1 /\ Len(<<x>>) = 1 /\ Len(<<"check", x>>) = 2  BY DEF ToCheck
  <2>3. PICK c : c = ToCheck \o <<x>>  OBVIOUS
  <2>4. PICK a, b : a = ToCheck /\ b = <<x>>  OBVIOUS
  <2>5. /\ a \o b \in Seq(Statements) /\ Len(a \o b) = 2
        /\ \A i \in 1 .. 2 : (a \o b)[i] = IF i <= 1 THEN a[i] ELSE b[i - 1]
    BY <2>1, <2>2, <2>4, ConcatProperties
  <2>6. c \in Seq(Statements) /\ Len(c) = 2 /\ c[1] = "check" /\ c[2] = x
    BY <2>3, <2>4, <2>5 DEF ToCheck
  <2>7. PICK d : d = <<"check", x>>  OBVIOUS
  <2>8. d \in Seq(Statements) /\ Len(d) = 2 /\ d[1] = "check" /\ d[2] = x  BY <2>1, <2>2, <2>7
  <2>9. \A i \in 1 .. Len(c) : c[i] = d[i]  BY <2>6, <2>8
  <2>10. c = d  BY <2>6, <2>8, <2>9, SeqEqual
  <2> QED  BY <2>3, <2>7, <2>10
<1>4. "timer" \in Statements /\ "check" \in Statements  BY DEF Statements
<1>5. ToCheck \o << >> = ToCheck /\ << >> \o << >> = << >>
  BY <1>1, ConcatEmptySeq
<1> QED  BY <1>2, <1>3, <1>4, <1>5 DEF ToCheck, ToTime

(* The first statement and the others.                                     *)
LEMMA TakeFirst ==
  ASSUME NEW r \in Seq(Statements)
  PROVE  /\ << >> \o r = r
         /\ Head(ToCheck \o r) = "check" /\ Tail(ToCheck \o r) = r
         /\ Head(ToClear \o r) = "clearSignal" /\ Tail(ToClear \o r) = r
         /\ Head(ToFault \o r) = "fpe" /\ Tail(ToFault \o r) = r
         /\ Head(AfterClear \o r) = "call" /\ Tail(AfterClear \o r) = ToClear \o r
         /\ Head(SeenInterrupt \o r) = "clearSigint" /\ Tail(SeenInterrupt \o r) = AfterClear \o r
<1>1. << >> \o r = r  BY ConcatEmptySeq
<1>2. ASSUME NEW x \in Statements PROVE Head(<<x>> \o r) = x /\ Tail(<<x>> \o r) = r
  OBVIOUS
<1>3. Head(AfterClear \o r) = "call" /\ Tail(AfterClear \o r) = ToClear \o r
  BY DEF AfterClear, ToClear
<1>4. Head(SeenInterrupt \o r) = "clearSigint" /\ Tail(SeenInterrupt \o r) = AfterClear \o r
  BY DEF AfterClear, SeenInterrupt
<1> QED  BY <1>1, <1>2, <1>3, <1>4 DEF Statements, ToCheck, ToClear, ToFault

LEMMA Taken ==
  ASSUME NEW t, NEW p, NEW r, NEW x, NEW rest, Splits(t, p, r), Takes(t, x, rest)
  PROVE  /\ x = "check" => /\ rest \in Rests /\ p # AfterClear
                           /\ \/ p = ToCheck /\ rest = r
                              \/ p = << >> /\ r = ToCheck /\ rest = << >>
         /\ x = "timer" => p = << >> /\ r = ToTime /\ rest = << >>
         /\ x = "clearSigint" => p = SeenInterrupt /\ Splits(rest, AfterClear, r)
         /\ x = "call" => p = AfterClear /\ Splits(rest, ToClear, r)
         /\ x = "clearSignal" => p = ToClear /\ Splits(rest, << >>, r)
         /\ x = "fpe" => p = ToFault /\ Splits(rest, << >>, r)
<1>0. p \in Fronts /\ r \in Rests /\ t = p \o r /\ t # << >> /\ Head(t) = x /\ Tail(t) = rest
  BY DEF Splits, Takes
<1>1. r \in Seq(Statements)  BY <1>0, TupleFacts
<1>2. AfterClear # << >> /\ AfterClear # ToCheck  BY DEF AfterClear, ToCheck
<1>3. r = << >> \o r /\ << >> \in Fronts /\ ToClear \in Fronts /\ AfterClear \in Fronts
  BY <1>1, TakeFirst DEF Fronts
<1>4. CASE p = << >>
  <2>1. t = r  BY <1>0, <1>3, <1>4
  <2>2. CASE r = ToTime
    <3>1. x = "timer" /\ rest = << >>  BY <1>0, <2>1, <2>2 DEF ToTime
    <3> QED  BY <1>4, <2>2, <3>1
  <2>3. CASE r = ToCheck
    <3>1. x = "check" /\ rest = << >>  BY <1>0, <2>1, <2>3 DEF ToCheck
    <3> QED  BY <1>2, <1>4, <2>3, <3>1 DEF Rests
  <2> QED  BY <1>0, <2>1, <2>2, <2>3 DEF Rests
<1>5. CASE p = ToCheck
  <2>1. x = "check" /\ rest = r  BY <1>0, <1>1, <1>5, TakeFirst
  <2> QED  BY <1>0, <1>2, <1>5, <2>1
<1>6. CASE p = ToClear
  <2>1. x = "clearSignal" /\ rest = r  BY <1>0, <1>1, <1>6, TakeFirst
  <2> QED  BY <1>0, <1>3, <1>6, <2>1 DEF Splits
<1>7. CASE p = ToFault
  <2>1. x = "fpe" /\ rest = r  BY <1>0, <1>1, <1>7, TakeFirst
  <2> QED  BY <1>0, <1>3, <1>7, <2>1 DEF Splits
<1>8. CASE p = AfterClear
  <2>1. x = "call" /\ rest = ToClear \o r  BY <1>0, <1>1, <1>8, TakeFirst
  <2> QED  BY <1>0, <1>3, <1>8, <2>1 DEF Splits
<1>9. CASE p = SeenInterrupt
  <2>1. x = "clearSigint" /\ rest = AfterClear \o r  BY <1>0, <1>1, <1>9, TakeFirst
  <2> QED  BY <1>0, <1>3, <1>9, <2>1 DEF Splits
<1> QED  BY <1>0, <1>4, <1>5, <1>6, <1>7, <1>8, <1>9 DEF Fronts

(* With nothing left to do, an interrupt that came is recorded.            *)
LEMMA NothingToDo ==
  ASSUME NEW p, NEW r, Splits(<< >>, p, r)
  PROVE  p = << >> /\ r = << >> /\ p # AfterClear
<1>0. p \in Fronts /\ r \in Rests /\ p \o r = << >>  BY DEF Splits
<1>1. r \in Seq(Statements) /\ p \in Seq(Statements)  BY <1>0, TupleFacts
<1>2. Len(p \o r) = Len(p) + Len(r) /\ Len(p) \in Nat /\ Len(r) \in Nat
  BY <1>1, ConcatProperties, LenProperties
<1>3. Len(p \o r) = 0  BY <1>0
<1>4. Len(p) = 0 /\ Len(r) = 0  BY <1>2, <1>3
<1>5. p = << >> /\ r = << >>  BY <1>1, <1>4, EmptySeq
<1>6. << >> # AfterClear  BY DEF AfterClear
<1> QED  BY <1>5, <1>6

(* What check_signals still has to do when G_SIGNAL is next, and last.     *)
LEMMA ClosingIs ==
  ASSUME NEW t, NEW p, NEW r, Splits(t, p, r)
  PROVE  Closing(t) <=> p = ToClear
<1>0. p \in Fronts /\ r \in Rests /\ t = p \o r  BY DEF Splits
<1>1. r \in Seq(Statements) /\ p \in Seq(Statements)  BY <1>0, TupleFacts
<1>2. r \in Seq({"check", "timer"}) /\ Len(r) \in Nat
  <2>1. << >> \in Seq({"check", "timer"}) /\ ToTime \in Seq({"check", "timer"})
        /\ ToCheck \in Seq({"check", "timer"})
    BY DEF ToTime, ToCheck
  <2> QED  BY <1>0, <1>1, <2>1, LenProperties DEF Rests
<1>3. /\ Len(p) \in Nat /\ t \in Seq(Statements) /\ Len(t) = Len(p) + Len(r)
      /\ DOMAIN t = 1 .. Len(p) + Len(r)
      /\ \A i \in 1 .. Len(p) + Len(r) : t[i] = IF i <= Len(p) THEN p[i] ELSE r[i - Len(p)]
  <2>1. p \o r \in Seq(Statements) /\ Len(p \o r) = Len(p) + Len(r)  BY <1>1, ConcatProperties
  <2>2. \A i \in 1 .. Len(p) + Len(r) : (p \o r)[i] = IF i <= Len(p) THEN p[i] ELSE r[i - Len(p)]
    BY <1>1, ConcatProperties
  <2> QED  BY <1>0, <1>1, <2>1, <2>2, LenProperties
<1>4. \A i \in DOMAIN t : i > Len(p) => t[i] \in {"check", "timer"}
  BY <1>2, <1>3, ElementOfSeq
<1>5. CASE p = ToClear
  <2>1. Len(p) = 1 /\ p[1] = "clearSignal"  BY <1>5 DEF ToClear
  <2>2. 1 \in DOMAIN t /\ t[1] = "clearSignal"  BY <1>2, <1>3, <2>1
  <2>3. \A i \in DOMAIN t : t[i] # "call"
    <3>1. ASSUME NEW i \in DOMAIN t PROVE i = 1 \/ t[i] \in {"check", "timer"}
      BY <1>3, <1>4, <2>1
    <3> QED  BY <2>2, <3>1
  <2> QED  BY <1>5, <2>2, <2>3 DEF Closing
<1>6. CASE p \in {AfterClear, SeenInterrupt}
  <2>1. \E i \in 1 .. Len(p) : p[i] = "call"
    <3>1. CASE p = AfterClear
      <4>1. Len(p) = 2 /\ p[1] = "call"  BY <3>1 DEF AfterClear
      <4> QED  BY <4>1
    <3>2. CASE p = SeenInterrupt
      <4>1. Len(p) = 3 /\ p[2] = "call"  BY <3>2 DEF SeenInterrupt
      <4> QED  BY <4>1
    <3> QED  BY <1>6, <3>1, <3>2
  <2>2. PICK i \in 1 .. Len(p) : p[i] = "call"  BY <2>1
  <2>3. i \in DOMAIN t /\ t[i] = "call"  BY <1>2, <1>3, <2>2
  <2>4. p # ToClear  BY <1>6 DEF ToClear, AfterClear, SeenInterrupt
  <2> QED  BY <2>3, <2>4 DEF Closing
<1>7. CASE p \in {<< >>, ToCheck, ToFault}
  <2>1. \A i \in 1 .. Len(p) : p[i] # "clearSignal"
    <3>1. CASE p = << >>  BY <3>1
    <3>2. CASE p = ToCheck
      <4>1. Len(p) = 1 /\ p[1] = "check"  BY <3>2 DEF ToCheck
      <4> QED  BY <4>1
    <3>3. CASE p = ToFault
      <4>1. Len(p) = 1 /\ p[1] = "fpe"  BY <3>3 DEF ToFault
      <4> QED  BY <4>1
    <3> QED  BY <1>7, <3>1, <3>2, <3>3
  <2>2. \A i \in DOMAIN t : t[i] # "clearSignal"
    <3>1. ASSUME NEW i \in DOMAIN t PROVE t[i] # "clearSignal"
      <4>1. CASE i > Len(p)  BY <1>4, <4>1
      <4>2. CASE i <= Len(p)
        <5>1. i \in 1 .. Len(p) /\ t[i] = p[i]  BY <1>2, <1>3, <4>2
        <5> QED  BY <2>1, <5>1
      <4> QED  BY <1>2, <1>3, <4>1, <4>2
    <3> QED  BY <3>1
  <2>3. p # ToClear  BY <1>7 DEF ToClear, ToCheck, ToFault
  <2> QED  BY <2>2, <2>3 DEF Closing
<1> QED  BY <1>0, <1>5, <1>6, <1>7 DEF Fronts

(* What is left to do after a call of the millicode, and after statements. *)
LEMMA Left ==
  /\ Splits(<<"check", "timer">>, ToCheck, ToTime) /\ Splits(<<"check", "check">>, ToCheck, ToCheck)
  /\ Splits(<<"check">>, ToCheck, << >>) /\ Splits(<< >>, << >>, << >>)
  /\ \A r \in Rests : Splits(r, << >>, r) /\ \A p \in Fronts : Splits(p \o r, p, r)
  /\ {<< >>, ToCheck, SeenInterrupt, AfterClear, ToClear, ToFault} \subseteq Fronts
  /\ {<< >>, ToTime, ToCheck} \subseteq Rests
  /\ AfterClear \notin {<< >>, ToClear, ToFault, ToCheck}
  /\ ToClear \notin {<< >>, ToFault, ToCheck, AfterClear, SeenInterrupt}
<1>1. /\ {<< >>, ToCheck, SeenInterrupt, AfterClear, ToClear, ToFault} \subseteq Fronts
      /\ {<< >>, ToTime, ToCheck} \subseteq Rests
  BY DEF Fronts, Rests
<1>2. ASSUME NEW r \in Rests PROVE r = << >> \o r
  BY TupleFacts, TakeFirst
<1>3. /\ AfterClear \notin {<< >>, ToClear, ToFault, ToCheck}
      /\ ToClear \notin {<< >>, ToFault, ToCheck, AfterClear, SeenInterrupt}
  BY DEF AfterClear, ToClear, ToFault, ToCheck, SeenInterrupt
<1>4. Splits(<<"check">>, ToCheck, << >>)
  <2>1. <<"check">> = ToCheck \o << >>  BY TupleFacts DEF ToCheck
  <2> QED  BY <1>1, <2>1 DEF Splits
<1>5. /\ <<"check", "timer">> = ToCheck \o ToTime /\ <<"check", "check">> = ToCheck \o ToCheck
      /\ << >> = << >> \o << >>
  BY TupleFacts
<1> QED  BY <1>1, <1>2, <1>3, <1>4, <1>5 DEF Splits

LEMMA Costs ==
  /\ Cost(<< >>) = 0 /\ Cost(ToClear) = 0 /\ Cost(ToCheck) = 1
  /\ Cost(ToTime) = 1 /\ Cost(ToFault) = 1 /\ Cost(AfterClear) = 1 /\ Cost(SeenInterrupt) = 1
  /\ \A s : Cost(s) \in {0, 1}
<1>1. ToCheck \notin {<< >>, ToClear} /\ ToTime \notin {<< >>, ToClear}
  BY DEF ToCheck, ToClear, ToFault, ToTime
<1>2. ToFault \notin {<< >>, ToClear}  BY DEF ToCheck, ToClear, ToFault, ToTime
<1>3. AfterClear \notin {<< >>, ToClear}  BY DEF AfterClear, ToClear
<1>4. SeenInterrupt \notin {<< >>, ToClear}  BY DEF SeenInterrupt, ToClear
<1> QED  BY <1>1, <1>2, <1>3, <1>4 DEF Cost
-----------------------------------------------------------------------------
(* INTERRUPTS STAY DUE, on any platform and with callbacks                 *)
LEMMA KeptNow ==
  ASSUME KeptInv, todo = << >>
  PROVE  Noted
BY NothingToDo DEF KeptInv, Awaited, Noted

LEMMA KeptIf ==
  ASSUME Noted, UNCHANGED <<owed, sigint, signal>>, NEW p, NEW r, Splits(todo', p, r),
         p # ToClear \/ owed # "due"
  PROVE  KeptInv'
<1>1. p \in Fronts /\ r \in Rests  BY DEF Splits
<1> QED  BY <1>1 DEF KeptInv, Awaited, Noted

(* The callouts of timer_exception and for a floating-point exception.     *)
LEMMA CalloutKept ==
  ASSUME Noted, UNCHANGED <<owed, sigint, signal>>, Callout,
         NEW p, NEW r, Splits(Tail(todo), p, r), p # ToClear
  PROVE  KeptInv'
<1>1. todo' = << >> \/ todo' = Tail(todo)  BY DEF Callout
<1> QED  BY <1>1, KeptIf, Left

LEMMA KeptNext ==
  ASSUME KeptInv, [Next]_vars
  PROVE  KeptInv'
<1>1. PICK p \in Fronts, r \in Rests : Splits(todo, p, r) /\ Awaited(p)  BY DEF KeptInv
<1>2. PICK rest : rest = Tail(todo)  OBVIOUS
<1>3. CASE UNCHANGED <<todo, owed, sigint, signal>>  BY <1>3 DEF KeptInv, Awaited
<1>4. ASSUME todo = << >>, UNCHANGED <<owed, sigint, signal>>,
             todo' \in {<<"check">>, <<"check", "timer">>, <<"check", "check">>}
      PROVE  KeptInv'
  BY <1>4, KeptNow, KeptIf, Left
<1>5. CASE Tick
  <2>1. todo = << >> /\ UNCHANGED <<owed, sigint, signal>>  BY <1>5 DEF Tick, MayCall, InScheme, signals
  <2>2. todo' = todo \/ todo' = <<"check", "timer">>  BY <1>5 DEF Tick, Enter
  <2> QED  BY <1>3, <1>4, <2>1, <2>2
<1>6. CASE Disable
  <2>1. todo = << >> /\ UNCHANGED <<owed, sigint, signal>> /\ todo' = <<"check">>
    BY <1>6 DEF Disable, MayCall, InScheme, Enter, signals
  <2> QED  BY <1>4, <2>1
<1>7. ASSUME NEW n \in 1 .. MaxTime, Enable(n) PROVE KeptInv'
  <2>1. todo = << >> /\ UNCHANGED <<owed, sigint, signal>> /\ todo' = <<"check", "check">>
    BY <1>7 DEF Enable, MayCall, InScheme, Enter, signals
  <2> QED  BY <1>4, <2>1
<1>8. CASE Check
  <2>1. Takes(todo, "check", rest) /\ UNCHANGED <<owed, sigint, signal>>
    BY <1>2, <1>8 DEF Check, signals, ghosts, Takes
  <2>2. rest \in Rests /\ Noted  BY <1>1, <2>1, Taken DEF Awaited, Noted
  <2>3. PICK q \in Fronts : todo' = q \o rest /\ (q # ToClear \/ sigint # 1)
    BY <1>2, <1>8, Left DEF Check, ToClear, ToFault
  <2>4. Splits(todo', q, rest)  BY <2>2, <2>3, Left
  <2>5. q # ToClear \/ owed # "due"  BY <2>2, <2>3 DEF Noted
  <2> QED  BY <2>1, <2>2, <2>4, <2>5, KeptIf
<1>9. CASE ClearSigint
  <2>1. Takes(todo, "clearSigint", rest) /\ todo' = rest /\ owed' = owed
    BY <1>2, <1>9 DEF ClearSigint, Takes, ghosts
  <2>2. Splits(todo', AfterClear, r)  BY <1>1, <2>1, Taken
  <2> QED  BY <1>1, <2>1, <2>2, Left DEF KeptInv, Awaited
<1>10. CASE CallKeyboardHandler
  <2>1. Takes(todo, "call", rest) /\ owed' = "none" /\ (todo' = << >> \/ todo' = rest)
    BY <1>2, <1>10 DEF CallKeyboardHandler, Callout, Takes
  <2>2. Splits(rest, ToClear, r)  BY <1>1, <2>1, Taken
  <2>3. PICK q \in Fronts, v \in Rests : Splits(todo', q, v)  BY <2>1, <2>2, Left DEF Splits
  <2> QED  BY <2>1, <2>3 DEF KeptInv, Awaited, Fates
<1>11. CASE ClearSignal
  <2>1. Takes(todo, "clearSignal", rest) /\ todo' = rest /\ UNCHANGED <<owed, sigint>>
    BY <1>2, <1>11 DEF ClearSignal, ghosts, Takes
  <2>2. p = ToClear /\ Splits(todo', << >>, r)  BY <1>1, <2>1, Taken
  <2>3. owed \in Fates /\ owed # "due"  BY <1>1, <2>2, Left DEF Awaited
  <2> QED  BY <2>1, <2>2, <2>3, Left DEF KeptInv, Awaited
<1>12. CASE CallFpeHandler
  <2>1. Takes(todo, "fpe", rest) /\ Callout /\ UNCHANGED <<owed, sigint, signal>>
    BY <1>2, <1>12 DEF CallFpeHandler, ghosts, Takes
  <2>2. p = ToFault /\ Splits(Tail(todo), << >>, r)  BY <1>1, <1>2, <2>1, Taken
  <2>3. Noted  BY <1>1, <2>2, Left DEF Awaited, Noted
  <2> QED  BY <2>1, <2>2, <2>3, CalloutKept, Left
<1>13. CASE TimerException
  <2>1. /\ Takes(todo, "timer", rest) /\ UNCHANGED <<owed, sigint, signal>>
        /\ todo' = rest \/ todo' = <<"check">> \o rest \/ Callout
    BY <1>2, <1>13 DEF TimerException, signals, ghosts, Takes
  <2>2. p = << >> /\ rest = << >>  BY <1>1, <2>1, Taken
  <2>3. Noted  BY <1>1, <2>2, Left DEF Awaited, Noted
  <2>4. Splits(rest, << >>, << >>) /\ Splits(<<"check">> \o rest, ToCheck, << >>)
    BY <2>2, Left DEF ToCheck
  <2>5. CASE Callout  BY <1>2, <2>1, <2>3, <2>4, <2>5, CalloutKept, Left
  <2> QED  BY <2>1, <2>3, <2>4, <2>5, KeptIf, Left
<1>14. CASE HandlerReturns  BY <1>3, <1>14 DEF HandlerReturns, signals, ghosts
<1>15. CASE Compute  BY <1>3, <1>15 DEF Compute, signals, ghosts
<1>16. ASSUME NEW interruptible \in BOOLEAN, Syscall(interruptible) PROVE KeptInv'
  BY <1>3, <1>16 DEF Syscall, signals, ghosts
<1>17. CASE SyscallReturns
  <2>1. todo = << >> /\ todo' = <<"check">> /\ UNCHANGED <<owed, sigint, signal>>
    BY <1>17 DEF SyscallReturns, signals, ghosts
  <2> QED  BY <1>4, <2>1
<1>18. CASE Callback  BY <1>3, <1>18 DEF Callback, signals, ghosts
<1>19. CASE CallbackReturns  BY <1>3, <1>19 DEF CallbackReturns, signals, ghosts
<1>20. CASE Interrupt
  <2>1. /\ sigint' = 1 /\ signal' = 1 /\ (todo' = <<"check">> \/ todo' = todo)
        /\ owed' = IF Closing(todo') THEN "missed" ELSE "due"
    BY <1>20 DEF Interrupt, Recorded, LeaveSyscall
  <2>2. PICK q \in Fronts, v \in Rests : Splits(todo', q, v)
    <3>1. CASE todo' = todo  BY <1>1, <3>1
    <3>2. CASE todo' = <<"check">>  BY <3>2, Left
    <3> QED  BY <2>1, <3>1, <3>2
  <2>3. Closing(todo') <=> q = ToClear  BY <2>2, ClosingIs
  <2> QED  BY <2>1, <2>2, <2>3 DEF KeptInv, Awaited, Fates
<1>21. CASE Fault
  <2>1. todo = << >> /\ (todo' = <<"check">> \/ todo' = todo) /\ UNCHANGED <<owed, sigint, signal>>
    BY <1>21 DEF Fault, LeaveSyscall, ghosts
  <2> QED  BY <1>3, <1>4, <2>1
<1>22. CASE UNCHANGED vars  BY <1>3, <1>22 DEF vars
<1> QED
  BY <1>5, <1>6, <1>7, <1>8, <1>9, <1>10, <1>11, <1>12, <1>13, <1>14, <1>15, <1>16, <1>17,
     <1>18, <1>19, <1>20, <1>21, <1>22 DEF Next

LEMMA KeptShows ==
  ASSUME KeptInv PROVE InterruptKept
<1> SUFFICES ASSUME owed = "due"
             PROVE  \/ \E i \in DOMAIN todo : todo[i] = "call"
                    \/ signal = 1 /\ sigint = 1 /\ ~Closing(todo)
  BY DEF InterruptKept
<1>1. PICK p \in Fronts, r \in Rests : todo = p \o r /\ Splits(todo, p, r) /\ Awaited(p)
  BY DEF KeptInv, Splits
<1>2. CASE p = AfterClear
  <2>1. r \in Seq(Statements) /\ p \in Seq(Statements)  BY TupleFacts
  <2>2. Len(p) = 2 /\ p[1] = "call"  BY <1>2 DEF AfterClear
  <2>3. Len(r) \in Nat /\ Len(p \o r) = 2 + Len(r) /\ p \o r \in Seq(Statements)
    <3>1. PICK a, b : a = p /\ b = r  OBVIOUS
    <3>2. /\ a \o b \in Seq(Statements) /\ Len(a \o b) = Len(a) + Len(b) /\ Len(b) \in Nat
      BY <2>1, <3>1, ConcatProperties, LenProperties
    <3> QED  BY <2>2, <3>1, <3>2
  <2>4. (p \o r)[1] = "call"  BY <2>1, <2>2, <2>3, ConcatProperties
  <2>5. 1 \in DOMAIN (p \o r)  BY <2>3, LenProperties
  <2> QED  BY <1>1, <2>4, <2>5
<1>3. Closing(todo) <=> p = ToClear  BY <1>1, ClosingIs
<1> QED  BY <1>1, <1>2, <1>3 DEF Awaited

(* fence-millicode.c 819-831: whatever system calls and callbacks are      *)
(* under way, a keyboard interrupt is recorded in both flags, so that the  *)
(* next check_signals sees it, until its handler is called; unless it      *)
(* comes after the handler was called in the middle of check_signals and   *)
(* before G_SIGNAL is cleared (the race of lines 821 and 824).             *)
THEOREM InterruptsAreKept == Spec => []InterruptKept
<1>1. Init => KeptInv
  BY Left DEF Init, KeptInv, Awaited, Fates
<1>2. KeptInv /\ [Next]_vars => KeptInv'  BY KeptNext
<1>3. KeptInv => InterruptKept  BY KeptShows
<1> QED  BY <1>1, <1>2, <1>3, PTL DEF Spec
-----------------------------------------------------------------------------
(* WHAT FENCE DOES, without callbacks                                      *)
LEMMA Numbers ==
  ASSUME InterruptsAssumption
  PROVE  /\ MaxTime \in Nat /\ MaxTime < WordSize /\ TimerStep \in Nat /\ TimerStep < WordSize
         /\ Fuel \in Nat /\ Fuel < WordSize /\ AdHoc \in Nat /\ AdHoc <= MaxTime
         /\ TimerStep > 0 /\ MaxTime > 0 /\ AdHoc > 0
         /\ MaxFrames \in Nat /\ WordSize = 64
BY DEF InterruptsAssumption, WordSize

LEMMA SetTimerFacts ==
  ASSUME InterruptsAssumption, NEW n \in Nat, n <= MaxTime, SetTimer(n)
  PROVE  timer' \in 0 .. WordSize - 1 /\ timer2' \in 0 .. MaxTime /\ timer' + timer2' = n
BY Numbers DEF SetTimer

LEMMA CalloutFacts ==
  ASSUME FenceAlone, MachineInv, Callout
  PROVE  /\ frames' \in Seq(GoodFrames) /\ Len(frames') = Len(frames) + 1
         /\ control' \in Places /\ result' \in Results /\ todo' = Tail(todo)
<1>1. PICK f : f = CalloutFrame(SavedPoint, SavedResult)  OBVIOUS
<1>2. f \in GoodFrames
  <2>1. control = <<control[1], control[2]>> /\ control[1] \in {User, Handler} /\ control[2] \in {0, 1, 2, 9}
    BY DEF MachineInv, Places
  <2>2. f = [proc |-> control[1], k |-> control[2], result |-> result, was |-> control, value |-> result]
    BY <1>1 DEF FenceAlone, CalloutFrame, SavedPoint, SavedResult
  <2> QED  BY <2>1, <2>2 DEF GoodFrames, MachineInv
<1>3. frames' = <<f>> \o frames  BY <1>1 DEF Callout
<1>4. frames \in Seq(GoodFrames) /\ <<f>> \in Seq(GoodFrames) /\ Len(<<f>>) = 1
  BY <1>2 DEF MachineInv
<1>5. frames' \in Seq(GoodFrames) /\ Len(frames') = Len(frames) + 1
  <2>1. PICK a, b : a = <<f>> /\ b = frames  OBVIOUS
  <2>2. a \o b \in Seq(GoodFrames) /\ Len(a \o b) = Len(a) + Len(b) /\ Len(b) \in Nat
    BY <1>4, <2>1, ConcatProperties, LenProperties
  <2> QED  BY <1>3, <1>4, <2>1, <2>2
<1>6. control' \in Places /\ result' \in Results /\ todo' = Tail(todo)
  BY DEF Callout, FenceAlone, Places, Results
<1> QED  BY <1>5, <1>6

(* Where the machine is.                                                   *)
LEMMA InLoopFacts ==
  ASSUME StackInv
  PROVE  /\ loop = 1
         /\ InScheme => InLoop /\ todo = << >>
         /\ todo # << >> => InLoop
         /\ InLoop => ~InSyscall /\ Len(cstack) = 1 /\ ~syscall.on
<1>1. loop = 1  BY DEF StackInv
<1>2. ASSUME InScheme PROVE InLoop /\ todo = << >>
  <2>1. ASSUME NEW at \in Places, NEW kind \in {"interruptible", "syscall"},
               cstack = <<[kind |-> kind, at |-> at], Base>>
        PROVE  FALSE
    BY <1>2, <2>1 DEF InScheme
  <2> QED  BY <1>2, <2>1 DEF StackInv, InScheme
<1>3. todo # << >> => InLoop  BY DEF StackInv
<1>4. InLoop => ~InSyscall /\ Len(cstack) = 1 /\ ~syscall.on
  BY DEF InLoop, InSyscall, Base, NoSyscall
<1> QED  BY <1>1, <1>2, <1>3, <1>4

LEMMA InSyscallFacts ==
  ASSUME StackInv, ~InLoop
  PROVE  \E x :
           /\ x.at \in Places /\ x.kind \in {"interruptible", "syscall"}
           /\ cstack = <<x, Base>> /\ Len(cstack) = 2 /\ Head(cstack) = x /\ Tail(cstack) = <<Base>>
           /\ cstack[1] = x /\ cstack[2] = Base /\ SubSeq(cstack, 2, 2) = <<Base>>
           /\ syscall = IF x.kind = "interruptible" THEN [on |-> TRUE, to |-> 1] ELSE NoSyscall
           /\ todo = << >> /\ Len(frames) < MaxFrames
<1>1. PICK at \in Places, kind \in {"interruptible", "syscall"} :
        /\ cstack = <<[kind |-> kind, at |-> at], Base>>
        /\ syscall = IF kind = "interruptible" THEN [on |-> TRUE, to |-> 1] ELSE NoSyscall
        /\ todo = << >> /\ Len(frames) < MaxFrames
  BY DEF StackInv
<1>2. PICK x : x = [kind |-> kind, at |-> at]  OBVIOUS
<1>3. x.kind = kind /\ x.at = at  BY <1>2
<1>4. cstack = <<x, Base>>  BY <1>1, <1>2
<1>5. \A b, c : /\ Len(<<b, c>>) = 2 /\ Head(<<b, c>>) = b /\ Tail(<<b, c>>) = <<c>>
               /\ <<b, c>>[1] = b /\ <<b, c>>[2] = c
  OBVIOUS
<1>6. SubSeq(cstack, 2, 2) = <<Base>>
  <2>1. PICK b : b = Base  OBVIOUS
  <2>2. PICK c : c = <<x, b>>  OBVIOUS
  <2>3. c \in Seq({x, b}) /\ Len(c) = 2 /\ c[2] = b  BY <2>2
  <2>4. PICK d : d = SubSeq(c, 2, 2)  OBVIOUS
  <2>5. d \in Seq({x, b}) /\ Len(d) = 1 /\ d[1] = b
    <3>1. /\ SubSeq(c, 2, 2) \in Seq({x, b}) /\ Len(SubSeq(c, 2, 2)) = 1
          /\ SubSeq(c, 2, 2)[1] = c[2]
      BY <2>3, SubSeqProperties
    <3> QED  BY <2>3, <2>4, <3>1
  <2>6. PICK e : e = <<b>>  OBVIOUS
  <2>7. e \in Seq({x, b}) /\ Len(e) = 1 /\ e[1] = b  BY <2>6
  <2>8. \A i \in 1 .. Len(d) : d[i] = e[i]  BY <2>5, <2>7
  <2>9. d = e  BY <2>5, <2>7, <2>8, SeqEqual
  <2> QED  BY <1>4, <2>1, <2>2, <2>4, <2>6, <2>9
<1> QED  BY <1>1, <1>3, <1>4, <1>5, <1>6

LEMMA StackStays ==
  ASSUME StackInv, InLoop, UNCHANGED cside PROVE StackInv'
BY DEF StackInv, InLoop, cside

LEMMA TodoNow ==
  ASSUME TodoInv, MachineInv, InterruptsAssumption, todo = << >>
  PROVE  Noted /\ Len(frames) \in Nat /\ Len(frames) <= MaxFrames
<1>1. PICK p \in Fronts, r \in Rests :
        Splits(todo, p, r) /\ Awaited(p) /\ Len(frames) + Cost(p) + Cost(r) <= MaxFrames
  BY DEF TodoInv
<1>2. p = << >> /\ r = << >> /\ p # AfterClear  BY <1>1, NothingToDo
<1>3. Len(frames) \in Nat  BY LenProperties DEF MachineInv
<1> QED  BY <1>1, <1>2, <1>3, Costs DEF Awaited, Noted

LEMMA TodoIf ==
  ASSUME NEW p, NEW r, Splits(todo', p, r),
         Awaited(p)' \/ (Noted' /\ p \in {<< >>, ToCheck}),
         enabled' /\ r = ToTime => timer' = 0, Len(frames') + Cost(p) + Cost(r) <= MaxFrames
  PROVE  TodoInv'
<1>1. p \in Fronts /\ r \in Rests  BY DEF Splits
<1>2. Awaited(p)'  BY Left DEF Awaited, Noted
<1> QED  BY <1>1, <1>2 DEF TodoInv

(* The machine after a step that leaves the timers, or the rest, alone.    *)
LEMMA MachineStays ==
  ASSUME MachineInv, UNCHANGED <<timers, left, returned>>,
         signal' \in {0, 1}, sigint' \in {0, 1}, fpe' \in {0, 1},
         control' \in Places, result' \in Results, frames' \in Seq(GoodFrames)
  PROVE  MachineInv'
BY DEF MachineInv, timers

(* Calls of the millicode.                                                 *)
LEMMA TickKeeps ==
  ASSUME InterruptsAssumption, FenceAlone, FenceInv, Tick
  PROVE  FenceInv'
<1>1. MachineInv /\ TodoInv /\ StackInv  BY DEF FenceInv
<1>2. /\ InScheme /\ Len(frames) + 2 <= MaxFrames
      /\ UNCHANGED <<timer2, enabled, signals, machine, cside, owed, returned>>
      /\ IF timer = 0 THEN UNCHANGED <<timer, left>> /\ Enter(<<"check", "timer">>)
         ELSE timer' = timer - 1 /\ Spent /\ UNCHANGED <<todo, k>>
  BY DEF Tick, MayCall, FenceAlone
<1>3. InLoop /\ todo = << >>  BY <1>1, <1>2, InLoopFacts
<1>4. StackInv'  BY <1>1, <1>2, <1>3, StackStays
<1>5. Noted /\ Len(frames) \in Nat /\ Len(frames) <= MaxFrames
  BY <1>1, <1>3, TodoNow
<1>6. CASE timer = 0
  <2>1. UNCHANGED <<timers, signals, machine, owed, returned, left>> /\ todo' = <<"check", "timer">>
    BY <1>2, <1>6 DEF Enter, timers
  <2>2. MachineInv'  BY <1>1, <2>1 DEF MachineInv, timers, signals, machine
  <2>3. /\ Splits(todo', ToCheck, ToTime) /\ timer' = 0 /\ Noted'
        /\ Len(frames') + Cost(ToCheck) + Cost(ToTime) <= MaxFrames
    BY <1>2, <1>5, <1>6, <2>1, Left, Costs DEF timers, signals, machine, Noted
  <2>4. TodoInv'  BY <2>3, TodoIf
  <2> QED  BY <1>4, <2>2, <2>4 DEF FenceInv
<1>7. CASE timer # 0
  <2>1. timer' = timer - 1 /\ left' = (IF enabled THEN left - 1 ELSE left) /\ todo' = << >>
    BY <1>2, <1>3, <1>7 DEF Spent
  <2>2. MachineInv'
    BY <1>1, <1>2, <1>7, <2>1, Numbers DEF MachineInv, signals, machine
  <2>3. /\ Splits(todo', << >>, << >>) /\ << >> # ToTime /\ Noted'
        /\ Len(frames') + Cost(<< >>) + Cost(<< >>) <= MaxFrames
    BY <1>2, <1>5, <2>1, Left, Costs DEF signals, machine, ToTime, Noted
  <2>4. TodoInv'  BY <2>3, TodoIf
  <2> QED  BY <1>4, <2>2, <2>4 DEF FenceInv
<1> QED  BY <1>6, <1>7

LEMMA EnableKeeps ==
  ASSUME InterruptsAssumption, FenceInv, NEW n \in 1 .. MaxTime, Enable(n)
  PROVE  FenceInv'
<1>1. MachineInv /\ TodoInv /\ StackInv  BY DEF FenceInv
<1>2. /\ InScheme /\ Len(frames) + 2 <= MaxFrames /\ enabled' = TRUE /\ SetTimer(n) /\ left' = n
      /\ todo' = <<"check", "check">> /\ UNCHANGED <<signals, machine, cside, owed, returned>>
  BY DEF Enable, MayCall, Enter
<1>3. InLoop /\ todo = << >>  BY <1>1, <1>2, InLoopFacts
<1>4. StackInv'  BY <1>1, <1>2, <1>3, StackStays
<1>5. Noted /\ Len(frames) \in Nat /\ Len(frames) <= MaxFrames
  BY <1>1, <1>3, TodoNow
<1>6. timer' \in 0 .. WordSize - 1 /\ timer2' \in 0 .. MaxTime /\ timer' + timer2' = n
  BY <1>2, Numbers, SetTimerFacts
<1>7. MachineInv'
  <2>1. UNCHANGED <<signal, sigint, fpe, control, result, frames, returned>>
    BY <1>2 DEF signals, machine
  <2>2. n \in Int /\ n <= MaxTime  BY Numbers
  <2>3. enabled' \in BOOLEAN /\ left' \in Int /\ left' <= MaxTime  BY <1>2, <2>2
  <2>4. timer' + timer2' = left'  BY <1>2, <1>6
  <2> QED  BY <1>1, <1>6, <2>1, <2>3, <2>4 DEF MachineInv
<1>8. /\ Splits(todo', ToCheck, ToCheck) /\ ToCheck # ToTime /\ Noted'
      /\ Len(frames') + Cost(ToCheck) + Cost(ToCheck) <= MaxFrames
  BY <1>2, <1>5, Left, Costs DEF signals, machine, ToTime, ToCheck, Noted
<1>9. TodoInv'  BY <1>8, TodoIf
<1> QED  BY <1>4, <1>7, <1>9 DEF FenceInv

LEMMA DisableKeeps ==
  ASSUME InterruptsAssumption, FenceAlone, FenceInv, Disable
  PROVE  FenceInv'
<1>1. MachineInv /\ TodoInv /\ StackInv  BY DEF FenceInv
<1>2. /\ InScheme /\ Len(frames) + 2 <= MaxFrames /\ enabled
      /\ enabled' = FALSE /\ returned' = TimeLeft /\ result' = Value /\ todo' = <<"check">>
      /\ UNCHANGED <<timer, timer2, signals, control, frames, cside, owed, left>>
  BY DEF Disable, MayCall, Enter
<1>3. InLoop /\ todo = << >>  BY <1>1, <1>2, InLoopFacts
<1>4. StackInv'  BY <1>1, <1>2, <1>3, StackStays
<1>5. Noted /\ Len(frames) \in Nat /\ Len(frames) <= MaxFrames
  BY <1>1, <1>3, TodoNow
<1>6. TimeLeft \in 1 .. MaxTime
  <2>1. /\ timer + timer2 = left /\ left <= MaxTime /\ timer \in Nat /\ timer2 \in Nat
        /\ AdHoc \in 1 .. MaxTime /\ MaxTime \in Nat /\ MaxTime < WordSize /\ WordSize = 64
    BY <1>1, <1>2, Numbers DEF MachineInv
  <2>2. PICK n \in Nat : n = timer + timer2 /\ n <= MaxTime /\ n < 64  BY <2>1
  <2>3. n % 64 = n  BY <2>2
  <2>4. Word(timer + timer2) = n  BY <2>1, <2>2, <2>3 DEF Word
  <2>5. TimeLeft = AdHoc \/ (TimeLeft = n /\ n # 0)  BY <2>4 DEF TimeLeft, FenceAlone
  <2> QED  BY <2>1, <2>2, <2>5
<1>7. MachineInv'
  BY <1>1, <1>2, <1>6 DEF MachineInv, signals, Results
<1>8. /\ Splits(todo', ToCheck, << >>) /\ << >> # ToTime /\ Noted'
      /\ Len(frames') + Cost(ToCheck) + Cost(<< >>) <= MaxFrames
  <2>1. Splits(todo', ToCheck, << >>) /\ << >> # ToTime /\ Noted'
    BY <1>2, <1>5, Left DEF signals, ToTime, Noted
  <2>2. MaxFrames \in Nat /\ Cost(ToCheck) = 1 /\ Cost(<< >>) = 0  BY Numbers, Costs
  <2> QED  BY <1>2, <1>5, <2>1, <2>2
<1>9. TodoInv'  BY <1>8, TodoIf
<1> QED  BY <1>4, <1>7, <1>9 DEF FenceInv

(* Statements of the millicode.                                            *)
LEMMA StatementFacts ==
  ASSUME FenceInv, InterruptsAssumption, NEW x, NEW rest, Takes(todo, x, rest)
  PROVE  /\ MachineInv /\ InLoop /\ StackInv /\ Len(frames) \in Nat
         /\ \E p, r : /\ Splits(todo, p, r) /\ Awaited(p) /\ (enabled /\ r = ToTime => timer = 0)
                      /\ Len(frames) + Cost(p) + Cost(r) <= MaxFrames
<1>1. MachineInv /\ TodoInv /\ StackInv  BY DEF FenceInv
<1>2. todo # << >>  BY DEF Takes
<1>3. InLoop  BY <1>1, <1>2, InLoopFacts
<1>4. Len(frames) \in Nat  BY <1>1, LenProperties DEF MachineInv
<1> QED  BY <1>1, <1>3, <1>4 DEF TodoInv

LEMMA CheckKeeps ==
  ASSUME InterruptsAssumption, FenceInv, Check
  PROVE  FenceInv'
<1>1. PICK rest : rest = Tail(todo)  OBVIOUS
<1>2. Takes(todo, "check", rest) /\ UNCHANGED <<timers, signals, machine, k, cside, ghosts>>
  BY <1>1 DEF Check, Takes
<1>3. MachineInv /\ InLoop /\ StackInv /\ Len(frames) \in Nat  BY <1>2, StatementFacts
<1>4. PICK p, r : /\ Splits(todo, p, r) /\ Awaited(p) /\ (enabled /\ r = ToTime => timer = 0)
                  /\ Len(frames) + Cost(p) + Cost(r) <= MaxFrames
  BY <1>2, StatementFacts
<1>5. /\ rest \in Rests /\ p # AfterClear
      /\ \/ p = ToCheck /\ rest = r
         \/ p = << >> /\ r = ToCheck /\ rest = << >>
  BY <1>2, <1>4, Taken
<1>6. PICK q \in Fronts : todo' = q \o rest /\ (q # ToClear \/ sigint # 1)
  BY <1>1, Left DEF Check, ToClear, ToFault
<1>7. Splits(todo', q, rest)  BY <1>5, <1>6, Left
<1>8. Len(frames') + Cost(q) + Cost(rest) <= MaxFrames
  <2>1. Cost(p) + Cost(r) = 1 + Cost(rest)  BY <1>5, Costs
  <2>2. Cost(q) \in {0, 1} /\ Cost(rest) \in {0, 1} /\ Cost(p) \in {0, 1} /\ Cost(r) \in {0, 1}
    BY Costs
  <2>3. MaxFrames \in Nat /\ frames' = frames  BY <1>2, Numbers DEF machine
  <2> QED  BY <1>3, <1>4, <2>1, <2>2, <2>3
<1>9. << >> # ToTime /\ (enabled' /\ rest = ToTime => timer' = 0) /\ Awaited(q)'
  <2>1. Noted  BY <1>4, <1>5, Left DEF Awaited, Noted
  <2>2. Awaited(q)'  BY <1>2, <1>6, <2>1 DEF signals, ghosts, Awaited, Noted
  <2> QED  BY <1>2, <1>4, <1>5, <2>2 DEF ToTime, timers
<1>10. TodoInv'  BY <1>7, <1>8, <1>9, TodoIf
<1>11. MachineInv'
  BY <1>2, <1>3 DEF MachineInv, timers, signals, machine, ghosts
<1>12. StackInv'  BY <1>2, <1>3, StackStays
<1> QED  BY <1>10, <1>11, <1>12 DEF FenceInv

LEMMA ClearsKeep ==
  ASSUME InterruptsAssumption, FenceInv, ClearSigint \/ ClearSignal
  PROVE  FenceInv'
<1>1. PICK rest : rest = Tail(todo)  OBVIOUS
<1>2. PICK x \in {"clearSigint", "clearSignal"} :
        /\ Takes(todo, x, rest) /\ todo' = rest /\ UNCHANGED <<timers, fpe, machine, k, cside, ghosts>>
        /\ \/ x = "clearSigint" /\ sigint' = 0 /\ UNCHANGED signal
           \/ x = "clearSignal" /\ signal' = 0 /\ UNCHANGED sigint
  BY <1>1 DEF ClearSigint, ClearSignal, Takes
<1>3. MachineInv /\ InLoop /\ StackInv /\ Len(frames) \in Nat  BY <1>2, StatementFacts
<1>4. PICK p, r : /\ Splits(todo, p, r) /\ Awaited(p) /\ (enabled /\ r = ToTime => timer = 0)
                  /\ Len(frames) + Cost(p) + Cost(r) <= MaxFrames
  BY <1>2, StatementFacts
<1>5. PICK q : /\ Splits(todo', q, r) /\ Cost(q) = Cost(p)
               /\ (x = "clearSigint" => q = AfterClear)
               /\ (x = "clearSignal" => p = ToClear)
  <2>1. CASE x = "clearSigint"
    <3>1. p = SeenInterrupt /\ Splits(rest, AfterClear, r)  BY <1>2, <1>4, <2>1, Taken
    <3> QED  BY <1>2, <2>1, <3>1, Costs
  <2>2. CASE x = "clearSignal"
    <3>1. p = ToClear /\ Splits(rest, << >>, r)  BY <1>2, <1>4, <2>2, Taken
    <3>2. Cost(ToClear) = Cost(<< >>)  BY Costs
    <3> QED  BY <1>2, <2>2, <3>1, <3>2, Left
  <2> QED  BY <2>1, <2>2
<1>6. /\ (enabled' /\ r = ToTime => timer' = 0)
      /\ Awaited(q)'
      /\ Len(frames') + Cost(q) + Cost(r) <= MaxFrames
  BY <1>2, <1>4, <1>5, Left DEF timers, machine, ghosts, Awaited
<1>7. TodoInv'  BY <1>5, <1>6, TodoIf
<1>8. MachineInv'
  BY <1>2, <1>3 DEF MachineInv, timers, machine, ghosts
<1>9. StackInv'  BY <1>2, <1>3, StackStays
<1> QED  BY <1>7, <1>8, <1>9 DEF FenceInv

(* Calls of a handler from the middle of check_signals.                    *)
LEMMA CallsKeep ==
  ASSUME InterruptsAssumption, FenceAlone, FenceInv, CallKeyboardHandler \/ CallFpeHandler
  PROVE  FenceInv'
<1>1. PICK rest : rest = Tail(todo)  OBVIOUS
<1>2. PICK x \in {"call", "fpe"} :
        /\ Takes(todo, x, rest) /\ Callout /\ UNCHANGED <<timers, signal, sigint, k, cside, left, returned>>
        /\ fpe' \in {0, fpe}
        /\ \/ x = "call" /\ owed' = "none"
           \/ x = "fpe" /\ owed' = owed
  BY <1>1 DEF CallKeyboardHandler, CallFpeHandler, Takes, signals, ghosts
<1>3. MachineInv /\ InLoop /\ StackInv /\ Len(frames) \in Nat  BY <1>2, StatementFacts
<1>4. PICK p, r : /\ Splits(todo, p, r) /\ Awaited(p) /\ (enabled /\ r = ToTime => timer = 0)
                  /\ Len(frames) + Cost(p) + Cost(r) <= MaxFrames
  BY <1>2, StatementFacts
<1>5. /\ frames' \in Seq(GoodFrames) /\ Len(frames') = Len(frames) + 1
      /\ control' \in Places /\ result' \in Results /\ todo' = rest
  BY <1>1, <1>2, <1>3, CalloutFacts
<1>6. PICK q : /\ Splits(todo', q, r) /\ Cost(q) = 0 /\ Cost(p) = 1
               /\ Awaited(q)'
  <2>1. CASE x = "call"
    <3>1. p = AfterClear /\ Splits(rest, ToClear, r)  BY <1>2, <1>4, <2>1, Taken
    <3> QED  BY <1>2, <1>5, <2>1, <3>1, Costs DEF Awaited, Fates
  <2>2. CASE x = "fpe"
    <3>1. p = ToFault /\ Splits(rest, << >>, r)  BY <1>2, <1>4, <2>2, Taken
    <3>2. Awaited(<< >>)'  BY <1>2, <1>4, <2>2, <3>1, Left DEF Awaited
    <3> QED  BY <1>2, <1>5, <2>2, <3>1, <3>2, Costs
  <2> QED  BY <2>1, <2>2
<1>7. (enabled' /\ r = ToTime => timer' = 0) /\ Len(frames') + Cost(q) + Cost(r) <= MaxFrames
  <2>1. UNCHANGED <<enabled, timer>>  BY <1>2 DEF timers
  <2>2. Cost(r) \in {0, 1} /\ MaxFrames \in Nat  BY Costs, Numbers
  <2> QED  BY <1>3, <1>4, <1>5, <1>6, <2>1, <2>2
<1>8. TodoInv'  BY <1>6, <1>7, TodoIf
<1>9. MachineInv'
  <2>1. signal' \in {0, 1} /\ sigint' \in {0, 1} /\ fpe' \in {0, 1}  BY <1>2, <1>3 DEF MachineInv
  <2> QED  BY <1>2, <1>3, <1>5, <2>1, MachineStays
<1>10. StackInv'  BY <1>2, <1>3, StackStays
<1> QED  BY <1>8, <1>9, <1>10 DEF FenceInv

LEMMA TimerKeeps ==
  ASSUME InterruptsAssumption, FenceAlone, FenceInv, TimerException
  PROVE  FenceInv'
<1>1. PICK rest : rest = Tail(todo)  OBVIOUS
<1>2. /\ Takes(todo, "timer", rest) /\ UNCHANGED <<signals, k, cside, ghosts>>
      /\ \/ ~enabled /\ timer' = Fuel /\ todo' = rest /\ UNCHANGED <<timer2, enabled, machine>>
         \/ enabled /\ timer2 # 0 /\ SetTimer(timer2) /\ todo' = <<"check">> \o rest
            /\ UNCHANGED <<enabled, machine>>
         \/ enabled /\ enabled' = FALSE /\ Callout /\ UNCHANGED <<timer, timer2>>
  BY <1>1 DEF TimerException, Takes
<1>3. MachineInv /\ InLoop /\ StackInv /\ Len(frames) \in Nat  BY <1>2, StatementFacts
<1>4. PICK p, r : /\ Splits(todo, p, r) /\ Awaited(p) /\ (enabled /\ r = ToTime => timer = 0)
                  /\ Len(frames) + Cost(p) + Cost(r) <= MaxFrames
  BY <1>2, StatementFacts
<1>5. p = << >> /\ r = ToTime /\ rest = << >>  BY <1>2, <1>4, Taken
<1>6. Noted'  BY <1>2, <1>4, <1>5, Left DEF Awaited, Noted, signals, ghosts
<1>7. MaxFrames \in Nat /\ Len(frames) + 1 <= MaxFrames  BY <1>3, <1>4, <1>5, Numbers, Costs
<1>8. StackInv'  BY <1>2, <1>3, StackStays
<1>9. UNCHANGED <<signal, sigint, fpe, left, returned>>  BY <1>2 DEF signals, ghosts
<1>10. CASE ~enabled /\ timer' = Fuel /\ todo' = rest /\ UNCHANGED <<timer2, enabled, machine>>
  <2>1. Fuel \in 0 .. WordSize - 1 /\ UNCHANGED <<control, result, frames>>
    BY <1>10, Numbers DEF machine
  <2>2. MachineInv'  BY <1>3, <1>9, <1>10, <2>1 DEF MachineInv
  <2>3. Splits(todo', << >>, << >>) /\ ~enabled'  BY <1>5, <1>10, Left
  <2>4. Len(frames') + Cost(<< >>) + Cost(<< >>) <= MaxFrames  BY <1>3, <1>7, <2>1, Costs
  <2>5. TodoInv'  BY <1>6, <2>3, <2>4, TodoIf
  <2> QED  BY <1>8, <2>2, <2>5 DEF FenceInv
<1>11. CASE enabled /\ timer2 # 0 /\ SetTimer(timer2) /\ todo' = <<"check">> \o rest
            /\ UNCHANGED <<enabled, machine>>
  <2>1. timer2 \in Nat /\ timer2 <= MaxTime /\ left = timer2
    BY <1>3, <1>4, <1>5, <1>11, Numbers DEF MachineInv
  <2>2. timer' \in 0 .. WordSize - 1 /\ timer2' \in 0 .. MaxTime /\ timer' + timer2' = left
    BY <1>11, <2>1, SetTimerFacts
  <2>3. UNCHANGED <<control, result, frames>>  BY <1>11 DEF machine
  <2>4. MachineInv'  BY <1>3, <1>9, <1>11, <2>2, <2>3 DEF MachineInv
  <2>5. Splits(todo', ToCheck, << >>) /\ << >> # ToTime
    <3>1. todo' = ToCheck \o << >> /\ ToCheck \in Fronts /\ << >> \in Rests
      BY <1>5, <1>11, Left DEF ToCheck
    <3> QED  BY <3>1 DEF Splits, ToTime
  <2>6. Len(frames') + Cost(ToCheck) + Cost(<< >>) <= MaxFrames  BY <1>3, <1>7, <2>3, Costs
  <2>7. TodoInv'  BY <1>6, <2>5, <2>6, TodoIf
  <2> QED  BY <1>8, <2>4, <2>7 DEF FenceInv
<1>12. CASE enabled /\ enabled' = FALSE /\ Callout /\ UNCHANGED <<timer, timer2>>
  <2>1. /\ frames' \in Seq(GoodFrames) /\ Len(frames') = Len(frames) + 1
        /\ control' \in Places /\ result' \in Results /\ todo' = << >>
    BY <1>1, <1>3, <1>5, <1>12, CalloutFacts
  <2>2. MachineInv'  BY <1>3, <1>9, <1>12, <2>1 DEF MachineInv
  <2>3. Splits(todo', << >>, << >>) /\ ~enabled'  BY <1>12, <2>1, Left
  <2>4. Len(frames') + Cost(<< >>) + Cost(<< >>) <= MaxFrames  BY <1>3, <1>7, <2>1, Costs
  <2>5. TodoInv'  BY <1>6, <2>3, <2>4, TodoIf
  <2> QED  BY <1>8, <2>2, <2>5 DEF FenceInv
<1> QED  BY <1>2, <1>10, <1>11, <1>12

(* Compiled code, and the return of a handler to it.                       *)
LEMMA SchemeKeeps ==
  ASSUME InterruptsAssumption, FenceInv, HandlerReturns \/ Compute
  PROVE  FenceInv'
<1>1. MachineInv /\ TodoInv /\ StackInv  BY DEF FenceInv
<1>2. InScheme /\ UNCHANGED <<timers, signals, todo, k, cside, ghosts>>
  BY DEF HandlerReturns, Compute
<1>3. InLoop /\ todo = << >>  BY <1>1, <1>2, InLoopFacts
<1>4. StackInv'  BY <1>1, <1>2, <1>3, StackStays
<1>5. Noted /\ Len(frames) \in Nat /\ Len(frames) <= MaxFrames
  BY <1>1, <1>3, TodoNow
<1>6. control' \in Places /\ result' \in Results /\ frames' \in Seq(GoodFrames) /\ Len(frames') <= Len(frames)
  <2>1. CASE HandlerReturns
    <3>1. frames \in Seq(GoodFrames) /\ frames # << >>  BY <1>1, <2>1 DEF MachineInv, HandlerReturns
    <3>2. Head(frames) \in GoodFrames /\ Tail(frames) \in Seq(GoodFrames) /\ Len(Tail(frames)) = Len(frames) - 1
      BY <3>1, HeadTailProperties
    <3>3. PICK f \in GoodFrames : f = Head(frames)  BY <3>2
    <3>4. control' = <<f.proc, f.k>> /\ result' = f.result /\ frames' = Tail(frames)
      BY <2>1, <3>3 DEF HandlerReturns
    <3>5. <<f.proc, f.k>> \in Places /\ f.result \in Results  BY <3>3 DEF GoodFrames, Places
    <3> QED  BY <1>5, <3>2, <3>4, <3>5
  <2>2. CASE Compute
    <3>1. control' \in Controls /\ result' \in Results /\ frames' = frames
      BY <2>2 DEF Compute, Results
    <3>2. Controls \subseteq Places  BY DEF Controls, Places
    <3> QED  BY <1>1, <1>5, <3>1, <3>2 DEF MachineInv
  <2> QED  BY <2>1, <2>2
<1>7. MachineInv'
  <2>1. signal' \in {0, 1} /\ sigint' \in {0, 1} /\ fpe' \in {0, 1}  BY <1>1, <1>2 DEF MachineInv, signals
  <2> QED  BY <1>1, <1>2, <1>6, <2>1, MachineStays DEF ghosts
<1>8. Splits(todo', << >>, << >>) /\ << >> # ToTime /\ Noted'
  BY <1>2, <1>3, <1>5, Left DEF ToTime, signals, ghosts, Noted
<1>9. Len(frames') + Cost(<< >>) + Cost(<< >>) <= MaxFrames
  <2>1. Len(frames') \in Nat  BY <1>6, LenProperties
  <2> QED  BY <1>5, <1>6, <2>1, Numbers, Costs
<1>10. TodoInv'  BY <1>8, <1>9, TodoIf
<1> QED  BY <1>4, <1>7, <1>10 DEF FenceInv

(* System calls, their return, and what comes in the middle of one.        *)
LEMMA SyscallKeeps ==
  ASSUME InterruptsAssumption, FenceInv, NEW interruptible \in BOOLEAN, Syscall(interruptible)
  PROVE  FenceInv'
<1>1. MachineInv /\ TodoInv /\ StackInv  BY DEF FenceInv
<1>2. /\ InScheme /\ Len(frames) + 2 <= MaxFrames
      /\ UNCHANGED <<timers, signals, machine, todo, k, loop, ghosts>>
  BY DEF Syscall, MayCall
<1>3. InLoop /\ todo = << >> /\ Len(cstack) = 1 /\ loop = 1  BY <1>1, <1>2, InLoopFacts
<1>4. Noted /\ Len(frames) \in Nat /\ Len(frames) <= MaxFrames
  BY <1>1, <1>3, TodoNow
<1>5. StackInv'
  <2>1. PICK kind : kind = IF interruptible THEN "interruptible" ELSE "syscall"  OBVIOUS
  <2>2. PICK x : x = [kind |-> kind, at |-> control]  OBVIOUS
  <2>3. cstack' = <<x>> \o <<Base>>  BY <1>3, <2>1, <2>2 DEF Syscall, InLoop
  <2>4. <<x>> \o <<Base>> = <<x, Base>>
    <3>1. PICK b : b = Base  OBVIOUS
    <3>2. PICK c, d : c = <<x>> /\ d = <<b>>  OBVIOUS
    <3>3. PICK e, f : e = c \o d /\ f = <<x, b>>  OBVIOUS
    <3>4. /\ c \in Seq({x, b}) /\ Len(c) = 1 /\ c[1] = x
          /\ d \in Seq({x, b}) /\ Len(d) = 1 /\ d[1] = b
          /\ f \in Seq({x, b}) /\ Len(f) = 2 /\ f[1] = x /\ f[2] = b
      BY <3>2, <3>3
    <3>5. /\ c \o d \in Seq({x, b}) /\ Len(c \o d) = 2
          /\ \A i \in 1 .. 2 : (c \o d)[i] = IF i <= 1 THEN c[i] ELSE d[i - 1]
      <4>1. /\ c \o d \in Seq({x, b}) /\ Len(c \o d) = Len(c) + Len(d)
            /\ \A i \in 1 .. Len(c) + Len(d) :
                 (c \o d)[i] = IF i <= Len(c) THEN c[i] ELSE d[i - Len(c)]
        <5>1. PICK S : S = {x, b}  OBVIOUS
        <5>2. c \in Seq(S) /\ d \in Seq(S)  BY <3>4, <5>1
        <5> QED  BY <5>1, <5>2, ConcatProperties
      <4> QED  BY <3>4, <4>1
    <3>6. e \in Seq({x, b}) /\ Len(e) = 2 /\ e[1] = x /\ e[2] = b  BY <3>3, <3>4, <3>5
    <3>7. e = f
      <4>1. \A i \in 1 .. Len(e) : e[i] = f[i]  BY <3>4, <3>6
      <4> QED  BY <3>4, <3>6, <4>1, SeqEqual
    <3> QED  BY <3>1, <3>2, <3>3, <3>7
  <2>5. cstack' = <<[kind |-> kind, at |-> control], Base>>  BY <2>2, <2>3, <2>4
  <2>6. syscall' = IF kind = "interruptible" THEN [on |-> TRUE, to |-> 1] ELSE NoSyscall
    BY <1>3, <2>1 DEF Syscall, InLoop
  <2>7. control \in Places /\ kind \in {"interruptible", "syscall"}  BY <1>1, <2>1 DEF MachineInv
  <2>8. todo' = << >> /\ Len(frames') < MaxFrames /\ loop' = 1
    BY <1>2, <1>3, <1>4, Numbers DEF machine
  <2> QED  BY <2>5, <2>6, <2>7, <2>8 DEF StackInv
<1>6. MachineInv'
  BY <1>1, <1>2 DEF MachineInv, timers, signals, machine, ghosts
<1>7. Splits(todo', << >>, << >>) /\ << >> # ToTime /\ Noted'
  BY <1>2, <1>3, <1>4, Left DEF ToTime, signals, ghosts, Noted
<1>8. Len(frames') + Cost(<< >>) + Cost(<< >>) <= MaxFrames
  BY <1>2, <1>4, Numbers, Costs DEF machine
<1>9. TodoInv'  BY <1>7, <1>8, TodoIf
<1> QED  BY <1>5, <1>6, <1>9 DEF FenceInv

(* Back in the dispatch loop, where the signals are checked.               *)
LEMMA BackInLoop ==
  ASSUME InterruptsAssumption, FenceInv, UNCHANGED <<timers, frames, loop, left, returned>>,
         signal' \in {0, 1}, sigint' \in {0, 1}, fpe' \in {0, 1}, Noted',
         control' \in Places, result' \in Results,
         cstack' = <<Base>>, syscall' = NoSyscall, todo' = <<"check">>, Len(frames) < MaxFrames
  PROVE  FenceInv'
<1>1. MachineInv /\ StackInv  BY DEF FenceInv
<1>2. frames \in Seq(GoodFrames) /\ Len(frames) \in Nat  BY <1>1, LenProperties DEF MachineInv
<1>3. MachineInv'  BY <1>1, <1>2, MachineStays
<1>4. StackInv'  BY <1>1 DEF StackInv, InLoop
<1>5. Splits(todo', ToCheck, << >>) /\ << >> # ToTime  BY Left DEF ToTime
<1>6. Len(frames') + Cost(ToCheck) + Cost(<< >>) <= MaxFrames  BY <1>2, Numbers, Costs
<1>7. TodoInv'  BY <1>5, <1>6, TodoIf
<1> QED  BY <1>3, <1>4, <1>7 DEF FenceInv

LEMMA SyscallReturnsKeeps ==
  ASSUME InterruptsAssumption, FenceInv, SyscallReturns
  PROVE  FenceInv'
<1>1. MachineInv /\ TodoInv /\ StackInv  BY DEF FenceInv
<1>2. /\ todo = << >> /\ InSyscall /\ UNCHANGED <<timers, signals, frames, loop, ghosts>>
      /\ control' = Head(cstack).at /\ result' = Value /\ cstack' = Tail(cstack)
      /\ syscall' = IF Head(cstack).kind = "interruptible" THEN NoSyscall ELSE syscall
      /\ todo' = <<"check">>
  BY DEF SyscallReturns
<1>3. ~InLoop  BY <1>1, <1>2, InLoopFacts
<1>4. PICK x : /\ x.at \in Places /\ x.kind \in {"interruptible", "syscall"}
               /\ Head(cstack) = x /\ Tail(cstack) = <<Base>>
               /\ syscall = IF x.kind = "interruptible" THEN [on |-> TRUE, to |-> 1] ELSE NoSyscall
               /\ Len(frames) < MaxFrames
  BY <1>1, <1>3, InSyscallFacts
<1>5. control' \in Places /\ cstack' = <<Base>> /\ syscall' = NoSyscall /\ result' \in Results
  BY <1>2, <1>4 DEF Results
<1>6. /\ signal' \in {0, 1} /\ sigint' \in {0, 1} /\ fpe' \in {0, 1}
      /\ Noted' /\ UNCHANGED <<left, returned>>
  BY <1>1, <1>2, TodoNow DEF MachineInv, signals, ghosts, Noted
<1> QED  BY <1>2, <1>4, <1>5, <1>6, BackInLoop

LEMMA LeaveSyscallFacts ==
  ASSUME StackInv, syscall.on, LeaveSyscall
  PROVE  /\ control' \in Places /\ result' \in Results /\ cstack' = <<Base>> /\ syscall' = NoSyscall
         /\ todo' = <<"check">> /\ Len(frames) < MaxFrames /\ UNCHANGED <<frames, loop>>
<1>1. ~InLoop  BY InLoopFacts
<1>2. PICK x : /\ x.at \in Places /\ x.kind \in {"interruptible", "syscall"}
               /\ Len(cstack) = 2 /\ cstack[1] = x /\ SubSeq(cstack, 2, 2) = <<Base>>
               /\ syscall = IF x.kind = "interruptible" THEN [on |-> TRUE, to |-> 1] ELSE NoSyscall
               /\ Len(frames) < MaxFrames
  BY <1>1, InSyscallFacts
<1>3. syscall.to = 1  BY <1>2 DEF NoSyscall
<1>4. Len(cstack) - syscall.to = 1 /\ 1 + 1 = 2 BY <1>2, <1>3
<1>5. cstack' = SubSeq(cstack, 2, Len(cstack)) /\ control' = cstack[1].at
  BY <1>4 DEF LeaveSyscall
<1> QED  BY <1>2, <1>5 DEF LeaveSyscall, Results

LEMMA SignalsKeep ==
  ASSUME InterruptsAssumption, FenceInv, Interrupt \/ Fault
  PROVE  FenceInv'
<1>1. MachineInv /\ TodoInv /\ StackInv  BY DEF FenceInv
<1>2. /\ IF syscall.on THEN LeaveSyscall ELSE UNCHANGED <<machine, todo, k, cside>>
      /\ UNCHANGED <<timers, left, returned>>
  BY DEF Interrupt, Fault, ghosts
<1>3. \/ /\ sigint' = 1 /\ signal' = 1 /\ fpe' = fpe
         /\ owed' = IF Closing(todo') THEN "missed" ELSE "due"
      \/ UNCHANGED <<owed, sigint, signal>> /\ fpe' = 1 /\ todo = << >>
  BY DEF Interrupt, Recorded, Fault, ghosts
<1>4. signal' \in {0, 1} /\ sigint' \in {0, 1} /\ fpe' \in {0, 1}  BY <1>1, <1>3 DEF MachineInv
<1>5. Noted'
  <2>1. CASE sigint' = 1 /\ signal' = 1 /\ owed' \in {"missed", "due"}  BY <2>1 DEF Noted, Fates
  <2>2. CASE UNCHANGED <<owed, sigint, signal>> /\ todo = << >>
    <3>1. Noted  BY <1>1, <2>2, TodoNow
    <3> QED  BY <2>2, <3>1 DEF Noted
  <2> QED  BY <1>3, <2>1, <2>2
<1>6. CASE syscall.on
  <2>1. /\ control' \in Places /\ result' \in Results /\ cstack' = <<Base>> /\ syscall' = NoSyscall
        /\ todo' = <<"check">> /\ Len(frames) < MaxFrames /\ UNCHANGED <<frames, loop>>
    BY <1>1, <1>2, <1>6, LeaveSyscallFacts
  <2> QED  BY <1>2, <1>4, <1>5, <2>1, BackInLoop
<1>7. CASE ~syscall.on
  <2>1. UNCHANGED <<control, result, frames, todo, cstack, syscall, loop, enabled, timer>>
    BY <1>2, <1>7 DEF machine, cside, timers
  <2>2. StackInv'  BY <1>1, <2>1 DEF StackInv, InLoop
  <2>3. MachineInv'  BY <1>1, <1>2, <1>4, <2>1, MachineStays DEF MachineInv
  <2>4. PICK p \in Fronts, r \in Rests :
          /\ Splits(todo, p, r) /\ (enabled /\ r = ToTime => timer = 0)
          /\ Len(frames) + Cost(p) + Cost(r) <= MaxFrames
    BY <1>1 DEF TodoInv
  <2>5. Awaited(p)'
    <3>1. Closing(todo') <=> p = ToClear  BY <2>1, <2>4, ClosingIs
    <3>2. todo = << >> => p # ToClear  BY <2>4, NothingToDo, Left
    <3> QED  BY <1>3, <1>5, <3>1, <3>2 DEF Noted, Awaited
  <2>6. TodoInv'  BY <2>1, <2>4, <2>5, TodoIf
  <2> QED  BY <2>2, <2>3, <2>6 DEF FenceInv
<1> QED  BY <1>6, <1>7

LEMMA FenceInit ==
  ASSUME InterruptsAssumption, Init
  PROVE  FenceInv
<1>1. MachineInv
  <2>1. timer \in 0 .. WordSize - 1 /\ timer2 \in 0 .. MaxTime /\ timer + timer2 = left /\ left = MaxTime
    BY Numbers DEF Init
  <2>2. frames \in Seq(GoodFrames) /\ control \in Places /\ result \in Results
    BY DEF Init, Places, Results
  <2> QED  BY <2>1, <2>2, Numbers DEF MachineInv, Init
<1>2. StackInv  BY DEF StackInv, InLoop, Base, Init
<1>3. TodoInv
  <2>1. Splits(todo, << >>, << >>) /\ << >> \in Fronts /\ << >> \in Rests  BY Left DEF Init
  <2>2. owed = "none" /\ << >> # ToTime  BY DEF Init, ToTime
  <2>3. Len(frames) = 0  BY DEF Init
  <2>4. Len(frames) + Cost(<< >>) + Cost(<< >>) <= MaxFrames  BY <2>3, Numbers, Costs
  <2> QED  BY <2>1, <2>2, <2>4 DEF TodoInv, Awaited, Fates
<1> QED  BY <1>1, <1>2, <1>3 DEF FenceInv

LEMMA FenceNext ==
  ASSUME InterruptsAssumption, FenceAlone, FenceInv, [Next]_vars
  PROVE  FenceInv'
<1>1. CASE UNCHANGED vars
  BY <1>1 DEF vars, FenceInv, MachineInv, TodoInv, StackInv, InLoop, Awaited
<1>2. CASE Callback  BY <1>2 DEF Callback, FenceAlone
<1>3. CASE CallbackReturns
  <2>1. InScheme /\ Len(cstack) > 1  BY <1>3 DEF CallbackReturns
  <2>2. StackInv  BY DEF FenceInv
  <2>3. Len(cstack) = 1  BY <2>1, <2>2, InLoopFacts
  <2> QED  BY <2>1, <2>3
<1> QED  BY <1>1, <1>2, <1>3, TickKeeps, EnableKeeps, DisableKeeps, CheckKeeps, ClearsKeep,
            CallsKeep, TimerKeeps, SchemeKeeps, SyscallKeeps, SyscallReturnsKeeps, SignalsKeep
         DEF Next

LEMMA FenceShows ==
  ASSUME InterruptsAssumption, FenceInv
  PROVE  InterruptsSound
<1>1. MachineInv /\ TodoInv /\ StackInv  BY DEF FenceInv
<1>2. InterruptKept
  BY <1>1, KeptShows DEF TodoInv, KeptInv
<1>3. ResumesWhereInterrupted
  <2>1. ASSUME NEW i \in DOMAIN frames
        PROVE  <<frames[i].proc, frames[i].k>> = frames[i].was /\ frames[i].result = frames[i].value
    <3>1. frames[i] \in GoodFrames  BY <1>1, ElementOfSeq, LenProperties DEF MachineInv
    <3> QED  BY <3>1 DEF GoodFrames
  <2> QED  BY <2>1 DEF ResumesWhereInterrupted
<1>4. TimerExact /\ ReturnedCanBeEnabled  BY <1>1 DEF MachineInv, TimerExact, ReturnedCanBeEnabled
<1>5. InterruptsTypeOK
  <2>1. control[1] \in {User, Handler}  BY <1>1 DEF MachineInv, Places
  <2>2. Len(frames) <= MaxFrames
    <3>1. PICK p, r : Len(frames) + Cost(p) + Cost(r) <= MaxFrames  BY <1>1 DEF TodoInv
    <3>2. Cost(p) \in {0, 1} /\ Cost(r) \in {0, 1}  BY Costs
    <3>3. Len(frames) \in Nat  BY <1>1, LenProperties DEF MachineInv
    <3> QED  BY <3>1, <3>2, <3>3, Numbers
  <2>3. syscall.on \in BOOLEAN
    <3>1. syscall = NoSyscall \/ syscall = [on |-> TRUE, to |-> 1]  BY <1>1 DEF StackInv, InLoop
    <3>2. NoSyscall.on = FALSE /\ [on |-> TRUE, to |-> 1].on = TRUE  BY DEF NoSyscall
    <3>3. syscall.on = FALSE \/ syscall.on = TRUE  BY <3>1, <3>2, Zenon
    <3> QED  BY <3>3, Zenon
  <2>4. owed \in {"none", "due", "missed"}  BY <1>1 DEF TodoInv, Awaited, Fates
  <2> QED  BY <1>1, <2>1, <2>2, <2>3, <2>4 DEF MachineInv, InterruptsTypeOK, Results
<1>6. JumpTargetsLive
  <2>1. CASE InLoop
    <3>1. loop = 1 /\ cstack = <<Base>> /\ Len(cstack) = 1 /\ ~syscall.on  BY <1>1, <2>1, InLoopFacts DEF InLoop
    <3>2. Len(cstack) - loop + 1 = 1 /\ loop <= Len(cstack)  BY <3>1
    <3>3. cstack[1] = Base  BY <3>1
    <3>4. cstack[Len(cstack) - loop + 1].kind = "loop"  BY <3>2, <3>3 DEF Base
    <3> QED  BY <3>1, <3>2, <3>4 DEF JumpTargetsLive
  <2>2. CASE ~InLoop
    <3>1. PICK x : /\ x.kind \in {"interruptible", "syscall"}
                   /\ Len(cstack) = 2 /\ cstack[1] = x /\ cstack[2] = Base
                   /\ syscall = IF x.kind = "interruptible" THEN [on |-> TRUE, to |-> 1] ELSE NoSyscall
      BY <1>1, <2>2, InSyscallFacts
    <3>2. loop = 1  BY <1>1 DEF StackInv
    <3>3. loop <= Len(cstack) /\ Len(cstack) - loop + 1 = 2  BY <3>1, <3>2
    <3>4. cstack[Len(cstack) - loop + 1].kind = "loop"  BY <3>1, <3>3 DEF Base
    <3>5. syscall.on => syscall.to = 1 /\ cstack[1].kind = "interruptible"  BY <3>1 DEF NoSyscall
    <3>6. syscall.on => syscall.to < Len(cstack) /\ Len(cstack) - syscall.to = 1  BY <3>1, <3>5
    <3> QED  BY <3>3, <3>4, <3>5, <3>6 DEF JumpTargetsLive
  <2> QED  BY <2>1, <2>2
<1> QED  BY <1>2, <1>3, <1>4, <1>5, <1>6 DEF InterruptsSound

(* Fence, while no foreign procedure calls Scheme: an interrupt that does  *)
(* not come in the window of check_signals stays due, code resumes with    *)
(* what it was interrupted with, the timer counts what it was given, and a *)
(* longjmp has its target, whatever the times, the steps of the timer and  *)
(* the bounds are.                                                         *)
THEOREM FenceIsSound ==
  ASSUME InterruptsAssumption, FenceAlone
  PROVE  Spec => []InterruptsSound
<1>1. Init => FenceInv  BY FenceInit
<1>2. FenceInv /\ [Next]_vars => FenceInv'  BY FenceNext
<1>3. FenceInv => InterruptsSound  BY FenceShows
<1> QED  BY <1>1, <1>2, <1>3, PTL DEF Spec
=============================================================================
