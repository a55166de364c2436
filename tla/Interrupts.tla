------------------------------ MODULE Interrupts ------------------------------
(***************************************************************************)
(* Timer interrupts, keyboard interrupts and the callouts from millicode   *)
(* to Scheme: timer_exception, enable- and disable_interrupts,             *)
(* check_signals and mc_scheme_callout of the three C millicodes           *)
(* (IAssassin, the native system for x86; Fence, the one for ARM; and      *)
(* Standard-C, the portable one), with the signal handler of Sys/signals.c *)
(* and the interruptible system calls of Sys/syscall.c.                    *)
(***************************************************************************)
EXTENDS Integers, Sequences, FiniteSets, SequencesExt

CONSTANTS Platform,        \* "native", "fence" or "petit"
          Callbacks,       \* whether foreign procedures call Scheme
          MaxTime,         \* bound: the argument of enable-interrupts
          MaxFrames, MaxDepth, \* bounds: frames of callouts, depth of C's stack
          TimerStep, Fuel, \* TIMER_STEP, TEMPORARY_FUEL
          AdHoc            \* the 50000 of Fence's mc_disable_interrupts
WordSize == 64   \* words wrap around
InterruptsAssumption ==
  /\ Platform \in {"native", "fence", "petit"} /\ Callbacks \in BOOLEAN
  /\ {MaxTime, TimerStep, Fuel, AdHoc} \subseteq 1 .. WordSize - 1 /\ AdHoc <= MaxTime
  /\ {MaxFrames, MaxDepth} \subseteq Nat \ {0}

VARIABLES timer, timer2, enabled, \* G_TIMER, G_TIMER2, G_TIMER_ENABLE
          signal, sigint, fpe,    \* G_SIGNAL, G_SIGINT, G_FPE_CODE
          control,  \* REG0 and G_RETADDR, the point of its code to go on at
          result,   \* RESULT
          frames,   \* the callout frames on the Scheme stack, newest first
          todo, k,  \* what the millicode still has to do; its argument
          cstack,   \* C's stack: dispatch loops and system calls, newest first
          syscall,  \* in_interruptible_syscall, and the depth of cstack that
                    \* syscall_interrupt_buf returns to
          loop,     \* the depth of cstack that dispatch_jump_buffer returns to
          owed,     \* history: what becomes of the interrupts that came since
                    \* the keyboard handler was called: "none" came, they are
                    \* "due", or the last one is "missed"
          left,     \* history: what is left of the time given to enable-interrupts
          returned  \* history: the last value of disable-interrupts (at first, the slice)
vars == <<timer, timer2, enabled, signal, sigint, fpe, control, result, frames,
          todo, k, cstack, syscall, loop, owed, left, returned>>
timers == <<timer, timer2, enabled>>
signals == <<signal, sigint, fpe>>
machine == <<control, result, frames>>
cside == <<cstack, syscall, loop>>
ghosts == <<owed, left, returned>>

User == "user"  Handler == "handler"
Undefined == 0  Value == 1  Argc == 4
Controls == {<<User, 1>>, <<User, 2>>, <<Handler, 0>>, <<Handler, 9>>}
Word(n) == n % WordSize
NoSyscall == [on |-> FALSE, to |-> 0]
InScheme == todo = <<>> /\ Head(cstack).kind = "loop"
(* what one call of the millicode may push must not pass the bound         *)
MayCall == InScheme /\ Len(frames) + 2 <= MaxFrames

-----------------------------------------------------------------------------
(* mc_scheme_callout.  The frame keeps the registers and the argument k    *)
(* (Fence: the return address as it is); the portable millicode leaves by  *)
(* longjmp, the others set the return address to the start of the handler  *)
(* and return.  Broken variant: RESULT is saved too late.                 *)
SavedPoint == IF Platform = "fence" THEN control[2] ELSE k
SavesArgc == Argc
SavedResult == result
CalloutFrame(point, value) ==
  [proc |-> control[1], k |-> point, result |-> value, was |-> control, value |-> result]
Callout ==
  /\ frames' = <<CalloutFrame(SavedPoint, SavedResult)>> \o frames
  /\ control' = <<Handler, 0>> /\ result' = Argc
  /\ todo' = IF Platform = "petit" THEN <<>> ELSE Tail(todo)

(* The millicode is called with the return address of compiled code.       *)
Enter(statements) == todo' = statements /\ k' = control[2]
Spent == left' = IF enabled THEN left - 1 ELSE left
(* A tick: the timer is decremented, then tested (Fence: the other way     *)
(* round).                                                                 *)
Tick ==
  /\ MayCall
  /\ IF Platform = "fence"
     THEN IF timer = 0 THEN UNCHANGED <<timer, left>> /\ Enter(<<"check", "timer">>)
          ELSE timer' = timer - 1 /\ Spent /\ UNCHANGED <<todo, k>>
     ELSE /\ timer' = Word(timer - 1) /\ Spent
          /\ IF timer' = 0 THEN Enter(<<"check", "timer">>) ELSE UNCHANGED <<todo, k>>
  /\ UNCHANGED <<timer2, enabled, signals, machine, cside, owed, returned>>
(* setup_timer, without its check of the signals.  Broken variants: the    *)
(* second timer keeps the whole time; what is left is subtracted from.     *)
KeepsWhole(n) == IF n <= TimerStep THEN timer' = n /\ timer2' = 0
                 ELSE timer' = TimerStep /\ timer2' = n
SubtractsBackwards(n) == IF n <= TimerStep THEN timer' = n /\ timer2' = 0
                         ELSE timer' = TimerStep /\ timer2' = TimerStep - n
SetTimer(n) == IF n <= TimerStep THEN timer' = n /\ timer2' = 0
               ELSE timer' = TimerStep /\ timer2' = n - TimerStep
(* mc_enable_interrupts *)
Enable(n) ==
  /\ MayCall /\ enabled' = TRUE /\ SetTimer(n) /\ left' = n
  /\ Enter(<<"check", "check">>)
  /\ UNCHANGED <<signals, machine, cside, owed, returned>>
(* mc_disable_interrupts.  Fence replaces a value that is not positive.    *)
(* Broken variant: the tick under way is not counted.                      *)
TickNotCounted == Word(timer + timer2 - 1)
TimeLeft == LET sum == Word(timer + timer2)
            IN  IF Platform = "fence" /\ sum = 0 THEN AdHoc ELSE sum
Disable ==
  /\ MayCall /\ enabled
  /\ enabled' = FALSE /\ returned' = TimeLeft /\ result' = Value
  /\ Enter(<<"check">>)
  /\ UNCHANGED <<timer, timer2, signals, control, frames, cside, owed, left>>

(* check_signals: the flags are read, then cleared one after the other.    *)
(* Broken variant: the handler is not called.                              *)
CheckedBackwards == <<"clearSignal", "clearSigint">>
SeenInterrupt == <<"clearSigint", "call", "clearSignal">>
Check ==
  /\ todo # <<>> /\ Head(todo) = "check"
  /\ todo' = (IF signal = 1 THEN IF sigint = 1 THEN SeenInterrupt ELSE <<"clearSignal">>
              ELSE IF fpe = 1 THEN <<"fpe">> ELSE <<>>) \o Tail(todo)
  /\ UNCHANGED <<timers, signals, machine, k, cside, ghosts>>
ClearSigint ==
  /\ todo # <<>> /\ Head(todo) = "clearSigint"
  /\ sigint' = 0 /\ todo' = Tail(todo)
  /\ UNCHANGED <<timers, signal, fpe, machine, k, cside, ghosts>>
CallKeyboardHandler ==
  /\ todo # <<>> /\ Head(todo) = "call"
  /\ Callout /\ owed' = "none"
  /\ UNCHANGED <<timers, signals, k, cside, left, returned>>
ClearSignal ==
  /\ todo # <<>> /\ Head(todo) = "clearSignal"
  /\ signal' = 0 /\ todo' = Tail(todo)
  /\ UNCHANGED <<timers, sigint, fpe, machine, k, cside, ghosts>>
CallFpeHandler ==
  /\ todo # <<>> /\ Head(todo) = "fpe"
  /\ fpe' = 0 /\ Callout
  /\ UNCHANGED <<timers, signal, sigint, k, cside, ghosts>>
(* timer_exception, after check_signals and gc_incremental.                *)
TimerException ==
  /\ todo # <<>> /\ Head(todo) = "timer"
  /\ \/ ~enabled /\ timer' = Fuel /\ todo' = Tail(todo) /\ UNCHANGED <<timer2, enabled, machine>>
     \/ enabled /\ timer2 # 0 /\ SetTimer(timer2) /\ todo' = <<"check">> \o Tail(todo)
        /\ UNCHANGED <<enabled, machine>>
     \/ enabled /\ timer2 = 0
        /\ enabled' = FALSE /\ Callout /\ UNCHANGED <<timer, timer2>>
  /\ UNCHANGED <<signals, k, cside, ghosts>>
(* restore_context, when a handler returns.                                *)
HandlerReturns ==
  /\ InScheme /\ control[1] = Handler /\ frames # <<>>
  /\ control' = <<Head(frames).proc, Head(frames).k>> /\ result' = Head(frames).result
  /\ frames' = Tail(frames)
  /\ UNCHANGED <<timers, signals, todo, k, cside, ghosts>>
(* Compiled code goes on. *)
Compute ==
  /\ InScheme
  /\ control' \in {c \in Controls : c[1] = control[1] /\ c[2] # 0}
  /\ result' \in {Undefined, Value}
  /\ UNCHANGED <<timers, signals, frames, todo, k, cside, ghosts>>

-----------------------------------------------------------------------------
(* larceny_syscall and the macros around an interruptible call.            *)
Syscall(interruptible) ==
  /\ MayCall /\ Len(cstack) < MaxDepth
  /\ cstack' = <<[kind |-> IF interruptible THEN "interruptible" ELSE "syscall", at |-> control]>> \o cstack
  /\ syscall' = IF interruptible THEN [on |-> TRUE, to |-> Len(cstack)] ELSE syscall
  /\ UNCHANGED <<timers, signals, machine, todo, k, loop, ghosts>>
InSyscall == Head(cstack).kind # "loop"
SyscallReturns ==
  /\ todo = <<>> /\ InSyscall
  /\ control' = Head(cstack).at /\ result' = Value
  /\ cstack' = Tail(cstack)
  /\ syscall' = IF Head(cstack).kind = "interruptible" THEN NoSyscall ELSE syscall
  /\ todo' = <<"check">> /\ k' = Head(cstack).at[2]
  /\ UNCHANGED <<timers, signals, frames, loop, ghosts>>
(* larceny_call from a foreign procedure, and its return.                  *)
Callback ==
  /\ Callbacks /\ todo = <<>> /\ InSyscall /\ Head(cstack).kind = "interruptible" /\ Len(cstack) < MaxDepth
  /\ cstack' = <<[kind |-> "loop", at |-> control]>> \o cstack
  /\ loop' = Len(cstack) + 1 /\ control' = <<User, 1>>
  /\ UNCHANGED <<timers, signals, result, frames, todo, k, syscall, ghosts>>
CallbackReturns ==
  /\ InScheme /\ Len(cstack) > 1 /\ control[1] = User
  /\ control' = Head(cstack).at /\ cstack' = Tail(cstack) /\ loop' = Len(cstack) - 2
  /\ UNCHANGED <<timers, signals, result, frames, todo, k, syscall, ghosts>>
(* A jump to syscall_interrupt_buf leaves C code from the top of its stack.*)
(* Broken variant: in_interruptible_syscall stays set.                     *)
LeavesFlag ==
  LET from == Len(cstack) - syscall.to
  IN  /\ cstack' = SubSeq(cstack, from + 1, Len(cstack))
      /\ control' = cstack[from].at /\ result' = Undefined
      /\ todo' = <<"check">> /\ k' = cstack[from].at[2]
      /\ UNCHANGED <<frames, loop, syscall>>
LeaveSyscall ==
  LET from == Len(cstack) - syscall.to
  IN  /\ cstack' = SubSeq(cstack, from + 1, Len(cstack))
      /\ syscall' = NoSyscall /\ control' = cstack[from].at /\ result' = Undefined
      /\ todo' = <<"check">> /\ k' = cstack[from].at[2]
      /\ UNCHANGED <<frames, loop>>
(* inthandler.  The statements that are left of check_signals will clear   *)
(* G_SIGNAL and not look at G_SIGINT again: an interrupt that comes now    *)
(* waits, with G_SIGNAL off, until another one turns it on.                *)
Closing(statements) ==
  /\ \E i \in DOMAIN statements : statements[i] = "clearSignal"
  /\ \A i \in DOMAIN statements : statements[i] # "call"
Recorded == signal' = 1 /\ sigint' = 1 /\ UNCHANGED fpe
Interrupt ==
  /\ Recorded
  /\ IF syscall.on THEN LeaveSyscall ELSE UNCHANGED <<machine, todo, k, cside>>
  /\ owed' = IF Closing(todo') THEN "missed" ELSE "due"
  /\ UNCHANGED <<timers, left, returned>>
(* fpehandler, in a system call.                                           *)
Fault ==
  /\ todo = <<>> /\ InSyscall /\ fpe = 0 /\ fpe' = 1
  /\ IF syscall.on THEN LeaveSyscall ELSE UNCHANGED <<machine, todo, k, cside>>
  /\ UNCHANGED <<timers, signal, sigint, ghosts>>

Init ==
  /\ enabled = TRUE
  /\ timer = (IF MaxTime <= TimerStep THEN MaxTime ELSE TimerStep) /\ timer2 = MaxTime - timer
  /\ left = MaxTime /\ returned = MaxTime
  /\ signal = 0 /\ sigint = 0 /\ fpe = 0 /\ owed = "none"
  /\ control = <<User, 1>> /\ result = Undefined /\ frames = <<>>
  /\ todo = <<>> /\ k = 0
  /\ cstack = <<[kind |-> "loop", at |-> <<User, 1>>]>> /\ syscall = NoSyscall /\ loop = 1
Next ==
  \/ Tick \/ Disable \/ \E n \in 1 .. MaxTime : Enable(n)
  \/ Check \/ ClearSigint \/ CallKeyboardHandler \/ ClearSignal \/ CallFpeHandler
  \/ TimerException \/ HandlerReturns \/ Compute
  \/ \E interruptible \in BOOLEAN : Syscall(interruptible)
  \/ SyscallReturns \/ Callback \/ CallbackReturns \/ Interrupt \/ Fault
Spec == Init /\ [][Next]_vars

-----------------------------------------------------------------------------
(* The flags and counters, and the frames' fields.                         *)
InterruptsTypeOK ==
  /\ timer \in 0 .. WordSize - 1 /\ timer2 \in 0 .. MaxTime /\ enabled \in BOOLEAN
  /\ {signal, sigint, fpe} \subseteq {0, 1}
  /\ control[1] \in {User, Handler} /\ result \in {Undefined, Value, Argc}
  /\ Len(frames) <= MaxFrames /\ syscall.on \in BOOLEAN
  /\ owed \in {"none", "due", "missed"}
(* A keyboard interrupt that comes anywhere but between the call of its    *)
(* handler and the end of check_signals is delivered by the next check, if *)
(* not by the one under way: both flags stay set for it.  One that comes   *)
(* there is missed, which is the race that the comments speak of           *)
(* (fence-millicode.c 821, 824): it is delivered when another one comes.    *)
InterruptKept ==
  owed = "due" =>
    \/ \E i \in DOMAIN todo : todo[i] = "call"
    \/ signal = 1 /\ sigint = 1 /\ ~Closing(todo)
(* What the millicode saves when it calls Scheme in the middle of compiled *)
(* code is what is restored when the handler returns: each frame has the   *)
(* return address and RESULT of the code that it interrupted.              *)
ResumesWhereInterrupted ==
  \A i \in DOMAIN frames :
    <<frames[i].proc, frames[i].k>> = frames[i].was /\ frames[i].result = frames[i].value
(* While the timer is enabled, the two counters hold what is left of the   *)
(* time that was asked for; so the timer interrupt comes at its end.       *)
TimerExact == enabled /\ todo = <<>> => timer + timer2 = left
(* "disable_interrupts() must never return 0 because enable_interrups()    *)
(* will not accept 0" (fence-millicode.c 253-260), nor more than a slice. *)
ReturnedCanBeEnabled == returned \in 1 .. MaxTime
(* A longjmp goes to a C function that has not returned: the dispatch loop *)
(* that runs is the newest, and the system call has not returned.          *)
JumpTargetsLive ==
  /\ loop <= Len(cstack) /\ cstack[Len(cstack) - loop + 1].kind = "loop"
  /\ syscall.on => syscall.to < Len(cstack)
                     /\ cstack[Len(cstack) - syscall.to].kind = "interruptible"

(* Interrupts that are not missed stay due, code resumes with what it was  *)
(* interrupted with, the timer counts what it was given, and a longjmp has *)
(* its target.                                                             *)
InterruptsSound ==
  /\ InterruptsTypeOK /\ InterruptKept /\ ResumesWhereInterrupted
  /\ TimerExact /\ ReturnedCanBeEnabled /\ JumpTargetsLive
===============================================================================
