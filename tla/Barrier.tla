------------------------------- MODULE Barrier --------------------------------
(***************************************************************************)
(* The use-once barrier of lib/Standard/barrier-sync.sch over the tasks of *)
(* module Tasking.                                                         *)
(***************************************************************************)
EXTENDS TaskBlocking, Integers

CONSTANT Parties   \* num-tasks
BarrierAssumption == Parties \in Nat \ {0}

VARIABLES
  remaining, barrierBlocked,   \* the barrier's fields
  inside,               \* the tasks that are in enter-barrier
  entered               \* the tasks that have called it

barrierVars == <<remaining, barrierBlocked, inside, entered>>

BarrierInit ==
  /\ Init
  /\ remaining = Parties /\ barrierBlocked = << >>
  /\ inside = {} /\ entered = {}

Outside == pc = "user" /\ current \notin inside
-----------------------------------------------------------------------------
(* Broken variants: the count goes up, the last but one opens the barrier. *)
CountsUp(n)   == n + 1
OneFewer(n)   == n - 1
OpensEarly(n) == n <= 1
Opens(n)      == n = 0

EnterBarrier ==
  LET n == OneFewer(remaining)
      w == Append(wind, InterruptsOn)
  IN
  /\ Outside /\ Len(wind) < MaxDepth
  /\ remaining' = n /\ entered' = entered \cup {current}
  /\ \/ \* entered too many times: the error resets, which ends the task
        /\ n < 0
        /\ EndTask(current, Kont("user", w, NoTask, FALSE))
        /\ UNCHANGED <<barrierBlocked, inside>>
     \/ /\ Opens(n) /\ UnblockAll(barrierBlocked)
        /\ LeaveSection(w)
        /\ UNCHANGED <<barrierBlocked, inside, critical, kont, all, current, pc, picked>>
     \/ /\ n >= 0 /\ ~Opens(n)
        /\ barrierBlocked' = <<current>> \o barrierBlocked
        /\ inside' = inside \cup {current}
        /\ BlockHere(w)

(* block returns, and with it enter-barrier.                               *)
GoOn ==
  /\ pc = "user" /\ current \in inside
  /\ inside' = inside \ {current}
  /\ LeaveSection(wind)
  /\ UNCHANGED <<taskVars, current, pc, picked, remaining, barrierBlocked, entered>>

(* The rest of what programs do.  They unblock no task themselves.         *)
BarrierProgram ==
  Outside /\ (Yield \/ Return \/ \E t \in Tasks : Spawn(t) \/ Kill(t))

BarrierNext ==
  \/ EnterBarrier \/ GoOn
  \/ (BarrierProgram \/ Preempt \/ Dispatch) /\ UNCHANGED barrierVars

BarrierSpec == BarrierInit /\ [][BarrierNext]_<<vars, barrierVars>>
-----------------------------------------------------------------------------
BarrierTypeOK ==
  /\ TypeOK
  /\ remaining \in -Cardinality(Tasks) .. Parties
  /\ barrierBlocked \in Seq(Tasks) /\ inside \subseteq entered /\ entered \subseteq Tasks

(* "Enter the barrier to block until num-tasks tasks have entered": no     *)
(* task comes out alive before, whoever is killed or preempted meanwhile.  *)
BarrierHolds ==
  \A t \in entered \ inside :
    state[t] # "dead" => Cardinality(entered) >= Parties

(* Once they have, none of them stays blocked, though tasks on the         *)
(* barrier's list may have been killed.                                    *)
BarrierOpens ==
  remaining <= 0 => \A t \in inside : state[t] # "blocked"
=============================================================================
