---------------------------- MODULE ControlProofs ----------------------------
(***************************************************************************)
(* The parts that pass control.  First the invariants of tasking.sch, for  *)
(* any number of tasks and any nesting of critical sections: what no       *)
(* switch, timer or queue operation may disturb is TaskInv, and that       *)
(* interrupts follow critical sections is TimerInv.  Mutexes and barriers  *)
(* block tasks inside critical sections, so that the timer may strike in   *)
(* the scheduler and take a task out of its wait; they keep neither, but   *)
(* the weaker Scheduled, and on that rest mutual exclusion and the absence *)
(* of lost wakeups for the mutexes of mutex.sch and the meeting at the     *)
(* barriers of barrier-sync.sch.  Last, in the instances that are run,     *)
(* the order of the tasks, the place of the timer interrupt, the integrity *)
(* of the stack cache and what becomes of an interrupt, whatever their     *)
(* constants.                                                              *)
(***************************************************************************)
EXTENDS MCControl, SequenceTheorems, FiniteSetTheorems, TLAPS

(* TASKS                                                                   *)
(* Programs do not remove the last of several tasks from the run queue, nor *)
(* block a dead task.                                                      *)
Ordinary == Uses \cap {"evict last", "block dead"} = {}
(* Nor do they switch inside critical sections.                            *)
SwitchOutside == Uses = {}

(* A queue whose tail is its last cell and that holds no task twice.       *)
Whole(s) == [items |-> s, linked |-> TRUE]
Distinct(s) == \A i, j \in DOMAIN s : s[i] = s[j] => i = j
Elems(s) == {s[i] : i \in DOMAIN s}
QueueGood(q) == q.items \in Seq(Tasks) /\ q = Whole(q.items) /\ Distinct(q.items)
Queued(q) == Elems(q.items)
Runnable == {t \in Tasks : state[t] = "runnable"}
Alive == {t \in Tasks : state[t] \notin {"none", "dead"}}

(* The run queue holds the runnable tasks but the one being picked; where  *)
(* the current task, or the picked one, runs; and every task that may be   *)
(* picked goes on in its own code.                                         *)
QueueInv ==
  /\ QueueGood(queue)
  /\ Queued(queue) = IF pc = "take" THEN Runnable \ {picked} ELSE Runnable
RunningInv ==
  /\ \A t \in Tasks : state[t] = "running" => t = current /\ pc \in {"enable", "go", "user", "done"}
  /\ pc = "user" => current \in Tasks /\ state[current] = "running"
  /\ pc = "get" => ~QueueEmpty(queue)
  /\ pc = "take" => picked \in Runnable
  /\ pc \in {"enable", "go"} => picked \in Tasks /\ current = picked /\ state[picked] = "running"
  /\ pc # "failed"
KontInv == \A t \in Tasks : state[t] # "dead" => kont[t].pc = "user"
TaskInv == TypeOK /\ QueueInv /\ RunningInv /\ KontInv /\ all = Alive

(* Interrupts are off in the scheduler until it has picked a task, and in  *)
(* the outermost critical section, which alone will turn them on again.    *)
TimerInv ==
  /\ \A t \in Tasks : state[t] # "dead" => kont[t].wind = << >> /\ ~critical[t]
  /\ pc \in Scheduler => timer # "low"
  /\ pc = "go" => timer = "fresh"
  /\ pc = "user" => /\ wind = << >> => timer # "off"
                    /\ wind # << >> => timer = "off" /\ wind[1] = TRUE
                    /\ \A i \in 2 .. Len(wind) : wind[i] = FALSE
-----------------------------------------------------------------------------
(* queue-put!, queue-get! and queue-remove! on a queue whose tail is whole. *)
LEMMA WholeFields == \A s : Whole(s).items = s /\ Whole(s).linked = TRUE
  BY DEF Whole

LEMMA GoodType ==
  ASSUME NEW q, QueueGood(q)
  PROVE  q \in [items : Seq(Tasks), linked : BOOLEAN]
  <1>1. PICK s \in Seq(Tasks) : q = Whole(s)
    BY DEF QueueGood
  <1> QED
    BY <1>1 DEF Whole

LEMMA PutWhole ==
  ASSUME NEW s \in Seq(Tasks), NEW t \in Tasks
  PROVE  QueuePut(Whole(s), t) = Whole(Append(s, t))
  <1>1. CASE s = << >>
    <2>1. Append(s, t) = <<t>>
      BY <1>1
    <2> QED
      BY <1>1, <2>1, WholeFields DEF QueuePut, QueueEmpty, Whole
  <1>2. CASE s # << >>
    BY <1>2 DEF QueuePut, QueueEmpty, Whole
  <1> QED
    BY <1>1, <1>2

LEMMA AppendDistinct ==
  ASSUME NEW s \in Seq(Tasks), NEW t \in Tasks, Distinct(s), t \notin Elems(s)
  PROVE  /\ Append(s, t) \in Seq(Tasks) /\ Distinct(Append(s, t))
         /\ Elems(Append(s, t)) = Elems(s) \cup {t}
  <1>1. /\ Append(s, t) \in Seq(Tasks) /\ Len(s) \in Nat /\ DOMAIN s = 1 .. Len(s)
        /\ DOMAIN Append(s, t) = 1 .. Len(s) + 1
        /\ Append(s, t)[Len(s) + 1] = t /\ \A i \in 1 .. Len(s) : Append(s, t)[i] = s[i]
    OBVIOUS
  <1> QED
    BY <1>1 DEF Distinct, Elems

LEMMA PutGood ==
  ASSUME NEW q, QueueGood(q), NEW t \in Tasks, t \notin Queued(q)
  PROVE  QueueGood(QueuePut(q, t)) /\ Queued(QueuePut(q, t)) = Queued(q) \cup {t}
  <1> DEFINE s == q.items
  <1>1. QueuePut(q, t) = Whole(Append(s, t))
    BY PutWhole DEF QueueGood
  <1>2. QueuePut(q, t).items = Append(s, t)
    BY <1>1, WholeFields
  <1> QED
    BY <1>1, <1>2, AppendDistinct DEF QueueGood, Queued

LEMMA PutAllWhole ==
  ASSUME NEW s \in Seq(Tasks), NEW r \in Seq(Tasks)
  PROVE  QueuePutAll(Whole(s), r) = Whole(s \o r)
  <1>1. CASE r = << >>
    <2>1. s \o r = s
      BY <1>1
    <2> QED
      BY <1>1, <2>1 DEF QueuePutAll
  <1>2. CASE r # << >> /\ s = << >>
    <2>1. s \o r = r
      BY <1>2
    <2> QED
      BY <1>2, <2>1 DEF QueuePutAll, QueueEmpty, Whole
  <1>3. CASE r # << >> /\ s # << >>
    BY <1>3 DEF QueuePutAll, QueueEmpty, Whole
  <1> QED
    BY <1>1, <1>2, <1>3

LEMMA PutAllGood ==
  ASSUME NEW q, QueueGood(q), NEW r \in Seq(Tasks), Distinct(r), Elems(r) \cap Queued(q) = {}
  PROVE  /\ QueueGood(QueuePutAll(q, r))
         /\ Queued(QueuePutAll(q, r)) = Queued(q) \cup Elems(r)
  <1>1. PICK s \in Seq(Tasks) : s = q.items /\ q = Whole(s) /\ Distinct(s)
    BY DEF QueueGood
  <1>2. QueuePutAll(q, r) = Whole(s \o r)
    BY <1>1, PutAllWhole
  <1>3. PICK c : c = s \o r
    OBVIOUS
  <1>4. PICK n \in Nat, m \in Nat : n = Len(s) /\ m = Len(r)
    OBVIOUS
  <1>5. /\ c \in Seq(Tasks) /\ DOMAIN c = 1 .. n + m /\ DOMAIN s = 1 .. n /\ DOMAIN r = 1 .. m
        /\ \A i \in 1 .. n + m : c[i] = IF i <= n THEN s[i] ELSE r[i - n]
    BY <1>3, <1>4
  <1>6. \A i \in 1 .. n + m : \/ i \in 1 .. n /\ c[i] = s[i]
                              \/ i - n \in 1 .. m /\ i > n /\ c[i] = r[i - n]
    BY <1>5
  <1>7. \A i \in 1 .. n, j \in 1 .. m : s[i] # r[j]
    BY <1>1, <1>5 DEF Elems, Queued
  <1>8. Distinct(c)
    <2>1. SUFFICES ASSUME NEW i \in 1 .. n + m, NEW j \in 1 .. n + m, c[i] = c[j] PROVE i = j
      BY <1>5 DEF Distinct
    <2>2. CASE i <= n /\ j <= n
      BY <1>1, <1>5, <1>6, <2>1, <2>2 DEF Distinct
    <2>3. CASE i > n /\ j > n
      <3>1. i - n \in 1 .. m /\ j - n \in 1 .. m /\ r[i - n] = r[j - n]
        BY <1>6, <2>1, <2>3
      <3>2. i - n = j - n
        BY <1>5, <3>1 DEF Distinct
      <3> QED
        BY <3>2
    <2>4. CASE (i <= n /\ j > n) \/ (i > n /\ j <= n)
      BY <1>6, <1>7, <2>1, <2>4
    <2> QED
      BY <2>2, <2>3, <2>4
  <1>9. Elems(c) = Elems(s) \cup Elems(r)
    <2>1. Elems(c) \subseteq Elems(s) \cup Elems(r)
      BY <1>5, <1>6 DEF Elems
    <2>2. ASSUME NEW i \in 1 .. n PROVE s[i] = c[i] /\ i \in 1 .. n + m
      BY <1>5
    <2>3. ASSUME NEW i \in 1 .. m PROVE r[i] = c[i + n] /\ i + n \in 1 .. n + m
      <3>1. i + n \in 1 .. n + m /\ ~(i + n <= n) /\ (i + n) - n = i
        OBVIOUS
      <3> QED
        BY <1>5, <3>1
    <2>4. Elems(s) \cup Elems(r) \subseteq Elems(c)
      <3>1. Elems(s) = {s[i] : i \in 1 .. n} /\ Elems(r) = {r[i] : i \in 1 .. m}
            /\ Elems(c) = {c[i] : i \in 1 .. n + m}
        BY <1>5 DEF Elems
      <3> QED
        BY <2>2, <2>3, <3>1
    <2> QED
      BY <2>1, <2>4
  <1>10. QueuePutAll(q, r).items = c
    BY <1>2, <1>3, WholeFields
  <1> QED
    BY <1>1, <1>2, <1>3, <1>5, <1>8, <1>9, <1>10 DEF QueueGood, Queued

LEMMA GetGood ==
  ASSUME NEW q, QueueGood(q), ~QueueEmpty(q)
  PROVE  /\ QueueGood(QueueGet(q)) /\ Head(q.items) \in Queued(q) \cap Tasks
         /\ Queued(QueueGet(q)) = Queued(q) \ {Head(q.items)}
  <1>1. PICK s : s = q.items
    OBVIOUS
  <1>2. s \in Seq(Tasks) /\ s # << >> /\ q = Whole(s) /\ Distinct(s)
    BY <1>1 DEF QueueGood, QueueEmpty
  <1>3. /\ Len(s) \in Nat \ {0} /\ DOMAIN s = 1 .. Len(s) /\ Head(s) = s[1]
        /\ Tail(s) \in Seq(Tasks) /\ DOMAIN Tail(s) = 1 .. Len(s) - 1
        /\ \A i \in 1 .. Len(s) - 1 : Tail(s)[i] = s[i + 1]
    BY <1>2
  <1>4. QueueGet(q) = Whole(Tail(s)) /\ QueueGet(q).items = Tail(s)
    BY <1>2 DEF QueueGet, Whole
  <1>5. Distinct(Tail(s))
    BY <1>2, <1>3 DEF Distinct
  <1>6. Elems(Tail(s)) = Elems(s) \ {s[1]}
    <2>1. ASSUME NEW i \in 1 .. Len(s) - 1 PROVE Tail(s)[i] \in Elems(s) /\ Tail(s)[i] # s[1]
      BY <1>2, <1>3 DEF Elems, Distinct
    <2>2. ASSUME NEW i \in 1 .. Len(s), s[i] # s[1] PROVE s[i] \in Elems(Tail(s))
      <3>1. i - 1 \in 1 .. Len(s) - 1 /\ (i - 1) + 1 = i
        BY <1>3, <2>2
      <3>2. Tail(s)[i - 1] = s[i]
        BY <1>3, <3>1
      <3> QED
        BY <1>3, <3>1, <3>2 DEF Elems
    <2>3. Elems(Tail(s)) = {Tail(s)[i] : i \in 1 .. Len(s) - 1}
      BY <1>3 DEF Elems
    <2>4. Elems(s) = {s[i] : i \in 1 .. Len(s)}
      BY <1>3 DEF Elems
    <2> QED
      BY <2>1, <2>2, <2>3, <2>4
  <1>7. s[1] \in Elems(s) \cap Tasks
    BY <1>2, <1>3 DEF Elems
  <1> QED
    BY <1>1, <1>3, <1>4, <1>5, <1>6, <1>7 DEF Queued, QueueGood

(* Taking the k-th out of a sequence.                                      *)
Without(s, k) == SubSeq(s, 1, k - 1) \o SubSeq(s, k + 1, Len(s))

LEMMA WithoutDistinct ==
  ASSUME NEW s \in Seq(Tasks), Distinct(s), NEW k \in 1 .. Len(s)
  PROVE  /\ Without(s, k) \in Seq(Tasks) /\ Distinct(Without(s, k))
         /\ Elems(Without(s, k)) = Elems(s) \ {s[k]}
         /\ Len(Without(s, k)) = Len(s) - 1
  <1>0. PICK n \in Nat : n = Len(s)
    OBVIOUS
  <1>1. PICK a : a = SubSeq(s, 1, k - 1)
    OBVIOUS
  <1>2. PICK b : b = SubSeq(s, k + 1, n)
    OBVIOUS
  <1>3. DOMAIN s = 1 .. n /\ k \in 1 .. n /\ k \in Nat
    BY <1>0
  <1>4. a \in Seq(Tasks) /\ Len(a) = k - 1 /\ \A i \in 1 .. k - 1 : a[i] = s[i]
    <2>1. 1 \in 1 .. n + 1 /\ k - 1 \in 0 .. n /\ 1 <= k - 1 + 1
      BY <1>3
    <2>2. \A i \in 1 .. k - 1 : i \in 1 .. n
      BY <1>3
    <2> QED
      BY <1>0, <1>1, <1>3, <2>1, <2>2
  <1>5. b \in Seq(Tasks) /\ Len(b) = n - k /\ \A i \in 1 .. n - k : b[i] = s[k + i]
    <2>1. \A i \in 1 .. n - k : k + i \in 1 .. n
      BY <1>3
    <2> QED
      BY <1>0, <1>2, <1>3, <2>1
  <1>6. PICK r : r = Without(s, k)
    OBVIOUS
  <1>7. r = a \o b
    BY <1>0, <1>1, <1>2, <1>6 DEF Without
  <1>8. /\ r \in Seq(Tasks) /\ Len(r) = n - 1 /\ DOMAIN r = 1 .. n - 1
        /\ \A i \in 1 .. n - 1 : r[i] = IF i < k THEN s[i] ELSE s[i + 1]
    <2>1. r \in Seq(Tasks) /\ Len(r) = n - 1 /\ DOMAIN r = 1 .. n - 1
      <3>1. a \o b \in Seq(Tasks) /\ Len(a \o b) = Len(a) + Len(b)
        BY <1>4, <1>5, ConcatProperties
      <3>2. r \in Seq(Tasks) /\ Len(r) = n - 1
        BY <1>3, <1>4, <1>5, <1>7, <3>1
      <3> QED
        BY <3>2, LenProperties
    <2>2. ASSUME NEW i \in 1 .. n - 1, i < k PROVE r[i] = s[i]
      BY <1>3, <1>4, <1>5, <1>7, <2>2
    <2>3. ASSUME NEW i \in 1 .. n - 1, ~(i < k) PROVE r[i] = s[i + 1]
      <3>1. i - (k - 1) \in 1 .. n - k /\ k + (i - (k - 1)) = i + 1 /\ i > k - 1
        BY <1>3, <2>3
      <3>2. r[i] = b[i - (k - 1)]
        BY <1>3, <1>4, <1>5, <1>7, <3>1
      <3> QED
        BY <1>5, <3>1, <3>2
    <2> QED
      BY <2>1, <2>2, <2>3
  <1>9. Distinct(r)
    <2>1. \A i \in 1 .. n - 1 : i \in 1 .. n /\ i + 1 \in 1 .. n
      BY <1>3
    <2>2. SUFFICES ASSUME NEW i \in 1 .. n - 1, NEW j \in 1 .. n - 1, r[i] = r[j] PROVE i = j
      BY <1>8 DEF Distinct
    <2>3. \A p, q \in 1 .. n : s[p] = s[q] => p = q
      BY <1>3 DEF Distinct
    <2>4. CASE i < k /\ j < k
      BY <1>8, <2>1, <2>2, <2>3, <2>4
    <2>5. CASE ~(i < k) /\ ~(j < k)
      <3>1. i + 1 = j + 1
        BY <1>8, <2>1, <2>2, <2>3, <2>5
      <3> QED
        BY <3>1
    <2>6. CASE i < k /\ ~(j < k)
      <3>1. i = j + 1
        BY <1>8, <2>1, <2>2, <2>3, <2>6
      <3> QED
        BY <1>3, <2>6, <3>1
    <2>7. CASE ~(i < k) /\ j < k
      <3>1. j = i + 1
        BY <1>8, <2>1, <2>2, <2>3, <2>7
      <3> QED
        BY <1>3, <2>7, <3>1
    <2> QED
      BY <2>4, <2>5, <2>6, <2>7
  <1>10. ASSUME NEW i \in 1 .. n - 1 PROVE r[i] \in Elems(s) \ {s[k]}
    <2>1. i \in 1 .. n /\ i + 1 \in 1 .. n
      BY <1>3
    <2>2. PICK p \in 1 .. n : r[i] = s[p] /\ p # k
      <3>1. CASE i < k
        BY <1>3, <1>8, <2>1, <3>1
      <3>2. CASE ~(i < k)
        <4>1. i + 1 # k
          BY <1>3, <3>2
        <4> QED
          BY <1>8, <2>1, <3>2, <4>1
      <3> QED
        BY <3>1, <3>2
    <2> QED
      BY <1>3, <2>2 DEF Elems, Distinct
  <1>11. ASSUME NEW i \in 1 .. n, s[i] # s[k] PROVE \E j \in 1 .. n - 1 : r[j] = s[i]
    <2>1. CASE i < k
      BY <2>1, <1>3, <1>8
    <2>2. CASE i > k
      <3>1. i - 1 \in 1 .. n - 1 /\ ~(i - 1 < k) /\ (i - 1) + 1 = i
        BY <2>2, <1>3
      <3> QED
        BY <3>1, <1>8
    <2> QED
      BY <2>1, <2>2, <1>3, <1>11
  <1>12. Elems(r) = {r[i] : i \in 1 .. n - 1} /\ Elems(s) = {s[i] : i \in 1 .. n}
    BY <1>3, <1>8 DEF Elems
  <1>13. Elems(r) = Elems(s) \ {s[k]}
    <2>1. ASSUME NEW x \in Elems(r) PROVE x \in Elems(s) \ {s[k]}
      BY <1>10, <1>12
    <2>2. ASSUME NEW x \in Elems(s), x # s[k] PROVE x \in Elems(r)
      <3>1. PICK i \in 1 .. n : x = s[i]
        BY <1>12
      <3>2. PICK j \in 1 .. n - 1 : r[j] = s[i]
        BY <1>11, <2>2, <3>1
      <3> QED
        BY <1>12, <3>1, <3>2
    <2> QED
      BY <2>1, <2>2
  <1> QED
    BY <1>0, <1>6, <1>8, <1>9, <1>13

LEMMA RemoveGood ==
  ASSUME NEW q, QueueGood(q), NEW t \in Tasks,
         \A i \in 2 .. Len(q.items) : q.items[i] = t => i < Len(q.items)
  PROVE  QueueGood(QueueRemove(q, t)) /\ Queued(QueueRemove(q, t)) = Queued(q) \ {t}
  <1>1. PICK s \in Seq(Tasks) : s = q.items
    BY DEF QueueGood
  <1>2. q = Whole(s) /\ q.linked = TRUE /\ Distinct(s) /\ DOMAIN s = 1 .. Len(s) /\ Len(s) \in Nat
    BY <1>1, WholeFields DEF QueueGood
  <1>3. CASE \A i \in DOMAIN s : s[i] # t
    <2>1. QueueRemove(q, t) = q
      BY <1>1, <1>3 DEF QueueRemove
    <2>2. t \notin Queued(q)
      BY <1>1, <1>3 DEF Queued, Elems
    <2> QED
      BY <2>1, <2>2
  <1>4. CASE \E i \in DOMAIN s : s[i] = t
    <2>1. PICK k \in 1 .. Len(s) : s[k] = t
      BY <1>2, <1>4
    <2>2. k = FirstAt(q, t)
      <3>1. \A j \in 1 .. (k - 1) : s[j] # t
        BY <1>2, <2>1 DEF Distinct
      <3>2. \A i \in DOMAIN s : s[i] = t => i = k
        BY <1>2, <2>1 DEF Distinct
      <3> QED
        BY <1>1, <1>2, <2>1, <3>1, <3>2 DEF FirstAt
    <2>3. QueueRemove(q, t) = [items |-> Without(s, k), linked |-> Without(s, k) = << >> \/ k < Len(s)]
      BY <1>1, <1>2, <1>4, <2>2 DEF QueueRemove, Without
    <2>4. (Without(s, k) = << >> \/ k < Len(s)) = TRUE
      <3>1. Without(s, k) \in Seq(Tasks) /\ Len(Without(s, k)) = Len(s) - 1
        BY <1>2, <2>1, WithoutDistinct
      <3>2. Len(s) # 1 => k < Len(s)
        <4>1. k \in 2 .. Len(s) \/ k = 1
          BY <1>2, <2>1
        <4>2. k \in 2 .. Len(s) => k < Len(s)
          BY <1>1, <2>1
        <4> QED
          BY <1>2, <2>1, <4>1, <4>2
      <3>3. Len(s) = 1 => Without(s, k) = << >>
        BY <3>1
      <3> QED
        BY <3>2, <3>3
    <2>5. QueueRemove(q, t) = Whole(Without(s, k)) /\ QueueRemove(q, t).items = Without(s, k)
      <3>1. QueueRemove(q, t) = Whole(Without(s, k))
        BY <2>3, <2>4, Zenon DEF Whole
      <3> QED
        BY <3>1, WholeFields
    <2>6. /\ Without(s, k) \in Seq(Tasks) /\ Distinct(Without(s, k))
          /\ Elems(Without(s, k)) = Elems(s) \ {t}
      BY <1>2, <2>1, WithoutDistinct
    <2>7. QueueGood(QueueRemove(q, t))
      BY <2>5, <2>6 DEF QueueGood
    <2>8. Queued(QueueRemove(q, t)) = Queued(q) \ {t}
      BY <1>1, <2>5, <2>6 DEF Queued
    <2> QED
      BY <2>7, <2>8
  <1> QED
    BY <1>3, <1>4
-----------------------------------------------------------------------------
Konts == [pc : Places, wind : Seq(BOOLEAN), picked : Tasks \cup {NoTask}, enable : BOOLEAN]

LEMMA KontType ==
  ASSUME NEW p \in Places, NEW w \in Seq(BOOLEAN), NEW t \in Tasks \cup {NoTask}, NEW x \in BOOLEAN
  PROVE  /\ Kont(p, w, t, x) \in Konts
         /\ Kont(p, w, t, x).pc = p /\ Kont(p, w, t, x).wind = w
  BY DEF Kont, Konts

LEMMA PlainKonts ==
  ASSUME NEW p \in {"user", "done"}
  PROVE  /\ Kont(p, << >>, NoTask, FALSE) \in Konts
         /\ Kont(p, << >>, NoTask, FALSE).pc = p
         /\ Kont(p, << >>, NoTask, FALSE).wind = << >>
  <1>1. p \in Places /\ NoTask \in Tasks \cup {NoTask} /\ FALSE \in BOOLEAN
    BY DEF Places
  <1>2. << >> \in Seq(BOOLEAN)
    OBVIOUS
  <1> QED
    BY <1>1, <1>2, KontType, Zenon

LEMMA UnwoundType == \A w : Unwound(w) \in Timers
  BY DEF Unwound, Timers

(* A step that moves the timer and the winds of the task that runs.        *)
LEMMA WindsKeep ==
  ASSUME TaskInv, pc = "user", wind' \in Seq(BOOLEAN), timer' \in Timers,
         UNCHANGED <<taskVars, current, pc, picked>>
  PROVE  TaskInv'
  <1>1. TypeOK'
    BY DEF TaskInv, TypeOK, taskVars
  <1>2. QueueInv' /\ all' = Alive'
    BY DEF TaskInv, QueueInv, Runnable, Alive, taskVars
  <1>3. RunningInv' /\ KontInv'
    BY DEF TaskInv, RunningInv, KontInv, Runnable, QueueEmpty, taskVars
  <1> QED
    BY <1>1, <1>2, <1>3 DEF TaskInv

(* The task that runs is put on the queue, and the scheduler takes over.   *)
LEMMA RescheduleKeeps ==
  ASSUME TaskInv, pc = "user", NEW k \in Konts, k.pc = "user", NEW crit \in BOOLEAN,
         Reschedule(k, crit)
  PROVE  TaskInv'
  <1>1. current \in Tasks /\ state[current] = "running" /\ TypeOK /\ NoTask \notin Tasks
    BY TaskingAssumption DEF TaskInv, RunningInv
  <1>2. /\ ToScheduler(k, crit)
        /\ state' = [state EXCEPT ![current] = "runnable"]
        /\ queue' = QueuePut(queue, current)
        /\ UNCHANGED all
    BY <1>1 DEF Reschedule
  <1>3. QueueGood(queue) /\ Queued(queue) = Runnable /\ current \notin Runnable
    BY <1>1 DEF TaskInv, QueueInv, Runnable
  <1>4. QueueGood(queue') /\ Queued(queue') = Runnable \cup {current}
    BY <1>1, <1>2, <1>3, PutGood
  <1>5. Runnable' = Runnable \cup {current} /\ Alive' = Alive
    BY <1>1, <1>2 DEF Runnable, Alive, TypeOK
  <1>6. TypeOK'
    <2>1. queue' \in [items : Seq(Tasks), linked : BOOLEAN]
      BY <1>4, GoodType
    <2> QED
      BY <1>1, <1>2, <2>1, UnwoundType DEF TypeOK, ToScheduler, Konts, Places, Scheduler
  <1>7. pc' = "idle" /\ QueueInv'
    BY <1>2, <1>4, <1>5 DEF ToScheduler, QueueInv
  <1>8. RunningInv'
    BY <1>1, <1>2, <1>7 DEF RunningInv, TaskInv, TypeOK
  <1>9. KontInv'
    BY <1>1, <1>2 DEF KontInv, TaskInv, TypeOK, ToScheduler
  <1> QED
    BY <1>2, <1>5, <1>6, <1>7, <1>8, <1>9 DEF TaskInv

(* block, or the end of a task, as long as the run queue's tail stays.     *)
LEMMA StopKeeps ==
  ASSUME TaskInv, pc = "user", NEW t \in Tasks, NEW end \in {"blocked", "dead"},
         NEW k \in Konts, NEW crit \in BOOLEAN,
         state[t] # "none", end = "dead" \/ (k.pc = "user" /\ state[t] # "dead"),
         \/ state[t] # "runnable"
         \/ \A i \in 2 .. Len(queue.items) : queue.items[i] = t => i < Len(queue.items),
         Stop(t, end, k, crit), all' = IF end = "dead" THEN all \ {t} ELSE all
  PROVE  TaskInv'
  <1>1. current \in Tasks /\ state[current] = "running" /\ TypeOK /\ NoTask \notin Tasks
    BY TaskingAssumption DEF TaskInv, RunningInv
  <1>2. /\ state' = [state EXCEPT ![t] = end]
        /\ queue' = IF state[t] = "runnable" THEN QueueRemove(queue, t) ELSE queue
        /\ IF state[t] = "running" THEN ToScheduler(k, crit)
           ELSE UNCHANGED <<critical, kont, current, timer, pc, wind, picked>>
    BY DEF Stop
  <1>3. QueueGood(queue) /\ Queued(queue) = Runnable
    BY DEF TaskInv, QueueInv
  <1>4. QueueGood(queue') /\ Queued(queue') = Runnable \ {t}
    <2>1. CASE state[t] = "runnable"
      BY <1>2, <1>3, <2>1, RemoveGood
    <2>2. CASE state[t] # "runnable"
      BY <1>2, <1>3, <2>2 DEF Runnable
    <2> QED
      BY <2>1, <2>2
  <1>5. Runnable' = Runnable \ {t}
    BY <1>1, <1>2 DEF Runnable, TypeOK
  <1>6. all' = Alive'
    <2>1. all = Alive
      BY DEF TaskInv
    <2>2. CASE end = "dead"
      BY <1>1, <1>2, <2>1, <2>2 DEF Alive, TypeOK
    <2>3. CASE end # "dead"
      BY <1>1, <1>2, <2>1, <2>3 DEF Alive, TypeOK
    <2> QED
      BY <2>2, <2>3
  <1>7. queue' \in [items : Seq(Tasks), linked : BOOLEAN]
    BY <1>4, GoodType
  <1>8. CASE state[t] = "running"
    <2>1. t = current /\ ToScheduler(k, crit)
      BY <1>2, <1>8 DEF TaskInv, RunningInv
    <2>2. TypeOK'
      BY <1>1, <1>2, <1>6, <1>7, <2>1, UnwoundType DEF TypeOK, ToScheduler, Konts, Places, Scheduler, Alive
    <2>3. pc' = "idle" /\ QueueInv'
      BY <1>4, <1>5, <2>1 DEF ToScheduler, QueueInv
    <2>4. RunningInv'
      BY <1>1, <1>2, <2>1, <2>3 DEF RunningInv, TaskInv, TypeOK
    <2>5. KontInv'
      BY <1>1, <1>2, <2>1 DEF KontInv, TaskInv, TypeOK, ToScheduler
    <2> QED
      BY <1>6, <2>2, <2>3, <2>4, <2>5 DEF TaskInv
  <1>9. CASE state[t] # "running"
    <2>1. UNCHANGED <<critical, kont, current, timer, pc, wind, picked>> /\ t # current
      BY <1>1, <1>2, <1>9
    <2>2. TypeOK'
      BY <1>1, <1>2, <1>6, <1>7, <2>1 DEF TypeOK, Alive
    <2>3. QueueInv'
      BY <1>4, <1>5, <2>1 DEF QueueInv
    <2>4. RunningInv'
      BY <1>1, <1>2, <2>1 DEF RunningInv, TaskInv, TypeOK
    <2>5. KontInv'
      BY <1>1, <1>2, <2>1 DEF KontInv, TaskInv, TypeOK
    <2> QED
      BY <1>6, <2>2, <2>3, <2>4, <2>5 DEF TaskInv
  <1> QED
    BY <1>8, <1>9

(* A task that is spawned or unblocked is put on the queue.                *)
LEMMA PutOnKeeps ==
  ASSUME TaskInv, pc = "user", NEW t \in Tasks, state[t] \in {"none", "blocked"},
         state' = [state EXCEPT ![t] = "runnable"], queue' = QueuePut(queue, t),
         all' = all \cup {t},
         UNCHANGED <<critical, kont, current, timer, pc, wind, picked>>
  PROVE  TaskInv'
  <1>1. current \in Tasks /\ state[current] = "running" /\ TypeOK
    BY DEF TaskInv, RunningInv
  <1>2. QueueGood(queue) /\ Queued(queue) = Runnable /\ t \notin Runnable
    BY DEF TaskInv, QueueInv, Runnable
  <1>3. QueueGood(queue') /\ Queued(queue') = Runnable \cup {t}
    BY <1>2, PutGood
  <1>4. Runnable' = Runnable \cup {t} /\ Alive' = Alive \cup {t}
    BY <1>1 DEF Runnable, Alive, TypeOK
  <1>5. queue' \in [items : Seq(Tasks), linked : BOOLEAN]
    BY <1>3, GoodType
  <1>6. TypeOK' /\ all' = Alive'
    BY <1>1, <1>4, <1>5 DEF TypeOK, TaskInv
  <1>7. QueueInv'
    BY <1>3, <1>4 DEF QueueInv
  <1>8. RunningInv'
    BY <1>1 DEF TaskInv, RunningInv, TypeOK
  <1>9. KontInv'
    BY <1>1 DEF TaskInv, KontInv, TypeOK
  <1> QED
    BY <1>6, <1>7, <1>8, <1>9 DEF TaskInv

(* The scheduler's own steps, all of which it makes with the queue whole.  *)
LEMMA DispatchKeeps ==
  ASSUME TaskInv, Dispatch
  PROVE  TaskInv'
  <1>1. CASE Idle
    <2>1. CASE QueueEmpty(queue)
      BY <1>1, <2>1 DEF Idle, EndTasking, taskVars, TaskInv, TypeOK, QueueInv, RunningInv,
         KontInv, Runnable, Alive, QueueEmpty, Places, Timers
    <2>2. CASE ~QueueEmpty(queue)
      BY <1>1, <2>2 DEF Idle, taskVars, TaskInv, TypeOK, QueueInv, RunningInv,
         KontInv, Runnable, Alive, QueueEmpty, Places, Scheduler
    <2> QED
      BY <2>1, <2>2
  <1>2. CASE Get
    <2>1. /\ pc = "get" /\ ~QueueEmpty(queue) /\ pc' = "take"
          /\ picked' = Head(queue.items) /\ queue' = QueueGet(queue)
          /\ UNCHANGED <<state, critical, kont, all, current, timer, wind>>
      BY <1>2 DEF Get, TaskInv, RunningInv
    <2>2. QueueGood(queue) /\ Queued(queue) = Runnable
      BY <2>1 DEF TaskInv, QueueInv
    <2>3. QueueGood(queue') /\ picked' \in Runnable /\ Queued(queue') = Runnable \ {picked'}
      BY <2>1, <2>2, GetGood
    <2>4. Runnable' = Runnable /\ Alive' = Alive
      BY <2>1 DEF Runnable, Alive
    <2>5. queue' \in [items : Seq(Tasks), linked : BOOLEAN]
      BY <2>3, GoodType
    <2>6. TypeOK'
      BY <2>1, <2>3, <2>5 DEF TaskInv, TypeOK, Places, Scheduler, Runnable
    <2>7. QueueInv' /\ RunningInv' /\ KontInv'
      BY <2>1, <2>3, <2>4 DEF TaskInv, QueueInv, RunningInv, KontInv, Runnable
    <2> QED
      BY <2>1, <2>4, <2>6, <2>7 DEF TaskInv
  <1>3. CASE Take
    <2>1. picked \in Tasks /\ state[picked] = "runnable" /\ pc = "take" /\ TypeOK
      BY <1>3 DEF Take, TaskInv, RunningInv, Runnable
    <2>2. TypeOK'
      BY <1>3, <2>1 DEF Take, TypeOK, Places, Scheduler
    <2>3. Runnable' = Runnable \ {picked} /\ Alive' = Alive
      BY <1>3, <2>1 DEF Take, Runnable, Alive, TypeOK
    <2>4. QueueInv' /\ all' = Alive'
      BY <1>3, <2>1, <2>3 DEF Take, TaskInv, QueueInv
    <2>5. RunningInv' /\ KontInv'
      BY <1>3, <2>1 DEF Take, TaskInv, TypeOK, RunningInv, KontInv
    <2> QED
      BY <2>2, <2>4, <2>5 DEF TaskInv
  <1>4. CASE Enable
    <2>1. TypeOK' /\ all' = Alive'
      BY <1>4 DEF Enable, TaskInv, TypeOK, Places, Scheduler, Timers, Alive
    <2>2. QueueInv' /\ RunningInv' /\ KontInv'
      BY <1>4 DEF Enable, TaskInv, QueueInv, RunningInv, KontInv, Runnable
    <2> QED
      BY <2>1, <2>2 DEF TaskInv
  <1>5. CASE Go
    <2>1. picked \in Tasks /\ current = picked /\ state[picked] = "running" /\ TypeOK
      BY <1>5 DEF Go, TaskInv, RunningInv
    <2>2. kont[picked].pc = "user" /\ kont[picked] \in Konts
      BY <2>1 DEF TaskInv, KontInv, TypeOK, Konts
    <2>3. wind' \in Seq(BOOLEAN)
      <3>1. PICK w \in Seq(BOOLEAN) : w = kont[picked].wind
        BY <2>2 DEF Konts
      <3>2. wind' = [i \in 1 .. Len(w) |-> FALSE] /\ Len(w) \in Nat
        BY <1>5, <3>1 DEF Go
      <3> QED
        BY <3>2
    <2>4. TypeOK'
      BY <1>5, <2>1, <2>2, <2>3 DEF Go, taskVars, TypeOK, Konts, Places, Timers
    <2>5. pc' = "user" /\ UNCHANGED <<taskVars, current>>
      BY <1>5, <2>2 DEF Go
    <2>6. QueueInv' /\ all' = Alive' /\ RunningInv' /\ KontInv'
      BY <1>5, <2>1, <2>5 DEF Go, TaskInv, QueueInv, RunningInv, KontInv, Runnable, Alive, taskVars
    <2> QED
      BY <2>4, <2>6 DEF TaskInv
  <1> QED
    BY <1>1, <1>2, <1>3, <1>4, <1>5 DEF Dispatch
-----------------------------------------------------------------------------
LEMMA InitInv == Init => TaskInv /\ TimerInv
  <1> SUFFICES ASSUME Init PROVE TaskInv /\ TimerInv
    OBVIOUS
  <1>1. EmptyQueue = Whole(<< >>) /\ << >> \in Seq(Tasks) /\ Initial \in Tasks
    <2>1. EmptyQueue = Whole(<< >>)
      BY Zenon DEF EmptyQueue, Whole
    <2>2. << >> \in Seq(Tasks)
      OBVIOUS
    <2> QED
      BY <2>1, <2>2, TaskingAssumption
  <1>2. QueueGood(EmptyQueue) /\ Queued(EmptyQueue) = {}
    <2>1. PICK s \in Seq(Tasks) : s = << >> /\ DOMAIN s = {}
      <3>1. << >> \in Seq(Tasks) /\ Len(<< >>) = 0
        BY <1>1
      <3>2. DOMAIN << >> = {}
        OBVIOUS
      <3> QED
        BY <3>1, <3>2
    <2>2. EmptyQueue = Whole(s) /\ EmptyQueue.items = s
      BY <1>1, <2>1, WholeFields
    <2> QED
      BY <2>1, <2>2 DEF QueueGood, Queued, Distinct, Elems
  <1>3. QueueGood(queue) /\ Queued(queue) = {Initial}
    BY <1>1, <1>2, PutGood DEF Init
  <1>4. Runnable = {Initial} /\ Alive = {Initial}
    BY <1>1 DEF Init, Runnable, Alive
  <1>5. kont \in [Tasks -> Konts] /\ \A t \in Tasks : kont[t].pc = "user" /\ kont[t].wind = << >>
    <2>1. Kont("user", << >>, NoTask, FALSE) \in Konts
          /\ Kont("user", << >>, NoTask, FALSE).pc = "user"
          /\ Kont("user", << >>, NoTask, FALSE).wind = << >>
      BY PlainKonts
    <2> QED
      BY <2>1 DEF Init
  <1>6. TypeOK
    <2>1. queue \in [items : Seq(Tasks), linked : BOOLEAN]
      BY <1>3, GoodType
    <2> QED
      BY <1>1, <1>5, <2>1 DEF Init, TypeOK, Konts, Places, Scheduler, Timers
  <1>7. QueueInv /\ RunningInv /\ KontInv /\ all = Alive
    BY <1>3, <1>4, <1>5 DEF Init, QueueInv, RunningInv, KontInv
  <1>8. TimerInv
    BY <1>5 DEF Init, TimerInv
  <1> QED
    BY <1>6, <1>7, <1>8 DEF TaskInv

LEMMA EndTaskKeeps ==
  ASSUME TaskInv, Ordinary, NEW t \in Tasks, state[t] # "none", NEW k \in Konts, EndTask(t, k)
  PROVE  TaskInv'
  <1>1. \A i \in 2 .. Len(queue.items) : queue.items[i] = t => i < Len(queue.items)
    BY DEF EndTask, MayStop, Ordinary
  <1>2. pc = "user" /\ Stop(t, "dead", k, FALSE) /\ all' = all \ {t}
    BY DEF EndTask
  <1> QED
    BY <1>1, <1>2, StopKeeps

LEMMA HereType ==
  ASSUME TaskInv
  PROVE  Here \in Konts /\ Here.pc = "user" /\ Here.wind = wind /\ InCriticalSection \in BOOLEAN
  <1>1. /\ "user" \in Places /\ wind \in Seq(BOOLEAN) /\ NoTask \in Tasks \cup {NoTask}
        /\ InterruptsOn \in BOOLEAN
    BY DEF TaskInv, TypeOK, InterruptsOn, Places
  <1>2. Here = Kont("user", wind, NoTask, InterruptsOn)
    BY DEF Here
  <1>3. Here \in Konts /\ Here.pc = "user" /\ Here.wind = wind
    <2>1. PICK w \in Seq(BOOLEAN), x \in BOOLEAN : w = wind /\ x = InterruptsOn
      BY <1>1
    <2>2. /\ Kont("user", w, NoTask, x) \in Konts
          /\ Kont("user", w, NoTask, x).pc = "user" /\ Kont("user", w, NoTask, x).wind = w
      BY <1>1 DEF Kont, Konts
    <2> QED
      BY <1>2, <2>1, <2>2
  <1>4. InCriticalSection \in BOOLEAN
    BY DEF InCriticalSection
  <1> QED
    BY <1>3, <1>4

LEMMA UserKeeps ==
  ASSUME TaskInv, Ordinary, User
  PROVE  TaskInv'
  <1>1. CASE Enter
    <2>1. Append(wind, InterruptsOn) \in Seq(BOOLEAN)
      BY DEF TaskInv, TypeOK, InterruptsOn
    <2> QED
      BY <1>1, <2>1, WindsKeep DEF Enter, Timers
  <1>2. CASE Leave
    <2>1. wind \in Seq(BOOLEAN) /\ wind # << >> /\ timer \in Timers
      BY <1>2 DEF Leave, TaskInv, TypeOK
    <2>2. SubSeq(wind, 1, Len(wind) - 1) \in Seq(BOOLEAN)
      BY <2>1
    <2> QED
      BY <1>2, <2>1, <2>2, WindsKeep DEF Leave, Timers
  <1>3. CASE Yield
    BY <1>3, HereType, RescheduleKeeps DEF Yield
  <1>4. CASE Return
    <2>1. pc = "user" /\ EndTask(current, Kont("done", << >>, NoTask, FALSE))
      BY <1>4 DEF Return, EndTask
    <2>2. current \in Tasks /\ state[current] # "none"
      BY <2>1 DEF TaskInv, RunningInv
    <2>3. Kont("done", << >>, NoTask, FALSE) \in Konts
      BY PlainKonts
    <2> QED
      BY <2>1, <2>2, <2>3, EndTaskKeeps
  <1>5. CASE pc = "user" /\ EndTasking
    <2>1. TypeOK' /\ QueueInv' /\ all' = Alive'
      BY <1>5 DEF EndTasking, taskVars, TaskInv, TypeOK, QueueInv, Runnable, Alive, Places, Timers
    <2>2. RunningInv' /\ KontInv'
      BY <1>5 DEF EndTasking, taskVars, TaskInv, RunningInv, KontInv, Runnable
    <2> QED
      BY <2>1, <2>2 DEF TaskInv
  <1>6. ASSUME NEW t \in Tasks, Spawn(t) PROVE TaskInv'
    BY <1>6, PutOnKeeps DEF Spawn
  <1>7. ASSUME NEW t \in Tasks, Block(t) PROVE TaskInv'
    <2>1. state[t] # "none" /\ state[t] # "dead" /\ pc = "user" /\ UNCHANGED all
          /\ Stop(t, "blocked", Here, InCriticalSection)
      BY <1>7 DEF Block, Ordinary
    <2>2. \A i \in 2 .. Len(queue.items) : queue.items[i] = t => i < Len(queue.items)
      BY <1>7 DEF Block, MayStop, Ordinary
    <2> QED
      BY <2>1, <2>2, HereType, StopKeeps
  <1>8. ASSUME NEW t \in Tasks, Unblock(t) PROVE TaskInv'
    <2>1. t \in all /\ pc = "user" /\ state[t] = "blocked"
      BY <1>8 DEF Unblock, TaskInv, Alive
    <2>2. all' = all \cup {t}
      BY <1>8, <2>1 DEF Unblock
    <2> QED
      BY <1>8, <2>1, <2>2, PutOnKeeps DEF Unblock, Schedule
  <1>9. ASSUME NEW t \in Tasks, Kill(t) PROVE TaskInv'
    BY <1>9, HereType, EndTaskKeeps DEF Kill
  <1> QED
    BY <1>1, <1>2, <1>3, <1>4, <1>5, <1>6, <1>7, <1>8, <1>9 DEF User

LEMMA TimerKeeps ==
  ASSUME TaskInv, TimerInterrupt, pc = "user"
  PROVE  TaskInv'
  <1>1. Kont(pc, wind, picked, FALSE) \in Konts /\ Kont(pc, wind, picked, FALSE).pc = "user"
    <2>1. pc \in Places /\ wind \in Seq(BOOLEAN) /\ picked \in Tasks \cup {NoTask} /\ FALSE \in BOOLEAN
      BY DEF TaskInv, TypeOK
    <2> QED
      BY <2>1, KontType, Zenon
  <1> QED
    BY <1>1, RescheduleKeeps DEF TimerInterrupt

LEMMA StutterKeeps ==
  ASSUME TaskInv, UNCHANGED vars
  PROVE  TaskInv'
  <1>1. TypeOK' /\ QueueInv' /\ all' = Alive'
    BY DEF vars, taskVars, TaskInv, TypeOK, QueueInv, Runnable, Alive
  <1>2. RunningInv' /\ KontInv'
    BY DEF vars, taskVars, TaskInv, RunningInv, KontInv, Runnable
  <1> QED
    BY <1>1, <1>2 DEF TaskInv

(* As long as the timer never strikes in the scheduler.                    *)
LEMMA NextKeeps ==
  ASSUME TaskInv, Ordinary, TimerInterrupt => pc = "user", [Next]_vars
  PROVE  TaskInv'
  BY StutterKeeps, UserKeeps, TimerKeeps, DispatchKeeps DEF Next

LEMMA InvImplies == TaskInv => TaskInvariants /\ NoSchedulerError
  <1> SUFFICES ASSUME TaskInv PROVE TaskInvariants /\ NoSchedulerError
    OBVIOUS
  <1>1. Queued(queue) = {t \in Runnable : pc # "take" \/ t # picked} /\ QueueGood(queue) /\ TypeOK
    BY DEF TaskInv, QueueInv
  <1>2. RunnableIsQueued
    <2>1. SUFFICES ASSUME NEW t \in Tasks, state[t] = "runnable", ~BeingPicked(t) PROVE OnRunQueue(t)
      BY DEF RunnableIsQueued
    <2>2. t \in Queued(queue)
      BY <1>1, <2>1 DEF Runnable, BeingPicked
    <2> QED
      BY <2>2 DEF Queued, Elems, OnRunQueue
  <1>3. \A i \in DOMAIN queue.items : queue.items[i] \in Queued(queue)
    BY DEF Queued, Elems
  <1>4. \A i \in DOMAIN queue.items : state[queue.items[i]] = "runnable"
    BY <1>1, <1>3 DEF Runnable
  <1>5. \A i, j \in DOMAIN queue.items : queue.items[i] = queue.items[j] => i = j
    BY <1>1 DEF QueueGood, Distinct
  <1> QED
    BY <1>2, <1>4, <1>5 DEF TaskInv, RunningInv, TaskInvariants, NoSchedulerError, Alive

(* A step that hands the processor over outside critical sections.         *)
LEMMA HandsOver ==
  ASSUME TaskInv, TimerInv, NEW k \in Konts, NEW crit,
         pc = "user", ToScheduler(k, crit), k.wind = << >>,
         state'[current] = "dead" \/ ~crit,
         \A t \in Tasks : t # current /\ state'[t] # "dead" => state[t] # "dead"
  PROVE  TimerInv'
  <1>1. current \in Tasks /\ state[current] # "dead" /\ TypeOK
    BY DEF TaskInv, RunningInv
  <1>2. timer' = "off" /\ pc' = "idle"
    BY DEF ToScheduler, Unwound
  <1>3. \A t \in Tasks : state'[t] # "dead" => kont'[t].wind = << >> /\ ~critical'[t]
    BY <1>1 DEF ToScheduler, TimerInv, TypeOK
  <1> QED
    BY <1>2, <1>3 DEF TimerInv, Scheduler

LEMMA StopHandsOver ==
  ASSUME TaskInv, TimerInv, SwitchOutside, pc = "user", NEW t \in Tasks,
         NEW end \in {"blocked", "dead"}, NEW k \in Konts, NEW crit,
         wind = << >> => k.wind = << >> /\ (end = "dead" \/ ~crit), MayStop(t),
         state[t] # "dead" \/ end = "dead", Stop(t, end, k, crit)
  PROVE  TimerInv'
  <1>1. current \in Tasks /\ state[current] = "running" /\ TypeOK
    BY DEF TaskInv, RunningInv
  <1>2. state' = [state EXCEPT ![t] = end]
    BY DEF Stop
  <1>3. CASE state[t] = "running"
    <2>1. t = current /\ wind = << >> /\ ToScheduler(k, crit)
      BY <1>3 DEF TaskInv, RunningInv, MayStop, MaySwitch, SwitchOutside, Stop
    <2> QED
      BY <1>1, <1>2, <2>1, HandsOver DEF TypeOK
  <1>4. CASE state[t] # "running"
    <2>1. UNCHANGED <<critical, kont, current, timer, pc, wind, picked>>
      BY <1>4 DEF Stop
    <2>2. \A u \in Tasks : state'[u] # "dead" => state[u] # "dead"
      BY <1>1, <1>2 DEF TypeOK
    <2> QED
      BY <2>1, <2>2 DEF TimerInv
  <1> QED
    BY <1>3, <1>4

LEMMA TimerInvKeeps ==
  ASSUME TaskInv, TimerInv, SwitchOutside, [Next]_vars
  PROVE  TimerInv'
  <1>1. TypeOK /\ (pc = "user" => current \in Tasks /\ state[current] = "running")
    BY DEF TaskInv, RunningInv
  <1>2. CASE Enter
    <2>0. PICK on \in BOOLEAN : on = InterruptsOn
      BY DEF InterruptsOn
    <2>1. PICK w \in Seq(BOOLEAN) : w = wind /\ wind' = Append(w, on)
      BY <1>1, <1>2, <2>0 DEF Enter, TypeOK
    <2>9. (w = << >> => on = TRUE) /\ (w # << >> => on = FALSE)
      BY <2>0, <2>1, <1>2 DEF Enter, TimerInv, InterruptsOn
    <2>2. w = << >> => wind'[1] = TRUE /\ Len(wind') = 1
      BY <2>1, <2>9
    <2>3. w # << >> => timer = "off" /\ w[1] = TRUE /\ wind'[1] = TRUE
      BY <2>1, <1>2 DEF Enter, TimerInv
    <2>4. \A i \in 2 .. Len(wind') : wind'[i] = FALSE
      <3>1. \A i \in 2 .. Len(w) : w[i] = FALSE
        BY <2>1, <1>2 DEF Enter, TimerInv
      <3>2. wind' # << >> /\ Len(wind') = Len(w) + 1 /\ \A i \in 1 .. Len(w) : wind'[i] = w[i]
        BY <2>1
      <3>3. w # << >> => wind'[Len(w) + 1] = FALSE
        BY <2>1, <2>9
      <3> QED
        BY <2>2, <3>1, <3>2, <3>3
    <2>5. wind' # << >>
      BY <2>1
    <2> QED
      BY <1>2, <2>2, <2>3, <2>4, <2>5, <2>1 DEF Enter, TimerInv, taskVars, Scheduler
  <1>3. CASE Leave
    <2>1. PICK w \in Seq(BOOLEAN) : w = wind /\ wind' = SubSeq(w, 1, Len(w) - 1) /\ w # << >>
      BY <1>1, <1>3 DEF Leave, TypeOK
    <2>2. PICK n \in Nat : n = Len(w) /\ n > 0
      BY <2>1
    <2>3. wind' \in Seq(BOOLEAN) /\ Len(wind') = n - 1 /\ \A i \in 1 .. n - 1 : wind'[i] = w[i]
      BY <2>1, <2>2
    <2>4. w[1] = TRUE /\ \A i \in 2 .. n : w[i] = FALSE
      BY <1>3, <2>1, <2>2 DEF Leave, TimerInv
    <2>5. CASE n = 1
      <3>1. wind' = << >> /\ timer' = "low"
        BY <1>3, <2>1, <2>2, <2>3, <2>4, <2>5 DEF Leave
      <3> QED
        BY <1>3, <3>1 DEF Leave, TimerInv, taskVars, Scheduler
    <2>6. CASE n # 1
      <3>1. n \in 2 .. n /\ 1 \in 1 .. n - 1 /\ \A i \in 2 .. n - 1 : i \in 1 .. n - 1 /\ i \in 2 .. n
        BY <2>2, <2>6
      <3>2. wind' # << >> /\ wind'[1] = TRUE /\ \A i \in 2 .. Len(wind') : wind'[i] = FALSE
        BY <2>2, <2>3, <2>4, <2>6, <3>1
      <3>3. timer' = timer /\ timer = "off"
        BY <1>3, <2>1, <2>2, <2>4, <2>6, <3>1 DEF Leave, TimerInv
      <3> QED
        BY <1>3, <3>2, <3>3 DEF Leave, TimerInv, taskVars, Scheduler
    <2> QED
      BY <2>5, <2>6
  <1>4. ASSUME Yield \/ TimerInterrupt PROVE TimerInv'
    <2>1. pc = "user"
      BY <1>4 DEF Yield, TimerInterrupt, TimerInv, Scheduler
    <2>2. wind = << >>
      BY <1>4, <2>1 DEF Yield, TimerInterrupt, TimerInv, MaySwitch, SwitchOutside
    <2>3. PICK k \in Konts, crit \in BOOLEAN : Reschedule(k, crit) /\ k.wind = << >> /\ ~crit
      <3>1. CASE Yield
        BY <3>1, <2>1, <2>2, HereType DEF Yield, InCriticalSection, InterruptsOn, TimerInv
      <3>2. CASE TimerInterrupt
        <4>1. pc \in Places /\ wind \in Seq(BOOLEAN) /\ picked \in Tasks \cup {NoTask} /\ FALSE \in BOOLEAN
          BY <1>1 DEF TypeOK
        <4>2. Kont(pc, wind, picked, FALSE) \in Konts /\ Kont(pc, wind, picked, FALSE).wind = wind
          BY <4>1, KontType, Zenon
        <4> QED
          BY <2>2, <3>2, <4>2 DEF TimerInterrupt
      <3> QED
        BY <1>4, <3>1, <3>2
    <2>4. ToScheduler(k, crit) /\ state' = [state EXCEPT ![current] = "runnable"]
      BY <1>1, <2>1, <2>3 DEF Reschedule
    <2>5. \A t \in Tasks : t # current /\ state'[t] # "dead" => state[t] # "dead"
      BY <1>1, <2>4 DEF TypeOK
    <2> QED
      BY <2>1, <2>3, <2>4, <2>5, HandsOver
  <1>5. CASE Return
    <2>1. pc = "user" /\ current \in Tasks /\ MayStop(current)
          /\ Stop(current, "dead", Kont("done", << >>, NoTask, FALSE), FALSE)
      BY <1>1, <1>5 DEF Return, EndTask
    <2> QED
      BY <2>1, PlainKonts, StopHandsOver
  <1>6. CASE pc = "user" /\ EndTasking
    BY <1>6 DEF EndTasking, TimerInv, taskVars, Scheduler
  <1>7. ASSUME NEW t \in Tasks, Spawn(t) \/ Unblock(t) PROVE TimerInv'
    <2>1. state[t] # "dead" /\ state' = [state EXCEPT ![t] = "runnable"]
          /\ UNCHANGED <<critical, kont, current, timer, pc, wind, picked>>
      BY <1>7 DEF Spawn, Unblock, Schedule
    <2>2. \A u \in Tasks : state'[u] # "dead" => state[u] # "dead"
      BY <1>1, <2>1 DEF TypeOK
    <2> QED
      BY <2>1, <2>2 DEF TimerInv
  <1>8. ASSUME NEW t \in Tasks, Block(t) PROVE TimerInv'
    <2>1. pc = "user" /\ MayStop(t) /\ state[t] # "dead" /\ Stop(t, "blocked", Here, InCriticalSection)
      BY <1>8 DEF Block, SwitchOutside
    <2>2. wind = << >> => ~InCriticalSection
      BY <2>1 DEF InCriticalSection, InterruptsOn, TimerInv
    <2> QED
      BY <2>1, <2>2, HereType, StopHandsOver
  <1>9. ASSUME NEW t \in Tasks, Kill(t) PROVE TimerInv'
    <2>1. pc = "user" /\ MayStop(t) /\ Stop(t, "dead", Here, FALSE)
      BY <1>9 DEF Kill, EndTask
    <2> QED
      BY <2>1, HereType, StopHandsOver
  <1>10. CASE Dispatch
    <2>1. CASE Idle
      BY <1>1, <2>1 DEF Idle, EndTasking, TimerInv, taskVars, Scheduler
    <2>2. CASE Get
      BY <1>1, <2>2 DEF Get, TimerInv, Scheduler
    <2>3. CASE Take
      BY <1>1, <2>3 DEF Take, TimerInv, Scheduler, TypeOK, TaskInv, RunningInv, Runnable
    <2>4. CASE Enable
      BY <1>1, <2>4 DEF Enable, TimerInv, Scheduler, TypeOK, TaskInv, RunningInv
    <2>5. CASE Go
      <3>1. picked \in Tasks /\ state[picked] = "running" /\ pc = "go" /\ timer = "fresh"
        BY <2>5 DEF Go, TaskInv, RunningInv, TimerInv
      <3>2. kont[picked].pc = "user" /\ kont[picked].wind = << >>
        BY <3>1 DEF TaskInv, KontInv, TimerInv
      <3>3. wind' = << >> /\ pc' = "user" /\ timer' # "off"
        BY <2>5, <3>1, <3>2 DEF Go
      <3> QED
        BY <2>5, <3>3 DEF Go, TimerInv, taskVars, Scheduler
    <2> QED
      BY <1>10, <2>1, <2>2, <2>3, <2>4, <2>5 DEF Dispatch
  <1>11. CASE UNCHANGED vars
    BY <1>11 DEF vars, taskVars, TimerInv
  <1> QED
    BY <1>2, <1>3, <1>4, <1>5, <1>6, <1>7, <1>8, <1>9, <1>10, <1>11 DEF Next, User
-----------------------------------------------------------------------------
LEMMA Invariant ==
  ASSUME SwitchOutside PROVE Spec => [](TaskInv /\ TimerInv)
  <1>1. Init => TaskInv /\ TimerInv
    BY InitInv
  <1>2. TaskInv /\ TimerInv /\ [Next]_vars => (TaskInv /\ TimerInv)'
    <2> SUFFICES ASSUME TaskInv, TimerInv, [Next]_vars PROVE (TaskInv /\ TimerInv)'
      OBVIOUS
    <2>1. TimerInterrupt => pc = "user"
      BY DEF TimerInterrupt, TimerInv, Scheduler
    <2> QED
      BY <2>1, NextKeeps, TimerInvKeeps DEF SwitchOutside, Ordinary
  <1> QED
    BY <1>1, <1>2, PTL DEF Spec

(* The type invariant of tasking.sch's state, for tasks that switch        *)
(* outside critical sections.                                              *)
THEOREM TasksTyped ==
  ASSUME SwitchOutside PROVE Spec => []TypeOK
  BY Invariant, PTL DEF TaskInv

(* No timer interrupt strikes inside the scheduler of tasking.sch.         *)
THEOREM SchedulerUninterrupted ==
  ASSUME SwitchOutside PROVE Spec => []SchedulerNotInterrupted
  <1>1. TimerInv => SchedulerNotInterrupted
    BY DEF TimerInv, SchedulerNotInterrupted
  <1> QED
    BY <1>1, Invariant, PTL

(* A task is preemptable exactly outside call-without-interrupts, whatever *)
(* switches and wakeups come between.                                      *)
THEOREM InterruptsOutside ==
  ASSUME SwitchOutside PROVE Spec => []InterruptsFollowWinds
  <1>1. TimerInv => InterruptsFollowWinds
    BY DEF TimerInv, InterruptsFollowWinds, PreemptableOutside, InterruptsOn
  <1> QED
    BY <1>1, Invariant, PTL

(* No operation of tasking.sch brings back a task that ended or was        *)
(* killed, unless a program blocks a dead one.                             *)
THEOREM DeadTasksStayDead ==
  ASSUME SwitchOutside PROVE Spec => DeadStayDead
  <1>1. TaskInv /\ TimerInv /\ [Next]_vars
          => [\A t \in Tasks : state[t] = "dead" => state'[t] = "dead"]_vars
    <2> SUFFICES ASSUME TaskInv, TimerInv, Next, NEW t \in Tasks, state[t] = "dead"
                 PROVE  state'[t] = "dead"
      OBVIOUS
    <2>1. TypeOK /\ (pc = "user" => current \in Tasks /\ state[current] = "running")
          /\ (pc = "take" => picked \in Tasks /\ state[picked] = "runnable")
      BY DEF TaskInv, RunningInv, Runnable
    <2>2. ASSUME NEW u \in Tasks, NEW x, state[u] # "dead" \/ x = "dead",
                 state' = [state EXCEPT ![u] = x]
          PROVE  state'[t] = "dead"
      BY <2>1, <2>2 DEF TypeOK
    <2>3. CASE Enter \/ Leave \/ Idle \/ Get \/ Enable \/ Go \/ (pc = "user" /\ EndTasking)
      BY <2>3 DEF Enter, Leave, Idle, Get, Enable, Go, EndTasking, taskVars
    <2>4. CASE Yield \/ TimerInterrupt
      <3>1. pc = "user"
        BY <2>4 DEF Yield, TimerInterrupt, TimerInv, Scheduler
      <3>2. state' = [state EXCEPT ![current] = "runnable"]
        BY <2>1, <2>4, <3>1 DEF Yield, TimerInterrupt, Reschedule
      <3> QED
        BY <2>1, <2>2, <3>1, <3>2
    <2>5. CASE Return
      BY <2>1, <2>2, <2>5 DEF Return, EndTask, Stop
    <2>6. ASSUME NEW u \in Tasks, Spawn(u) \/ Block(u) \/ Unblock(u) \/ Kill(u)
          PROVE  state'[t] = "dead"
      BY <2>1, <2>2, <2>6 DEF Spawn, Block, Unblock, Kill, EndTask, Stop, Schedule, SwitchOutside
    <2>7. CASE Take
      BY <2>1, <2>2, <2>7 DEF Take
    <2> QED
      BY <2>3, <2>4, <2>5, <2>6, <2>7 DEF Next, User, Dispatch
  <1> QED
    BY <1>1, Invariant, PTL DEF Spec, DeadStayDead
-----------------------------------------------------------------------------
(* TASKS SWITCHED OUT IN CRITICAL SECTIONS, which is how the synchroniza-  *)
(* tion objects block them.  The winds that are left turn the timer on, so *)
(* that it may strike in the scheduler; the continuation of the task that  *)
(* blocked is then replaced by one in the scheduler, and it is queued like *)
(* a task that was preempted.  What remains is kept of the set S of tasks  *)
(* that the scheduler will still come to: those queued, those picked, and  *)
(* those picked in the continuation of a task of S.  None is picked twice, *)
(* and a blocked task is not among them.                                   *)
Off(w) == \A i \in DOMAIN w : w[i] = FALSE
ToCome(S) == IF pc \in {"enable", "go"} THEN S \cup {picked} ELSE S
Picks(S) == {u \in ToCome(S) : kont[u].pc = "take"}
ComeInv(S) ==
  /\ Queued(queue) \subseteq S
  /\ \A t \in Queued(queue) : state[t] = "runnable"
  /\ \A t \in S : state[t] \in {"runnable", "dead"}
  /\ pc = "take" => picked \in S \ Queued(queue)
  /\ \A u \in Picks(S) : kont[u].picked \in S \ Queued(queue)
                         /\ (pc = "take" => kont[u].picked # picked)
  /\ \A u, v \in Picks(S) : kont[u].picked = kont[v].picked => u = v
PlaceInv ==
  /\ pc = "user" => current \in Tasks /\ state[current] = "running" /\ kont[current].pc = "user"
  /\ pc \in {"enable", "go"} => picked = current /\ current \in Tasks /\ state[current] = "running"
  /\ pc = "go" => timer # "low"
  /\ pc \in {"idle", "get", "take"} /\ timer = "low"
       => current \in Tasks /\ state[current] \in {"blocked", "dead"}
  /\ Off(wind)
KontGood(t) ==
  /\ kont[t].pc \in {"idle", "get", "take", "enable", "user", "done"}
  /\ kont[t].pc = "take" => kont[t].picked \in Tasks
  /\ kont[t].pc = "enable" => kont[t].picked = t
  /\ kont[t].pc # "user" => kont[t].enable = FALSE
  /\ state[t] \in {"none", "blocked"} => kont[t].pc = "user"
Scheduled(S) ==
  TypeOK /\ QueueGood(queue) /\ ComeInv(S) /\ PlaceInv /\ \A t \in Tasks : KontGood(t)
(* A step leaves those tasks scheduled, and those that it makes runnable.  *)
StillScheduled(S) == \E T \in SUBSET Tasks : T \subseteq S \cup Runnable' /\ Scheduled(T)'

LEMMA Named == Initial \in Tasks /\ NoTask \notin Tasks
  BY TaskingAssumption, Zenon

LEMMA StillIf ==
  ASSUME NEW S \in SUBSET Tasks, Scheduled(S)' PROVE StillScheduled(S)
  BY DEF StillScheduled

LEMMA OffUnwinds ==
  ASSUME NEW w, Off(w) PROVE Unwound(w) = "off"
  <1>1. TRUE \notin {w[i] : i \in DOMAIN w}
    BY Zenon DEF Off
  <1> QED
    BY <1>1 DEF Unwound

LEMMA WindsMove ==
  ASSUME NEW S \in SUBSET Tasks, Scheduled(S), pc = "user",
         wind' \in Seq(BOOLEAN), Off(wind'), timer' \in Timers,
         UNCHANGED <<taskVars, current, pc, picked>>
  PROVE  Scheduled(S)'
  <1>1. TypeOK' /\ QueueGood(queue')
    BY DEF Scheduled, TypeOK, taskVars
  <1>2. ComeInv(S)'
    BY DEF Scheduled, ComeInv, Picks, ToCome, taskVars
  <1>3. PlaceInv'
    BY DEF Scheduled, PlaceInv, taskVars
  <1>4. \A t \in Tasks : KontGood(t)'
    BY DEF Scheduled, KontGood, taskVars
  <1> QED
    BY <1>1, <1>2, <1>3, <1>4 DEF Scheduled

(* The current task, blocked or not, is put on the queue with k.           *)
LEMMA PutBack ==
  ASSUME NEW S \in SUBSET Tasks, Scheduled(S), current \in Tasks,
         state[current] \in {"running", "blocked"},
         NEW k \in Konts, NEW crit \in BOOLEAN, Off(k.wind),
         k.pc \in {"idle", "get", "take", "enable", "user"},
         k.pc = "take" => pc = "take" /\ k.picked = picked,
         k.pc = "enable" => k.picked = current,
         k.pc # "user" => k.enable = FALSE,
         Reschedule(k, crit)
  PROVE  Scheduled(S \cup {current})'
  <1>1. TypeOK /\ QueueGood(queue) /\ ComeInv(S) /\ PlaceInv /\ (\A t \in Tasks : KontGood(t))
    BY DEF Scheduled
  <1>2. current \notin S /\ current \notin Queued(queue)
    BY <1>1 DEF ComeInv
  <1>3. /\ kont' = [kont EXCEPT ![current] = k] /\ critical' = [critical EXCEPT ![current] = crit]
        /\ pc' = "idle" /\ wind' = << >> /\ timer' = "off" /\ picked' = NoTask
        /\ state' = [state EXCEPT ![current] = "runnable"]
        /\ queue' = QueuePut(queue, current) /\ UNCHANGED <<all, current>>
    BY OffUnwinds DEF Reschedule, ToScheduler
  <1>4. QueueGood(queue') /\ Queued(queue') = Queued(queue) \cup {current}
    BY <1>1, <1>2, <1>3, PutGood
  <1>5. /\ state'[current] = "runnable" /\ kont'[current] = k
        /\ \A t \in Tasks : t # current => state'[t] = state[t] /\ kont'[t] = kont[t]
    BY <1>1, <1>3 DEF TypeOK
  <1>6. TypeOK'
    <2>1. queue' \in [items : Seq(Tasks), linked : BOOLEAN]
      BY <1>4, GoodType
    <2> QED
      BY <1>1, <1>3, <2>1 DEF TypeOK, Konts, Places, Scheduler, Timers
  <1>7. ComeInv(S \cup {current})'
    <2>1. PICK T \in SUBSET Tasks : T = S \cup {current}
      OBVIOUS
    <2>2. /\ Queued(queue') \subseteq T
          /\ \A t \in Queued(queue') : state'[t] = "runnable"
          /\ \A t \in T : state'[t] \in {"runnable", "dead"}
      BY <1>1, <1>2, <1>4, <1>5, <2>1 DEF ComeInv
    <2>3. Picks(T)' = {u \in T : kont'[u].pc = "take"}
      BY <1>3 DEF Picks, ToCome
    <2>4. ASSUME NEW u \in T, kont'[u].pc = "take", u # current
          PROVE  /\ u \in Picks(S) /\ kont'[u] = kont[u]
                 /\ kont[u].picked \in S \ Queued(queue)
                 /\ (pc = "take" => kont[u].picked # picked)
      BY <1>1, <1>5, <2>1, <2>4 DEF ComeInv, Picks, ToCome
    <2>5. ASSUME kont'[current].pc = "take"
          PROVE  pc = "take" /\ kont'[current].picked = picked /\ picked \in S \ Queued(queue)
      BY <1>1, <1>5, <2>5 DEF ComeInv
    <2>6. ASSUME NEW u \in Picks(T)' PROVE kont'[u].picked \in T \ Queued(queue')
      <3>1. CASE u # current
        <4>1. u \in T /\ kont'[u].pc = "take"
          BY <2>3, <2>6
        <4>2. kont'[u] = kont[u] /\ kont[u].picked \in S \ Queued(queue)
          BY <2>4, <3>1, <4>1
        <4> QED
          BY <1>2, <1>4, <2>1, <4>2
      <3>2. CASE u = current
        <4>1. kont'[current].picked \in S \ Queued(queue)
          BY <2>3, <2>5, <2>6, <3>2
        <4> QED
          BY <1>2, <1>4, <2>1, <3>2, <4>1
      <3> QED
        BY <3>1, <3>2
    <2>7. ASSUME NEW u \in Picks(T)', NEW v \in Picks(T)', kont'[u].picked = kont'[v].picked
          PROVE  u = v
      <3>1. CASE u # current /\ v # current
        BY <1>1, <2>3, <2>4, <2>7, <3>1 DEF ComeInv
      <3>2. CASE u = current \/ v = current
        BY <2>3, <2>4, <2>5, <2>7, <3>2
      <3> QED
        BY <3>1, <3>2
    <2> QED
      BY <1>3, <2>1, <2>2, <2>6, <2>7 DEF ComeInv
  <1>8. PlaceInv'
    BY <1>3 DEF PlaceInv, Off
  <1>9. ASSUME NEW t \in Tasks PROVE KontGood(t)'
    <2>1. CASE t = current
      BY <1>1, <1>5, <2>1 DEF KontGood, ComeInv
    <2>2. CASE t # current
      BY <1>1, <1>5, <2>2 DEF KontGood
    <2> QED
      BY <2>1, <2>2
  <1> QED
    BY <1>4, <1>6, <1>7, <1>8, <1>9 DEF Scheduled

(* block of the current task, and the end of any.                          *)
LEMMA Stops ==
  ASSUME NEW S \in SUBSET Tasks, Scheduled(S), pc = "user", NEW t \in Tasks, state[t] # "none",
         NEW end \in {"blocked", "dead"}, NEW k \in Konts, NEW crit \in BOOLEAN,
         end = "blocked" => t = current /\ k.pc = "user",
         k.pc \in {"user", "done"}, k.pc # "user" => k.enable = FALSE,
         t = current \/ Off(k.wind),
         \/ state[t] # "runnable"
         \/ \A i \in 2 .. Len(queue.items) : queue.items[i] = t => i < Len(queue.items),
         Stop(t, end, k, crit), all' \in SUBSET Tasks
  PROVE  Scheduled(S)'
  <1>1. TypeOK /\ QueueGood(queue) /\ ComeInv(S) /\ PlaceInv /\ (\A u \in Tasks : KontGood(u))
    BY DEF Scheduled
  <1>2. current \in Tasks /\ state[current] = "running" /\ kont[current].pc = "user" /\ current \notin S
        /\ Off(wind)
    BY <1>1 DEF PlaceInv, ComeInv
  <1>3. /\ state' = [state EXCEPT ![t] = end]
        /\ queue' = IF state[t] = "runnable" THEN QueueRemove(queue, t) ELSE queue
        /\ IF state[t] = "running" THEN ToScheduler(k, crit)
           ELSE UNCHANGED <<critical, kont, current, timer, pc, wind, picked>>
    BY DEF Stop
  <1>4. state'[t] = end /\ \A u \in Tasks : u # t => state'[u] = state[u]
    BY <1>1, <1>3 DEF TypeOK
  <1>5. QueueGood(queue') /\ Queued(queue') = Queued(queue) \ {t}
    <2>1. CASE state[t] = "runnable"
      BY <1>1, <1>3, <2>1, RemoveGood
    <2>2. CASE state[t] # "runnable"
      <3>1. t \notin Queued(queue)
        BY <1>1, <2>2 DEF ComeInv
      <3> QED
        BY <1>1, <1>3, <2>2, <3>1
    <2> QED
      BY <2>1, <2>2
  <1>6. queue' \in [items : Seq(Tasks), linked : BOOLEAN]
    BY <1>5, GoodType
  <1>7. /\ Queued(queue') \subseteq S
        /\ \A u \in Queued(queue') : state'[u] = "runnable"
        /\ \A u \in S : state'[u] \in {"runnable", "dead"}
    BY <1>1, <1>2, <1>4, <1>5 DEF ComeInv
  <1>8. CASE state[t] = "running"
    <2>1. /\ kont' = [kont EXCEPT ![current] = k] /\ critical' = [critical EXCEPT ![current] = crit]
          /\ pc' = "idle" /\ wind' = << >> /\ timer' = Unwound(k.wind) /\ picked' = NoTask
          /\ UNCHANGED current
      BY <1>3, <1>8 DEF ToScheduler
    <2>2. TypeOK'
      BY <1>1, <1>2, <1>3, <1>6, <2>1, UnwoundType DEF TypeOK, Konts, Places, Scheduler
    <2>3. kont'[current] = k /\ \A u \in Tasks : u # current => kont'[u] = kont[u]
      BY <1>1, <1>2, <2>1 DEF TypeOK
    <2>4. ComeInv(S)'
      <3>1. Picks(S)' = Picks(S)
        BY <1>2, <2>1, <2>3 DEF Picks, ToCome
      <3>2. \A u \in Picks(S) : kont'[u] = kont[u]
        BY <1>2, <2>3 DEF Picks, ToCome
      <3> QED
        BY <1>1, <1>5, <1>7, <2>1, <3>1, <3>2 DEF ComeInv
    <2>5. PlaceInv'
      <3>1. t # current => timer' = "off"
        BY <2>1, OffUnwinds
      <3> QED
        BY <1>2, <1>4, <2>1, <3>1 DEF PlaceInv, Off
    <2>6. ASSUME NEW u \in Tasks PROVE KontGood(u)'
      <3>1. CASE u = current
        BY <1>2, <1>4, <2>3, <3>1 DEF KontGood
      <3>2. CASE u # current
        BY <1>1, <1>4, <1>8, <2>3, <3>2 DEF KontGood
      <3> QED
        BY <3>1, <3>2
    <2> QED
      BY <1>5, <2>2, <2>4, <2>5, <2>6 DEF Scheduled
  <1>9. CASE state[t] # "running"
    <2>1. UNCHANGED <<critical, kont, current, timer, pc, wind, picked>> /\ t # current /\ end = "dead"
      BY <1>2, <1>3, <1>9
    <2>2. TypeOK'
      BY <1>1, <1>3, <1>6, <2>1 DEF TypeOK
    <2>3. ComeInv(S)'
      <3>1. Picks(S)' = Picks(S)
        BY <2>1 DEF Picks, ToCome
      <3> QED
        BY <1>1, <1>5, <1>7, <2>1, <3>1 DEF ComeInv
    <2>4. PlaceInv'
      BY <1>2, <1>4, <2>1 DEF PlaceInv
    <2>5. ASSUME NEW u \in Tasks PROVE KontGood(u)'
      BY <1>1, <1>4, <2>1 DEF KontGood
    <2> QED
      BY <1>5, <2>2, <2>3, <2>4, <2>5 DEF Scheduled
  <1> QED
    BY <1>8, <1>9

(* Tasks that are spawned or unblocked go on the queue.                    *)
LEMMA Wakes ==
  ASSUME NEW S \in SUBSET Tasks, Scheduled(S), pc = "user", NEW W \in SUBSET Tasks,
         \A t \in W : state[t] \in {"none", "blocked"},
         state' = [t \in Tasks |-> IF t \in W THEN "runnable" ELSE state[t]],
         QueueGood(queue'), Queued(queue') = Queued(queue) \cup W, all' \in SUBSET Tasks,
         wind' \in Seq(BOOLEAN), Off(wind'), timer' \in Timers,
         UNCHANGED <<critical, kont, current, pc, picked>>
  PROVE  Scheduled(S \cup W)'
  <1>1. TypeOK /\ QueueGood(queue) /\ ComeInv(S) /\ PlaceInv /\ (\A u \in Tasks : KontGood(u))
    BY DEF Scheduled
  <1>2. current \in Tasks /\ state[current] = "running" /\ kont[current].pc = "user"
    BY <1>1 DEF PlaceInv
  <1>3. TypeOK'
    <2>1. queue' \in [items : Seq(Tasks), linked : BOOLEAN]
      BY GoodType
    <2> QED
      BY <1>1, <2>1 DEF TypeOK
  <1>4. \A t \in W : t \notin S /\ kont[t].pc = "user" /\ t # current
    BY <1>1, <1>2 DEF ComeInv, KontGood
  <1>5. ComeInv(S \cup W)'
    <2>1. PICK T : T = S \cup W
      OBVIOUS
    <2>2. Picks(T)' = Picks(S)
      BY <1>4, <2>1 DEF Picks, ToCome
    <2>3. \A u \in Picks(S) : kont[u].picked \in T \ Queued(queue')
      BY <1>1, <1>4, <2>1 DEF ComeInv
    <2>4. \A t \in T : state'[t] \in {"runnable", "dead"}
      BY <1>1, <2>1 DEF ComeInv
    <2>5. Queued(queue') \subseteq T /\ \A t \in Queued(queue') : state'[t] = "runnable"
      BY <1>1, <2>1 DEF ComeInv
    <2> QED
      <3>1. \A u, v \in Picks(T)' : kont'[u].picked = kont'[v].picked => u = v
        BY <1>1, <2>2 DEF ComeInv
      <3>2. \A u \in Picks(T)' : kont'[u].picked \in T \ Queued(queue')
        BY <2>2, <2>3
      <3>3. pc' # "take"
        OBVIOUS
      <3> QED
        BY <2>1, <2>4, <2>5, <3>1, <3>2, <3>3 DEF ComeInv
  <1>6. PlaceInv'
    BY <1>2, <1>4 DEF PlaceInv
  <1>7. ASSUME NEW t \in Tasks PROVE KontGood(t)'
    BY <1>1 DEF KontGood
  <1> QED
    BY <1>3, <1>5, <1>6, <1>7 DEF Scheduled

LEMMA OrderOf ==
  ASSUME NEW b \in Seq(Tasks), NEW s \in Orders(b)
  PROVE  s \in Seq(Tasks) /\ Distinct(s) /\ Elems(s) = Woken(b)
  <1>1. PICK W : W = Woken(b)
    OBVIOUS
  <1>2. W \subseteq Tasks
    BY <1>1 DEF Woken
  <1>3. PICK n : n = Cardinality(W)
    OBVIOUS
  <1>4. s \in [1 .. n -> W] /\ \A t \in W : \E i \in DOMAIN s : s[i] = t
    BY <1>1, <1>3 DEF Orders
  <1>5. \A i, j \in DOMAIN s : i < j => s[i] # s[j]
    <2>1. SUFFICES ASSUME NEW i \in DOMAIN s, NEW j \in DOMAIN s, i < j PROVE s[i] # s[j]
      OBVIOUS
    <2>2. PICK k \in DOMAIN b : b[k] = s[i] /\ \A l \in 1 .. k : b[l] # s[j]
      BY <2>1 DEF Orders, ComesBefore
    <2> QED
      BY <2>2
  <1>6. n \in Nat
    <2>1. b \in Seq(Elems(b))
      BY DEF Elems
    <2>2. \A t \in Elems(b) : \E i \in 1 .. Len(b) : b[i] = t
      BY DEF Elems
    <2>3. IsFiniteSet(Elems(b))
      BY <2>1, <2>2, FS_NatSurjection, FS_Interval DEF IsFiniteSet
    <2>4. W \subseteq Elems(b)
      BY <1>1 DEF Woken, Elems
    <2> QED
      BY <1>3, <2>3, <2>4, FS_Subset, FS_CardinalityType
  <1>7. s \in Seq(W) /\ DOMAIN s = 1 .. n /\ s \in Seq(Tasks)
    BY <1>2, <1>4, <1>6
  <1>8. Distinct(s)
    <2>1. SUFFICES ASSUME NEW i \in 1 .. n, NEW j \in 1 .. n, s[i] = s[j] PROVE i = j
      BY <1>7 DEF Distinct
    <2>2. i \in DOMAIN s /\ j \in DOMAIN s /\ (i < j \/ j < i \/ i = j)
      BY <1>6, <1>7
    <2>3. CASE i < j
      BY <1>5, <2>1, <2>2, <2>3
    <2>4. CASE j < i
      BY <1>5, <2>1, <2>2, <2>4
    <2> QED
      BY <2>2, <2>3, <2>4
  <1> QED
    BY <1>1, <1>4, <1>7, <1>8 DEF Elems

LEMMA TakeMoves ==
  ASSUME NEW S \in SUBSET Tasks, Scheduled(S), Take
  PROVE  Scheduled(S \ {picked})'
  <1>1. TypeOK /\ QueueGood(queue) /\ ComeInv(S) /\ PlaceInv /\ (\A t \in Tasks : KontGood(t))
    BY DEF Scheduled
  <1>2. /\ pc = "take" /\ pc' = "enable" /\ current' = picked
        /\ state' = [state EXCEPT ![picked] = "running"]
        /\ UNCHANGED <<critical, kont, queue, all, timer, wind, picked>>
    BY DEF Take
  <1>3. picked \in S /\ picked \in Tasks /\ picked \notin Queued(queue)
    BY <1>1, <1>2 DEF ComeInv
  <1>4. state'[picked] = "running" /\ \A t \in Tasks : t # picked => state'[t] = state[t]
    BY <1>1, <1>2, <1>3 DEF TypeOK
  <1>5. TypeOK'
    BY <1>1, <1>2, <1>3 DEF TypeOK, Places, Scheduler
  <1>6. ComeInv(S \ {picked})'
    <2>1. PICK T : T = S \ {picked}
      OBVIOUS
    <2>2. Picks(T)' = Picks(S)
      BY <1>2, <1>3, <2>1 DEF Picks, ToCome
    <2>3. \A u \in Picks(S) : kont[u].picked \in T \ Queued(queue)
      BY <1>1, <1>2, <2>1 DEF ComeInv
    <2>4. \A t \in T : state'[t] \in {"runnable", "dead"}
      BY <1>1, <1>4, <2>1 DEF ComeInv
    <2>5. Queued(queue) \subseteq T /\ \A t \in Queued(queue) : state'[t] = "runnable"
      BY <1>1, <1>3, <1>4, <2>1 DEF ComeInv
    <2>6. \A u, v \in Picks(S) : kont[u].picked = kont[v].picked => u = v
      BY <1>1 DEF ComeInv
    <2>7. ComeInv(T)'
      BY <1>2, <2>2, <2>3, <2>4, <2>5, <2>6 DEF ComeInv
    <2> QED
      BY <1>2, <2>1, <2>7
  <1>7. PlaceInv'
    BY <1>1, <1>2, <1>3, <1>4 DEF PlaceInv
  <1>8. ASSUME NEW t \in Tasks PROVE KontGood(t)'
    BY <1>1, <1>2, <1>4 DEF KontGood
  <1> QED
    BY <1>1, <1>2, <1>5, <1>6, <1>7, <1>8 DEF Scheduled

LEMMA GoMoves ==
  ASSUME NEW S \in SUBSET Tasks, Scheduled(S), Go
  PROVE  Scheduled(S)'
  <1>1. TypeOK /\ QueueGood(queue) /\ ComeInv(S) /\ PlaceInv /\ (\A t \in Tasks : KontGood(t))
    BY DEF Scheduled
  <1>2. PICK k \in Konts : k = kont[picked]
    BY <1>1 DEF Go, PlaceInv, TypeOK, Konts
  <1>3. /\ pc = "go" /\ pc' = k.pc
        /\ wind' = [i \in DOMAIN k.wind |-> FALSE]
        /\ timer' = IF k.enable THEN "low" ELSE timer
        /\ picked' = k.picked
        /\ UNCHANGED <<state, critical, kont, queue, all, current>>
    BY <1>2 DEF Go, taskVars
  <1>4. picked = current /\ current \in Tasks /\ state[current] = "running" /\ timer # "low"
    BY <1>1, <1>3 DEF PlaceInv
  <1>5. k = kont[current] /\ current \notin S
    BY <1>1, <1>2, <1>4 DEF ComeInv
  <1>6. /\ k.pc \in {"idle", "get", "take", "enable", "user", "done"}
        /\ k.pc = "take" => k.picked \in Tasks
        /\ k.pc = "enable" => k.picked = current
    BY <1>1, <1>4, <1>5 DEF KontGood
  <1>7. k.pc # "user" => timer' # "low"
    BY <1>1, <1>3, <1>4, <1>5 DEF KontGood
  <1>8. k.wind \in Seq(BOOLEAN) /\ k.picked \in Tasks \cup {NoTask} /\ k.enable \in BOOLEAN
    BY DEF Konts
  <1>9. Off(wind')
    BY <1>3 DEF Off
  <1>10. wind' \in Seq(BOOLEAN)
    <2>1. DOMAIN k.wind = 1 .. Len(k.wind) /\ Len(k.wind) \in Nat
      BY <1>8
    <2>2. wind' \in [1 .. Len(k.wind) -> BOOLEAN]
      BY <1>3, <2>1, Zenon
    <2> QED
      BY <2>1, <2>2
  <1>11. timer' \in Timers
    BY <1>1, <1>3 DEF TypeOK, Timers
  <1>12. TypeOK'
    BY <1>1, <1>3, <1>6, <1>8, <1>10, <1>11 DEF TypeOK, Places, Scheduler
  <1>13. Picks(S) = {u \in S \cup {current} : kont[u].pc = "take"}
    BY <1>3, <1>4 DEF Picks, ToCome
  <1>14. ToCome(S)' \subseteq S \cup {current}
    BY <1>3, <1>6 DEF ToCome
  <1>15. Picks(S)' \subseteq Picks(S)
    BY <1>3, <1>13, <1>14 DEF Picks
  <1>16. ASSUME pc' = "take"
         PROVE  current \in Picks(S) /\ picked' = kont[current].picked /\ current \notin Picks(S)'
    BY <1>3, <1>5, <1>13, <1>16 DEF Picks, ToCome
  <1>17. ComeInv(S)'
    BY <1>1, <1>3, <1>15, <1>16 DEF ComeInv
  <1>18. PlaceInv'
    BY <1>3, <1>4, <1>5, <1>6, <1>7, <1>9 DEF PlaceInv
  <1>19. ASSUME NEW t \in Tasks PROVE KontGood(t)'
    BY <1>1, <1>3 DEF KontGood
  <1> QED
    BY <1>1, <1>3, <1>12, <1>17, <1>18, <1>19 DEF Scheduled

LEMMA DispatchMoves ==
  ASSUME NEW S \in SUBSET Tasks, Scheduled(S), Dispatch
  PROVE  StillScheduled(S)
  <1>1. TypeOK /\ QueueGood(queue) /\ ComeInv(S) /\ PlaceInv /\ (\A t \in Tasks : KontGood(t))
    BY DEF Scheduled
  <1>2. ASSUME state' = state, kont' = kont, current' = current PROVE \A t \in Tasks : KontGood(t)'
    BY <1>1, <1>2 DEF KontGood
  <1>3. CASE Idle
    <2>1. /\ UNCHANGED <<state, critical, kont, queue, all, current, picked>>
          /\ \/ pc' = "done" /\ timer' = "fresh" /\ wind' = << >>
             \/ pc' = "get" /\ UNCHANGED <<timer, wind>>
          /\ pc = "idle"
      BY <1>3 DEF Idle, EndTasking, taskVars
    <2>2. TypeOK'
      <3>1. pc' \in Places
        BY <2>1 DEF Places, Scheduler
      <3>3. timer' \in Timers
        BY <1>1, <2>1 DEF TypeOK, Timers
      <3>2. wind' \in Seq(BOOLEAN)
        <4>1. << >> \in Seq(BOOLEAN) /\ (wind' = << >> \/ wind' = wind)
          BY <2>1
        <4> QED
          BY <1>1, <4>1 DEF TypeOK
      <3> QED
        BY <1>1, <2>1, <3>1, <3>2, <3>3 DEF TypeOK
    <2>3. ComeInv(S)'
      BY <1>1, <2>1 DEF ComeInv, Picks, ToCome
    <2>4. PlaceInv'
      BY <1>1, <2>1 DEF PlaceInv, Off
    <2>5. Scheduled(S)'
      BY <1>1, <1>2, <2>1, <2>2, <2>3, <2>4 DEF Scheduled
    <2> QED
      BY <2>5, StillIf
  <1>4. CASE Get
    <2>1. UNCHANGED <<state, critical, kont, all, current, timer, wind>> /\ pc = "get"
      BY <1>4 DEF Get
    <2>2. CASE QueueEmpty(queue)
      <3>1. pc' = "failed" /\ UNCHANGED <<queue, picked>>
        BY <1>4, <2>2 DEF Get
      <3>2. TypeOK'
        BY <1>1, <2>1, <3>1 DEF TypeOK, Places
      <3>3. ComeInv(S)' /\ PlaceInv'
        BY <1>1, <2>1, <3>1 DEF ComeInv, Picks, ToCome, PlaceInv
      <3>4. Scheduled(S)'
        BY <1>1, <1>2, <2>1, <3>1, <3>2, <3>3 DEF Scheduled
      <3> QED
        BY <3>4, StillIf
    <2>3. CASE ~QueueEmpty(queue)
      <3>1. PICK h : h = Head(queue.items)
        OBVIOUS
      <3>2. picked' = h /\ queue' = QueueGet(queue) /\ pc' = "take"
        BY <1>4, <2>3, <3>1 DEF Get
      <3>3. /\ QueueGood(queue') /\ h \in Queued(queue)
            /\ Queued(queue') = Queued(queue) \ {h}
        BY <1>1, <2>3, <3>1, <3>2, GetGood
      <3>4. h \in S /\ h \in Tasks
        BY <1>1, <3>3 DEF ComeInv
      <3>5. queue' \in [items : Seq(Tasks), linked : BOOLEAN]
        BY <3>3, GoodType
      <3>6. TypeOK'
        BY <1>1, <2>1, <3>2, <3>4, <3>5 DEF TypeOK, Places, Scheduler
      <3>7. Picks(S)' = Picks(S)
        BY <2>1, <3>2 DEF Picks, ToCome
      <3>8. ComeInv(S)'
        BY <1>1, <2>1, <3>2, <3>3, <3>4, <3>7 DEF ComeInv
      <3>9. PlaceInv'
        BY <1>1, <2>1, <3>2 DEF PlaceInv
      <3>10. Scheduled(S)'
        BY <1>2, <2>1, <3>3, <3>6, <3>8, <3>9 DEF Scheduled
      <3> QED
        BY <3>10, StillIf
    <2> QED
      BY <2>2, <2>3
  <1>5. CASE Take
    <2>1. PICK T \in SUBSET Tasks : T = S \ {picked}
      OBVIOUS
    <2>2. picked' = picked
      BY <1>5 DEF Take
    <2>3. Scheduled(T)' /\ T \subseteq S
      BY <1>5, <2>1, <2>2, TakeMoves
    <2> QED
      BY <2>3 DEF StillScheduled
  <1>6. CASE Enable
    <2>1. /\ pc = "enable" /\ pc' = "go" /\ timer' \in {"off", "fresh"}
          /\ critical' = [critical EXCEPT ![picked] = FALSE]
          /\ UNCHANGED <<state, kont, queue, all, current, wind, picked>>
      BY <1>6 DEF Enable
    <2>2. TypeOK'
      BY <1>1, <2>1 DEF TypeOK, Places, Scheduler, Timers
    <2>3. ComeInv(S)'
      BY <1>1, <2>1 DEF ComeInv, Picks, ToCome
    <2>4. PlaceInv'
      BY <1>1, <2>1 DEF PlaceInv
    <2>5. Scheduled(S)'
      BY <1>1, <1>2, <2>1, <2>2, <2>3, <2>4 DEF Scheduled
    <2> QED
      BY <2>5, StillIf
  <1>7. CASE Go
    BY <1>7, GoMoves, StillIf
  <1> QED
    BY <1>3, <1>4, <1>5, <1>6, <1>7 DEF Dispatch

LEMMA PutsBack ==
  ASSUME NEW S \in SUBSET Tasks, TypeOK, current \in Tasks, state[current] # "dead",
         NEW k, NEW crit, Reschedule(k, crit), Scheduled(S \cup {current})'
  PROVE  StillScheduled(S)
  <1>1. current' = current /\ state' = [state EXCEPT ![current] = "runnable"]
    BY DEF Reschedule, ToScheduler
  <1>2. current \in Runnable'
    BY <1>1 DEF TypeOK, Runnable
  <1>3. PICK T \in SUBSET Tasks : T = S \cup {current}
    OBVIOUS
  <1>4. T = S \cup {current'}
    BY <1>1, <1>3
  <1>5. Scheduled(T)' /\ T \subseteq S \cup Runnable'
    BY <1>2, <1>3, <1>4
  <1> QED
    BY <1>5 DEF StillScheduled

LEMMA PreemptMoves ==
  ASSUME NEW S \in SUBSET Tasks, Scheduled(S), TimerInterrupt
  PROVE  StillScheduled(S)
  <1>1. TypeOK /\ QueueGood(queue) /\ ComeInv(S) /\ PlaceInv /\ (\A t \in Tasks : KontGood(t))
    BY DEF Scheduled
  <1>2. PICK k : k = Kont(pc, wind, picked, FALSE)
    OBVIOUS
  <1>3. pc \in Scheduler \cup {"user"} /\ Reschedule(k, FALSE) /\ (pc # "user" => timer = "low")
    BY <1>2 DEF TimerInterrupt, Scheduler
  <1>4. k.pc = pc /\ k.wind = wind /\ k.picked = picked /\ k.enable = FALSE /\ k \in Konts
    <2>1. pc \in Places /\ wind \in Seq(BOOLEAN) /\ picked \in Tasks \cup {NoTask} /\ FALSE \in BOOLEAN
      BY <1>1 DEF TypeOK
    <2>2. k \in Konts
      BY <1>2, <2>1, KontType, Zenon
    <2> QED
      BY <1>2, <2>2 DEF Kont
  <1>5. current \in Tasks /\ pc \in {"idle", "get", "take", "enable", "user"}
        /\ (pc = "enable" => picked = current)
        /\ state[current] \in {"running", "blocked", "dead"}
    BY <1>1, <1>3 DEF PlaceInv, Scheduler
  <1>6. CASE state[current] = "dead"
    <2>1. pc' = "failed" /\ timer' = "off" /\ UNCHANGED <<taskVars, current, wind, picked>>
      BY <1>3, <1>6 DEF Reschedule
    <2>2. pc \notin {"enable", "go"}
      BY <1>1, <1>6 DEF PlaceInv
    <2>3. TypeOK'
      BY <1>1, <2>1 DEF TypeOK, taskVars, Places, Timers
    <2>4. ComeInv(S)' /\ PlaceInv'
      BY <1>1, <2>1, <2>2 DEF ComeInv, Picks, ToCome, PlaceInv, taskVars
    <2>5. \A t \in Tasks : KontGood(t)'
      BY <1>1, <2>1 DEF KontGood, taskVars
    <2>6. Scheduled(S)'
      BY <1>1, <2>1, <2>3, <2>4, <2>5 DEF Scheduled, taskVars
    <2> QED
      BY <2>6, StillIf
  <1>7. CASE state[current] # "dead"
    <2>1. Off(k.wind)
      BY <1>1, <1>4 DEF PlaceInv
    <2>2. Scheduled(S \cup {current})'
      <3>1. /\ state[current] \in {"running", "blocked"} /\ FALSE \in BOOLEAN
            /\ k.pc \in {"idle", "get", "take", "enable", "user"}
            /\ k.pc = "take" => pc = "take" /\ k.picked = picked
            /\ k.pc = "enable" => k.picked = current
        BY <1>4, <1>5, <1>7
      <3> QED
        BY <1>3, <1>4, <1>5, <2>1, <3>1, PutBack
    <2> QED
      BY <1>1, <1>3, <1>5, <1>7, <2>2, PutsBack
  <1> QED
    BY <1>6, <1>7

LEMMA LeavesType ==
  ASSUME NEW w \in Seq(BOOLEAN), LeaveSection(w)
  PROVE  wind' \in Seq(BOOLEAN) /\ timer' \in Timers
  <1>1. SubSeq(w, 1, Len(w) - 1) \in Seq(BOOLEAN)
    <2>1. CASE w = << >>
      <3>1. Len(w) - 1 = -1 /\ SubSeq(w, 1, -1) = << >>
        BY <2>1
      <3> QED
        BY <3>1
    <2>2. CASE w # << >>
      BY <2>2
    <2> QED
      BY <2>1, <2>2
  <1> QED
    BY <1>1 DEF LeaveSection, Timers

LEMMA PushElems ==
  ASSUME NEW b \in Seq(Tasks), NEW t \in Tasks
  PROVE  /\ <<t>> \o b \in Seq(Tasks)
         /\ t \in Elems(<<t>> \o b) /\ Elems(b) \subseteq Elems(<<t>> \o b)
  <1>1. PICK c : c = <<t>> \o b
    OBVIOUS
  <1>2. c \in Seq(Tasks) /\ Len(c) = 1 + Len(b) /\ c[1] = t
        /\ \A i \in 1 .. Len(b) : c[i + 1] = b[i]
    BY <1>1
  <1>3. DOMAIN c = 1 .. 1 + Len(b) /\ DOMAIN b = 1 .. Len(b) /\ Len(b) \in Nat
    BY <1>2
  <1>4. 1 \in DOMAIN c /\ \A i \in DOMAIN b : i + 1 \in DOMAIN c /\ c[i + 1] = b[i]
    BY <1>2, <1>3
  <1>5. t \in Elems(c)
    BY <1>2, <1>4 DEF Elems
  <1>6. Elems(b) \subseteq Elems(c)
    BY <1>4 DEF Elems
  <1> QED
    BY <1>1, <1>2, <1>5, <1>6

(* What programs do.                                                       *)
LEMMA InOwnCode ==
  ASSUME NEW S \in SUBSET Tasks, Scheduled(S), pc = "user"
  PROVE  TypeOK /\ current \in Tasks /\ state[current] = "running" /\ Off(wind)
         /\ current \notin S /\ kont[current].pc = "user"
  BY DEF Scheduled, PlaceInv, ComeInv

LEMMA HereGood ==
  ASSUME TypeOK
  PROVE  Here \in Konts /\ Here.pc = "user" /\ Here.wind = wind /\ InCriticalSection \in BOOLEAN
  <1>1. PICK w \in Seq(BOOLEAN) : w = wind
    BY DEF TypeOK
  <1>2. PICK x \in BOOLEAN : x = InterruptsOn
    BY DEF InterruptsOn
  <1>3. "user" \in Places /\ NoTask \in Tasks \cup {NoTask}
    BY DEF Places
  <1>4. Here = Kont("user", w, NoTask, x)
    BY <1>1, <1>2 DEF Here
  <1>5. Kont("user", w, NoTask, x) \in Konts /\ Kont("user", w, NoTask, x).pc = "user"
        /\ Kont("user", w, NoTask, x).wind = w
    BY <1>3, KontType, Zenon
  <1> QED
    BY <1>1, <1>4, <1>5 DEF InCriticalSection

LEMMA YieldMoves ==
  ASSUME NEW S \in SUBSET Tasks, Scheduled(S), Yield
  PROVE  StillScheduled(S)
  <1>1. pc = "user" /\ Reschedule(Here, InCriticalSection)
    BY DEF Yield
  <1>2. TypeOK /\ current \in Tasks /\ state[current] = "running" /\ Off(wind)
    BY <1>1, InOwnCode
  <1>3. Here \in Konts /\ Here.pc = "user" /\ Off(Here.wind) /\ InCriticalSection \in BOOLEAN
    BY <1>2, HereGood
  <1>4. PICK k \in Konts, x \in BOOLEAN : k = Here /\ x = InCriticalSection
    BY <1>3
  <1>5. k.pc = "user" /\ Off(k.wind) /\ Reschedule(k, x)
    BY <1>1, <1>3, <1>4
  <1>6. Scheduled(S \cup {current})'
    BY <1>2, <1>5, PutBack
  <1> QED
    BY <1>2, <1>5, <1>6, PutsBack

LEMMA MostlyStops ==
  ASSUME Ordinary, NEW t, MayStop(t)
  PROVE  \A i \in 2 .. Len(queue.items) : queue.items[i] = t => i < Len(queue.items)
  <1>1. "evict last" \notin Uses
    BY Zenon DEF Ordinary
  <1>2. "evict last" \in Uses \/ \A i \in 2 .. Len(queue.items) : queue.items[i] = t => i < Len(queue.items)
    BY Zenon DEF MayStop
  <1> QED
    BY <1>1, <1>2, Zenon

LEMMA EndMoves ==
  ASSUME NEW S \in SUBSET Tasks, Scheduled(S), Ordinary, NEW t \in Tasks, state[t] # "none",
         NEW k \in Konts, k.pc \in {"user", "done"}, k.pc # "user" => k.enable = FALSE,
         t = current \/ Off(k.wind), EndTask(t, k)
  PROVE  Scheduled(S)'
  <1>1. \A i \in 2 .. Len(queue.items) : queue.items[i] = t => i < Len(queue.items)
    BY MostlyStops DEF EndTask
  <1>2. pc = "user" /\ Stop(t, "dead", k, FALSE) /\ all' = all \ {t}
    BY DEF EndTask
  <1>3. all' \in SUBSET Tasks /\ FALSE \in BOOLEAN
    BY <1>2 DEF Scheduled, TypeOK
  <1> QED
    BY <1>1, <1>2, <1>3, Stops

LEMMA KillMoves ==
  ASSUME NEW S \in SUBSET Tasks, Scheduled(S), Ordinary, NEW t \in Tasks, Kill(t)
  PROVE  Scheduled(S)'
  <1>1. pc = "user" /\ state[t] # "none" /\ EndTask(t, Here)
    BY DEF Kill, EndTask
  <1>2. TypeOK /\ Off(wind)
    BY <1>1, InOwnCode
  <1>3. PICK k \in Konts : k = Here /\ k.pc = "user" /\ Off(k.wind)
    BY <1>2, HereGood
  <1> QED
    BY <1>1, <1>3, EndMoves

LEMMA ReturnMoves ==
  ASSUME NEW S \in SUBSET Tasks, Scheduled(S), Ordinary, Return
  PROVE  Scheduled(S)'
  <1>1. pc = "user" /\ EndTask(current, Kont("done", << >>, NoTask, FALSE))
    BY DEF Return, EndTask
  <1>2. current \in Tasks /\ state[current] = "running"
    BY <1>1, InOwnCode
  <1>3. PICK k \in Konts : k = Kont("done", << >>, NoTask, FALSE) /\ k.pc = "done" /\ k.enable = FALSE
    BY PlainKonts DEF Kont
  <1> QED
    BY <1>1, <1>2, <1>3, EndMoves

LEMMA BlockHereMoves ==
  ASSUME NEW S \in SUBSET Tasks, Scheduled(S), pc = "user", NEW w \in Seq(BOOLEAN), BlockHere(w)
  PROVE  /\ Scheduled(S)' /\ state' = [state EXCEPT ![current] = "blocked"]
         /\ kont' = [kont EXCEPT ![current] = Kont("user", w, NoTask, FALSE)]
  <1>1. TypeOK /\ current \in Tasks /\ state[current] = "running"
    BY InOwnCode
  <1>2. "user" \in Places /\ NoTask \in Tasks \cup {NoTask} /\ FALSE \in BOOLEAN
    BY DEF Places
  <1>3. PICK k \in Konts : k = Kont("user", w, NoTask, FALSE) /\ k.pc = "user"
    BY <1>2, KontType, Zenon
  <1>4. Stop(current, "blocked", k, TRUE) /\ all' = all
    BY <1>3 DEF BlockHere
  <1>5. all' \in SUBSET Tasks /\ TRUE \in BOOLEAN
    BY <1>1, <1>4 DEF TypeOK
  <1>6. Scheduled(S)'
    BY <1>1, <1>3, <1>4, <1>5, Stops
  <1> QED
    BY <1>1, <1>3, <1>4, <1>6 DEF Stop, ToScheduler

LEMMA WakesThem ==
  ASSUME NEW S \in SUBSET Tasks, NEW W \in SUBSET Tasks, W \subseteq Runnable', Scheduled(S \cup W)'
  PROVE  StillScheduled(S)
  <1>1. PICK T \in SUBSET Tasks : T = S \cup W
    OBVIOUS
  <1>2. Scheduled(T)' /\ T \subseteq S \cup Runnable'
    BY <1>1
  <1> QED
    BY <1>2 DEF StillScheduled

(* spawn and unblock of one task, and of those of a list.                  *)
LEMMA PutOnMoves ==
  ASSUME NEW S \in SUBSET Tasks, Scheduled(S), pc = "user", NEW t \in Tasks,
         Spawn(t) \/ Unblock(t)
  PROVE  StillScheduled(S)
  <1>1. /\ state[t] \in {"none", "blocked"} /\ state' = [state EXCEPT ![t] = "runnable"]
        /\ queue' = QueuePut(queue, t) /\ all' \in {all, all \cup {t}}
        /\ UNCHANGED <<critical, kont, current, timer, pc, wind, picked>>
    BY DEF Spawn, Unblock, Schedule
  <1>2. TypeOK /\ Off(wind) /\ QueueGood(queue) /\ t \notin Queued(queue)
    BY <1>1 DEF Scheduled, ComeInv, PlaceInv
  <1>3. PICK W \in SUBSET Tasks : W = {t}
    OBVIOUS
  <1>4. QueueGood(queue') /\ Queued(queue') = Queued(queue) \cup W
    BY <1>1, <1>2, <1>3, PutGood
  <1>5. state' = [u \in Tasks |-> IF u \in W THEN "runnable" ELSE state[u]]
    BY <1>1, <1>2, <1>3 DEF TypeOK
  <1>6. /\ \A u \in W : state[u] \in {"none", "blocked"}
        /\ all' \in SUBSET Tasks /\ wind' \in Seq(BOOLEAN) /\ Off(wind') /\ timer' \in Timers
    BY <1>1, <1>2, <1>3 DEF TypeOK
  <1>7. Scheduled(S \cup W)'
    BY <1>1, <1>4, <1>5, <1>6, Wakes
  <1>8. W \subseteq Runnable'
    BY <1>5 DEF Runnable
  <1> QED
    BY <1>7, <1>8, WakesThem

LEMMA UnblockAllMoves ==
  ASSUME NEW S \in SUBSET Tasks, Scheduled(S), pc = "user", NEW b \in Seq(Tasks), UnblockAll(b),
         wind' \in Seq(BOOLEAN), Off(wind'), timer' \in Timers,
         UNCHANGED <<critical, kont, all, current, pc, picked>>
  PROVE  StillScheduled(S)
  <1>1. PICK s \in Orders(b) : queue' = QueuePutAll(queue, s)
    BY DEF UnblockAll
  <1>2. PICK W \in SUBSET Tasks : W = Woken(b)
    BY DEF Woken
  <1>3. \A t \in W : state[t] = "blocked"
    BY <1>2 DEF Woken
  <1>4. s \in Seq(Tasks) /\ Distinct(s) /\ Elems(s) = W
    BY <1>2, OrderOf
  <1>5. TypeOK /\ QueueGood(queue) /\ W \cap Queued(queue) = {}
    BY <1>3 DEF Scheduled, ComeInv
  <1>6. QueueGood(queue') /\ Queued(queue') = Queued(queue) \cup W
    BY <1>1, <1>4, <1>5, PutAllGood
  <1>7. state' = [t \in Tasks |-> IF t \in W THEN "runnable" ELSE state[t]]
    BY <1>2 DEF UnblockAll
  <1>8. all' \in SUBSET Tasks
    BY <1>5 DEF TypeOK
  <1>9. Scheduled(S \cup W)'
    BY <1>3, <1>6, <1>7, <1>8, Wakes
  <1>10. W \subseteq Runnable'
    BY <1>7 DEF Runnable
  <1> QED
    BY <1>9, <1>10, WakesThem

(* The winds of a task, and those in a critical section it has just        *)
(* entered.                                                                *)
Winds(w) ==
  /\ w \in Seq(BOOLEAN)
  /\ Off(w) \/ \E v \in Seq(BOOLEAN), x \in BOOLEAN : Off(v) /\ w = Append(v, x)

LEMMA LeavesOff ==
  ASSUME NEW w, Winds(w), LeaveSection(w)
  PROVE  wind' \in Seq(BOOLEAN) /\ Off(wind') /\ timer' \in Timers
  <1>1. w \in Seq(BOOLEAN) /\ wind' \in Seq(BOOLEAN) /\ timer' \in Timers
    BY LeavesType DEF Winds
  <1>2. Off(wind')
    <2>1. CASE Off(w)
      <3>1. CASE w = << >>
        <4>1. wind' = << >>
          BY <3>1 DEF LeaveSection
        <4> QED
          BY <4>1 DEF Off
      <3>2. CASE w # << >>
        <4>1. PICK n \in Nat : Len(w) = n + 1 /\ DOMAIN w = 1 .. n + 1
          BY <1>1, <3>2
        <4>2. wind' = SubSeq(w, 1, n)
          BY <4>1 DEF LeaveSection
        <4>3. DOMAIN wind' = 1 .. n /\ \A i \in 1 .. n : wind'[i] = w[i]
          BY <1>1, <4>1, <4>2
        <4>4. \A i \in 1 .. n : w[i] = FALSE
          BY <2>1, <4>1 DEF Off
        <4> QED
          BY <4>3, <4>4, Zenon DEF Off
      <3> QED
        BY <3>1, <3>2
    <2>2. CASE \E v \in Seq(BOOLEAN), x \in BOOLEAN : Off(v) /\ w = Append(v, x)
      <3>1. PICK v \in Seq(BOOLEAN), x \in BOOLEAN : Off(v) /\ w = Append(v, x)
        BY <2>2
      <3>2. wind' = v
        BY <3>1 DEF LeaveSection
      <3> QED
        BY <3>1, <3>2
    <2> QED
      BY <2>1, <2>2 DEF Winds
  <1> QED
    BY <1>1, <1>2

LEMMA EnteredWind ==
  ASSUME NEW S \in SUBSET Tasks, Scheduled(S), pc = "user"
  PROVE  Winds(wind) /\ Winds(Append(wind, InterruptsOn))
  <1>1. PICK v \in Seq(BOOLEAN) : v = wind
    BY InOwnCode DEF TypeOK
  <1>2. PICK x \in BOOLEAN : x = InterruptsOn
    BY DEF InterruptsOn
  <1>3. Off(v)
    BY <1>1, InOwnCode
  <1>4. PICK w : w = Append(v, x)
    OBVIOUS
  <1>5. w \in Seq(BOOLEAN)
    BY <1>4
  <1>6. Winds(v) /\ Winds(w)
    BY <1>3, <1>4, <1>5 DEF Winds
  <1> QED
    BY <1>1, <1>2, <1>4, <1>6

(* The timer and the scheduler move no task but to make it ready.          *)
Ready == {"runnable", "running"}
OnlyReadyMove == \A t \in Tasks : state'[t] = state[t] \/ state'[t] \in Ready

LEMMA ReadyMove ==
  ASSUME TypeOK, TimerInterrupt \/ Yield \/ Dispatch
  PROVE  OnlyReadyMove
  <1>1. ASSUME NEW u, NEW x \in Ready, state' = [state EXCEPT ![u] = x]
        PROVE  OnlyReadyMove
    BY <1>1 DEF TypeOK, OnlyReadyMove
  <1>2. ASSUME state' = state PROVE OnlyReadyMove
    BY <1>2 DEF OnlyReadyMove
  <1>3. CASE TimerInterrupt \/ Yield
    <2>1. state' = state \/ state' = [state EXCEPT ![current] = "runnable"]
      BY <1>3 DEF TimerInterrupt, Yield, Reschedule, taskVars
    <2> QED
      BY <1>1, <1>2, <2>1 DEF Ready
  <1>4. CASE Take
    BY <1>1, <1>4 DEF Take, Ready
  <1>5. CASE Idle \/ Get \/ Enable \/ Go
    BY <1>2, <1>5 DEF Idle, Get, Enable, Go, EndTasking, taskVars
  <1> QED
    BY <1>3, <1>4, <1>5 DEF Dispatch

Scheduling == \E S \in SUBSET Tasks : Scheduled(S)

LEMMA InCode ==
  ASSUME Scheduling
  PROVE  TypeOK /\ (pc = "user" => current \in Tasks /\ state[current] = "running")
  BY InOwnCode DEF Scheduling, Scheduled

LEMMA Goes ==
  ASSUME NEW S \in SUBSET Tasks, StillScheduled(S) \/ Scheduled(S)'
  PROVE  Scheduling' /\ TypeOK'
  BY DEF StillScheduled, Scheduling, Scheduled

LEMMA SectionEnds ==
  ASSUME Scheduling, pc = "user", NEW w, Winds(w), LeaveSection(w),
         UNCHANGED <<taskVars, current, pc, picked>>
  PROVE  Scheduling' /\ TypeOK'
  <1>1. PICK S \in SUBSET Tasks : Scheduled(S)
    BY DEF Scheduling
  <1>2. wind' \in Seq(BOOLEAN) /\ Off(wind') /\ timer' \in Timers
    BY LeavesOff
  <1> QED
    BY <1>1, <1>2, WindsMove, Goes
-----------------------------------------------------------------------------
(* MUTEXES                                                                 *)
(* Every release is owed by the holder, who is alive; who waits in the     *)
(* loop of mutex-acquire does not hold the mutex, and as long as it is     *)
(* blocked it is on the list that the holder's release goes through.       *)
HolderLives ==
  \A m \in Mutexes :
    /\ held[m] # NoTask => count[m] >= 1 /\ state[held[m]] \notin {"none", "dead"}
    /\ held[m] = NoTask => count[m] = 0
WaitersWait ==
  \A t \in Tasks, m \in Mutexes :
    loop[t] = m =>
      /\ held[m] # t
      /\ state[t] = "blocked" => held[m] # NoTask /\ t \in Elems(blocked[m])
MutexInv == Scheduling /\ MutexTypeOK /\ OneOwner /\ HolderLives /\ WaitersWait
MutexHypotheses == MutexAssumption /\ Ordinary

LEMMA MutexInvShows == MutexAssumption /\ MutexInv => OneOwner /\ NoLostWakeup
  <1> SUFFICES ASSUME MutexAssumption, MutexInv, NEW t \in Tasks, NEW m \in Mutexes,
                      loop[t] = m, state[t] = "blocked"
               PROVE  /\ \E i \in DOMAIN blocked[m] : blocked[m][i] = t
                      /\ held[m] \notin {NoTask, t}
                      /\ state[held[m]] # "dead" /\ loop[held[m]] # m
    BY DEF NoLostWakeup, MutexInv
  <1>1. held[m] # t /\ held[m] # NoTask /\ t \in Elems(blocked[m])
    BY DEF MutexInv, WaitersWait
  <1>2. held[m] \in Tasks /\ state[held[m]] # "dead"
    BY <1>1 DEF MutexInv, MutexTypeOK, HolderLives
  <1>3. loop[held[m]] # m
    BY <1>2 DEF MutexInv, WaitersWait
  <1> QED
    BY <1>1, <1>2, <1>3 DEF Elems

LEMMA InitScheduling == Init => Scheduling /\ TypeOK
  <1> SUFFICES ASSUME Init PROVE Scheduling /\ TypeOK
    OBVIOUS
  <1>1. PICK S \in SUBSET Tasks : S = {Initial}
    BY Named
  <1>2. TaskInv
    BY InitInv
  <1>3. QueueGood(queue) /\ Queued(queue) = Runnable /\ TypeOK
    BY <1>2 DEF TaskInv, QueueInv, Init
  <1>4. \A t \in Tasks : state[t] = IF t \in S THEN "runnable" ELSE "none"
    BY <1>1 DEF Init
  <1>5. \A t \in Tasks : kont[t].pc = "user"
    BY PlainKonts DEF Init
  <1>6. ComeInv(S)
    BY <1>1, <1>3, <1>4, <1>5 DEF Init, ComeInv, Picks, ToCome, Runnable
  <1>7. PlaceInv
    BY DEF Init, PlaceInv, Off
  <1>8. \A t \in Tasks : KontGood(t)
    BY <1>5 DEF KontGood
  <1> QED
    BY <1>3, <1>6, <1>7, <1>8 DEF Scheduling, Scheduled

LEMMA StandsStill ==
  ASSUME NEW S \in SUBSET Tasks, Scheduled(S), UNCHANGED vars
  PROVE  Scheduled(S)'
  <1>1. TypeOK' /\ QueueGood(queue') /\ ComeInv(S)'
    BY DEF Scheduled, TypeOK, ComeInv, Picks, ToCome, vars, taskVars
  <1>2. PlaceInv' /\ \A t \in Tasks : KontGood(t)'
    BY DEF Scheduled, PlaceInv, KontGood, vars, taskVars
  <1> QED
    BY <1>1, <1>2 DEF Scheduled

LEMMA MutexInitInv == MutexAssumption /\ MutexInit => MutexInv
  <1> SUFFICES ASSUME MutexAssumption, MutexInit PROVE MutexInv
    OBVIOUS
  <1>1. Scheduling /\ TypeOK
    BY InitScheduling DEF MutexInit
  <1>2. MutexTypeOK
    <2>1. << >> \in Seq(Tasks)
      OBVIOUS
    <2> QED
      BY <1>1, <2>1 DEF MutexInit, MutexTypeOK, MutexAssumption
  <1>3. OneOwner /\ HolderLives /\ WaitersWait
    BY Named DEF MutexInit, OneOwner, HolderLives, WaitersWait, MutexAssumption
  <1> QED
    BY <1>1, <1>2, <1>3 DEF MutexInv

(* What leaves the mutexes alone, and moves no task that waits but to let  *)
(* it go on, and none that holds a mutex but when it is ready.             *)
LEMMA ProgramKeeps ==
  ASSUME MutexInv, Scheduling', TypeOK', UNCHANGED mutexVars,
         \A t \in Tasks : \/ state'[t] = state[t]
                          \/ state'[t] \in Ready
                          \/ state'[t] = "dead" /\ ~Holder(t)
  PROVE  MutexInv'
  <1>1. MutexTypeOK' /\ OneOwner'
    BY DEF mutexVars, MutexInv, MutexTypeOK, OneOwner
  <1>2. HolderLives'
    BY DEF mutexVars, MutexInv, MutexTypeOK, HolderLives, Holder, Ready
  <1>3. WaitersWait'
    BY DEF mutexVars, MutexInv, WaitersWait, Ready
  <1> QED
    BY <1>1, <1>2, <1>3 DEF MutexInv

(* The current task gets the mutex, as its first or its next acquire.      *)
LEMMA HoldKeeps ==
  ASSUME MutexInv, MutexAssumption, pc = "user", NEW m \in Mutexes, NEW n \in 1 .. MaxCount,
         NEW w, Winds(w), loop[current] \in {m, NoMutex},
         (held[m] = NoTask /\ n = 1) \/ (held[m] = current /\ n = count[m] + 1),
         Hold(m, n, w)
  PROVE  MutexInv'
  <1>1. current \in Tasks /\ state[current] = "running" /\ MutexTypeOK /\ NoTask \notin Tasks
    BY Named, InCode DEF MutexInv
  <1>2. UNCHANGED <<taskVars, current, pc, picked>> /\ LeaveSection(w)
    BY DEF Hold
  <1>3. Scheduling' /\ TypeOK'
    BY <1>2, SectionEnds DEF MutexInv
  <1>4. /\ held' = [held EXCEPT ![m] = current]
        /\ count' = [count EXCEPT ![m] = n]
        /\ loop' = [loop EXCEPT ![current] = NoMutex]
        /\ owed' = [owed EXCEPT ![current][m] = @ + 1]
        /\ blocked' = blocked /\ state' = state
    BY DEF Hold, taskVars
  <1>5. n \in Nat /\ n >= 1
    BY DEF MutexAssumption
  <1>6. MutexTypeOK'
    BY <1>1, <1>3, <1>4, <1>5 DEF MutexTypeOK, MutexAssumption
  <1>7. OneOwner'
    <2>1. SUFFICES ASSUME NEW t \in Tasks, NEW x \in Mutexes
                   PROVE  owed'[t][x] = IF held'[x] = t THEN count'[x] ELSE 0
      BY DEF OneOwner
    <2>2. owed[t][x] = IF held[x] = t THEN count[x] ELSE 0
      BY DEF MutexInv, OneOwner
    <2>3. CASE x # m
      BY <1>1, <1>4, <2>2, <2>3 DEF MutexTypeOK
    <2>4. CASE x = m /\ t # current
      BY <1>1, <1>4, <2>2, <2>4 DEF MutexTypeOK
    <2>5. CASE x = m /\ t = current
      BY <1>1, <1>4, <1>5, <2>2, <2>5 DEF MutexTypeOK
    <2> QED
      BY <2>3, <2>4, <2>5
  <1>8. HolderLives'
    BY <1>1, <1>4, <1>5 DEF MutexInv, HolderLives, MutexTypeOK
  <1>9. WaitersWait'
    BY <1>1, <1>4 DEF MutexInv, WaitersWait, MutexTypeOK, MutexAssumption
  <1> QED
    BY <1>3, <1>6, <1>7, <1>8, <1>9 DEF MutexInv

(* The current task waits for a mutex that another one holds.              *)
LEMMA WaitKeeps ==
  ASSUME MutexInv, MutexAssumption, pc = "user", NEW m \in Mutexes,
         NEW w, Winds(w), loop[current] \in {m, NoMutex},
         held[m] \notin {NoTask, current}, Wait(m, w)
  PROVE  MutexInv'
  <1>1. current \in Tasks /\ state[current] = "running" /\ MutexTypeOK /\ NoTask \notin Tasks /\ TypeOK
    BY Named, InCode DEF MutexInv
  <1>2. Scheduling' /\ TypeOK' /\ state' = [state EXCEPT ![current] = "blocked"]
    <2>1. PICK S \in SUBSET Tasks : Scheduled(S)
      BY DEF MutexInv, Scheduling
    <2>2. BlockHere(w) /\ w \in Seq(BOOLEAN)
      BY DEF Wait, Winds
    <2> QED
      BY <2>1, <2>2, BlockHereMoves, Goes
  <1>3. /\ blocked' = [blocked EXCEPT ![m] = <<current>> \o @]
        /\ loop' = [loop EXCEPT ![current] = m]
        /\ UNCHANGED <<held, count, owed>>
    BY DEF Wait
  <1>4. PICK b \in Seq(Tasks) : b = blocked[m]
    BY <1>1 DEF MutexTypeOK
  <1>5. PICK c : c = <<current>> \o b
    OBVIOUS
  <1>6. c \in Seq(Tasks) /\ current \in Elems(c) /\ Elems(b) \subseteq Elems(c)
    BY <1>1, <1>5, PushElems
  <1>8. blocked' = [blocked EXCEPT ![m] = c]
    BY <1>3, <1>4, <1>5
  <1>9. MutexTypeOK' /\ OneOwner'
    BY <1>1, <1>2, <1>3, <1>6, <1>8 DEF MutexTypeOK, MutexInv, OneOwner
  <1>10. HolderLives'
    BY <1>1, <1>2, <1>3 DEF MutexInv, HolderLives, MutexTypeOK, TypeOK
  <1>11. WaitersWait'
    <2>1. SUFFICES ASSUME NEW t \in Tasks, NEW x \in Mutexes, loop'[t] = x
                   PROVE  /\ held[x] # t
                          /\ state'[t] = "blocked" => held[x] # NoTask /\ t \in Elems(blocked'[x])
      BY <1>3 DEF WaitersWait
    <2>2. CASE t = current
      BY <1>1, <1>3, <1>6, <1>8, <2>1, <2>2 DEF MutexTypeOK
    <2>3. CASE t # current
      <3>1. loop[t] = x /\ state'[t] = state[t]
        BY <1>1, <1>2, <1>3, <2>1, <2>3 DEF MutexTypeOK, TypeOK
      <3>2. held[x] # t /\ (state[t] = "blocked" => held[x] # NoTask /\ t \in Elems(blocked[x]))
        BY <3>1 DEF MutexInv, WaitersWait
      <3>3. Elems(blocked[x]) \subseteq Elems(blocked'[x])
        BY <1>1, <1>4, <1>6, <1>8 DEF MutexTypeOK
      <3> QED
        BY <3>1, <3>2, <3>3
    <2> QED
      BY <2>2, <2>3
  <1> QED
    BY <1>2, <1>9, <1>10, <1>11 DEF MutexInv

LEMMA ReleaseKeeps ==
  ASSUME MutexInv, MutexAssumption, NEW m \in Mutexes, Release(m)
  PROVE  MutexInv'
  <1>1. /\ pc = "user" /\ current \in Tasks /\ state[current] = "running"
        /\ MutexTypeOK /\ NoTask \notin Tasks /\ TypeOK /\ held[m] = current
        /\ loop[current] = NoMutex
    BY Named, InCode DEF MutexInv, Release, Running, MayRelease
  <1>2. PICK S \in SUBSET Tasks : Scheduled(S)
    BY DEF MutexInv, Scheduling
  <1>3. PICK w : w = Append(wind, InterruptsOn) /\ Winds(w) /\ LeaveSection(w)
    BY <1>1, <1>2, EnteredWind DEF Release
  <1>4. /\ count' = [count EXCEPT ![m] = @ - 1]
        /\ owed' = [owed EXCEPT ![current][m] = @ - 1]
        /\ UNCHANGED <<loop, critical, kont, all, current, pc, picked>>
    BY DEF Release
  <1>5. /\ count[m] \in Nat /\ count[m] >= 1 /\ count[m] <= MaxCount /\ MaxCount \in Nat
        /\ owed[current][m] = count[m]
    BY <1>1 DEF MutexInv, MutexTypeOK, HolderLives, OneOwner, MutexAssumption
  <1>6. count' \in [Mutexes -> 0 .. MaxCount] /\ owed' \in [Tasks -> [Mutexes -> Nat]]
    BY <1>1, <1>4, <1>5 DEF MutexTypeOK
  <1>7. CASE count[m] = 1
    <2>1. /\ blocked' = [blocked EXCEPT ![m] = << >>]
          /\ held' = [held EXCEPT ![m] = NoTask]
          /\ UnblockAll(blocked[m])
      BY <1>7 DEF Release
    <2>2. blocked[m] \in Seq(Tasks) /\ << >> \in Seq(Tasks)
      BY <1>1 DEF MutexTypeOK
    <2>3. Scheduling' /\ TypeOK'
      <3>1. wind' \in Seq(BOOLEAN) /\ Off(wind') /\ timer' \in Timers
        BY <1>3, LeavesOff
      <3> QED
        BY <1>1, <1>2, <1>4, <2>1, <2>2, <3>1, UnblockAllMoves, Goes
    <2>4. MutexTypeOK'
      BY <1>1, <1>4, <1>6, <2>1, <2>2, <2>3 DEF MutexTypeOK
    <2>5. \A t \in Tasks : state'[t] = IF t \in Woken(blocked[m]) THEN "runnable" ELSE state[t]
      BY <2>1 DEF UnblockAll
    <2>6. \A t \in Tasks : t \in Elems(blocked[m]) /\ state[t] = "blocked" => t \in Woken(blocked[m])
      BY DEF Woken, Elems
    <2>7. OneOwner'
      <3>1. SUFFICES ASSUME NEW t \in Tasks, NEW x \in Mutexes
                     PROVE  owed'[t][x] = IF held'[x] = t THEN count'[x] ELSE 0
        BY DEF OneOwner
      <3>2. owed[t][x] = IF held[x] = t THEN count[x] ELSE 0
        BY DEF MutexInv, OneOwner
      <3>3. CASE x # m
        BY <1>1, <1>4, <2>1, <3>2, <3>3 DEF MutexTypeOK
      <3>4. CASE x = m /\ t # current
        BY <1>1, <1>4, <2>1, <3>2, <3>4 DEF MutexTypeOK
      <3>5. CASE x = m /\ t = current
        BY <1>1, <1>4, <1>5, <1>7, <2>1, <3>5 DEF MutexTypeOK
      <3> QED
        BY <3>3, <3>4, <3>5
    <2>8. HolderLives'
      <3>1. SUFFICES ASSUME NEW x \in Mutexes
                     PROVE  /\ held'[x] # NoTask => count'[x] >= 1 /\ state'[held'[x]] \notin {"none", "dead"}
                            /\ held'[x] = NoTask => count'[x] = 0
        BY DEF HolderLives
      <3>2. CASE x = m
        BY <1>1, <1>4, <1>5, <1>7, <2>1, <3>2 DEF MutexTypeOK
      <3>3. CASE x # m
        <4>1. held'[x] = held[x] /\ count'[x] = count[x]
          BY <1>1, <1>4, <2>1, <3>3 DEF MutexTypeOK
        <4>2. held[x] # NoTask => held[x] \in Tasks
          BY <1>1 DEF MutexTypeOK
        <4> QED
          BY <2>5, <4>1, <4>2 DEF MutexInv, HolderLives
      <3> QED
        BY <3>2, <3>3
    <2>9. WaitersWait'
      <3>1. SUFFICES ASSUME NEW t \in Tasks, NEW x \in Mutexes, loop[t] = x
                     PROVE  /\ held'[x] # t
                            /\ state'[t] = "blocked" => held'[x] # NoTask /\ t \in Elems(blocked'[x])
        BY <1>4 DEF WaitersWait
      <3>2. /\ held[x] # t
            /\ state[t] = "blocked" => held[x] # NoTask /\ t \in Elems(blocked[x])
        BY <3>1 DEF MutexInv, WaitersWait
      <3>3. CASE x = m
        BY <1>1, <2>1, <2>5, <2>6, <3>2, <3>3 DEF MutexTypeOK
      <3>4. CASE x # m
        BY <1>1, <2>1, <2>5, <3>2, <3>4 DEF MutexTypeOK
      <3> QED
        BY <3>3, <3>4
    <2> QED
      BY <2>3, <2>4, <2>7, <2>8, <2>9 DEF MutexInv
  <1>8. CASE count[m] # 1
    <2>1. UNCHANGED <<blocked, held, state, queue>>
      BY <1>8 DEF Release
    <2>2. Scheduling' /\ TypeOK'
      BY <1>1, <1>3, <1>4, <2>1, SectionEnds DEF MutexInv, taskVars
    <2>3. MutexTypeOK'
      BY <1>1, <1>4, <1>6, <2>1, <2>2 DEF MutexTypeOK
    <2>4. OneOwner'
      <3>1. SUFFICES ASSUME NEW t \in Tasks, NEW x \in Mutexes
                     PROVE  owed'[t][x] = IF held[x] = t THEN count'[x] ELSE 0
        BY <2>1 DEF OneOwner
      <3>2. owed[t][x] = IF held[x] = t THEN count[x] ELSE 0
        BY DEF MutexInv, OneOwner
      <3>3. CASE x # m
        BY <1>1, <1>4, <3>2, <3>3 DEF MutexTypeOK
      <3>4. CASE x = m /\ t # current
        BY <1>1, <1>4, <3>2, <3>4 DEF MutexTypeOK
      <3>5. CASE x = m /\ t = current
        BY <1>1, <1>4, <1>5, <3>5 DEF MutexTypeOK
      <3> QED
        BY <3>3, <3>4, <3>5
    <2>5. HolderLives'
      BY <1>1, <1>4, <1>5, <1>8, <2>1 DEF MutexInv, HolderLives, MutexTypeOK
    <2>6. WaitersWait'
      BY <1>4, <2>1 DEF MutexInv, WaitersWait
    <2> QED
      BY <2>2, <2>3, <2>4, <2>5, <2>6 DEF MutexInv
  <1> QED
    BY <1>7, <1>8

LEMMA TurnKeeps ==
  ASSUME MutexInv, MutexAssumption, pc = "user", NEW m \in Mutexes,
         NEW w, Winds(w), loop[current] \in {m, NoMutex},
         held[m] = current => count[m] < MaxCount, TurnOf(m, w)
  PROVE  MutexInv'
  <1>1. current \in Tasks /\ MutexTypeOK
    BY InCode DEF MutexInv
  <1>2. CASE held[m] = NoTask /\ Hold(m, 1, w)
    BY <1>2, HoldKeeps DEF MutexAssumption
  <1>3. CASE held[m] = current /\ Hold(m, count[m] + 1, w)
    <2>1. count[m] + 1 \in 1 .. MaxCount
      BY <1>1, <1>3 DEF MutexTypeOK, MutexAssumption
    <2> QED
      BY <1>3, <2>1, HoldKeeps
  <1>4. CASE held[m] \notin {NoTask, current} /\ Wait(m, w)
    BY <1>4, WaitKeeps
  <1> QED
    BY <1>2, <1>3, <1>4 DEF TurnOf

LEMMA MutexNextKeeps ==
  ASSUME MutexInv, MutexHypotheses, [MutexNext]_<<vars, mutexVars>>
  PROVE  MutexInv'
  <1>1. TypeOK /\ MutexTypeOK /\ (pc = "user" => current \in Tasks /\ state[current] = "running")
    BY InCode DEF MutexInv
  <1>2. PICK S \in SUBSET Tasks : Scheduled(S)
    BY DEF MutexInv, Scheduling
  <1>3. ASSUME NEW m \in Mutexes, Acquire(m) PROVE MutexInv'
    <2>1. pc = "user" /\ loop[current] = NoMutex /\ owed[current][m] < MaxCount
          /\ TurnOf(m, Append(wind, InterruptsOn))
      BY <1>3 DEF Acquire, Running
    <2>2. Winds(Append(wind, InterruptsOn))
      BY <1>2, <2>1, EnteredWind
    <2>3. held[m] = current => count[m] < MaxCount
      BY <1>1, <2>1 DEF MutexInv, OneOwner
    <2> QED
      BY <2>1, <2>2, <2>3, TurnKeeps DEF MutexHypotheses
  <1>4. ASSUME NEW m \in Mutexes, Release(m) PROVE MutexInv'
    BY <1>4, ReleaseKeeps DEF MutexHypotheses
  <1>5. CASE Retry
    <2>1. PICK m \in Mutexes : m = loop[current]
      BY <1>1, <1>5 DEF Retry, MutexTypeOK
    <2>2. held[m] # current /\ pc = "user" /\ TurnOf(m, wind)
      BY <1>1, <1>5, <2>1 DEF Retry, MutexInv, WaitersWait
    <2>3. Winds(wind)
      BY <1>2, <2>2, EnteredWind
    <2> QED
      BY <2>1, <2>2, <2>3, TurnKeeps DEF MutexHypotheses
  <1>6. ASSUME UNCHANGED mutexVars, TimerInterrupt \/ Dispatch \/ Yield PROVE MutexInv'
    <2>1. Scheduling' /\ TypeOK'
      BY <1>2, <1>6, PreemptMoves, DispatchMoves, YieldMoves, Goes
    <2>2. OnlyReadyMove
      BY <1>1, <1>6, ReadyMove
    <2> QED
      BY <1>6, <2>1, <2>2, ProgramKeeps DEF OnlyReadyMove
  <1>7. CASE Program /\ UNCHANGED mutexVars
    <2>1. pc = "user" /\ Ordinary
      BY <1>7 DEF Program, Running, MutexHypotheses
    <2>2. CASE Yield
      BY <1>6, <1>7, <2>2
    <2>3. CASE ~Holder(current) /\ Return
      <3>1. Scheduling' /\ TypeOK'
        BY <1>2, <2>1, <2>3, ReturnMoves, Goes
      <3>2. state' = [state EXCEPT ![current] = "dead"]
        BY <2>3 DEF Return, EndTask, Stop
      <3> QED
        BY <1>1, <1>7, <2>1, <2>3, <3>1, <3>2, ProgramKeeps DEF TypeOK
    <2>4. ASSUME NEW t \in Tasks, Spawn(t) \/ Unblock(t) PROVE MutexInv'
      <3>1. Scheduling' /\ TypeOK'
        BY <1>2, <2>1, <2>4, PutOnMoves, Goes
      <3>2. state' = [state EXCEPT ![t] = "runnable"]
        BY <2>4 DEF Spawn, Unblock, Schedule
      <3> QED
        BY <1>1, <1>7, <3>1, <3>2, ProgramKeeps DEF TypeOK, Ready
    <2>5. ASSUME NEW t \in Tasks, ~Holder(t), Kill(t) PROVE MutexInv'
      <3>1. Scheduling' /\ TypeOK'
        BY <1>2, <2>1, <2>5, KillMoves, Goes
      <3>2. state' = [state EXCEPT ![t] = "dead"]
        BY <2>5 DEF Kill, EndTask, Stop
      <3> QED
        BY <1>1, <1>7, <2>5, <3>1, <3>2, ProgramKeeps DEF TypeOK
    <2> QED
      BY <1>7, <2>2, <2>3, <2>4, <2>5 DEF Program
  <1>8. CASE UNCHANGED <<vars, mutexVars>>
    <2>1. Scheduling' /\ TypeOK'
      BY <1>2, <1>8, StandsStill, Goes
    <2> QED
      BY <1>8, <2>1, ProgramKeeps DEF vars, taskVars
  <1> QED
    BY <1>3, <1>4, <1>5, <1>6, <1>7, <1>8 DEF MutexNext, Preempt
-----------------------------------------------------------------------------
LEMMA MutexInvariant ==
  ASSUME MutexHypotheses PROVE MutexSpec => []MutexInv
  <1>1. MutexInit => MutexInv
    BY MutexInitInv DEF MutexHypotheses
  <1>2. MutexInv /\ [MutexNext]_<<vars, mutexVars>> => MutexInv'
    BY MutexNextKeeps
  <1> QED
    BY <1>1, <1>2, PTL DEF MutexSpec

(* The fields of every mutex and the tasks' state keep their types: no     *)
(* count goes below zero or above what its holder may acquire.             *)
THEOREM MutexesTyped ==
  ASSUME MutexHypotheses PROVE MutexSpec => []MutexTypeOK
  BY MutexInvariant, PTL DEF MutexInv

(* mutex-acquire and mutex-release keep mutual exclusion: only the holder  *)
(* of a mutex has acquires to release, and exactly as many as its count    *)
(* says, whatever preemptions, wakeups and kills come between, and         *)
(* wherever the timer strikes, be it in the scheduler.                     *)
THEOREM MutualExclusion ==
  ASSUME MutexHypotheses PROVE MutexSpec => []OneOwner
  BY MutexInvariant, PTL DEF MutexInv

(* A task that is blocked in mutex-acquire is on the list that the release *)
(* by a live holder, another task, will unblock, wherever the timer        *)
(* strikes.  Of a task that the timer has taken out of the blocked state,  *)
(* in the scheduler, it says nothing: mutex_loses_task shows one.          *)
THEOREM NoWakeupIsLost ==
  ASSUME MutexHypotheses PROVE MutexSpec => []NoLostWakeup
  <1>1. MutexInv => NoLostWakeup
    BY MutexInvShows DEF MutexHypotheses
  <1> QED
    BY <1>1, MutexInvariant, PTL

-----------------------------------------------------------------------------
(* If what is left of a timeslice always outlasts the scheduler, it is not *)
(* interrupted either when a task is blocked in a critical section.        *)
LEMMA BlockHereKeeps ==
  ASSUME TaskInv, pc = "user", NEW w \in Seq(BOOLEAN), BlockHere(w)
  PROVE  TaskInv' /\ state' = [state EXCEPT ![current] = "blocked"]
  <1>1. current \in Tasks /\ state[current] = "running"
    BY DEF TaskInv, RunningInv
  <1>2. "user" \in Places /\ NoTask \in Tasks \cup {NoTask} /\ FALSE \in BOOLEAN
    BY DEF Places
  <1>3. Kont("user", w, NoTask, FALSE) \in Konts /\ Kont("user", w, NoTask, FALSE).pc = "user"
    BY <1>2, KontType, Zenon
  <1>4. Stop(current, "blocked", Kont("user", w, NoTask, FALSE), TRUE) /\ all' = all
    BY DEF BlockHere
  <1> QED
    BY <1>1, <1>3, <1>4, StopKeeps DEF Stop

LEMMA UnblockAllKeeps ==
  ASSUME TaskInv, pc = "user", NEW b \in Seq(Tasks), UnblockAll(b),
         wind' \in Seq(BOOLEAN), timer' \in Timers,
         UNCHANGED <<critical, kont, all, current, pc, picked>>
  PROVE  TaskInv'
  <1>1. current \in Tasks /\ state[current] = "running" /\ TypeOK
    BY DEF TaskInv, RunningInv
  <1>2. PICK s \in Orders(b) : queue' = QueuePutAll(queue, s)
    BY DEF UnblockAll
  <1>3. PICK W : W = Woken(b)
    OBVIOUS
  <1>4. W \subseteq Tasks /\ \A t \in W : state[t] = "blocked"
    BY <1>3 DEF Woken
  <1>8. s \in Seq(Tasks) /\ Distinct(s) /\ Elems(s) = W
    BY <1>3, OrderOf
  <1>9. QueueGood(queue) /\ Queued(queue) = Runnable /\ W \cap Runnable = {}
    BY <1>4 DEF TaskInv, QueueInv, Runnable
  <1>10. QueueGood(queue') /\ Queued(queue') = Runnable \cup W
    BY <1>2, <1>8, <1>9, PutAllGood
  <1>11. state' = [t \in Tasks |-> IF t \in W THEN "runnable" ELSE state[t]]
    BY <1>3 DEF UnblockAll
  <1>12. Runnable' = Runnable \cup W /\ Alive' = Alive
    BY <1>4, <1>11 DEF Runnable, Alive
  <1>13. queue' \in [items : Seq(Tasks), linked : BOOLEAN]
    BY <1>10, GoodType
  <1>14. TypeOK' /\ all' = Alive'
    BY <1>1, <1>11, <1>12, <1>13 DEF TypeOK, TaskInv
  <1>15. QueueInv'
    BY <1>10, <1>12 DEF QueueInv
  <1>16. RunningInv' /\ KontInv'
    BY <1>1, <1>4, <1>11 DEF TaskInv, RunningInv, KontInv, TypeOK
  <1> QED
    BY <1>14, <1>15, <1>16 DEF TaskInv

LEMMA QuickTasksKeep ==
  ASSUME TaskInv, MutexTypeOK, MutexHypotheses, QuickScheduler, [MutexNext]_<<vars, mutexVars>>
  PROVE  TaskInv'
  <1>1. TypeOK /\ (pc = "user" => current \in Tasks /\ state[current] = "running")
        /\ Append(wind, InterruptsOn) \in Seq(BOOLEAN) /\ wind \in Seq(BOOLEAN) /\ Ordinary
    BY DEF TaskInv, RunningInv, TypeOK, InterruptsOn, MutexHypotheses
  <1>2. ASSUME NEW m \in Mutexes, NEW w \in Seq(BOOLEAN), pc = "user", TurnOf(m, w) PROVE TaskInv'
    <2>1. ASSUME NEW n, Hold(m, n, w) PROVE TaskInv'
      <3>1. UNCHANGED <<taskVars, current, pc, picked>> /\ wind' \in Seq(BOOLEAN) /\ timer' \in Timers
        BY <2>1, LeavesType DEF Hold
      <3> QED
        BY <1>2, <3>1, WindsKeep
    <2>2. CASE Wait(m, w)
      BY <1>2, <2>2, BlockHereKeeps DEF Wait
    <2> QED
      BY <1>2, <2>1, <2>2 DEF TurnOf
  <1>3. ASSUME NEW m \in Mutexes, Acquire(m) PROVE TaskInv'
    BY <1>1, <1>2, <1>3 DEF Acquire, Running
  <1>4. ASSUME NEW m \in Mutexes, Release(m) PROVE TaskInv'
    <2>1. pc = "user" /\ UNCHANGED <<critical, kont, all, current, pc, picked>>
          /\ LeaveSection(Append(wind, InterruptsOn))
      BY <1>4 DEF Release, Running
    <2>2. wind' \in Seq(BOOLEAN) /\ timer' \in Timers
      BY <1>1, <2>1, LeavesType
    <2>3. CASE UnblockAll(blocked[m])
      <3>1. blocked[m] \in Seq(Tasks)
        BY DEF MutexTypeOK
      <3> QED
        BY <2>1, <2>2, <2>3, <3>1, UnblockAllKeeps
    <2>4. CASE UNCHANGED <<state, queue>>
      BY <2>1, <2>2, <2>4, WindsKeep DEF taskVars
    <2> QED
      BY <1>4, <2>3, <2>4 DEF Release
  <1>5. CASE Retry
    <2>1. PICK m \in Mutexes : m = loop[current]
      BY <1>1, <1>5 DEF Retry, MutexTypeOK
    <2> QED
      BY <1>1, <1>2, <1>5, <2>1 DEF Retry
  <1>6. CASE Program \/ Preempt \/ Dispatch
    <2>1. CASE Program
      BY <1>1, <2>1, UserKeeps DEF Program, User
    <2>2. CASE Preempt
      BY <2>2, TimerKeeps DEF Preempt
    <2>3. CASE Dispatch
      BY <2>3, DispatchKeeps
    <2> QED
      BY <1>6, <2>1, <2>2, <2>3
  <1>7. CASE UNCHANGED <<vars, mutexVars>>
    BY <1>7, StutterKeeps
  <1> QED
    BY <1>3, <1>4, <1>5, <1>6, <1>7 DEF MutexNext

(* tasking.sch's own invariants survive what mutex.sch does inside         *)
(* critical sections, blocking the current task and waking others, if what *)
(* is left of a timeslice always outlasts the scheduler (QuickScheduler);  *)
(* else a task can be lost, as the run mutex_loses_task shows.             *)
THEOREM MutexesKeepTasks ==
  ASSUME MutexHypotheses, QuickScheduler PROVE MutexSpec => [](TaskInvariants /\ NoSchedulerError)
  <1>1. MutexInit => TaskInv
    BY InitInv DEF MutexInit
  <1>2. MutexInv /\ TaskInv /\ [MutexNext]_<<vars, mutexVars>> => TaskInv'
    BY QuickTasksKeep DEF MutexInv
  <1>3. TaskInv => TaskInvariants /\ NoSchedulerError
    BY InvImplies
  <1> QED
    BY <1>1, <1>2, <1>3, MutexInvariant, PTL DEF MutexSpec
-----------------------------------------------------------------------------
(* Where a task goes on that waits in the loop of mutex-acquire: a         *)
(* continuation is captured in the task's own code, and it returns from    *)
(* its thunk only outside of the loop.                                     *)
PlaceKept == \A t \in Tasks : loop[t] # NoMutex => kont[t].pc = "user"

LEMMA StopsInUser ==
  ASSUME TypeOK, NEW t \in Tasks, NEW end, NEW k, NEW crit, k.pc = "user",
         state[t] = "running" => t = current, Stop(t, end, k, crit)
  PROVE  \A u \in Tasks : kont'[u] = kont[u] \/ kont'[u].pc = "user"
  <1>1. CASE state[t] = "running"
    BY <1>1 DEF Stop, ToScheduler, TypeOK
  <1>2. CASE state[t] # "running"
    BY <1>2 DEF Stop
  <1> QED
    BY <1>1, <1>2

LEMMA ReschedulesInUser ==
  ASSUME TypeOK, current \in Tasks, NEW k, NEW crit, k.pc = "user", Reschedule(k, crit)
  PROVE  \A u \in Tasks : kont'[u] = kont[u] \/ kont'[u].pc = "user"
  <1>1. CASE state[current] = "dead"
    BY <1>1 DEF Reschedule, taskVars
  <1>2. CASE state[current] # "dead"
    BY <1>2 DEF Reschedule, ToScheduler, TypeOK
  <1> QED
    BY <1>1, <1>2

LEMMA UserKonts == Here.pc = "user" /\ \A w, x, p : Kont("user", w, p, x).pc = "user"
  BY DEF Here, Kont

LEMMA PlaceKeeps ==
  ASSUME TaskInv, MutexTypeOK, PlaceKept, MutexHypotheses, QuickScheduler,
         [MutexNext]_<<vars, mutexVars>>
  PROVE  PlaceKept'
  <1>1. TypeOK /\ MutexTypeOK /\ (pc = "user" => current \in Tasks)
        /\ \A t \in Tasks : state[t] = "running" => t = current
    BY DEF TaskInv, RunningInv, MutexTypeOK
  <1>2. ASSUME loop' = loop,
               \A t \in Tasks : kont'[t] = kont[t] \/ kont'[t].pc = "user"
        PROVE  PlaceKept'
    BY <1>2 DEF PlaceKept
  <1>3. ASSUME NEW m \in Mutexes, NEW w, pc = "user", TurnOf(m, w) PROVE PlaceKept'
    <2>1. ASSUME NEW n, Hold(m, n, w) PROVE PlaceKept'
      BY <1>1, <1>3, <2>1 DEF Hold, taskVars, PlaceKept, MutexTypeOK
    <2>2. CASE Wait(m, w)
      <3>1. kont' = [kont EXCEPT ![current] = Kont("user", w, NoTask, FALSE)]
        BY <1>1, <1>3, <2>2 DEF Wait, BlockHere, Stop, ToScheduler, TaskInv, RunningInv
      <3>2. loop' = [loop EXCEPT ![current] = m]
        BY <2>2 DEF Wait
      <3>3. PICK k : k = Kont("user", w, NoTask, FALSE) /\ k.pc = "user"
        BY UserKonts
      <3>4. \A t \in Tasks : IF t = current THEN kont'[t].pc = "user"
                             ELSE loop'[t] = loop[t] /\ kont'[t] = kont[t]
        BY <1>1, <1>3, <3>1, <3>2, <3>3 DEF TypeOK, MutexTypeOK
      <3> QED
        BY <3>4 DEF PlaceKept
    <2> QED
      BY <1>3, <2>1, <2>2 DEF TurnOf
  <1>4. ASSUME NEW m \in Mutexes, Acquire(m) PROVE PlaceKept'
    BY <1>3, <1>4 DEF Acquire, Running
  <1>5. ASSUME NEW m \in Mutexes, Release(m) PROVE PlaceKept'
    BY <1>2, <1>5 DEF Release
  <1>6. CASE Retry
    BY <1>1, <1>3, <1>6 DEF Retry, MutexTypeOK
  <1>7. CASE Program /\ UNCHANGED mutexVars
    <2>1. Running /\ loop' = loop /\ current \in Tasks
      BY <1>1, <1>7 DEF Program, Running, mutexVars
    <2>2. CASE Yield
      BY <1>1, <1>2, <2>1, <2>2, ReschedulesInUser, UserKonts DEF Yield
    <2>3. CASE Return
      <3>1. \A t \in Tasks : t # current => kont'[t] = kont[t]
        BY <1>1, <2>1, <2>3 DEF Return, EndTask, Stop, ToScheduler, TypeOK
      <3> QED
        BY <2>1, <3>1 DEF Running, PlaceKept
    <2>4. ASSUME NEW t \in Tasks, Spawn(t) \/ Unblock(t) PROVE PlaceKept'
      BY <1>2, <2>1, <2>4 DEF Spawn, Unblock
    <2>5. ASSUME NEW t \in Tasks, Kill(t) PROVE PlaceKept'
      BY <1>1, <1>2, <2>1, <2>5, StopsInUser, UserKonts DEF Kill, EndTask
    <2> QED
      BY <1>7, <2>2, <2>3, <2>4, <2>5 DEF Program
  <1>8. CASE Preempt /\ UNCHANGED mutexVars
    <2>1. pc = "user" /\ current \in Tasks /\ loop' = loop
          /\ Reschedule(Kont("user", wind, picked, FALSE), FALSE)
      BY <1>1, <1>8 DEF Preempt, TimerInterrupt, mutexVars
    <2> QED
      BY <1>1, <1>2, <2>1, ReschedulesInUser, UserKonts
  <1>9. CASE Dispatch /\ UNCHANGED mutexVars
    BY <1>2, <1>9 DEF Dispatch, Idle, EndTasking, Get, Take, Enable, Go, taskVars, mutexVars
  <1>10. CASE UNCHANGED <<vars, mutexVars>>
    BY <1>2, <1>10 DEF vars, taskVars, mutexVars
  <1> QED
    BY <1>4, <1>5, <1>6, <1>7, <1>8, <1>9, <1>10 DEF MutexNext

(* "block returns" into the loop of mutex-acquire: if what is left of a    *)
(* timeslice always outlasts the scheduler (QuickScheduler), a task that   *)
(* waits for a mutex goes on in that loop, whoever unblocks, preempts or   *)
(* kills whom meanwhile.                                                   *)
THEOREM WaitersStayInTheLoop ==
  ASSUME MutexHypotheses, QuickScheduler PROVE MutexSpec => []WaitersKeepTheirPlace
  <1>1. MutexInit => TaskInv /\ PlaceKept
    BY InitInv DEF MutexInit, PlaceKept
  <1>2. MutexInv /\ TaskInv /\ PlaceKept /\ [MutexNext]_<<vars, mutexVars>> => TaskInv' /\ PlaceKept'
    BY PlaceKeeps, QuickTasksKeep DEF MutexInv
  <1>3. PlaceKept => WaitersKeepTheirPlace
    BY DEF PlaceKept, WaitersKeepTheirPlace
  <1> QED
    BY <1>1, <1>2, <1>3, MutexInvariant, PTL DEF MutexSpec
-----------------------------------------------------------------------------
(* BARRIERS                                                                *)
(* While the barrier is closed, each task that has entered it is counted   *)
(* and inside; it is blocked on the barrier's list, or dead, and in both   *)
(* cases not among those that the scheduler will come to - or the timer    *)
(* struck in the scheduler after it had blocked, and it will go on in the  *)
(* scheduler (a lost task).  Once the barrier is open, all parties have    *)
(* entered it and no task is blocked any more.                             *)
Stays(t, S) ==
  \/ kont[t].pc # "user"
  \/ t \notin S /\ (state[t] = "dead" \/ (state[t] = "blocked" /\ t \in Elems(barrierBlocked)))
Closed(S) ==
  remaining > 0 =>
    /\ remaining + Cardinality(entered) = Parties /\ entered = inside
    /\ \A t \in entered : Stays(t, S)
Open ==
  remaining <= 0 => Cardinality(entered) >= Parties
                    /\ \A t \in Tasks : state[t] # "blocked"
BarrierRest ==
  /\ remaining \in Int /\ barrierBlocked \in Seq(Tasks)
  /\ inside \subseteq entered /\ entered \subseteq Tasks /\ IsFiniteSet(entered)
  /\ \A t \in Tasks : state[t] = "blocked" => t \in inside
  /\ Open
BarrierInv == BarrierRest /\ \E S \in SUBSET Tasks : Scheduled(S) /\ Closed(S)

BarrierHypotheses == BarrierAssumption /\ Ordinary

LEMMA BarrierInvShows ==
  ASSUME BarrierInv, BarrierAssumption PROVE BarrierHolds /\ BarrierOpens
  <1>1. PICK S \in SUBSET Tasks : Closed(S)
    BY DEF BarrierInv
  <1>2. BarrierOpens
    BY DEF BarrierInv, BarrierRest, Open, BarrierOpens
  <1>3. BarrierHolds
    BY <1>1 DEF BarrierInv, BarrierRest, Open, Closed, BarrierHolds, BarrierAssumption
  <1> QED
    BY <1>2, <1>3

LEMMA BarrierInitInv == BarrierAssumption /\ BarrierInit => BarrierInv
  <1> SUFFICES ASSUME BarrierAssumption, BarrierInit PROVE BarrierInv
    OBVIOUS
  <1>1. PICK S \in SUBSET Tasks : Scheduled(S)
    BY InitScheduling DEF BarrierInit, Scheduling
  <1>2. IsFiniteSet({}) /\ Cardinality({}) = 0 /\ << >> \in Seq(Tasks)
    BY FS_EmptySet
  <1>3. \A t \in Tasks : state[t] # "blocked"
    BY DEF BarrierInit, Init
  <1>4. Closed(S) /\ BarrierRest
    BY <1>2, <1>3 DEF BarrierInit, BarrierRest, Closed, Open, BarrierAssumption
  <1> QED
    BY <1>1, <1>4 DEF BarrierInv

(* A task that runs its own code has not entered the closed barrier.       *)
LEMMA NotEntered ==
  ASSUME NEW S \in SUBSET Tasks, Scheduled(S), Closed(S), pc = "user", remaining > 0
  PROVE  current \notin entered
  BY InOwnCode DEF Closed, Stays

(* What leaves the barrier alone blocks no task, and the tasks that have   *)
(* entered it stay as they are, die, or go on in the scheduler.            *)
LEMMA OthersKeep ==
  ASSUME BarrierRest, NEW S \in SUBSET Tasks, Scheduled(S), Closed(S),
         UNCHANGED barrierVars, StillScheduled(S),
         \A t \in Tasks : state'[t] = "blocked" => state[t] = "blocked",
         remaining > 0 => \A t \in entered :
           \/ kont'[t].pc # "user"
           \/ kont[t].pc = "user" /\ state'[t] \in {state[t], "dead"}
  PROVE  BarrierInv'
  <1>1. PICK T \in SUBSET Tasks : T \subseteq S \cup Runnable' /\ Scheduled(T)'
    BY DEF StillScheduled
  <1>2. BarrierRest'
    BY DEF BarrierRest, Open, barrierVars
  <1>3. ASSUME remaining > 0, NEW t \in entered PROVE Stays(t, T)'
    <2>1. Stays(t, S)
      BY <1>3 DEF Closed
    <2>2. CASE kont'[t].pc # "user"
      BY <2>2 DEF Stays
    <2>3. CASE kont[t].pc = "user" /\ state'[t] \in {state[t], "dead"}
      <3>1. t \notin S /\ (state[t] = "dead" \/ (state[t] = "blocked" /\ t \in Elems(barrierBlocked)))
        BY <2>1, <2>3 DEF Stays
      <3>2. state'[t] = "dead" \/ (state'[t] = "blocked" /\ t \in Elems(barrierBlocked))
        BY <2>3, <3>1
      <3>3. t \notin T
        BY <1>1, <3>1, <3>2 DEF Runnable
      <3>4. Elems(barrierBlocked') = Elems(barrierBlocked)
        BY DEF barrierVars
      <3> QED
        BY <3>2, <3>3, <3>4 DEF Stays
    <2> QED
      BY <1>3, <2>2, <2>3
  <1>4. Closed(T)'
    BY <1>3 DEF Closed, barrierVars
  <1> QED
    BY <1>1, <1>2, <1>4 DEF BarrierInv

LEMMA EnterKeeps ==
  ASSUME BarrierInv, BarrierHypotheses, EnterBarrier
  PROVE  BarrierInv'
  <1>1. PICK S \in SUBSET Tasks : Scheduled(S) /\ Closed(S)
    BY DEF BarrierInv
  <1>2. /\ pc = "user" /\ current \in Tasks /\ state[current] = "running"
        /\ TypeOK /\ current \notin inside /\ current \notin S
    BY <1>1, InOwnCode DEF EnterBarrier, Outside
  <1>3. PICK n \in Int : n = remaining - 1
    BY DEF BarrierInv, BarrierRest
  <1>4. PICK w : w = Append(wind, InterruptsOn) /\ Winds(w)
    BY <1>1, <1>2, EnteredWind
  <1>5. /\ remaining' = n /\ entered' = entered \cup {current} /\ remaining \in Int
        /\ inside \subseteq entered /\ entered \subseteq Tasks
        /\ barrierBlocked \in Seq(Tasks) /\ w \in Seq(BOOLEAN)
    BY <1>3, <1>4 DEF EnterBarrier, OneFewer, BarrierInv, BarrierRest, Winds
  <1>6. /\ IsFiniteSet(entered) /\ Cardinality(entered) \in Nat /\ IsFiniteSet(entered')
        /\ Cardinality(entered') \in Nat /\ Cardinality(entered') >= Cardinality(entered)
        /\ current \notin entered => Cardinality(entered') = Cardinality(entered) + 1
    <2>1. IsFiniteSet(entered)
      BY DEF BarrierInv, BarrierRest
    <2>2. IsFiniteSet(entered') /\ Cardinality(entered') =
            IF current \in entered THEN Cardinality(entered) ELSE Cardinality(entered) + 1
      BY <1>5, <2>1, FS_AddElement
    <2>3. Cardinality(entered) \in Nat
      BY <2>1, FS_CardinalityType
    <2> QED
      BY <2>1, <2>2, <2>3
  <1>7. remaining > 0 => current \notin entered /\ n + Cardinality(entered') = Parties
    BY <1>1, <1>2, <1>3, <1>5, <1>6, NotEntered DEF Closed
  <1>8. Parties \in Nat /\ Ordinary
    BY DEF BarrierHypotheses, BarrierAssumption
  <1>9. CASE n < 0 /\ EndTask(current, Kont("user", w, NoTask, FALSE))
             /\ UNCHANGED <<barrierBlocked, inside>>
    <2>1. "user" \in Places /\ NoTask \in Tasks \cup {NoTask} /\ FALSE \in BOOLEAN
      BY DEF Places
    <2>2. PICK k \in Konts : k = Kont("user", w, NoTask, FALSE) /\ k.pc = "user"
      BY <1>5, <2>1, KontType, Zenon
    <2>3. Scheduled(S)'
      BY <1>1, <1>2, <1>8, <1>9, <2>2, EndMoves
    <2>4. state' = [state EXCEPT ![current] = "dead"]
      BY <1>9 DEF EndTask, Stop
    <2>5. remaining <= 0 /\ Cardinality(entered) >= Parties /\ \A t \in Tasks : state[t] # "blocked"
      BY <1>3, <1>5, <1>9 DEF BarrierInv, BarrierRest, Open
    <2>6. Cardinality(entered') >= Parties
      BY <1>6, <1>8, <2>5
    <2>7. \A t \in Tasks : state'[t] # "blocked"
      BY <1>2, <2>4, <2>5 DEF TypeOK
    <2>8. Closed(S)' /\ BarrierRest'
      BY <1>2, <1>5, <1>6, <1>9, <2>6, <2>7 DEF Closed, Open, BarrierRest
    <2> QED
      BY <2>3, <2>8 DEF BarrierInv
  <1>10. CASE n = 0 /\ UnblockAll(barrierBlocked) /\ LeaveSection(w)
              /\ UNCHANGED <<barrierBlocked, inside, critical, kont, all, current, pc, picked>>
    <2>1. wind' \in Seq(BOOLEAN) /\ Off(wind') /\ timer' \in Timers
      BY <1>4, <1>10, LeavesOff
    <2>2. PICK T \in SUBSET Tasks : Scheduled(T)'
      BY <1>1, <1>2, <1>5, <1>10, <2>1, UnblockAllMoves DEF StillScheduled
    <2>3. \A t \in Tasks : state'[t] = IF t \in Woken(barrierBlocked) THEN "runnable" ELSE state[t]
      BY <1>10 DEF UnblockAll
    <2>4. ASSUME NEW t \in Tasks, state[t] = "blocked" PROVE t \in Woken(barrierBlocked)
      <3>1. t \in entered /\ kont[t].pc = "user"
        BY <1>1, <1>5, <2>4 DEF BarrierInv, BarrierRest, Scheduled, KontGood
      <3>2. t \in Elems(barrierBlocked)
        BY <1>1, <1>3, <1>5, <1>10, <2>4, <3>1 DEF Closed, Stays
      <3> QED
        BY <2>4, <3>2 DEF Woken, Elems
    <2>5. \A t \in Tasks : state'[t] # "blocked"
      BY <2>3, <2>4
    <2>6. Cardinality(entered') >= Parties
      BY <1>3, <1>5, <1>6, <1>7, <1>8, <1>10
    <2>7. Closed(T)' /\ BarrierRest'
      BY <1>2, <1>5, <1>6, <1>10, <2>5, <2>6 DEF Closed, Open, BarrierRest
    <2> QED
      BY <2>2, <2>7 DEF BarrierInv
  <1>11. CASE n >= 0 /\ n # 0 /\ barrierBlocked' = <<current>> \o barrierBlocked
              /\ inside' = inside \cup {current} /\ BlockHere(w)
    <2>1. /\ Scheduled(S)' /\ state' = [state EXCEPT ![current] = "blocked"]
          /\ kont' = [kont EXCEPT ![current] = Kont("user", w, NoTask, FALSE)]
      BY <1>1, <1>2, <1>5, <1>11, BlockHereMoves
    <2>2. /\ barrierBlocked' \in Seq(Tasks) /\ current \in Elems(barrierBlocked')
          /\ Elems(barrierBlocked) \subseteq Elems(barrierBlocked')
      BY <1>2, <1>5, <1>11, PushElems
    <2>3. /\ state'[current] = "blocked"
          /\ \A t \in Tasks : t # current => state'[t] = state[t] /\ kont'[t] = kont[t]
      BY <1>2, <2>1 DEF TypeOK
    <2>4. ASSUME NEW t \in entered' PROVE Stays(t, S)'
      <3>1. CASE t = current
        BY <1>2, <2>2, <2>3, <3>1 DEF Stays
      <3>2. CASE t # current
        <4>1. t \in entered /\ t \in Tasks /\ state'[t] = state[t] /\ kont'[t] = kont[t]
          BY <1>5, <2>3, <2>4, <3>2
        <4>2. Stays(t, S)
          BY <1>1, <1>3, <1>5, <1>11, <4>1 DEF Closed
        <4> QED
          BY <2>2, <4>1, <4>2 DEF Stays
      <3> QED
        BY <3>1, <3>2
    <2>5. remaining > 0 /\ entered = inside
      BY <1>1, <1>3, <1>5, <1>11 DEF Closed
    <2>6. Closed(S)'
      BY <1>5, <1>7, <1>11, <2>4, <2>5 DEF Closed
    <2>7. \A t \in Tasks : state'[t] = "blocked" => t \in inside'
      BY <1>11, <2>3 DEF BarrierInv, BarrierRest
    <2>8. BarrierRest'
      BY <1>2, <1>5, <1>6, <1>11, <2>2, <2>7 DEF BarrierRest, Open
    <2> QED
      BY <2>1, <2>6, <2>8 DEF BarrierInv
  <1> QED
    BY <1>3, <1>4, <1>9, <1>10, <1>11 DEF EnterBarrier, OneFewer, Opens

LEMMA GoOnKeeps ==
  ASSUME BarrierInv, GoOn
  PROVE  BarrierInv'
  <1>1. PICK S \in SUBSET Tasks : Scheduled(S) /\ Closed(S)
    BY DEF BarrierInv
  <1>2. /\ pc = "user" /\ current \in inside /\ LeaveSection(wind)
        /\ UNCHANGED <<taskVars, current, pc, picked>> /\ inside' = inside \ {current}
        /\ UNCHANGED <<remaining, barrierBlocked, entered>>
    BY DEF GoOn
  <1>3. ~(remaining > 0)
    BY <1>1, <1>2, NotEntered DEF BarrierInv, BarrierRest
  <1>4. PICK T \in SUBSET Tasks : Scheduled(T)'
    BY <1>1, <1>2, EnteredWind, SectionEnds DEF Scheduling
  <1>5. Closed(T)'
    BY <1>2, <1>3 DEF Closed
  <1>6. BarrierRest'
    <2>1. state' = state /\ remaining <= 0
      BY <1>2, <1>3 DEF taskVars, BarrierInv, BarrierRest
    <2> QED
      BY <1>2, <2>1 DEF BarrierInv, BarrierRest, Open
  <1> QED
    BY <1>4, <1>5, <1>6 DEF BarrierInv

(* One task x moves, by itself or for the scheduler to go on with it; only *)
(* the current task gets another continuation, in its own code or in the   *)
(* scheduler that was interrupted.                                         *)
OneMoves(S, x, y) ==
  /\ y \in {"runnable", "running", "dead"}
  /\ state' = state \/ state' = [state EXCEPT ![x] = y]
  /\ \/ y = "dead" \/ x \in S \/ state[x] = "none"
     \/ x = current /\ (pc = "user" \/ kont'[x].pc = pc)
  /\ \A t \in Tasks : kont'[t] = kont[t] \/ (t = current /\ (pc = "user" \/ kont'[t].pc = pc))

LEMMA BarrierNextKeeps ==
  ASSUME BarrierInv, BarrierHypotheses, [BarrierNext]_<<vars, barrierVars>>
  PROVE  BarrierInv'
  <1>1. PICK S \in SUBSET Tasks : Scheduled(S) /\ Closed(S)
    BY DEF BarrierInv
  <1>2. /\ BarrierRest /\ TypeOK /\ Ordinary /\ ComeInv(S) /\ PlaceInv
        /\ entered \subseteq Tasks
    BY <1>1 DEF BarrierInv, BarrierHypotheses, Scheduled, BarrierRest
  <1>3. remaining > 0 => \A t \in entered : Stays(t, S)
    BY <1>1 DEF Closed
  <1>4. ASSUME UNCHANGED barrierVars, StillScheduled(S), NEW x \in Tasks, NEW y, OneMoves(S, x, y)
        PROVE  BarrierInv'
    <2>1. \A t \in Tasks : state'[t] = state[t] \/ (t = x /\ state'[t] = y)
      BY <1>2, <1>4 DEF TypeOK, OneMoves
    <2>2. \A t \in Tasks : state'[t] = "blocked" => state[t] = "blocked"
      BY <1>4, <2>1 DEF OneMoves
    <2>3. ASSUME remaining > 0, NEW t \in entered
          PROVE  \/ kont'[t].pc # "user"
                 \/ kont[t].pc = "user" /\ state'[t] \in {state[t], "dead"}
      <3>1. t \in Tasks /\ Stays(t, S) /\ (pc = "user" => t # current)
        BY <1>1, <1>2, <1>3, <2>3, NotEntered
      <3>2. CASE kont[t].pc # "user"
        BY <1>4, <3>1, <3>2 DEF OneMoves
      <3>3. CASE kont[t].pc = "user"
        <4>1. t \notin S /\ state[t] \in {"dead", "blocked"}
          BY <3>1, <3>3 DEF Stays
        <4>2. CASE t # x
          BY <2>1, <3>1, <3>3, <4>2
        <4>3. CASE t = x /\ y = "dead"
          BY <2>1, <3>1, <3>3, <4>3
        <4>4. CASE t = x /\ y # "dead"
          <5>1. t = current /\ pc # "user" /\ kont'[t].pc = pc
            BY <1>4, <3>1, <4>1, <4>4 DEF OneMoves
          <5> QED
            BY <5>1
        <4> QED
          BY <4>2, <4>3, <4>4
      <3> QED
        BY <3>2, <3>3
    <2> QED
      BY <1>1, <1>2, <1>4, <2>2, <2>3, OthersKeep
  <1>5. CASE EnterBarrier
    BY <1>5, EnterKeeps
  <1>6. CASE GoOn
    BY <1>6, GoOnKeeps
  <1>7. CASE TimerInterrupt /\ UNCHANGED barrierVars
    <2>1. StillScheduled(S)
      BY <1>1, <1>7, PreemptMoves
    <2>2. CASE state[current] = "dead"
      <3>1. state' = state /\ kont' = kont
        BY <1>7, <2>2 DEF TimerInterrupt, Reschedule, taskVars
      <3>2. OneMoves(S, Initial, "dead")
        BY <3>1 DEF OneMoves
      <3> QED
        BY <1>4, <1>7, <2>1, <3>2, Named
    <2>3. CASE state[current] # "dead"
      <3>1. Kont(pc, wind, picked, FALSE).pc = pc
        BY DEF Kont
      <3>2. /\ state' = [state EXCEPT ![current] = "runnable"]
            /\ kont' = [kont EXCEPT ![current] = Kont(pc, wind, picked, FALSE)]
        BY <1>7, <2>3 DEF TimerInterrupt, Reschedule, ToScheduler
      <3>3. current \in Tasks
        BY <1>2, <1>7 DEF TimerInterrupt, PlaceInv, Scheduler
      <3>4. \A t \in Tasks : kont'[t] = kont[t] \/ (t = current /\ kont'[t].pc = pc)
        BY <1>2, <3>1, <3>2 DEF TypeOK
      <3>5. kont'[current].pc = pc
        BY <1>2, <3>1, <3>2, <3>3 DEF TypeOK
      <3>6. OneMoves(S, current, "runnable")
        BY <3>2, <3>4, <3>5 DEF OneMoves
      <3> QED
        BY <1>4, <1>7, <2>1, <3>3, <3>6
    <2> QED
      BY <2>2, <2>3
  <1>8. CASE Dispatch /\ UNCHANGED barrierVars
    <2>1. StillScheduled(S)
      BY <1>1, <1>8, DispatchMoves
    <2>2. CASE Take
      <3>1. state' = [state EXCEPT ![picked] = "running"] /\ kont' = kont /\ picked \in S /\ picked \in Tasks
        BY <1>2, <2>2 DEF Take, ComeInv
      <3>2. OneMoves(S, picked, "running")
        BY <3>1 DEF OneMoves
      <3> QED
        BY <1>4, <1>8, <2>1, <3>1, <3>2
    <2>3. CASE Idle \/ Get \/ Enable \/ Go
      <3>1. state' = state /\ kont' = kont
        BY <2>3 DEF Idle, Get, Enable, Go, EndTasking, taskVars
      <3>2. OneMoves(S, Initial, "dead")
        BY <3>1 DEF OneMoves
      <3> QED
        BY <1>4, <1>8, <2>1, <3>2, Named
    <2> QED
      BY <1>8, <2>2, <2>3 DEF Dispatch
  <1>9. CASE BarrierProgram /\ UNCHANGED barrierVars
    <2>1. pc = "user" /\ current \in Tasks /\ state[current] = "running"
      BY <1>1, <1>9, InOwnCode DEF BarrierProgram, Outside
    <2>2. ASSUME NEW k, kont' = kont \/ kont' = [kont EXCEPT ![current] = k]
          PROVE  \A t \in Tasks : kont'[t] = kont[t] \/ (t = current /\ pc = "user")
      BY <1>2, <2>1, <2>2 DEF TypeOK
    <2>3. CASE Yield
      <3>1. StillScheduled(S)
        BY <1>1, <2>3, YieldMoves
      <3>2. state' = [state EXCEPT ![current] = "runnable"] /\ kont' = [kont EXCEPT ![current] = Here]
        BY <2>1, <2>3 DEF Yield, Reschedule, ToScheduler
      <3>3. OneMoves(S, current, "runnable")
        BY <2>1, <2>2, <3>2 DEF OneMoves
      <3> QED
        BY <1>4, <1>9, <2>1, <3>1, <3>3
    <2>4. CASE Return
      <3>1. StillScheduled(S)
        BY <1>1, <1>2, <2>4, ReturnMoves, StillIf
      <3>2. state' = [state EXCEPT ![current] = "dead"]
            /\ kont' = [kont EXCEPT ![current] = Kont("done", << >>, NoTask, FALSE)]
        BY <2>1, <2>4 DEF Return, EndTask, Stop, ToScheduler
      <3>3. OneMoves(S, current, "dead")
        BY <2>1, <2>2, <3>2 DEF OneMoves
      <3> QED
        BY <1>4, <1>9, <2>1, <3>1, <3>3
    <2>5. ASSUME NEW t \in Tasks, Spawn(t) PROVE BarrierInv'
      <3>1. StillScheduled(S)
        BY <1>1, <2>1, <2>5, PutOnMoves
      <3>2. state' = [state EXCEPT ![t] = "runnable"] /\ kont' = kont /\ state[t] = "none"
        BY <2>5 DEF Spawn
      <3>3. OneMoves(S, t, "runnable")
        BY <3>2 DEF OneMoves
      <3> QED
        BY <1>4, <1>9, <2>1, <3>1, <3>3
    <2>6. ASSUME NEW t \in Tasks, Kill(t) PROVE BarrierInv'
      <3>1. StillScheduled(S)
        BY <1>1, <1>2, <2>6, KillMoves, StillIf
      <3>2. state' = [state EXCEPT ![t] = "dead"] /\ (kont' = kont \/ kont' = [kont EXCEPT ![current] = Here])
        BY <2>6 DEF Kill, EndTask, Stop, ToScheduler
      <3>3. OneMoves(S, t, "dead")
        BY <2>1, <2>2, <3>2 DEF OneMoves
      <3> QED
        BY <1>4, <1>9, <2>1, <3>1, <3>3
    <2> QED
      BY <1>9, <2>3, <2>4, <2>5, <2>6 DEF BarrierProgram
  <1>10. CASE UNCHANGED <<vars, barrierVars>>
    <2>1. StillScheduled(S)
      BY <1>1, <1>10, StandsStill, StillIf
    <2>2. OneMoves(S, Initial, "dead") /\ UNCHANGED barrierVars
      BY <1>10 DEF vars, taskVars, OneMoves
    <2> QED
      BY <1>4, <2>1, <2>2, Named
  <1> QED
    BY <1>5, <1>6, <1>7, <1>8, <1>9, <1>10 DEF BarrierNext, Preempt
-----------------------------------------------------------------------------
LEMMA BarrierInvariant ==
  ASSUME BarrierHypotheses PROVE BarrierSpec => []BarrierInv
  <1>1. BarrierInit => BarrierInv
    BY BarrierInitInv DEF BarrierHypotheses
  <1>2. BarrierInv /\ [BarrierNext]_<<vars, barrierVars>> => BarrierInv'
    BY BarrierNextKeeps
  <1> QED
    BY <1>1, <1>2, PTL DEF BarrierSpec

(* enter-barrier holds every task until num-tasks tasks have entered: none *)
(* is out and alive before, whatever kills and preemptions come between,   *)
(* wherever the timer strikes, be it in the scheduler.                     *)
THEOREM NoneComesOutEarly ==
  ASSUME BarrierHypotheses PROVE BarrierSpec => []BarrierHolds
  <1>1. BarrierInv => BarrierHolds
    BY BarrierInvShows DEF BarrierHypotheses
  <1> QED
    BY <1>1, BarrierInvariant, PTL

(* Once the last of them enters, no task is left blocked at the barrier,   *)
(* wherever the timer strikes.                                             *)
THEOREM NoneStaysBlocked ==
  ASSUME BarrierHypotheses PROVE BarrierSpec => []BarrierOpens
  <1>1. BarrierInv => BarrierOpens
    BY BarrierInvShows DEF BarrierHypotheses
  <1> QED
    BY <1>1, BarrierInvariant, PTL
-----------------------------------------------------------------------------
(* TASKS AMONG THE OTHER PARTS.  A behaviour of the part tasking is one of  *)
(* Tasking's specification: the variables of the other parts stand still.  *)
PartTaskInv == which = "tasking" => TaskInv /\ TimerInv

LEMMA PartInit == PartsInit => PartTaskInv
  BY InitInv DEF PartsInit, MutexInit, PartTaskInv

LEMMA PartNext ==
  ASSUME SwitchOutside PROVE PartTaskInv /\ [PartsNext]_AllVars => PartTaskInv'
  <1> SUFFICES ASSUME PartTaskInv, [PartsNext]_AllVars, which' = "tasking"
               PROVE  TaskInv' /\ TimerInv'
    BY DEF PartTaskInv
  <1>1. which = "tasking" /\ [Next]_vars
    BY DEF PartsNext, AllVars, taskingVars
  <1>2. TaskInv /\ TimerInv
    BY <1>1 DEF PartTaskInv
  <1>3. TimerInterrupt => pc = "user"
    BY <1>2 DEF TimerInterrupt, TimerInv, Scheduler
  <1> QED
    BY <1>1, <1>2, <1>3, NextKeeps, TimerInvKeeps DEF SwitchOutside, Ordinary

(* In the instances of the control modules the invariants listed in        *)
(* tasking.sch hold at every step of block, unblock, tasks/end-task,       *)
(* tasks/schedule, tasks/switch, the scheduler and the timer's handler:    *)
(* each runnable task is on the run queue once, or is being picked, and    *)
(* nothing else is on it.                                                  *)
THEOREM InvariantsOfTasks ==
  ASSUME SwitchOutside PROVE PartsSpec => []TasksInOrder
  <1>1. PartTaskInv => TasksInOrder
    BY InvImplies DEF PartTaskInv, TasksInOrder
  <1> QED
    BY <1>1, PartInit, PartNext, PTL DEF PartsSpec

(* No error is signalled by the scheduler or with interrupts disabled: the *)
(* assertions of queue-get! and tasks/schedule never fail.                 *)
THEOREM SchedulerErrorFree ==
  ASSUME SwitchOutside PROVE PartsSpec => []SchedulerHasNoError
  <1>1. PartTaskInv => SchedulerHasNoError
    BY InvImplies DEF PartTaskInv, SchedulerHasNoError
  <1> QED
    BY <1>1, PartInit, PartNext, PTL DEF PartsSpec

(* In the instances of the control modules too, tasks are preemptable      *)
(* exactly outside call-without-interrupts, and no timer interrupt strikes *)
(* inside the scheduler of tasking.sch.                                    *)
THEOREM TimerKeepsToTheWinds ==
  ASSUME SwitchOutside PROVE PartsSpec => []TimerFollowsWinds
  <1>1. PartTaskInv => TimerFollowsWinds
    BY DEF PartTaskInv, TimerFollowsWinds, TimerInv, InterruptsFollowWinds,
           PreemptableOutside, InterruptsOn, SchedulerNotInterrupted
  <1> QED
    BY <1>1, PartInit, PartNext, PTL DEF PartsSpec

(* STACK CACHE                                                             *)
(* The part's invariant is that of StackCacheProofs, whose lemmas hold of  *)
(* the instance ST.                                                        *)
PartStackInv == which = "stack" => ST!StackInv

LEMMA PartStackInit ==
  ASSUME PartsInit PROVE PartStackInv
  <1> SUFFICES ASSUME which = "stack" PROVE ST!StackInv
    BY DEF PartStackInv
  <1>1. ST!Init
    BY DEF PartsInit
  <1> QED
    BY <1>1, StackAssumption, ST!StackInit

LEMMA PartStackNext ==
  ASSUME PartStackInv, [PartsNext]_AllVars PROVE PartStackInv'
  <1> SUFFICES ASSUME which = "stack", which' = which PROVE ST!StackInv'
    BY DEF PartStackInv, PartsNext, AllVars
  <1>1. [ST!Next]_(ST!vars)
    BY DEF PartsNext, AllVars, Rest1, ST!vars
  <1>2. ST!StackInv
    BY DEF PartStackInv
  <1> QED
    BY <1>1, <1>2, StackAssumption, ST!StackNext

(* stack.c, nursery.c: whatever is flushed, restored, captured, reinstated *)
(* and moved, the frames in the cache and in the heap are the continuation *)
(* that the program built, in this instance with any values of constants.  *)
THEOREM StackIsKept == PartsSpec => []StackKept
  <1>1. PartStackInv => StackKept
    BY StackAssumption, ST!StackShows DEF PartStackInv, StackKept
  <1> QED
    BY <1>1, PartStackInit, PartStackNext, PTL DEF PartsSpec

-----------------------------------------------------------------------------
(* INTERRUPTS in the instance of their module                              *)
PartInterruptsInv == which = "interrupts" => NT!FenceInv

LEMMA PartFence == NT!FenceAlone
  BY DEF NT!FenceAlone

LEMMA PartInterruptsInit ==
  ASSUME PartsInit PROVE PartInterruptsInv
  <1> SUFFICES ASSUME which = "interrupts" PROVE NT!FenceInv
    BY DEF PartInterruptsInv
  <1>1. NT!Init
    BY DEF PartsInit
  <1> QED
    BY <1>1, TimersAssumption, NT!FenceInit

LEMMA PartInterruptsNext ==
  ASSUME PartInterruptsInv, [PartsNext]_AllVars PROVE PartInterruptsInv'
  <1> SUFFICES ASSUME which = "interrupts", which' = which PROVE NT!FenceInv'
    BY DEF PartInterruptsInv, PartsNext, AllVars
  <1>1. [NT!Next]_(NT!vars)
    BY DEF PartsNext, AllVars, Rest1, Rest7, NT!vars
  <1>2. NT!FenceInv
    BY DEF PartInterruptsInv
  <1> QED
    BY <1>1, <1>2, PartFence, TimersAssumption, NT!FenceNext

(* fence-millicode.c, signals.c, syscall.c: an interrupt is handled or due *)
(* unless it comes between the callout of check_signals and the clearing   *)
(* of its flag, code resumes with what it was interrupted with, the two    *)
(* timers hold what is left of the time, and a longjmp has its target, on  *)
(* Fence without calls back to Scheme, whatever the times and bounds are.  *)
THEOREM InterruptsAreHandled == PartsSpec => []InterruptsHandled
  <1>1. PartInterruptsInv => InterruptsHandled
    BY TimersAssumption, NT!FenceShows DEF PartInterruptsInv, InterruptsHandled
  <1> QED
    BY <1>1, PartInterruptsInit, PartInterruptsNext, PTL DEF PartsSpec
=============================================================================
