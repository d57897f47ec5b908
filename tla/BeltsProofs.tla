---------------------------- MODULE BeltsProofs -----------------------------
(***************************************************************************)
(* Proofs about Belts, for every set of tasks and threads, every size of   *)
(* queue and belts and every fault.                                        *)
(***************************************************************************)
EXTENDS Belts, TLAPS, FiniteSetTheorems, SequenceTheorems
-----------------------------------------------------------------------------
(* What the list operations do to the elements of a list.                  *)

\* dyna_add_to_back adds one task.
LEMMA ElemsAppend ==
  ASSUME NEW S, NEW s \in Seq(S), NEW t \in S
  PROVE  Elems(Append(s, t)) = Elems(s) \cup {t}
<1> DEFINE a == Append(s, t)
<1>1. /\ DOMAIN a = 1..(Len(s) + 1) /\ DOMAIN s = 1..Len(s) /\ Len(s) \in Nat
      /\ a[Len(s) + 1] = t
      /\ \A i \in DOMAIN s : a[i] = s[i]
  OBVIOUS
<1>2. ASSUME NEW x \in Elems(a) PROVE x \in Elems(s) \cup {t}
  <2>1. PICK i \in DOMAIN a : x = a[i]
    BY DEF Elems
  <2> QED  BY <1>1, <2>1 DEF Elems
<1>3. ASSUME NEW x \in Elems(s) \cup {t} PROVE x \in Elems(a)
  <2>1. CASE x = t
    BY <1>1, <2>1 DEF Elems
  <2>2. CASE x \in Elems(s)
    <3>1. PICK i \in DOMAIN s : x = s[i]
      BY <2>2 DEF Elems
    <3> QED  BY <1>1, <3>1 DEF Elems
  <2> QED  BY <1>3, <2>1, <2>2
<1> QED  BY <1>2, <1>3

\* dyna_delete of the head leaves the rest.
LEMMA ElemsTail ==
  ASSUME NEW S, NEW s \in Seq(S), s # <<>>
  PROVE  /\ Elems(s) = {Head(s)} \cup Elems(Tail(s))
         /\ Head(s) \in S /\ Head(s) \in Elems(s)
<1> DEFINE u == Tail(s)
<1>1. /\ Len(s) \in Nat \ {0} /\ DOMAIN s = 1..Len(s) /\ DOMAIN u = 1..(Len(s) - 1)
      /\ Head(s) = s[1] /\ Head(s) \in S
      /\ \A i \in DOMAIN u : u[i] = s[i + 1]
  OBVIOUS
<1>2. Head(s) \in Elems(s)
  BY <1>1 DEF Elems
<1>3. ASSUME NEW x \in Elems(s) PROVE x \in {Head(s)} \cup Elems(u)
  <2>1. PICK i \in DOMAIN s : x = s[i]
    BY DEF Elems
  <2>2. CASE i = 1
    BY <1>1, <2>1, <2>2
  <2>3. CASE i # 1
    <3>1. i - 1 \in DOMAIN u /\ u[i - 1] = x
      BY <1>1, <2>1, <2>3
    <3> QED  BY <3>1 DEF Elems
  <2> QED  BY <2>2, <2>3
<1>4. ASSUME NEW x \in Elems(u) PROVE x \in Elems(s)
  <2>1. PICK i \in DOMAIN u : x = u[i]
    BY DEF Elems
  <2>2. i + 1 \in DOMAIN s /\ s[i + 1] = x
    BY <1>1, <2>1
  <2> QED  BY <2>2 DEF Elems
<1> QED  BY <1>1, <1>2, <1>3, <1>4

\* The tasks of two lists joined are the tasks of both.
LEMMA ElemsConcat ==
  ASSUME NEW S, NEW s \in Seq(S), NEW u \in Seq(S)
  PROVE  Elems(s \o u) = Elems(s) \cup Elems(u)
<1> DEFINE c == s \o u
<1>1. /\ Len(s) \in Nat /\ Len(u) \in Nat
      /\ DOMAIN s = 1..Len(s) /\ DOMAIN u = 1..Len(u)
      /\ DOMAIN c = 1..(Len(s) + Len(u))
      /\ \A i \in DOMAIN s : c[i] = s[i]
      /\ \A i \in DOMAIN u : c[i + Len(s)] = u[i]
  OBVIOUS
<1>2. ASSUME NEW x \in Elems(c) PROVE x \in Elems(s) \cup Elems(u)
  <2>1. PICK i \in DOMAIN c : x = c[i]
    BY DEF Elems
  <2>2. CASE i \in DOMAIN s
    BY <1>1, <2>1, <2>2 DEF Elems
  <2>3. CASE i \notin DOMAIN s
    <3>1. i - Len(s) \in DOMAIN u /\ u[i - Len(s)] = x
      BY <1>1, <2>1, <2>3
    <3> QED  BY <3>1 DEF Elems
  <2> QED  BY <2>2, <2>3
<1>3. ASSUME NEW x \in Elems(s) PROVE x \in Elems(c)
  <2>1. PICK i \in DOMAIN s : x = s[i]
    BY DEF Elems
  <2>2. i \in DOMAIN c /\ c[i] = x
    BY <1>1, <2>1
  <2> QED  BY <2>2 DEF Elems
<1>4. ASSUME NEW x \in Elems(u) PROVE x \in Elems(c)
  <2>1. PICK i \in DOMAIN u : x = u[i]
    BY DEF Elems
  <2>2. i + Len(s) \in DOMAIN c /\ c[i + Len(s)] = x
    BY <1>1, <2>1
  <2> QED  BY <2>2 DEF Elems
<1> QED  BY <1>2, <1>3, <1>4

\* A list just created or emptied holds no task.
LEMMA ElemsEmpty == Elems(<<>>) = {}
BY DEF Elems

\* What a list of tasks holds are tasks.
LEMMA ElemsType ==
  ASSUME NEW S, NEW s \in Seq(S)
  PROVE  Elems(s) \subseteq S
BY DEF Elems

\* A list without repetitions stays one when a new task is added ...
LEMMA DistinctAppend ==
  ASSUME NEW S, NEW s \in Seq(S), NEW t \in S, Distinct(s), t \notin Elems(s)
  PROVE  Distinct(Append(s, t))
BY DEF Distinct, Elems

\* ... when its head is deleted, and then no longer holds the head ...
LEMMA DistinctTail ==
  ASSUME NEW S, NEW s \in Seq(S), s # <<>>, Distinct(s)
  PROVE  Distinct(Tail(s)) /\ Head(s) \notin Elems(Tail(s))
BY DEF Distinct, Elems

\* ... and when two lists with no task in common are joined.
LEMMA DistinctConcat ==
  ASSUME NEW S, NEW s \in Seq(S), NEW u \in Seq(S), Distinct(s), Distinct(u),
         \A t \in Elems(s) : t \notin Elems(u)
  PROVE  Distinct(s \o u)
BY DEF Distinct, Elems

\* dyna_push puts one task in front.
LEMMA PushHead ==
  ASSUME NEW S, NEW s \in Seq(S), NEW t \in S, Distinct(s), t \notin Elems(s)
  PROVE  Elems(<<t>> \o s) = {t} \cup Elems(s) /\ Distinct(<<t>> \o s)
<1> DEFINE u == <<t>>
<1>1. u \in Seq(S) /\ Elems(u) = {t} /\ Distinct(u)
  BY DEF Elems, Distinct
<1> HIDE DEF u
<1>2. Elems(u \o s) = Elems(u) \cup Elems(s)
  BY <1>1, ElemsConcat
<1>3. \A x \in Elems(u) : x \notin Elems(s)
  BY <1>1
<1>4. Distinct(u \o s)
  BY <1>1, <1>3, DistinctConcat
<1> QED  BY <1>1, <1>2, <1>4 DEF u
-----------------------------------------------------------------------------
(* Type correctness.                                                       *)

\* What the server holds are tasks.
LEMMA HeldType == TypeOK => Held \subseteq Tasks
BY ElemsType DEF TypeOK, Held

\* No step of the server, the web or an operator breaks a type.
LEMMA Typing ==
  ASSUME TypeOK, MainInv, [Next]_vars
  PROVE  TypeOK'
<1> USE BeltsAssumption
<1> USE DEF TypeOK, webVars, listVars, mainVars, poolVars, flagVars
<1>1. CASE UNCHANGED vars
  BY <1>1 DEF vars
<1>2. ASSUME NEW t \in Tasks, SubmitTask(t) PROVE TypeOK'
  BY <1>2 DEF SubmitTask, Submit, WebStatus
<1>3. CASE QueueUpdate
  BY <1>3 DEF QueueUpdate, NewTasks, MainPC
<1>4. ASSUME NEW t \in Tasks, NEW o \in Faults, ReceiveTask(t, o) PROVE TypeOK'
  <2>1. CASE Duplicate(t)
    BY <1>4, <2>1 DEF ReceiveTask, Duplicate
  <2>2. CASE ~Duplicate(t)
    <3>1. queue' \in Seq(Tasks) /\ status' \in [Tasks -> TaskStatus]
      <4>1. /\ queue' = Append(queue, t)
            /\ status' = [status EXCEPT ![t] = "PENDING"]
        BY <1>4, <2>2 DEF ReceiveTask
      <4> QED  BY <4>1 DEF TaskStatus
    <3>2. /\ web' \in [Tasks -> WebStatus]
          /\ undeleted' \subseteq Tasks /\ orphaned' \subseteq Tasks
      BY <1>4, <2>2 DEF ReceiveTask, Duplicate, webiface_delete_task, Requested,
                        WebStatus
    <3> QED  BY <1>4, <2>2, <3>1, <3>2 DEF ReceiveTask, Duplicate
  <2> QED  BY <2>1, <2>2
<1>5. CASE ReceiveDone
  BY <1>5 DEF ReceiveDone, MainPC
<1>6. ASSUME NEW got \in SUBSET Elems(queue), QueueUnpack(got) PROVE TypeOK'
  <2>1. Elems(queue) \subseteq Tasks
    BY ElemsType
  <2> QED  BY <1>6, <2>1 DEF QueueUnpack
<1>7. CASE BeltsUpdate
  BY <1>7 DEF BeltsUpdate, MainPC
<1>8. CASE BeltsReset
  BY <1>8 DEF BeltsReset, MainPC
<1>9. ASSUME NEW t \in Tasks, NEW o \in Faults, OverviewTask(t, o) PROVE TypeOK'
  <2>1. CASE status[t] = "FINISHED"
    <3>1. CASE o = "ok"
      BY <1>9, <2>1, <3>1 DEF OverviewTask, Interrupted, return_tested,
                              webiface_put_solution, Requested, WebStatus
    <3>2. CASE o # "ok"
      <4>1. accumulator' \in Seq(Tasks) /\ accItems' \in 0..MaxItems
        <5>1. accumulate_solution(t)
          BY <1>9, <2>1, <3>2 DEF OverviewTask, Interrupted, return_tested
        <5> QED  BY <5>1 DEF accumulate_solution
      <4> QED
        BY <1>9, <2>1, <3>2, <4>1 DEF OverviewTask, Interrupted,
                                      return_tested, webiface_put_solution, Requested, WebStatus
    <3> QED  BY <3>1, <3>2
  <2>2. CASE status[t] # "FINISHED" /\ Interrupted(t)
    BY <1>9, <2>2 DEF OverviewTask, Interrupted, webiface_restore_task, Requested, WebStatus
  <2>3. CASE status[t] # "FINISHED" /\ ~Interrupted(t)
    BY <1>9, <2>3 DEF OverviewTask, Interrupted
  <2> QED  BY <2>1, <2>2, <2>3
<1>10. CASE OverviewDone
  BY <1>10 DEF OverviewDone, MainPC
<1>11. CASE FillStart
  BY <1>11 DEF FillStart, Filling, MainPC
<1>27. ASSUME NEW s \in Slots, FillPush(s) PROVE TypeOK'
  BY <1>27 DEF FillPush, MainPC, ThreadPC
<1>28. CASE FillLost
  BY <1>28 DEF FillLost, MainInv, MainPC
<1>12. CASE FillAppend
  BY <1>12 DEF FillAppend, MainInv, MainPC
<1>13. CASE FillKeep
  BY <1>13 DEF FillKeep, Filling, PutBack
<1>14. ASSUME NEW o \in Faults, FillDrop(o) PROVE TypeOK'
  <2>1. /\ queue # <<>> /\ queue' = Tail(queue) /\ Drop(Head(queue), o)
        /\ UNCHANGED <<belts, accumulator, accItems, status, unpacked, todo,
                       passed, hand, poolVars, flagVars, core>>
    BY <1>14 DEF FillDrop, Filling
  <2>2. Head(queue) \in Tasks /\ queue' \in Seq(Tasks)
    BY <2>1
  <2>3. /\ web' \in [Tasks -> WebStatus] /\ pc' = pc
        /\ undeleted' \subseteq Tasks /\ orphaned' \subseteq Tasks
    BY <2>1, <2>2 DEF Drop, webiface_restore_task, Requested, WebStatus
  <2> QED  BY <2>1, <2>2, <2>3
<1>15. CASE FillDone
  BY <1>15 DEF FillDone, MainPC
<1>16. CASE SchedulerOverview
  BY <1>16 DEF SchedulerOverview, MainPC
<1>17. ASSUME NEW o \in Faults, FlushTask(o) PROVE TypeOK'
  BY <1>17 DEF FlushTask, webiface_put_solution, Requested, WebStatus
<1>18. CASE FlushDone
  BY <1>18 DEF FlushDone, MainPC
<1>19. CASE MainloopExit
  BY <1>19 DEF MainloopExit, MainPC
<1>20. ASSUME NEW s \in Slots, ThreadNext(s) PROVE TypeOK'
  BY <1>20 DEF ThreadNext, ThreadStart, ThreadResult, ThreadFinish,
     ThreadInterrupt, ThreadRaise, ThreadLeave, Step, TaskStatus, ThreadPC
<1>21. CASE MainloopStop \/ StopTesting \/ PoolFree \/ MainloopJoin
  BY <1>21 DEF MainloopStop, StopTesting, PoolFree, MainloopJoin, CorePC
<1>22. ASSUME NEW o \in Faults, QueueFree(o) PROVE TypeOK'
  BY <1>22 DEF QueueFree, webiface_restore_task, Requested, WebStatus
<1>23. ASSUME NEW t \in Tasks, NEW o \in Faults, BeltsFree(t, o) PROVE TypeOK'
  BY <1>23 DEF BeltsFree, webiface_restore_task, Requested, WebStatus
<1>24. CASE BeltsDone \/ Crash
  <2>1. Exit
    BY <1>24 DEF BeltsDone, Crash
  <2>2. orphaned' \subseteq Tasks
    BY <2>1, HeldType DEF Exit
  <2>3. /\ status' \in [Tasks -> TaskStatus] /\ at' \in [Slots -> ThreadPC]
        /\ job' \in [Slots -> Tasks \cup {NoTask}]
    BY <2>1 DEF Exit, TaskStatus, ThreadPC
  <2>4. <<>> \in Seq(Tasks)
    OBVIOUS
  <2>5. /\ queue' \in Seq(Tasks) /\ accumulator' \in Seq(Tasks)
        /\ passed' \in Seq(Tasks) /\ accItems' \in 0..MaxItems
    BY <2>1, <2>4 DEF Exit
  <2> QED  BY <2>1, <2>2, <2>3, <2>5 DEF Exit, MainPC, CorePC
<1>25. ASSUME NEW o \in Faults, MainloopStart(o) PROVE TypeOK'
  BY <1>25 DEF MainloopStart, webiface_reset_status, WebStatus, MainPC, CorePC
<1>26. CASE IpcNext
  BY <1>26 DEF IpcNext, ipc_queue, ipc_belts
<1> QED
  BY <1>1, <1>2, <1>3, <1>4, <1>5, <1>6, <1>7, <1>8, <1>9, <1>10, <1>11, <1>12,
     <1>13, <1>14, <1>15, <1>16, <1>17, <1>18, <1>19, <1>20, <1>21, <1>22,
     <1>23, <1>24, <1>25, <1>26, <1>27, <1>28
     DEF Next, MainNext, CoreNext
-----------------------------------------------------------------------------
(* What each thread leaves alone.                                          *)

\* What the steps of the main loop leave alone.
LEMMA MainFrame ==
  ASSUME MainNext
  PROVE  /\ UNCHANGED <<core, queueActive, beltsActive>>
         /\ UNCHANGED <<job, at>> \/ \E s \in Slots : FillPush(s)
         /\ UNCHANGED lost \/ FillLost
<1> USE DEF listVars, mainVars, poolVars, flagVars
<1>1. CASE \/ QueueUpdate \/ ReceiveDone \/ BeltsUpdate \/ BeltsReset
           \/ OverviewDone \/ FillStart \/ FillLost \/ FillAppend \/ FillKeep
           \/ FillDone \/ SchedulerOverview \/ FlushDone \/ MainloopExit
  BY <1>1 DEF QueueUpdate, ReceiveDone, BeltsUpdate, BeltsReset, OverviewDone,
     FillStart, FillLost, FillAppend, FillKeep, FillDone, SchedulerOverview, FlushDone, MainloopExit
<1>2. CASE \E got \in SUBSET Elems(queue) : QueueUnpack(got)
  BY <1>2 DEF QueueUnpack
<1>3. CASE \E t \in Tasks, o \in Faults : ReceiveTask(t, o) \/ OverviewTask(t, o)
  BY <1>3 DEF ReceiveTask, OverviewTask
<1>4. CASE \E s \in Slots : FillPush(s)
  BY <1>4 DEF FillPush
<1>5. CASE \E o \in Faults : FillDrop(o) \/ FlushTask(o)
  BY <1>5 DEF FillDrop, FlushTask
<1> QED  BY <1>1, <1>2, <1>3, <1>4, <1>5 DEF MainNext

\* What the steps of a testing thread leave alone.
LEMMA ThreadFrame ==
  ASSUME NEW s \in Slots, ThreadNext(s)
  PROVE  /\ UNCHANGED <<webVars, queue, belts, accumulator, accItems, unpacked,
                        mainVars, lost, queueActive, beltsActive, core>>
         /\ at[s] # "none"
BY DEF ThreadNext, ThreadStart, ThreadResult, ThreadFinish, ThreadInterrupt,
       ThreadRaise, ThreadLeave, Step, listVars, flagVars

\* What the steps of the web and of the operator leave alone.
LEMMA OtherFrame ==
  ASSUME (\E t \in Tasks : SubmitTask(t)) \/ IpcNext \/ UNCHANGED vars
  PROVE  UNCHANGED <<listVars, mainVars, poolVars, global_state_changed, core>>
BY DEF SubmitTask, IpcNext, ipc_queue, ipc_belts, vars, flagVars
-----------------------------------------------------------------------------
(* The main loop and the pool.                                             *)

\* Every step keeps the main loop's hand and passed nodes in order.
LEMMA MainStepInv ==
  ASSUME TypeOK, MainInv, [Next]_vars
  PROVE  MainInv'
<1> USE BeltsAssumption DEF MainInv, TypeOK, listVars, mainVars
<1>1. CASE (\E t \in Tasks : SubmitTask(t)) \/ IpcNext \/ UNCHANGED vars
  BY <1>1, OtherFrame
<1>2. CASE \E s \in Slots : ThreadNext(s)
  BY <1>2, ThreadFrame
<1>3. CASE MainNext
  <2>1. CASE QueueUpdate \/ ReceiveDone \/ BeltsUpdate \/ BeltsReset
    BY <2>1 DEF QueueUpdate, ReceiveDone, BeltsUpdate, BeltsReset
  <2>2. CASE OverviewDone \/ SchedulerOverview \/ MainloopExit
    BY <2>2 DEF OverviewDone, SchedulerOverview, MainloopExit
  <2>3. CASE FillAppend \/ FillKeep \/ FillDone \/ FlushDone
    BY <2>3 DEF FillAppend, FillKeep, FillDone, FlushDone, Filling
  <2>4. CASE \E got \in SUBSET Elems(queue) : QueueUnpack(got)
    BY <2>4 DEF QueueUnpack
  <2>5. ASSUME NEW t \in Tasks, NEW o \in Faults,
               ReceiveTask(t, o) \/ OverviewTask(t, o)
        PROVE  MainInv'
    <3>1. UNCHANGED <<pc, hand, passed, core>> /\ belts' \subseteq belts
      BY <2>5 DEF ReceiveTask, OverviewTask, Interrupted, return_tested
    <3> QED  BY <3>1
  <2>6. CASE FillStart
    <3>1. Head(queue) \in Tasks
      BY <2>6 DEF FillStart, Filling
    <3> QED  BY <2>6, <3>1 DEF FillStart, Filling
  <2>8. CASE FillLost \/ \E s \in Slots : FillPush(s)
    BY <2>8 DEF FillLost, FillPush
  <2>7. CASE \E o \in Faults : FillDrop(o) \/ FlushTask(o)
    BY <2>7 DEF FillDrop, FlushTask, Filling, Drop
  <2> QED  BY <1>3, <2>1, <2>2, <2>3, <2>4, <2>5, <2>6, <2>7, <2>8 DEF MainNext
<1>4. CASE CoreNext
  <2>1. CASE MainloopStop \/ StopTesting \/ PoolFree \/ MainloopJoin
    BY <2>1 DEF MainloopStop, StopTesting, PoolFree, MainloopJoin
  <2>2. CASE BeltsDone \/ Crash
    BY <2>2 DEF BeltsDone, Crash, Exit
  <2>3. CASE \E o \in Faults : QueueFree(o) \/ MainloopStart(o)
    BY <2>3 DEF QueueFree, MainloopStart
  <2>4. CASE \E t \in Tasks, o \in Faults : BeltsFree(t, o)
    BY <2>4 DEF BeltsFree
  <2> QED  BY <1>4, <2>1, <2>2, <2>3, <2>4 DEF CoreNext
<1> QED  BY <1>1, <1>2, <1>3, <1>4 DEF Next

\* Every step keeps a task with each busy thread and no thread without a
\* process.
LEMMA PoolStepInv ==
  ASSUME TypeOK, MainInv, PoolInv, [Next]_vars
  PROVE  PoolInv'
<1> USE DEF PoolInv, TypeOK, poolVars
<1>1. CASE (\E t \in Tasks : SubmitTask(t)) \/ IpcNext \/ UNCHANGED vars
  BY <1>1, OtherFrame
<1>2. ASSUME NEW s \in Slots, ThreadNext(s) PROVE PoolInv'
  BY <1>2, ThreadFrame DEF ThreadNext, ThreadStart, ThreadResult, ThreadFinish,
     ThreadInterrupt, ThreadRaise, ThreadLeave, Step
<1>3. CASE MainNext
  <2>1. CASE UNCHANGED <<job, at, lost>>
    BY <1>3, <2>1, MainFrame
  <2>2. ASSUME NEW s \in Slots, FillPush(s) PROVE PoolInv'
    <3>1. hand \in Tasks /\ core # "down"
      BY <2>2 DEF FillPush, MainInv
    <3> QED  BY <2>2, <3>1 DEF FillPush
  <2>3. CASE FillLost
    BY <2>3 DEF FillLost, MainInv
  <2> QED  BY <1>3, <2>1, <2>2, <2>3, MainFrame
<1>4. CASE CoreNext
  <2>1. CASE MainloopStop \/ StopTesting \/ PoolFree \/ MainloopJoin
    BY <2>1 DEF MainloopStop, StopTesting, PoolFree, MainloopJoin, Idle
  <2>2. CASE BeltsDone \/ Crash
    BY <2>2 DEF BeltsDone, Crash, Exit
  <2>3. CASE \E o \in Faults : QueueFree(o) \/ MainloopStart(o)
    BY <2>3 DEF QueueFree, MainloopStart
  <2>4. CASE \E t \in Tasks, o \in Faults : BeltsFree(t, o)
    BY <2>4 DEF BeltsFree
  <2> QED  BY <1>4, <2>1, <2>2, <2>3, <2>4 DEF CoreNext
<1> QED  BY <1>1, <1>2, <1>3, <1>4 DEF Next
-----------------------------------------------------------------------------
(* A waiting task waits once and is not started.                           *)

\* Every step keeps the waiting tasks distinct, untouched and off the belts.
LEMMA QueueStepInv ==
  ASSUME TypeOK, MainInv, PoolInv, QueueInv, ThreadOwnsTask, [Next]_vars
  PROVE  QueueInv'
<1> USE BeltsAssumption DEF TypeOK
<1>q. queue \in Seq(Tasks) /\ passed \in Seq(Tasks) /\ Elems(queue) \subseteq Tasks
  BY ElemsType
<1>p. Passed \in Seq(Tasks) /\ Elems(Passed) \subseteq Tasks
  <2>1. Passed \in Seq(Tasks)
    BY <1>q DEF Passed
  <2> QED  BY <2>1, ElemsType
<1>e. Elems(<<>>) = {} /\ Distinct(<<>>)
  BY ElemsEmpty DEF Distinct
<1>1. CASE (\E t \in Tasks : SubmitTask(t)) \/ IpcNext \/ UNCHANGED vars
  BY <1>1, OtherFrame DEF QueueInv, Passed, listVars, mainVars
<1>2. ASSUME NEW s \in Slots, ThreadNext(s) PROVE QueueInv'
  <2>1. UNCHANGED <<queue, belts, pc, passed, hand>>
    BY <1>2, ThreadFrame DEF mainVars
  <2>2. \A t \in Elems(queue) \cup Elems(Passed) : status'[t] = status[t]
    <3>1. CASE at[s] \in Testing
      <4>1. \A t \in Tasks : t # job[s] => status'[t] = status[t]
        BY <1>2 DEF ThreadNext, ThreadStart, ThreadResult, ThreadFinish,
           ThreadInterrupt, ThreadRaise, ThreadLeave, listVars
      <4>2. job[s] \notin Elems(queue) \cup Elems(Passed)
        <5>1. CASE core = "free" /\ queue = <<>>
          BY <5>1, <1>e DEF MainInv, Passed
        <5> QED  BY <3>1, <5>1 DEF ThreadOwnsTask, QueueInv
      <4> QED  BY <4>1, <4>2, <1>q, <1>p
    <3>2. CASE at[s] \notin Testing
      BY <1>2, <3>2 DEF ThreadNext, ThreadStart, ThreadResult, ThreadFinish,
         ThreadInterrupt, ThreadRaise, ThreadLeave, Step, listVars, Testing
    <3> QED  BY <3>1, <3>2
  <2> QED  BY <2>1, <2>2 DEF QueueInv, Passed
<1>3. CASE MainNext
  <2>1. CASE QueueUpdate \/ ReceiveDone \/ BeltsUpdate \/ BeltsReset
    BY <2>1 DEF QueueUpdate, ReceiveDone, BeltsUpdate, BeltsReset, QueueInv,
                Passed, listVars
  <2>2. CASE OverviewDone \/ MainloopExit \/ SchedulerOverview
    BY <2>2, <1>e DEF OverviewDone, SchedulerOverview, MainloopExit, QueueInv,
                Passed, listVars, MainInv
  <2>3. CASE FillAppend
    BY <2>3, <1>q, <1>p DEF FillAppend, QueueInv, Passed
  <2>4. CASE FillKeep
    <3> DEFINE t == Head(queue)
    <3>1. /\ queue # <<>> /\ pc = "fill" /\ UNCHANGED <<status, belts, hand, pc>>
          /\ passed' = <<t>> \o passed /\ queue' = Tail(queue)
      BY <2>4 DEF FillKeep, Filling, PutBack
    <3>2. /\ Elems(queue) = {t} \cup Elems(queue') /\ t \in Tasks
          /\ Distinct(queue') /\ t \notin Elems(queue')
      BY <3>1, <1>q, ElemsTail, DistinctTail DEF QueueInv
    <3>4. t \notin Elems(passed) /\ Distinct(passed)
      BY <3>1, <3>2 DEF QueueInv, Passed
    <3>5. Elems(passed') = {t} \cup Elems(passed) /\ Distinct(passed')
      BY <3>1, <3>2, <3>4, <1>q, PushHead
    <3> QED  BY <3>1, <3>2, <3>4, <3>5 DEF QueueInv, Passed
  <2>5. CASE FillDone
    <3>1. /\ queue' = passed \o queue /\ passed' = <<>> /\ pc = "fill" /\ pc' = "idle"
          /\ UNCHANGED <<status, belts, hand>>
      BY <2>5 DEF FillDone
    <3>2. Distinct(queue') /\ Elems(queue') = Elems(passed) \cup Elems(queue)
      BY <3>1, <1>q, ElemsConcat, DistinctConcat DEF QueueInv, Passed
    <3> QED  BY <3>1, <3>2, <1>e DEF QueueInv, Passed
  <2>6. CASE FlushDone
    BY <2>6, <1>e DEF FlushDone, QueueInv, Passed
  <2>7. CASE \E got \in SUBSET Elems(queue) : QueueUnpack(got)
    BY <2>7 DEF QueueUnpack, QueueInv, Passed, mainVars
  <2>8. ASSUME NEW t \in Tasks, NEW o \in Faults, ReceiveTask(t, o) PROVE QueueInv'
    <3>1. /\ pc = "list" /\ UNCHANGED <<pc, passed, hand, belts>>
          /\ passed = <<>> /\ hand = NoTask
      BY <2>8 DEF ReceiveTask, MainInv
    <3>2. CASE Duplicate(t)
      BY <2>8, <3>1, <3>2 DEF ReceiveTask, Duplicate, QueueInv, Passed
    <3>3. CASE ~Duplicate(t)
      <4>1. /\ queue' = Append(queue, t)
            /\ status' = [status EXCEPT ![t] = "PENDING"]
            /\ t \notin Elems(queue) /\ t \notin belts
        BY <2>8, <3>3 DEF ReceiveTask, Duplicate
      <4>2. Elems(queue') = Elems(queue) \cup {t} /\ Distinct(queue')
        BY <4>1, <1>q, ElemsAppend, DistinctAppend DEF QueueInv
      <4> QED  BY <3>1, <4>1, <4>2, <1>e, <1>q DEF QueueInv, Passed
    <3> QED  BY <3>2, <3>3
  <2>9. ASSUME NEW t \in Tasks, NEW o \in Faults, OverviewTask(t, o) PROVE QueueInv'
    <3>1. belts' \subseteq belts /\ UNCHANGED <<queue, status, pc, passed, hand>>
      BY <2>9 DEF OverviewTask, Interrupted, return_tested, TaskStatus
    <3> QED  BY <3>1 DEF QueueInv, Passed
  <2>13. CASE FillLost \/ \E s \in Slots : FillPush(s)
    BY <2>13 DEF FillLost, FillPush, QueueInv, Passed, listVars
  <2>10. CASE FillStart
    <3>1. /\ queue # <<>> /\ hand' = Head(queue) /\ queue' = Tail(queue)
          /\ pc = "fill" /\ pc' = "push" /\ UNCHANGED <<status, belts, passed>>
      BY <2>10 DEF FillStart, Filling
    <3>2. /\ Elems(queue) = {hand'} \cup Elems(queue')
          /\ Distinct(queue') /\ hand' \notin Elems(queue')
      BY <3>1, <1>q, ElemsTail, DistinctTail DEF QueueInv
    <3> QED  BY <3>1, <3>2 DEF QueueInv, Passed
  <2>11. ASSUME NEW o \in Faults, FillDrop(o) PROVE QueueInv'
    <3>1. /\ queue # <<>> /\ queue' = Tail(queue)
          /\ UNCHANGED <<status, belts, passed, hand, pc>>
      BY <2>11 DEF FillDrop, Filling, Drop
    <3>2. Elems(queue') \subseteq Elems(queue) /\ Distinct(queue')
      BY <3>1, <1>q, ElemsTail, DistinctTail DEF QueueInv
    <3> QED  BY <3>1, <3>2 DEF QueueInv, Passed
  <2>12. ASSUME NEW o \in Faults, FlushTask(o) PROVE QueueInv'
    BY <2>12 DEF FlushTask, QueueInv, Passed
  <2> QED  BY <1>3, <2>1, <2>2, <2>3, <2>4, <2>5, <2>6, <2>7, <2>8, <2>9, <2>10,
              <2>11, <2>12, <2>13 DEF MainNext
<1>4. CASE CoreNext
  <2>1. CASE MainloopStop \/ StopTesting \/ PoolFree \/ MainloopJoin
    BY <2>1 DEF MainloopStop, StopTesting, PoolFree, MainloopJoin, QueueInv,
                Passed, listVars, mainVars
  <2>2. CASE BeltsDone \/ Crash
    BY <2>2, <1>e DEF BeltsDone, Crash, Exit, QueueInv, Passed
  <2>3. ASSUME NEW o \in Faults, QueueFree(o) PROVE QueueInv'
    <3>1. /\ queue # <<>> /\ queue' = Tail(queue)
          /\ UNCHANGED <<status, belts, passed, hand, pc>>
      BY <2>3 DEF QueueFree, mainVars
    <3>2. Elems(queue') \subseteq Elems(queue) /\ Distinct(queue')
      BY <3>1, <1>q, ElemsTail, DistinctTail DEF QueueInv
    <3> QED  BY <3>1, <3>2 DEF QueueInv, Passed
  <2>4. ASSUME NEW o \in Faults, MainloopStart(o) PROVE QueueInv'
    BY <2>4, <1>e DEF MainloopStart, QueueInv, Passed, listVars, MainInv
  <2>5. ASSUME NEW t \in Tasks, NEW o \in Faults, BeltsFree(t, o) PROVE QueueInv'
    BY <2>5 DEF BeltsFree, QueueInv, Passed, mainVars
  <2> QED  BY <1>4, <2>1, <2>2, <2>3, <2>4, <2>5 DEF CoreNext
<1> QED  BY <1>1, <1>2, <1>3, <1>4 DEF Next

\* Every step leaves the task that is about to be pushed alone.
LEMMA PushStepInv ==
  ASSUME TypeOK, MainInv, PoolInv, QueueInv, PushInv, ThreadOwnsTask, [Next]_vars
  PROVE  PushInv'
<1> USE BeltsAssumption DEF PushInv
<1>t. /\ status \in [Tasks -> TaskStatus] /\ at \in [Slots -> ThreadPC]
      /\ job \in [Slots -> Tasks \cup {NoTask}] /\ queue \in Seq(Tasks)
      /\ hand \in Tasks \cup {NoTask}
  BY DEF TypeOK
<1>1. CASE (\E t \in Tasks : SubmitTask(t)) \/ IpcNext \/ UNCHANGED vars
  BY <1>1, OtherFrame DEF listVars, mainVars, poolVars
<1>2. ASSUME NEW s \in Slots, ThreadNext(s) PROVE PushInv'
  <2> SUFFICES ASSUME pc = "push" PROVE PushInv'
    BY <1>2, ThreadFrame DEF mainVars
  <2>1. UNCHANGED <<hand, pc>> /\ hand \in Tasks /\ job[s] \in Tasks
    BY <1>2, <1>t, ThreadFrame DEF mainVars, MainInv, PoolInv
  <2>2. CASE at[s] \in Testing
    <3>1. status'[hand] = status[hand] /\ job' = job
      BY <1>2, <1>t, <2>1, <2>2 DEF ThreadNext, ThreadStart, ThreadResult,
         ThreadFinish, ThreadInterrupt, ThreadRaise, ThreadLeave, Step, Testing,
         listVars
    <3>2. \A r \in Slots : r # s => at'[r] = at[r]
      BY <1>2, <1>t DEF ThreadNext, ThreadStart, ThreadResult, ThreadFinish,
         ThreadInterrupt, ThreadRaise, ThreadLeave, Step
    <3> QED  BY <2>1, <2>2, <3>1, <3>2
  <2>3. CASE at[s] \notin Testing
    <3>1. /\ UNCHANGED status /\ at'[s] \notin Testing
          /\ \A r \in Slots : r # s => at'[r] = at[r] /\ job'[r] = job[r]
      BY <1>2, <1>t, <2>3 DEF ThreadNext, ThreadStart, ThreadResult,
         ThreadFinish, ThreadInterrupt, ThreadRaise, ThreadLeave, Step, Testing,
         listVars
    <3> QED  BY <2>1, <3>1
  <2> QED  BY <2>2, <2>3
<1>3. CASE MainNext
  <2>1. CASE FillStart
    <3>1. /\ queue # <<>> /\ pc = "fill" /\ hand' = Head(queue)
          /\ hand' \notin belts /\ UNCHANGED <<status, job, at>>
      BY <2>1 DEF FillStart, Filling, poolVars
    <3>2. hand' \in Tasks /\ status[hand'] = "PENDING"
      BY <3>1, <1>t, ElemsTail DEF QueueInv
    <3>3. hand = NoTask /\ core # "free"
      BY <3>1 DEF MainInv
    <3> QED  BY <3>1, <3>2, <3>3 DEF ThreadOwnsTask
  <2>2. CASE ~FillStart
    <3>1. pc' # "push"
      BY <1>3, <2>2 DEF MainNext, QueueUpdate, ReceiveDone, BeltsUpdate,
         BeltsReset, OverviewDone, FillLost, FillAppend, FillKeep, FillDone,
         SchedulerOverview, FlushDone, MainloopExit, QueueUnpack, ReceiveTask,
         OverviewTask, FillPush, FillDrop, Drop, FlushTask, Filling, mainVars
    <3> QED  BY <3>1
  <2> QED  BY <2>1, <2>2
<1>4. CASE CoreNext
  <2>1. CASE MainloopStop \/ StopTesting \/ PoolFree \/ MainloopJoin
    BY <2>1 DEF MainloopStop, StopTesting, PoolFree, MainloopJoin, listVars,
                mainVars, poolVars
  <2>2. CASE BeltsDone \/ Crash
    BY <2>2 DEF BeltsDone, Crash, Exit
  <2>3. CASE \E o \in Faults : QueueFree(o) \/ MainloopStart(o)
    BY <2>3 DEF QueueFree, MainloopStart, mainVars, poolVars
  <2>4. CASE \E t \in Tasks, o \in Faults : BeltsFree(t, o)
    BY <2>4 DEF BeltsFree, mainVars
  <2> QED  BY <1>4, <2>1, <2>2, <2>3, <2>4 DEF CoreNext
<1> QED  BY <1>1, <1>2, <1>3, <1>4 DEF Next
-----------------------------------------------------------------------------
(* A testing thread owns its task, and a task on the belts has its thread  *)
(* until it is tested.                                                     *)

\* Every step keeps the tie between belts and threads: who is tested has one
\* thread, and a thread's task is on the belts.
LEMMA OwnerStepInv ==
  ASSUME IndInv, [Next]_vars
  PROVE  ThreadOwnsTask' /\ UntestedHasThread'
<1> USE BeltsAssumption DEF IndInv, ThreadOwnsTask, UntestedHasThread, TestingActive
<1>t. /\ status \in [Tasks -> TaskStatus] /\ at \in [Slots -> ThreadPC]
      /\ job \in [Slots -> Tasks \cup {NoTask}] /\ belts \subseteq Tasks
      /\ hand \in Tasks \cup {NoTask} /\ queue \in Seq(Tasks)
  BY DEF TypeOK
<1>1. CASE (\E t \in Tasks : SubmitTask(t)) \/ IpcNext \/ UNCHANGED vars
  BY <1>1, OtherFrame DEF listVars, mainVars, poolVars
<1>2. ASSUME NEW s \in Slots, ThreadNext(s)
      PROVE  ThreadOwnsTask' /\ UntestedHasThread'
  <2>1. UNCHANGED <<belts, hand, pc, lost, core, queue>>
    BY <1>2, ThreadFrame DEF mainVars
  <2>2. job[s] \in Tasks
    BY <1>2, ThreadFrame DEF PoolInv
  <2>3. CASE ThreadStart(s)
    BY <2>1, <2>2, <2>3, <1>t DEF ThreadStart, Step, Testing
  <2>4. CASE ThreadResult(s)
    BY <2>1, <2>4, <1>t DEF ThreadResult, Step, Testing, listVars
  <2>5. CASE ThreadFinish(s)
    BY <2>1, <2>2, <2>5, <1>t DEF ThreadFinish, Step, Testing
  <2>6. CASE ThreadInterrupt(s)
    BY <2>1, <2>2, <2>6, <1>t DEF ThreadInterrupt, Step, Testing
  <2>7. CASE ThreadRaise(s) \/ ThreadLeave(s)
    BY <2>1, <2>7, <1>t DEF ThreadRaise, ThreadLeave, Step, Testing, listVars
  <2> QED  BY <1>2, <2>3, <2>4, <2>5, <2>6, <2>7 DEF ThreadNext
<1>3. CASE MainNext
  <2>m. core # "free" /\ UNCHANGED core
    <3>1. pc # "exited"
      BY <1>3 DEF MainNext, QueueUpdate, ReceiveDone, BeltsUpdate, BeltsReset,
         OverviewDone, FillStart, FillLost, FillAppend, FillKeep, FillDone,
         SchedulerOverview, FlushDone, MainloopExit, QueueUnpack, ReceiveTask,
         OverviewTask, FillPush, FillDrop, FlushTask, Filling
    <3> QED  BY <1>3, <3>1, MainFrame DEF MainInv
  <2>1. CASE \/ QueueUpdate \/ ReceiveDone \/ BeltsUpdate \/ BeltsReset
             \/ OverviewDone \/ FillKeep \/ FillDone \/ SchedulerOverview
             \/ FlushDone \/ MainloopExit
    <3>1. UNCHANGED <<belts, hand, status, job, at, lost>> /\ pc # "push"
      BY <2>1 DEF QueueUpdate, ReceiveDone, BeltsUpdate, BeltsReset,
         OverviewDone, FillKeep, FillDone, SchedulerOverview, FlushDone,
         MainloopExit, Filling, listVars, poolVars
    <3> QED  BY <3>1, <2>m
  <2>2. CASE \/ \E got \in SUBSET Elems(queue) : QueueUnpack(got)
             \/ \E o \in Faults : FillDrop(o) \/ FlushTask(o)
    <3>1. UNCHANGED <<belts, hand, status, job, at, lost>> /\ pc # "push"
      BY <2>2 DEF QueueUnpack, FillDrop, FlushTask, Filling, mainVars, poolVars
    <3> QED  BY <3>1, <2>m
  <2>3. CASE FillAppend
    BY <2>3, <2>m, <1>t DEF FillAppend, MainInv, poolVars
  <2>4. ASSUME NEW t \in Tasks, NEW o \in Faults, ReceiveTask(t, o)
        PROVE  ThreadOwnsTask' /\ UntestedHasThread'
    <3>1. UNCHANGED <<belts, hand, job, at, lost>> /\ hand = NoTask
      BY <2>4 DEF ReceiveTask, poolVars, MainInv
    <3>2. \A u \in belts : status'[u] = status[u]
      BY <2>4, <3>1, <1>t DEF ReceiveTask, Duplicate
    <3>3. \A s \in Slots : at[s] \in Testing => job[s] \in belts
      BY <2>m, <3>1 DEF PoolInv, Testing
    <3> QED  BY <2>m, <3>1, <3>2, <3>3
  <2>5. ASSUME NEW t \in Tasks, NEW o \in Faults, OverviewTask(t, o)
        PROVE  ThreadOwnsTask' /\ UntestedHasThread'
    <3>1. /\ UNCHANGED <<hand, status, job, at, lost, pc>> /\ belts' \subseteq belts
          /\ \A u \in belts : u \notin belts' =>
               status[u] \in {"FINISHED", "INTERRUPTED"}
      <4>1. CASE status[t] = "FINISHED"
        BY <2>5, <4>1 DEF OverviewTask, return_tested, poolVars
      <4>2. CASE status[t] # "FINISHED" /\ Interrupted(t)
        BY <2>5, <4>2 DEF OverviewTask, Interrupted, poolVars
      <4>3. CASE status[t] # "FINISHED" /\ ~Interrupted(t)
        BY <2>5, <4>3 DEF OverviewTask, poolVars
      <4> QED  BY <4>1, <4>2, <4>3
    <3> QED  BY <3>1, <2>m
  <2>6. CASE FillStart
    <3>1. /\ hand' = Head(queue) /\ hand = NoTask /\ queue # <<>>
          /\ pc' = "push" /\ UNCHANGED <<belts, status, job, at, lost>>
      BY <2>6 DEF FillStart, Filling, MainInv, poolVars
    <3>2. \A r \in Slots : at[r] \in Testing => job[r] \in belts
      BY <2>m, <3>1 DEF PoolInv, Testing
    <3> QED  BY <2>m, <3>1, <3>2
  <2>7. CASE FillLost
    <3>1. /\ lost' = lost \cup {hand} /\ UNCHANGED <<hand, belts, status, job, at>>
          /\ Uploads \/ core = "wait"
      BY <2>7 DEF FillLost, listVars
    <3> QED  BY <2>m, <3>1
  <2>8. ASSUME NEW s \in Slots, FillPush(s)
        PROVE  ThreadOwnsTask' /\ UntestedHasThread'
    <3>1. /\ at[s] = "none" /\ at' = [at EXCEPT ![s] = "pushed"]
          /\ job' = [job EXCEPT ![s] = hand] /\ pc = "push"
          /\ UNCHANGED <<belts, status, hand, lost>>
      BY <2>8 DEF FillPush, Idle, listVars
    <3>2. hand \in Tasks /\ status[hand] = "PENDING"
      BY <3>1, <1>t DEF MainInv, PushInv
    <3>3. \A r \in Slots : at[r] \in Testing => job[r] # hand
      BY <3>1 DEF PushInv
    <3>4. ThreadOwnsTask'
      <4> SUFFICES ASSUME NEW r \in Slots, at'[r] \in Testing
                   PROVE  /\ job'[r] \in belts \cup {hand}
                          /\ status[job'[r]] \in {"PENDING", "RUNNING"}
                          /\ \A q \in Slots :
                               at'[q] \in Testing /\ job'[q] = job'[r] => q = r
        BY <3>1
      <4>1. CASE r = s
        BY <3>1, <3>2, <3>3, <4>1, <1>t
      <4>2. CASE r # s
        <5>1. at[r] \in Testing /\ job'[r] = job[r] /\ job[r] \in Tasks
          BY <3>1, <4>2, <1>t DEF PoolInv, Testing
        <5> QED  BY <2>m, <3>1, <3>3, <4>2, <5>1, <1>t
      <4> QED  BY <4>1, <4>2
    <3>5. UntestedHasThread'
      <4> SUFFICES ASSUME NEW t \in belts \cup {hand}, t \in Tasks,
                          status[t] \in {"PENDING", "RUNNING"}, t \notin lost
                   PROVE  \E r \in Slots : at'[r] \in Testing /\ job'[r] = t
        BY <2>m, <3>1
      <4>1. CASE t = hand
        BY <3>1, <4>1, <1>t DEF Testing
      <4>2. CASE t # hand
        <5>1. PICK r \in Slots : at[r] \in Testing /\ job[r] = t
          BY <4>2
        <5>2. r # s
          BY <3>1, <5>1 DEF Testing
        <5> QED  BY <3>1, <5>1, <5>2, <1>t
      <4> QED  BY <4>1, <4>2
    <3> QED  BY <3>4, <3>5
  <2> QED  BY <1>3, <2>1, <2>2, <2>3, <2>4, <2>5, <2>6, <2>7, <2>8 DEF MainNext
<1>4. CASE CoreNext
  <2>1. CASE MainloopStop \/ StopTesting \/ PoolFree \/ MainloopJoin
    BY <2>1 DEF MainloopStop, StopTesting, PoolFree, MainloopJoin, listVars,
                mainVars, poolVars
  <2>2. CASE BeltsDone \/ Crash
    BY <2>2 DEF BeltsDone, Crash, Exit, Testing
  <2>3. CASE \E o \in Faults : QueueFree(o)
    BY <2>3 DEF QueueFree, mainVars, poolVars
  <2>5. CASE \E o \in Faults : MainloopStart(o)
    BY <2>5 DEF MainloopStart, MainInv, PoolInv, listVars, poolVars, Testing
  <2>4. ASSUME NEW t \in Tasks, NEW o \in Faults, BeltsFree(t, o)
        PROVE  ThreadOwnsTask' /\ UntestedHasThread'
    <3>1. /\ core = "free" /\ queue = <<>> /\ UNCHANGED <<core, queue>>
          /\ UNCHANGED <<at, job, hand, pc, status>>
          /\ belts' = belts \ {t} /\ lost' = lost \ {t}
      BY <2>4 DEF BeltsFree, mainVars
    <3>2. hand = NoTask
      BY <3>1 DEF MainInv
    <3> QED  BY <3>1, <3>2
  <2> QED  BY <1>4, <2>1, <2>2, <2>3, <2>4, <2>5 DEF CoreNext
<1> QED  BY <1>1, <1>2, <1>3, <1>4 DEF Next
-----------------------------------------------------------------------------
(* No state change of a tested task is lost.                               *)

\* Every step keeps the news of a tested task: flag, thread or overview.
LEMMA WakeupStepInv ==
  ASSUME IndInv, [Next]_vars
  PROVE  NoLostWakeup'
<1> USE BeltsAssumption DEF IndInv, NoLostWakeup
<1>t. /\ status \in [Tasks -> TaskStatus] /\ at \in [Slots -> ThreadPC]
      /\ job \in [Slots -> Tasks \cup {NoTask}] /\ belts \subseteq Tasks
      /\ hand \in Tasks \cup {NoTask} /\ queue \in Seq(Tasks)
      /\ global_state_changed \in BOOLEAN
  BY DEF TypeOK
<1>1. CASE (\E t \in Tasks : SubmitTask(t)) \/ IpcNext \/ UNCHANGED vars
  BY <1>1, OtherFrame DEF listVars, mainVars, poolVars
<1>2. ASSUME NEW s \in Slots, ThreadNext(s) PROVE NoLostWakeup'
  <2>1. UNCHANGED <<belts, hand, pc, todo>>
    BY <1>2, ThreadFrame DEF mainVars
  <2>2. job[s] \in Tasks
    BY <1>2, ThreadFrame DEF PoolInv
  <2>3. CASE ThreadStart(s)
    BY <2>1, <2>2, <2>3, <1>t DEF ThreadStart, Step, flagVars
  <2>4. CASE ThreadResult(s) \/ ThreadRaise(s)
    BY <2>1, <2>4 DEF ThreadResult, ThreadRaise, listVars
  <2>5. CASE ThreadFinish(s) \/ ThreadInterrupt(s)
    <3>1. /\ at' = [at EXCEPT ![s] = "raise"] /\ at[s] # "raise"
          /\ UNCHANGED <<job, global_state_changed>>
          /\ \A t \in Tasks : t # job[s] => status'[t] = status[t]
      BY <2>2, <2>5, <1>t DEF ThreadFinish, ThreadInterrupt, Step, flagVars
    <3>2. at'[s] = "raise" /\ \A r \in Slots : r # s => at'[r] = at[r]
      BY <3>1, <1>t
    <3> QED  BY <2>1, <3>1, <3>2
  <2>6. CASE ThreadLeave(s)
    BY <2>1, <2>6, <1>t DEF ThreadLeave, Step, listVars, flagVars
  <2> QED  BY <1>2, <2>3, <2>4, <2>5, <2>6 DEF ThreadNext
<1>3. CASE MainNext
  <2>1. CASE \/ QueueUpdate \/ ReceiveDone \/ BeltsUpdate \/ FillKeep
             \/ FillDone \/ SchedulerOverview \/ FlushDone \/ MainloopExit
    <3>1. /\ UNCHANGED <<belts, hand, status, job, at, global_state_changed>>
          /\ pc \notin {"reset", "overview"}
      BY <2>1 DEF QueueUpdate, ReceiveDone, BeltsUpdate, FillKeep, FillDone,
         SchedulerOverview, FlushDone, MainloopExit, Filling, listVars,
         poolVars, flagVars
    <3> QED  BY <3>1
  <2>2. CASE BeltsReset
    BY <2>2, <1>t DEF BeltsReset, MainInv, BeltsRoom, listVars
  <2>3. CASE OverviewDone
    BY <2>3 DEF OverviewDone, listVars, poolVars, flagVars
  <2>4. CASE \/ \E got \in SUBSET Elems(queue) : QueueUnpack(got)
             \/ \E o \in Faults : FillDrop(o) \/ FlushTask(o)
    BY <2>4 DEF QueueUnpack, FillDrop, Drop, FlushTask, mainVars, poolVars,
                flagVars
  <2>5. CASE FillAppend
    BY <2>5, <1>t DEF FillAppend, poolVars, flagVars
  <2>6. ASSUME NEW t \in Tasks, NEW o \in Faults, ReceiveTask(t, o)
        PROVE  NoLostWakeup'
    <3>1. /\ UNCHANGED <<belts, hand, job, at, global_state_changed, pc>>
          /\ hand = NoTask /\ pc = "list"
      BY <2>6 DEF ReceiveTask, poolVars, flagVars, MainInv
    <3>2. \A u \in belts : status'[u] = status[u]
      BY <2>6, <3>1, <1>t DEF ReceiveTask, Duplicate
    <3> QED  BY <3>1, <3>2
  <2>7. ASSUME NEW t \in Tasks, NEW o \in Faults, OverviewTask(t, o)
        PROVE  NoLostWakeup'
    <3>1. /\ UNCHANGED <<hand, status, job, at, global_state_changed, pc>>
          /\ belts' \subseteq belts /\ todo' = todo \ {t}
          /\ status[t] \in {"FINISHED", "INTERRUPTED"} => t \notin belts'
      <4>1. CASE status[t] = "FINISHED"
        BY <2>7, <4>1 DEF OverviewTask, return_tested, poolVars, flagVars
      <4>2. CASE status[t] # "FINISHED" /\ Interrupted(t)
        BY <2>7, <4>2 DEF OverviewTask, Interrupted, poolVars, flagVars
      <4>3. CASE status[t] # "FINISHED" /\ ~Interrupted(t)
        BY <2>7, <4>3 DEF OverviewTask, Interrupted, poolVars, flagVars
      <4> QED  BY <4>1, <4>2, <4>3
    <3>2. hand = NoTask
      BY <2>7 DEF OverviewTask, MainInv
    <3> QED  BY <3>1, <3>2
  <2>8. CASE FillStart
    <3>1. /\ hand' = Head(queue) /\ queue # <<>> /\ pc = "fill"
          /\ UNCHANGED <<belts, status, job, at, global_state_changed>>
      BY <2>8 DEF FillStart, Filling, poolVars, flagVars
    <3>2. hand' \in Tasks /\ status[hand'] = "PENDING"
      BY <3>1, <1>t, ElemsTail DEF QueueInv
    <3> QED  BY <3>1, <3>2, <1>t
  <2>9. CASE FillLost
    BY <2>9 DEF FillLost, listVars, flagVars
  <2>10. ASSUME NEW s \in Slots, FillPush(s) PROVE NoLostWakeup'
    <3>1. /\ at[s] = "none" /\ pc = "push"
          /\ \A r \in Slots : r # s => at'[r] = at[r] /\ job'[r] = job[r]
          /\ UNCHANGED <<belts, status, hand, global_state_changed>>
      BY <2>10, <1>t DEF FillPush, Idle, listVars, flagVars
    <3> QED  BY <3>1
  <2> QED  BY <1>3, <2>1, <2>2, <2>3, <2>4, <2>5, <2>6, <2>7, <2>8, <2>9, <2>10
              DEF MainNext
<1>4. CASE CoreNext
  <2>1. CASE MainloopStop \/ StopTesting \/ PoolFree \/ MainloopJoin
    BY <2>1 DEF MainloopStop, StopTesting, PoolFree, MainloopJoin, listVars,
                mainVars, poolVars, flagVars
  <2>2. CASE BeltsDone \/ Crash
    BY <2>2 DEF BeltsDone, Crash, Exit
  <2>3. CASE \E o \in Faults : QueueFree(o)
    BY <2>3 DEF QueueFree, mainVars, poolVars, flagVars
  <2>4. CASE \E o \in Faults : MainloopStart(o)
    BY <2>4 DEF MainloopStart, MainInv, listVars, poolVars
  <2>5. CASE \E t \in Tasks, o \in Faults : BeltsFree(t, o)
    BY <2>5 DEF BeltsFree, mainVars, flagVars
  <2> QED  BY <1>4, <2>1, <2>2, <2>3, <2>4, <2>5 DEF CoreNext
<1> QED  BY <1>1, <1>2, <1>3, <1>4 DEF Next
-----------------------------------------------------------------------------
(* The theorems.                                                           *)

\* Before the server is started for the first time the invariant holds.
LEMMA InitInv == Init => IndInv
<1> SUFFICES ASSUME Init PROVE IndInv
  OBVIOUS
<1> USE BeltsAssumption DEF Init, WebInit
<1>1. TypeOK
  <2>1. <<>> \in Seq(Tasks)
    OBVIOUS
  <2>2. /\ web \in [Tasks -> WebStatus] /\ status \in [Tasks -> TaskStatus]
        /\ job \in [Slots -> Tasks \cup {NoTask}] /\ at \in [Slots -> ThreadPC]
    BY DEF WebStatus, TaskStatus, ThreadPC
  <2>3. /\ queue \in Seq(Tasks) /\ accumulator \in Seq(Tasks)
        /\ passed \in Seq(Tasks) /\ accItems \in 0..MaxItems
    BY <2>1
  <2> QED  BY <2>2, <2>3 DEF TypeOK, MainPC, CorePC
<1>2. MainInv /\ PoolInv
  BY DEF MainInv, PoolInv
<1>3. QueueInv
  BY ElemsEmpty DEF QueueInv, Passed, Distinct
<1>4. ThreadOwnsTask /\ UntestedHasThread /\ NoLostWakeup
  BY DEF ThreadOwnsTask, UntestedHasThread, NoLostWakeup, Testing
<1>5. PushInv
  BY DEF PushInv
<1> QED  BY <1>1, <1>2, <1>3, <1>4, <1>5 DEF IndInv

\* The invariant is inductive.
LEMMA NextInv == IndInv /\ [Next]_vars => IndInv'
BY Typing, MainStepInv, PoolStepInv, QueueStepInv, PushStepInv, OwnerStepInv,
   WakeupStepInv
   DEF IndInv

\* IndInv holds in every state of the server, however the main loop, the
\* testing threads, the shutdown and the crashes interleave.
THEOREM Inductive == Spec => []IndInv
BY InitInv, NextInv, PTL DEF Spec

\* Every variable keeps its type.
THEOREM TypeCorrect == Spec => []TypeOK
BY Inductive, PTL DEF IndInv

\* The main loop neither returns nor frees a task while a testing thread uses
\* it, and no two threads test the same one.
THEOREM ThreadsOwnTheirTasks == Spec => []ThreadOwnsTask
BY Inductive, PTL DEF IndInv

\* No task occupies the belts without a thread that will test it, unless an
\* upload or the stop was freeing the pool when it was pushed.
THEOREM BeltsAreTested == Spec => []UntestedHasThread
BY Inductive, PTL DEF IndInv

\* global_state_changed never goes down with a tested task left behind.
THEOREM WakeupsAreKept == Spec => []NoLostWakeup
BY Inductive, PTL DEF IndInv

\* The queue and the belts never hold one task twice.
THEOREM TasksAreUnique == Spec => []NoDuplicates
<1>1. IndInv => NoDuplicates
  <2> SUFFICES ASSUME IndInv PROVE NoDuplicates
    OBVIOUS
  <2>1. queue \in Seq(Tasks) /\ passed \in Seq(Tasks) /\ NoTask \notin Tasks
    BY BeltsAssumption DEF IndInv, TypeOK
  <2>2. Distinct(Waiting) /\ Elems(Waiting) = Elems(queue) \cup Elems(Passed)
    <3>1. CASE pc = "flush"
      BY <3>1, ElemsEmpty DEF IndInv, QueueInv, Waiting, Passed
    <3>2. CASE pc # "flush"
      BY <2>1, <3>2, ElemsConcat, DistinctConcat
         DEF IndInv, QueueInv, Waiting, Passed
    <3> QED  BY <3>1, <3>2
  <2>3. hand \notin belts
    BY DEF IndInv, MainInv
  <2> QED  BY <2>2, <2>3 DEF NoDuplicates, IndInv, QueueInv
<1> QED  BY <1>1, Inductive, PTL
-----------------------------------------------------------------------------
(* No task the web has handed out is lost without a trace.                 *)

\* Every task of the web is in the same place or was given back.
LEMMA TakenStepInv ==
  ASSUME TypeOK, MainInv, TakenIsHeld, [Next]_vars
  PROVE  TakenIsHeld'
<1> USE BeltsAssumption DEF TypeOK, TakenIsHeld, Held
<1>e. Elems(<<>>) = {}
  BY ElemsEmpty
<1>1. CASE IpcNext \/ UNCHANGED vars
  BY <1>1 DEF IpcNext, ipc_queue, ipc_belts, vars, webVars, listVars, mainVars
<1>2. ASSUME NEW t \in Tasks, SubmitTask(t) PROVE TakenIsHeld'
  BY <1>2 DEF SubmitTask, Submit, listVars, mainVars
<1>3. CASE \E s \in Slots : ThreadNext(s)
  BY <1>3, ThreadFrame DEF webVars, mainVars
<1>4. CASE MainNext
  <2>1. CASE \/ QueueUpdate \/ ReceiveDone \/ BeltsUpdate \/ BeltsReset
             \/ OverviewDone \/ SchedulerOverview \/ MainloopExit
    <3>1. UNCHANGED <<webVars, queue, belts, accumulator, passed, hand>>
      BY <2>1 DEF QueueUpdate, ReceiveDone, BeltsUpdate, BeltsReset,
         OverviewDone, SchedulerOverview, MainloopExit, listVars
    <3> QED  BY <3>1 DEF webVars
  <2>2. CASE \E got \in SUBSET Elems(queue) : QueueUnpack(got)
    BY <2>2 DEF QueueUnpack, webVars, mainVars
  <2>3. CASE FillAppend
    BY <2>3 DEF FillAppend, webVars
  <2>4. CASE FillKeep
    <3>1. /\ queue # <<>> /\ passed' = <<Head(queue)>> \o passed
          /\ queue' = Tail(queue)
          /\ UNCHANGED <<webVars, belts, accumulator, hand>>
      BY <2>4 DEF FillKeep, Filling, PutBack
    <3>2. Elems(queue) = {Head(queue)} \cup Elems(queue') /\ Head(queue) \in Tasks
      BY <3>1, ElemsTail
    <3>3. Elems(passed') = {Head(queue)} \cup Elems(passed)
      <4> DEFINE u == <<Head(queue)>>
      <4>1. u \in Seq(Tasks) /\ Elems(u) = {Head(queue)}
        BY <3>2 DEF Elems
      <4> HIDE DEF u
      <4>2. Elems(u \o passed) = Elems(u) \cup Elems(passed)
        BY <4>1, ElemsConcat
      <4> QED  BY <3>1, <4>1, <4>2 DEF u
    <3> QED  BY <3>1, <3>2, <3>3 DEF webVars
  <2>5. CASE FillDone
    <3>1. /\ queue' = passed \o queue /\ passed' = <<>>
          /\ UNCHANGED <<webVars, belts, accumulator, hand>>
      BY <2>5 DEF FillDone
    <3>2. Elems(queue') = Elems(passed) \cup Elems(queue)
      BY <3>1, ElemsConcat
    <3> QED  BY <3>1, <3>2 DEF webVars
  <2>6. CASE FlushDone
    BY <2>6, <1>e DEF FlushDone, webVars
  <2>7. ASSUME NEW t \in Tasks, NEW o \in Faults, ReceiveTask(t, o)
        PROVE  TakenIsHeld'
    <3>1. UNCHANGED <<belts, accumulator, passed, hand>>
      BY <2>7 DEF ReceiveTask
    <3>2. CASE Duplicate(t)
      BY <2>7, <3>1, <3>2 DEF ReceiveTask, Duplicate, webVars
    <3>3. CASE ~Duplicate(t)
      <4>1. queue' = Append(queue, t) /\ webiface_delete_task(t, o)
        BY <2>7, <3>3 DEF ReceiveTask
      <4>2. Elems(queue') = Elems(queue) \cup {t}
        BY <4>1, ElemsAppend
      <4> QED  BY <3>1, <4>1, <4>2 DEF webiface_delete_task, Requested
    <3> QED  BY <3>2, <3>3
  <2>8. ASSUME NEW t \in Tasks, NEW o \in Faults, OverviewTask(t, o)
        PROVE  TakenIsHeld'
    <3>1. UNCHANGED <<queue, passed, hand>>
      BY <2>8 DEF OverviewTask
    <3>2. CASE status[t] = "FINISHED"
      <4>1. /\ belts' = belts \ {t} /\ UNCHANGED orphaned
            /\ web' = Requested(t, o, "done")
            /\ o = "ok" => UNCHANGED accumulator
            /\ o # "ok" => accumulator' = Append(accumulator, t)
        BY <2>8, <3>2 DEF OverviewTask, Interrupted, return_tested,
                          accumulate_solution, webiface_put_solution
      <4>3. CASE o = "ok"
        BY <3>1, <4>1, <4>3 DEF Requested
      <4>4. CASE o # "ok"
        <5>1. Elems(accumulator') = Elems(accumulator) \cup {t}
          BY <4>1, <4>4, ElemsAppend
        <5> QED  BY <3>1, <4>1, <5>1 DEF Requested
      <4> QED  BY <4>3, <4>4
    <3>3. CASE status[t] # "FINISHED" /\ Interrupted(t)
      <4>1. /\ webiface_restore_task(t, o) /\ belts' = belts \ {t}
            /\ UNCHANGED accumulator
        BY <2>8, <3>3 DEF OverviewTask, Interrupted
      <4> QED  BY <3>1, <4>1 DEF webiface_restore_task, Requested
    <3>4. CASE status[t] # "FINISHED" /\ ~Interrupted(t)
      BY <2>8, <3>1, <3>4 DEF OverviewTask, Interrupted, webVars
    <3> QED  BY <3>2, <3>3, <3>4
  <2>12. CASE FillLost \/ \E s \in Slots : FillPush(s)
    BY <2>12 DEF FillLost, FillPush, webVars, listVars
  <2>9. CASE FillStart
    <3>1. /\ queue # <<>> /\ hand' = Head(queue) /\ queue' = Tail(queue)
          /\ hand = NoTask /\ UNCHANGED <<webVars, belts, accumulator, passed>>
      BY <2>9 DEF FillStart, Filling, MainInv
    <3>2. Elems(queue) = {hand'} \cup Elems(queue') /\ hand' \in Tasks
      BY <3>1, ElemsTail
    <3> QED  BY <3>1, <3>2 DEF webVars
  <2>10. ASSUME NEW o \in Faults, FillDrop(o) PROVE TakenIsHeld'
    <3>1. /\ queue # <<>> /\ queue' = Tail(queue) /\ Drop(Head(queue), o)
          /\ UNCHANGED <<belts, accumulator, passed, hand>>
      BY <2>10 DEF FillDrop, Filling
    <3>2. Elems(queue) = {Head(queue)} \cup Elems(queue') /\ Head(queue) \in Tasks
      BY <3>1, ElemsTail
    <3> QED  BY <3>1, <3>2 DEF Drop, webiface_restore_task, Requested, webVars
  <2>11. ASSUME NEW o \in Faults, FlushTask(o) PROVE TakenIsHeld'
    <3> DEFINE t == Head(accumulator)
    <3>1. /\ accumulator # <<>> /\ accumulator' = Tail(accumulator)
          /\ web' = Requested(t, o, "done")
          /\ passed' = IF o = "ok" THEN passed ELSE Append(passed, t)
          /\ UNCHANGED <<orphaned, queue, belts, hand>>
      BY <2>11 DEF FlushTask, webiface_put_solution
    <3>2. /\ Elems(accumulator) = {t} \cup Elems(accumulator')
          /\ t \in Tasks
      BY <3>1, ElemsTail
    <3>3. CASE o = "ok"
      BY <3>1, <3>2, <3>3 DEF Requested
    <3>4. CASE o # "ok"
      <4>1. Elems(passed') = Elems(passed) \cup {t}
        BY <3>1, <3>2, <3>4, ElemsAppend
      <4> QED  BY <3>1, <3>2, <4>1 DEF Requested
    <3> QED  BY <3>3, <3>4
  <2> QED  BY <1>4, <2>1, <2>2, <2>3, <2>4, <2>5, <2>6, <2>7, <2>8, <2>9, <2>10,
              <2>11, <2>12 DEF MainNext
<1>5. CASE CoreNext
  <2>1. CASE MainloopStop \/ StopTesting \/ PoolFree \/ MainloopJoin
    BY <2>1 DEF MainloopStop, StopTesting, PoolFree, MainloopJoin, webVars,
                listVars, mainVars
  <2>2. CASE BeltsDone \/ Crash
    <3>1. Exit
      BY <2>2 DEF BeltsDone, Crash
    <3>2. orphaned' = orphaned \cup {t \in Held : web[t] = "taken"} /\ web' = web
      BY <3>1 DEF Exit
    <3>3. \A t \in Tasks : web'[t] = "taken" => t \in orphaned'
      BY <3>2
    <3> QED  BY <3>3
  <2>3. ASSUME NEW o \in Faults, QueueFree(o) PROVE TakenIsHeld'
    <3>1. /\ queue # <<>> /\ queue' = Tail(queue)
          /\ webiface_restore_task(Head(queue), o)
          /\ UNCHANGED <<belts, accumulator, passed, hand>>
      BY <2>3 DEF QueueFree, mainVars
    <3>2. Elems(queue) = {Head(queue)} \cup Elems(queue') /\ Head(queue) \in Tasks
      BY <3>1, ElemsTail
    <3> QED  BY <3>1, <3>2 DEF webiface_restore_task, Requested
  <2>4. ASSUME NEW t \in Tasks, NEW o \in Faults, BeltsFree(t, o)
        PROVE  TakenIsHeld'
    BY <2>4 DEF BeltsFree, webiface_restore_task, Requested, mainVars
  <2>5. ASSUME NEW o \in Faults, MainloopStart(o) PROVE TakenIsHeld'
    BY <2>5 DEF MainloopStart, webiface_reset_status, listVars
  <2> QED  BY <1>5, <2>1, <2>2, <2>3, <2>4, <2>5 DEF CoreNext
<1> QED  BY <1>1, <1>2, <1>3, <1>4, <1>5 DEF Next

\* A solution the web marks as taken is in one of the server's lists, or one
\* of the calls that can lose it did.
THEOREM TasksAreNotLost == Spec => []TakenIsHeld
<1>1. Init => TakenIsHeld
  BY DEF Init, WebInit, TakenIsHeld
<1>2. IndInv /\ TakenIsHeld /\ [Next]_vars => TakenIsHeld'
  BY TakenStepInv DEF IndInv
<1> QED  BY <1>1, <1>2, Inductive, PTL DEF Spec
-----------------------------------------------------------------------------
(* QueueSize and BeltsSize are never exceeded.                             *)

\* Capacity is inductive once the belts are known to be finite.
CapacityInv ==
  /\ IsFiniteSet(belts)
  /\ Cardinality(belts) + (IF hand = NoTask THEN 0 ELSE 1) =< BeltsSize
  /\ Len(Passed) + Len(queue) =< QueueSize

\* A step that takes tasks off the belts, or leaves them alone, keeps them
\* within their size.
LEMMA FewerBelts ==
  ASSUME CapacityInv, belts' \subseteq belts, hand' = hand,
         BeltsSize \in Nat
  PROVE  /\ IsFiniteSet(belts')
         /\ Cardinality(belts') + (IF hand' = NoTask THEN 0 ELSE 1) =< BeltsSize
<1>1. IsFiniteSet(belts) /\ Cardinality(belts) \in Nat
  BY FS_CardinalityType DEF CapacityInv
<1>2. /\ IsFiniteSet(belts') /\ Cardinality(belts') =< Cardinality(belts)
      /\ Cardinality(belts') \in Nat
  BY <1>1, FS_Subset, FS_CardinalityType
<1> QED  BY <1>1, <1>2 DEF CapacityInv

\* Every step keeps the lists within their sizes.
LEMMA CapacityStepInv ==
  ASSUME TypeOK, MainInv, CapacityInv, [Next]_vars
  PROVE  CapacityInv'
<1> USE BeltsAssumption DEF TypeOK
<1>q. Len(queue) \in Nat /\ Len(passed) \in Nat /\ Len(<<>>) = 0
  OBVIOUS
<1>c. IsFiniteSet(belts) /\ Cardinality(belts) \in Nat
  BY FS_CardinalityType DEF CapacityInv
<1>1. CASE (\E t \in Tasks : SubmitTask(t)) \/ IpcNext \/ UNCHANGED vars
  BY <1>1, OtherFrame DEF CapacityInv, Passed, listVars, mainVars
<1>2. CASE \E s \in Slots : ThreadNext(s)
  BY <1>2, ThreadFrame DEF CapacityInv, Passed, mainVars
<1>3. CASE MainNext
  <2>1. CASE QueueUpdate \/ ReceiveDone \/ BeltsUpdate \/ BeltsReset
    BY <2>1 DEF QueueUpdate, ReceiveDone, BeltsUpdate, BeltsReset, CapacityInv,
                Passed, listVars
  <2>2. CASE OverviewDone \/ MainloopExit \/ SchedulerOverview
    BY <2>2 DEF OverviewDone, SchedulerOverview, MainloopExit, CapacityInv,
                Passed, listVars, MainInv
  <2>3. CASE FillAppend
    <3>1. /\ belts' = belts \cup {hand} /\ hand # NoTask /\ hand' = NoTask
          /\ UNCHANGED <<queue, passed>> /\ pc = "append" /\ pc' = "fill"
      BY <2>3 DEF FillAppend, MainInv
    <3>2. IsFiniteSet(belts') /\ Cardinality(belts') =< Cardinality(belts) + 1
          /\ Cardinality(belts') \in Nat
      <4>1. /\ IsFiniteSet(belts \cup {hand})
            /\ \/ Cardinality(belts \cup {hand}) = Cardinality(belts)
               \/ Cardinality(belts \cup {hand}) = Cardinality(belts) + 1
        BY <1>c, FS_AddElement
      <4> QED  BY <3>1, <4>1, <1>c
    <3> QED  BY <3>1, <3>2, <1>c DEF CapacityInv, Passed
  <2>4. CASE FillKeep
    <3>1. /\ queue # <<>> /\ pc = "fill" /\ UNCHANGED <<belts, hand, pc>>
          /\ passed' = <<Head(queue)>> \o passed /\ queue' = Tail(queue)
      BY <2>4 DEF FillKeep, Filling, PutBack
    <3>2. Len(queue') = Len(queue) - 1 /\ Head(queue) \in Tasks
      BY <3>1
    <3>3. ASSUME NEW t \in Tasks PROVE Len(<<t>> \o passed) = Len(passed) + 1
      OBVIOUS
    <3> QED  BY <3>1, <3>2, <3>3, <1>q DEF CapacityInv, Passed
  <2>5. CASE FillDone
    <3>1. /\ pc = "fill" /\ pc' = "idle" /\ UNCHANGED <<belts, hand>>
          /\ passed' = <<>> /\ Len(queue') = Len(passed) + Len(queue)
      BY <2>5 DEF FillDone
    <3> QED  BY <3>1, <1>q DEF CapacityInv, Passed
  <2>6. CASE FlushDone
    BY <2>6, <1>q DEF FlushDone, CapacityInv, Passed
  <2>7. CASE \E got \in SUBSET Elems(queue) : QueueUnpack(got)
    BY <2>7 DEF QueueUnpack, CapacityInv, Passed, mainVars
  <2>8. ASSUME NEW t \in Tasks, NEW o \in Faults, ReceiveTask(t, o)
        PROVE  CapacityInv'
    <3>1. /\ UNCHANGED <<pc, passed, hand, belts>> /\ passed = <<>>
          /\ Len(queue) < QueueSize /\ (queue' = queue \/ queue' = Append(queue, t))
      BY <2>8 DEF ReceiveTask, Duplicate, QueueRoom, MainInv
    <3>2. Len(queue') =< Len(queue) + 1 /\ Len(queue') \in Nat
      BY <3>1, <1>q
    <3> QED  BY <3>1, <3>2, <1>q DEF CapacityInv, Passed
  <2>9. ASSUME NEW t \in Tasks, NEW o \in Faults, OverviewTask(t, o)
        PROVE  CapacityInv'
    <3>1. belts' \subseteq belts /\ UNCHANGED <<queue, pc, passed, hand>>
      BY <2>9 DEF OverviewTask, Interrupted, return_tested
    <3> QED  BY <3>1, FewerBelts DEF CapacityInv, Passed
  <2>13. CASE FillLost \/ \E s \in Slots : FillPush(s)
    BY <2>13 DEF FillLost, FillPush, CapacityInv, Passed, listVars
  <2>10. CASE FillStart
    <3>1. /\ queue # <<>> /\ queue' = Tail(queue) /\ UNCHANGED <<belts, passed>>
          /\ Cardinality(belts) < BeltsSize /\ pc = "fill" /\ pc' = "push"
      BY <2>10 DEF FillStart, Filling
    <3>2. Len(queue') = Len(queue) - 1
      BY <3>1
    <3>3. Cardinality(belts) + 1 =< BeltsSize
      BY <3>1, <1>c
    <3> QED  BY <3>1, <3>2, <3>3, <1>c, <1>q DEF CapacityInv, Passed
  <2>11. ASSUME NEW o \in Faults, FillDrop(o) PROVE CapacityInv'
    <3>1. /\ queue # <<>> /\ queue' = Tail(queue)
          /\ UNCHANGED <<belts, passed, hand, pc>>
      BY <2>11 DEF FillDrop, Filling, Drop
    <3>2. Len(queue') = Len(queue) - 1
      BY <3>1
    <3> QED  BY <3>1, <3>2, <1>q DEF CapacityInv, Passed
  <2>12. ASSUME NEW o \in Faults, FlushTask(o) PROVE CapacityInv'
    BY <2>12 DEF FlushTask, CapacityInv, Passed
  <2> QED  BY <1>3, <2>1, <2>2, <2>3, <2>4, <2>5, <2>6, <2>7, <2>8, <2>9, <2>10,
              <2>11, <2>12, <2>13 DEF MainNext
<1>4. CASE CoreNext
  <2>1. CASE MainloopStop \/ StopTesting \/ PoolFree \/ MainloopJoin
    BY <2>1 DEF MainloopStop, StopTesting, PoolFree, MainloopJoin, CapacityInv,
                Passed, listVars, mainVars
  <2>2. CASE BeltsDone \/ Crash
    <3>1. /\ belts' = {} /\ hand' = NoTask /\ queue' = <<>> /\ passed' = <<>>
      BY <2>2 DEF BeltsDone, Crash, Exit
    <3>2. IsFiniteSet({}) /\ Cardinality({}) = 0
      BY FS_EmptySet
    <3>3. Len(Passed') = 0 /\ Len(queue') = 0
      BY <3>1, <1>q DEF Passed
    <3> QED  BY <3>1, <3>2, <3>3 DEF CapacityInv
  <2>3. ASSUME NEW o \in Faults, QueueFree(o) PROVE CapacityInv'
    <3>1. /\ queue # <<>> /\ queue' = Tail(queue)
          /\ UNCHANGED <<belts, passed, hand, pc>>
      BY <2>3 DEF QueueFree, mainVars
    <3>2. Len(queue') = Len(queue) - 1
      BY <3>1
    <3> QED  BY <3>1, <3>2, <1>q DEF CapacityInv, Passed
  <2>4. ASSUME NEW o \in Faults, MainloopStart(o) PROVE CapacityInv'
    BY <2>4, <1>q DEF MainloopStart, CapacityInv, Passed, listVars, MainInv
  <2>5. ASSUME NEW t \in Tasks, NEW o \in Faults, BeltsFree(t, o)
        PROVE  CapacityInv'
    <3>1. belts' \subseteq belts /\ UNCHANGED <<queue, pc, passed, hand>>
      BY <2>5 DEF BeltsFree, mainVars
    <3> QED  BY <3>1, FewerBelts DEF CapacityInv, Passed
  <2> QED  BY <1>4, <2>1, <2>2, <2>3, <2>4, <2>5 DEF CoreNext
<1> QED  BY <1>1, <1>2, <1>3, <1>4 DEF Next

\* wt_queue_full and wt_belts_full are checked early enough for the queue and
\* the belts to stay within their sizes, a started task in the main loop's
\* hand and the tasks a full pool pushed back included.
THEOREM SizesAreKept == Spec => []Capacity
<1>1. Init => CapacityInv
  BY BeltsAssumption, FS_EmptySet DEF Init, CapacityInv, Passed
<1>2. IndInv /\ CapacityInv /\ [Next]_vars => CapacityInv'
  BY CapacityStepInv DEF IndInv
<1>3. IndInv /\ CapacityInv => Capacity
  <2> SUFFICES ASSUME IndInv, CapacityInv PROVE Capacity
    OBVIOUS
  <2>1. queue \in Seq(Tasks) /\ passed \in Seq(Tasks)
    BY DEF IndInv, TypeOK
  <2>2. Len(Waiting) = Len(Passed) + Len(queue)
    BY <2>1 DEF Waiting, Passed
  <2> QED  BY <2>2 DEF Capacity, CapacityInv
<1> QED  BY <1>1, <1>2, <1>3, Inductive, PTL DEF Spec
-----------------------------------------------------------------------------
(* A task exists once, and a result that was delivered stays delivered.    *)

\* The tasks that wait, are started or are tested, and those whose result is
\* waiting for the web.
Live == Elems(queue) \cup Elems(Passed) \cup belts \cup ({hand} \ {NoTask})
Unsent == Elems(accumulator) \cup (IF pc = "flush" THEN Elems(passed) ELSE {})

\* What the main loop has in its hands is not outdated: the list it receives,
\* and the tasks it overviews.  A process that has ended holds nothing.
FreshInv ==
  /\ pc = "list" => \A t \in todo : web[t] = "new"
  /\ pc = "overview" => todo \subseteq belts
  /\ core = "down" => /\ queue = <<>> /\ belts = {} /\ hand = NoTask
                      /\ accumulator = <<>> /\ passed = <<>>

\* A task whose delete_task arrived is not listed as new as long as the server
\* has it: while it is live it is taken, while its result waits it is taken or
\* done and there is no other copy of it.
CopyInv ==
  \A t \in Tasks \ undeleted :
    /\ t \in Live => web[t] = "taken"
    /\ t \in Unsent => web[t] \in {"taken", "done"} /\ t \notin Live

\* The life of the copies of a task, one step of it with one request: it is
\* received, given back, returned, or kept and returned later.
Receives(t, o) == /\ web[t] = "new" /\ webiface_delete_task(t, o)
                  /\ Live' = Live \cup {t} /\ Unsent' = Unsent
Restores(t, o) == /\ t \in Live /\ webiface_restore_task(t, o)
                  /\ Live' = Live \ {t} /\ Unsent' = Unsent
Returns(t, o) == /\ t \in Live /\ webiface_put_solution(t, o)
                 /\ Live' = Live \ {t} /\ Unsent' \subseteq Unsent \cup {t}
ReturnsLater(t, o) == /\ t \in Unsent /\ webiface_put_solution(t, o)
                      /\ Live' = Live /\ Unsent' \subseteq Unsent
Restarts(o) == /\ webiface_reset_status(o)
               /\ Live = {} /\ Unsent = {} /\ Live' = {} /\ Unsent' = {}
Keeps == /\ Live' \subseteq Live /\ Unsent' \subseteq Unsent
         /\ UNCHANGED <<web, undeleted>>

CopyStep ==
  \/ Keeps
  \/ \E o \in Faults : Restarts(o)
  \/ \E t \in Tasks : Submit(t) /\ UNCHANGED <<Live, Unsent>>
  \/ \E t \in Tasks, o \in Faults :
       Receives(t, o) \/ Restores(t, o) \/ Returns(t, o) \/ ReturnsLater(t, o)

\* Every step of the server is a step in the life of at most one task.
LEMMA CopySteps ==
  ASSUME TypeOK, MainInv, QueueInv, FreshInv, [Next]_vars
  PROVE  CopyStep
<1> USE BeltsAssumption DEF TypeOK
<1>e. Elems(<<>>) = {}
  BY ElemsEmpty
<1>1. CASE IpcNext \/ UNCHANGED vars
  <2>1. UNCHANGED <<web, undeleted, queue, belts, accumulator, pc, passed, hand>>
    BY <1>1 DEF IpcNext, ipc_queue, ipc_belts, vars, webVars, listVars, mainVars
  <2> QED  BY <2>1 DEF CopyStep, Keeps, Live, Unsent, Passed
<1>2. ASSUME NEW t \in Tasks, SubmitTask(t) PROVE CopyStep
  <2>1. Submit(t) /\ UNCHANGED <<queue, belts, accumulator, pc, passed, hand>>
    BY <1>2 DEF SubmitTask, listVars, mainVars
  <2>2. UNCHANGED <<Live, Unsent>>
    BY <2>1 DEF Live, Unsent, Passed
  <2> QED  BY <2>1, <2>2 DEF CopyStep
<1>3. CASE \E s \in Slots : ThreadNext(s)
  <2>1. UNCHANGED <<web, undeleted, queue, belts, accumulator, pc, passed, hand>>
    BY <1>3, ThreadFrame DEF webVars, mainVars
  <2> QED  BY <2>1 DEF CopyStep, Keeps, Live, Unsent, Passed
<1>4. CASE MainNext
  <2>1. CASE \/ QueueUpdate \/ ReceiveDone \/ BeltsUpdate \/ BeltsReset
             \/ OverviewDone \/ MainloopExit
             \/ (\E got \in SUBSET Elems(queue) : QueueUnpack(got))
    <3>1. /\ UNCHANGED <<web, undeleted, queue, belts, accumulator, passed, hand>>
          /\ pc # "flush" /\ pc' # "flush"
      BY <2>1 DEF QueueUpdate, ReceiveDone, BeltsUpdate, BeltsReset, QueueUnpack,
         OverviewDone, MainloopExit, listVars, webVars, mainVars
    <3> QED  BY <3>1 DEF CopyStep, Keeps, Live, Unsent, Passed
  <2>2. CASE SchedulerOverview
    <3>1. /\ UNCHANGED <<web, undeleted, queue, belts, accumulator, passed, hand>>
          /\ pc # "flush" /\ pc' = "flush" /\ passed = <<>>
      BY <2>2 DEF SchedulerOverview, MainInv, listVars, webVars
    <3> QED  BY <1>e, <3>1 DEF CopyStep, Keeps, Live, Unsent, Passed
  <2>3. CASE FillAppend
    <3>1. /\ UNCHANGED <<web, undeleted, queue, accumulator, passed>>
          /\ belts' = belts \cup {hand} /\ hand' = NoTask /\ hand # NoTask
          /\ pc # "flush" /\ pc' # "flush"
      BY <2>3 DEF FillAppend, MainInv, webVars
    <3> QED  BY <3>1 DEF CopyStep, Keeps, Live, Unsent, Passed
  <2>4. CASE FillKeep
    <3>1. /\ queue # <<>> /\ passed' = <<Head(queue)>> \o passed
          /\ queue' = Tail(queue) /\ pc # "flush" /\ pc' # "flush"
          /\ UNCHANGED <<web, undeleted, belts, accumulator, hand>>
      BY <2>4 DEF FillKeep, Filling, PutBack, webVars
    <3>2. Elems(queue) = {Head(queue)} \cup Elems(queue') /\ Head(queue) \in Tasks
      BY <3>1, ElemsTail
    <3>3. Elems(passed') = {Head(queue)} \cup Elems(passed)
      BY <3>1, <3>2, PushHead DEF QueueInv, Passed
    <3> QED  BY <3>1, <3>2, <3>3 DEF CopyStep, Keeps, Live, Unsent, Passed
  <2>5. CASE FillDone
    <3>1. /\ queue' = passed \o queue /\ passed' = <<>>
          /\ pc # "flush" /\ pc' # "flush"
          /\ UNCHANGED <<web, undeleted, belts, accumulator, hand>>
      BY <2>5 DEF FillDone, webVars
    <3>2. Elems(queue') = Elems(passed) \cup Elems(queue)
      BY <3>1, ElemsConcat
    <3> QED  BY <1>e, <3>1, <3>2 DEF CopyStep, Keeps, Live, Unsent, Passed
  <2>6. CASE FlushDone
    <3>1. /\ accumulator = <<>> /\ accumulator' = passed /\ passed' = <<>>
          /\ pc = "flush" /\ pc' = "idle"
          /\ UNCHANGED <<web, undeleted, queue, belts, hand>>
      BY <2>6 DEF FlushDone, webVars
    <3> QED  BY <1>e, <3>1 DEF CopyStep, Keeps, Live, Unsent, Passed
  <2>7. ASSUME NEW t \in Tasks, NEW o \in Faults, ReceiveTask(t, o)
        PROVE  CopyStep
    <3>1. /\ UNCHANGED <<belts, accumulator, passed, hand, pc>> /\ pc = "list"
          /\ web[t] = "new"
      BY <2>7 DEF ReceiveTask, FreshInv
    <3>2. CASE Duplicate(t)
      <4>1. UNCHANGED <<web, undeleted, queue>>
        BY <2>7, <3>2 DEF ReceiveTask, webVars
      <4> QED  BY <3>1, <4>1 DEF CopyStep, Keeps, Live, Unsent, Passed
    <3>3. CASE ~Duplicate(t)
      <4>1. queue' = Append(queue, t) /\ webiface_delete_task(t, o)
        BY <2>7, <3>3 DEF ReceiveTask
      <4>2. Elems(queue') = Elems(queue) \cup {t}
        BY <4>1, ElemsAppend
      <4>3. Live' = Live \cup {t} /\ Unsent' = Unsent
        BY <3>1, <4>2 DEF Live, Unsent, Passed
      <4> QED  BY <3>1, <4>1, <4>3 DEF CopyStep, Receives
    <3> QED  BY <3>2, <3>3
  <2>8. ASSUME NEW t \in Tasks, NEW o \in Faults, OverviewTask(t, o)
        PROVE  CopyStep
    <3>1. UNCHANGED <<queue, passed, hand, pc>> /\ pc = "overview" /\ t \in belts
      BY <2>8 DEF OverviewTask, FreshInv
    <3>2. t \notin Elems(queue) \cup Elems(Passed) /\ t # hand
      BY <3>1 DEF QueueInv, MainInv
    <3>3. belts' = belts \ {t} => t \in Live /\ Live' = Live \ {t}
      BY <3>1, <3>2 DEF Live, Passed
    <3>4. CASE status[t] = "FINISHED"
      <4>1. /\ belts' = belts \ {t} /\ webiface_put_solution(t, o)
            /\ o = "ok" => UNCHANGED accumulator
            /\ o # "ok" => accumulator' = Append(accumulator, t)
        BY <2>8, <3>4 DEF OverviewTask, Interrupted, return_tested,
                          accumulate_solution
      <4>2. Elems(accumulator') \subseteq Elems(accumulator) \cup {t}
        <5>1. CASE o = "ok"
          BY <4>1, <5>1
        <5>2. CASE o # "ok"
          <6>1. Elems(Append(accumulator, t)) = Elems(accumulator) \cup {t}
            BY ElemsAppend
          <6> QED  BY <4>1, <5>2, <6>1
        <5> QED  BY <5>1, <5>2
      <4>3. Unsent' \subseteq Unsent \cup {t}
        BY <3>1, <4>2 DEF Unsent
      <4> QED  BY <3>3, <4>1, <4>3 DEF CopyStep, Returns
    <3>5. CASE status[t] # "FINISHED" /\ Interrupted(t)
      <4>1. /\ webiface_restore_task(t, o) /\ belts' = belts \ {t}
            /\ UNCHANGED accumulator
        BY <2>8, <3>5 DEF OverviewTask, Interrupted
      <4>2. Unsent' = Unsent
        BY <3>1, <4>1 DEF Unsent
      <4> QED  BY <3>3, <4>1, <4>2 DEF CopyStep, Restores
    <3>6. CASE status[t] # "FINISHED" /\ ~Interrupted(t)
      <4>1. UNCHANGED <<web, undeleted, belts, accumulator>>
        BY <2>8, <3>6 DEF OverviewTask, Interrupted, webVars
      <4> QED  BY <3>1, <4>1 DEF CopyStep, Keeps, Live, Unsent, Passed
    <3> QED  BY <3>4, <3>5, <3>6
  <2>9. CASE FillLost \/ \E s \in Slots : FillPush(s)
    <3>1. /\ UNCHANGED <<web, undeleted, queue, belts, accumulator, passed, hand>>
          /\ pc # "flush" /\ pc' # "flush"
      BY <2>9 DEF FillLost, FillPush, webVars, listVars
    <3> QED  BY <3>1 DEF CopyStep, Keeps, Live, Unsent, Passed
  <2>10. CASE FillStart
    <3>1. /\ queue # <<>> /\ hand' = Head(queue) /\ queue' = Tail(queue)
          /\ hand = NoTask /\ pc # "flush" /\ pc' # "flush"
          /\ UNCHANGED <<web, undeleted, belts, accumulator, passed>>
      BY <2>10 DEF FillStart, Filling, MainInv, webVars
    <3>2. Elems(queue) = {hand'} \cup Elems(queue') /\ hand' \in Tasks
      BY <3>1, ElemsTail
    <3> QED  BY <3>1, <3>2 DEF CopyStep, Keeps, Live, Unsent, Passed
  <2>11. ASSUME NEW o \in Faults, FillDrop(o) PROVE CopyStep
    <3> DEFINE t == Head(queue)
    <3>1. /\ queue # <<>> /\ queue' = Tail(queue) /\ Drop(t, o) /\ pc = "fill"
          /\ UNCHANGED <<belts, accumulator, passed, hand>>
      BY <2>11 DEF FillDrop, Filling
    <3>2. /\ Elems(queue) = {t} \cup Elems(queue') /\ t \in Tasks
          /\ t \in Elems(queue) /\ t \notin Elems(queue')
      BY <3>1, ElemsTail, DistinctTail DEF QueueInv
    <3>3. t \notin belts /\ t # hand /\ t \notin Elems(Passed)
      BY <3>2 DEF QueueInv
    <3>4. webiface_restore_task(t, o) /\ UNCHANGED pc
      BY <3>1, <3>3 DEF Drop
    <3> HIDE DEF t
    <3>5. t \in Live /\ Live' = Live \ {t} /\ Unsent' = Unsent
      BY <3>1, <3>2, <3>3, <3>4 DEF Live, Unsent, Passed
    <3> QED  BY <3>2, <3>4, <3>5 DEF CopyStep, Restores
  <2>12. ASSUME NEW o \in Faults, FlushTask(o) PROVE CopyStep
    <3> DEFINE t == Head(accumulator)
    <3>1. /\ accumulator # <<>> /\ accumulator' = Tail(accumulator)
          /\ webiface_put_solution(t, o) /\ pc = "flush" /\ pc' = "flush"
          /\ passed' = IF o = "ok" THEN passed ELSE Append(passed, t)
          /\ UNCHANGED <<queue, belts, hand>>
      BY <2>12 DEF FlushTask
    <3>2. /\ Elems(accumulator) = {t} \cup Elems(accumulator')
          /\ t \in Tasks
      BY <3>1, ElemsTail
    <3>3. Elems(passed') \subseteq Elems(passed) \cup {t}
      BY <3>1, <3>2, ElemsAppend
    <3> HIDE DEF t
    <3>4. t \in Unsent /\ Unsent' \subseteq Unsent /\ Live' = Live
      BY <3>1, <3>2, <3>3 DEF Live, Unsent, Passed
    <3> QED  BY <3>1, <3>2, <3>4 DEF CopyStep, ReturnsLater
  <2> QED  BY <1>4, <2>1, <2>2, <2>3, <2>4, <2>5, <2>6, <2>7, <2>8, <2>9, <2>10,
              <2>11, <2>12 DEF MainNext
<1>5. CASE CoreNext
  <2>1. CASE MainloopStop \/ StopTesting \/ PoolFree \/ MainloopJoin
    <3>1. UNCHANGED <<web, undeleted, queue, belts, accumulator, pc, passed, hand>>
      BY <2>1 DEF MainloopStop, StopTesting, PoolFree, MainloopJoin, webVars,
                  listVars, mainVars
    <3> QED  BY <3>1 DEF CopyStep, Keeps, Live, Unsent, Passed
  <2>2. CASE BeltsDone \/ Crash
    <3>1. Exit
      BY <2>2 DEF BeltsDone, Crash
    <3>2. Live' = {} /\ Unsent' = {}
      BY <3>1, <1>e DEF Exit, Live, Unsent, Passed
    <3> QED  BY <3>1, <3>2 DEF Exit, CopyStep, Keeps
  <2>3. ASSUME NEW o \in Faults, QueueFree(o) PROVE CopyStep
    <3> DEFINE t == Head(queue)
    <3>1. /\ queue # <<>> /\ queue' = Tail(queue) /\ webiface_restore_task(t, o)
          /\ UNCHANGED <<belts, accumulator, passed, hand, pc>>
      BY <2>3 DEF QueueFree, mainVars
    <3>2. /\ Elems(queue) = {t} \cup Elems(queue') /\ t \in Tasks
          /\ t \in Elems(queue) /\ t \notin Elems(queue')
      BY <3>1, ElemsTail, DistinctTail DEF QueueInv
    <3>3. t \notin belts /\ t # hand /\ t \notin Elems(Passed)
      BY <3>2 DEF QueueInv
    <3> HIDE DEF t
    <3>4. t \in Live /\ Live' = Live \ {t} /\ Unsent' = Unsent
      BY <3>1, <3>2, <3>3 DEF Live, Unsent, Passed
    <3> QED  BY <3>1, <3>2, <3>4 DEF CopyStep, Restores
  <2>4. ASSUME NEW t \in Tasks, NEW o \in Faults, BeltsFree(t, o) PROVE CopyStep
    <3>1. /\ t \in belts /\ belts' = belts \ {t} /\ webiface_restore_task(t, o)
          /\ UNCHANGED <<queue, accumulator, passed, hand, pc>>
      BY <2>4 DEF BeltsFree, mainVars
    <3>2. t \notin Elems(queue) \cup Elems(Passed) /\ t # hand
      BY <3>1 DEF QueueInv, MainInv
    <3>3. t \in Live /\ Live' = Live \ {t} /\ Unsent' = Unsent
      BY <3>1, <3>2 DEF Live, Unsent, Passed
    <3> QED  BY <3>1, <3>3 DEF CopyStep, Restores
  <2>5. ASSUME NEW o \in Faults, MainloopStart(o) PROVE CopyStep
    <3>1. /\ webiface_reset_status(o) /\ core = "down"
          /\ UNCHANGED <<queue, belts, accumulator, passed, hand>>
      BY <2>5 DEF MainloopStart, listVars
    <3>2. Live = {} /\ Unsent = {} /\ Live' = {} /\ Unsent' = {}
      BY <1>e, <3>1 DEF FreshInv, Live, Unsent, Passed
    <3> QED  BY <3>1, <3>2 DEF CopyStep, Restarts
  <2> QED  BY <1>5, <2>1, <2>2, <2>3, <2>4, <2>5 DEF CoreNext
<1> QED  BY <1>1, <1>2, <1>3, <1>4, <1>5 DEF Next

\* Such a step leaves no second copy of a task, ...
LEMMA CopyKept ==
  ASSUME TypeOK, CopyInv, CopyStep
  PROVE  CopyInv'
<1> USE BeltsAssumption DEF TypeOK, CopyInv
<1>1. CASE Keeps
  BY <1>1 DEF Keeps
<1>2. ASSUME NEW o \in Faults, Restarts(o) PROVE CopyInv'
  BY <1>2 DEF Restarts
<1>3. ASSUME NEW t \in Tasks, Submit(t), UNCHANGED <<Live, Unsent>> PROVE CopyInv'
  BY <1>3 DEF Submit
<1>4. ASSUME NEW t \in Tasks, NEW o \in Faults, Receives(t, o) PROVE CopyInv'
  BY <1>4 DEF Receives, webiface_delete_task, Requested
<1>5. ASSUME NEW t \in Tasks, NEW o \in Faults, Restores(t, o) PROVE CopyInv'
  BY <1>5 DEF Restores, webiface_restore_task, Requested
<1>6. ASSUME NEW t \in Tasks, NEW o \in Faults, Returns(t, o) PROVE CopyInv'
  BY <1>6 DEF Returns, webiface_put_solution, Requested
<1>7. ASSUME NEW t \in Tasks, NEW o \in Faults, ReturnsLater(t, o) PROVE CopyInv'
  BY <1>7 DEF ReturnsLater, webiface_put_solution, Requested
<1> QED  BY <1>1, <1>2, <1>3, <1>4, <1>5, <1>6, <1>7 DEF CopyStep

\* ... and takes nothing back that was delivered: DoneStays for one step.
DoneKept == \A t \in Tasks \ undeleted' : web[t] = "done" => web'[t] = "done"

\* No request of such a step reopens a solution.
LEMMA CopyKeepsDone ==
  ASSUME TypeOK, CopyInv, CopyStep
  PROVE  DoneKept
BY DEF TypeOK, CopyInv, CopyStep, DoneKept, Keeps, Restarts, Submit, Receives, Restores,
       Returns, ReturnsLater, webiface_delete_task, webiface_restore_task,
       webiface_put_solution, webiface_reset_status, Requested

\* The web's answers stay true while the main loop works on them: nobody else
\* sends requests.
LEMMA FreshStepInv ==
  ASSUME TypeOK, MainInv, FreshInv, [Next]_vars
  PROVE  FreshInv'
<1> USE BeltsAssumption DEF TypeOK, FreshInv
<1>1. CASE IpcNext \/ UNCHANGED vars
  BY <1>1 DEF IpcNext, ipc_queue, ipc_belts, vars, webVars, listVars, mainVars
<1>2. ASSUME NEW t \in Tasks, SubmitTask(t) PROVE FreshInv'
  BY <1>2 DEF SubmitTask, Submit, listVars, mainVars
<1>3. CASE \E s \in Slots : ThreadNext(s)
  BY <1>3, ThreadFrame DEF webVars, mainVars
<1>4. CASE MainNext
  <2>0. core # "down" /\ core' = core
    <3>1. core = "down" => pc = "exited"
      BY DEF MainInv
    <3>2. pc # "exited"
      BY <1>4 DEF MainNext, QueueUpdate, ReceiveDone, BeltsUpdate, BeltsReset,
         OverviewDone, FillStart, FillLost, FillAppend, FillKeep, FillDone,
         SchedulerOverview, FlushDone, MainloopExit, QueueUnpack, ReceiveTask,
         OverviewTask, FillPush, FillDrop, FlushTask, Filling
    <3> QED  BY <1>4, <3>1, <3>2, MainFrame
  <2>1. CASE QueueUpdate
    BY <2>0, <2>1 DEF QueueUpdate, NewTasks, webVars
  <2>2. CASE BeltsReset
    BY <2>0, <2>2 DEF BeltsReset, listVars
  <2>3. ASSUME NEW t \in Tasks, NEW o \in Faults, ReceiveTask(t, o)
        PROVE  FreshInv'
    BY <2>0, <2>3 DEF ReceiveTask, webVars, webiface_delete_task, Requested
  <2>4. ASSUME NEW t \in Tasks, NEW o \in Faults, OverviewTask(t, o)
        PROVE  FreshInv'
    BY <2>0, <2>4 DEF OverviewTask, Interrupted, return_tested
  <2>5. CASE \E got \in SUBSET Elems(queue) : QueueUnpack(got)
    BY <2>0, <2>5 DEF QueueUnpack, mainVars
  <2>6. CASE \/ ReceiveDone \/ BeltsUpdate \/ OverviewDone \/ FillStart
             \/ FillLost \/ FillAppend \/ FillKeep \/ FillDone
             \/ SchedulerOverview \/ FlushDone \/ MainloopExit
             \/ (\E s \in Slots : FillPush(s))
             \/ (\E o \in Faults : FillDrop(o) \/ FlushTask(o))
    <3>1. pc' \notin {"list", "overview"}
      BY <2>6 DEF ReceiveDone, BeltsUpdate, OverviewDone, FillStart, FillLost,
         FillAppend, FillKeep, FillDone, SchedulerOverview, FlushDone,
         MainloopExit, FillPush, FillDrop, FlushTask, Filling, Drop
    <3> QED  BY <2>0, <3>1
  <2> QED  BY <1>4, <2>1, <2>2, <2>3, <2>4, <2>5, <2>6 DEF MainNext
<1>5. CASE CoreNext
  <2>1. CASE MainloopStop \/ StopTesting \/ PoolFree \/ MainloopJoin
    BY <2>1 DEF MainloopStop, StopTesting, PoolFree, MainloopJoin, webVars,
                listVars, mainVars
  <2>2. CASE BeltsDone \/ Crash
    BY <2>2 DEF BeltsDone, Crash, Exit
  <2>3. ASSUME NEW o \in Faults, QueueFree(o) PROVE FreshInv'
    BY <2>3 DEF QueueFree, mainVars, MainInv
  <2>4. ASSUME NEW t \in Tasks, NEW o \in Faults, BeltsFree(t, o) PROVE FreshInv'
    BY <2>4 DEF BeltsFree, mainVars, MainInv
  <2>5. ASSUME NEW o \in Faults, MainloopStart(o) PROVE FreshInv'
    BY <2>5 DEF MainloopStart
  <2> QED  BY <1>5, <2>1, <2>2, <2>3, <2>4, <2>5 DEF CoreNext
<1> QED  BY <1>1, <1>2, <1>3, <1>4, <1>5 DEF Next

\* Both parts hold in every state.
LEMMA CopiesInv == Spec => [](FreshInv /\ CopyInv)
<1>1. Init => FreshInv /\ CopyInv
  BY ElemsEmpty DEF Init, WebInit, FreshInv, CopyInv, Live, Unsent, Passed
<1>2. IndInv /\ FreshInv /\ CopyInv /\ [Next]_vars => FreshInv' /\ CopyInv'
  BY CopySteps, CopyKept, FreshStepInv DEF IndInv
<1> QED  BY <1>1, <1>2, Inductive, PTL DEF Spec

\* A task whose delete_task arrived is never tested again while its result
\* waits in the accumulator for the web to take it.
THEOREM NoSecondCopy == Spec => []OneCopy
<1>1. TypeOK /\ CopyInv => OneCopy
  <2> SUFFICES ASSUME TypeOK, CopyInv, NEW t \in Elems(accumulator) \ undeleted
               PROVE  t \notin Elems(queue) \cup belts \cup {hand}
    BY DEF OneCopy
  <2>1. t \in Tasks
    BY ElemsType DEF TypeOK
  <2>2. t \notin Live
    BY <2>1 DEF CopyInv, Unsent
  <2> QED  BY <2>1, <2>2, BeltsAssumption DEF Live
<1> QED  BY <1>1, CopiesInv, Inductive, PTL DEF IndInv

\* Whatever is lost, repeated or interrupted, a solution whose result the web
\* has got does not become a new one again: wt_restore_task and reset_status
\* are never sent for it.
THEOREM ResultsAreFinal == Spec => DoneStays
<1>1. IndInv /\ FreshInv /\ CopyInv /\ [Next]_vars => [DoneKept]_vars
  BY CopySteps, CopyKeepsDone DEF IndInv
<1>2. Spec => [][DoneKept]_vars
  BY <1>1, CopiesInv, Inductive, PTL DEF Spec
<1> QED  BY <1>2 DEF DoneStays, DoneKept
=============================================================================
