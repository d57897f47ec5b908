------------------------------- MODULE Belts --------------------------------
(***************************************************************************)
(* The testing pipeline of the server: the queue of received tasks, the    *)
(* belts of tasks being tested, the accumulator of results the web did not *)
(* take, the main loop that moves tasks between them, and the threads of   *)
(* the testing module's pool (webtester/{queue,belts,task,mainloop}.c).    *)
(*                                                                         *)
(* Three kinds of threads run concurrently: the main loop (all operations  *)
(* on queue, belts and accumulator), the testing threads (they write the   *)
(* status of their task and raise global_state_changed), and the thread    *)
(* that shuts the server down.  A step of the main loop is the work on     *)
(* one task of a list, HTTP requests included.                             *)
(*                                                                         *)
(* A task is handed to the testing module in two steps: the module looks   *)
(* whether it is active and has a free thread, and pushes the task.  The   *)
(* shutdown or an upload of a problem may replace the pool in between, and *)
(* a pool that is being freed takes nothing, but says nothing either.  How *)
(* pools are replaced is the subject of TestingPool.                       *)
(***************************************************************************)
EXTENDS WebInterface, Naturals, Sequences, FiniteSets

CONSTANTS Known,        \* tasks whose library id names a loaded module
          Slots,        \* threads of the testing pool (MaxThreads)
          QueueSize,    \* Server/MainLoop/QueueSize
          BeltsSize,    \* Server/MainLoop/BeltsSize
          UnpackCount,  \* Server/MainLoop/UnpackCount
          Autostart,    \* Queue/Autostart and Belts/Autostart
          NoTask,       \* a null task pointer
          Faults,       \* bound: the outcomes a request may have
          Crashes,      \* bound: may the server process be killed?
          Operator,     \* bound: does somebody use the IPC commands?
          Uploads,      \* bound: do uploads of problems replace the pool?
          MaxResults,   \* bound: length of the accumulator
          MaxItems      \* bound: scheduler items counted up to this number

ASSUME BeltsAssumption ==
  /\ Known \subseteq Tasks
  /\ NoTask \notin Tasks
  /\ QueueSize \in Nat \ {0}
  /\ BeltsSize \in Nat \ {0}
  /\ UnpackCount \in Nat \ {0}
  /\ Autostart \in BOOLEAN
  /\ "ok" \in Faults /\ Faults \subseteq Outcome
  /\ Crashes \in BOOLEAN /\ Operator \in BOOLEAN /\ Uploads \in BOOLEAN
  /\ MaxResults \in Nat
  /\ MaxItems \in Nat \ {0}

VARIABLES
  queue,                \* wt_queue: tasks waiting, head first
  belts,                \* tasks handed to the testing module
  accumulator,          \* tested tasks the web did not take; <<>> is NULL
  accItems,             \* items of accumulator_overview_proc in the scheduler
  status, unpacked,     \* per task object: TS_* and TF_UNPACKED
  global_state_changed,
  queueActive, beltsActive
VARIABLES               \* the main loop thread
  pc,                   \* where it is
  todo,                 \* nodes of the list it has yet to visit
  passed,               \* nodes it has visited and left in the list
  hand                  \* the task being started, not yet appended to belts
VARIABLES               \* the testing pool
  job, at,              \* of each thread: its task and where it is
  lost                  \* ghost: tasks pushed to a pool that took nothing
VARIABLE core           \* progress of the thread that starts and stops us

listVars == <<queue, belts, accumulator, accItems, status, unpacked>>
mainVars == <<pc, todo, passed, hand>>
poolVars == <<job, at, lost>>
flagVars == <<global_state_changed, queueActive, beltsActive>>
vars == <<webVars, listVars, mainVars, poolVars, flagVars, core>>

TaskStatus == {"PENDING", "RUNNING", "FINISHED", "INTERRUPTED"}
MainPC == {"idle", "list", "reset", "overview", "fill", "push", "append",
           "flush", "exited"}
ThreadPC == {"none", "pushed", "running", "result", "raise", "cleanup"}
CorePC == {"up", "stop", "wait", "join", "free", "down"}

Elems(s) == {s[i] : i \in DOMAIN s}

\* Every task object of the server.
Held == Elems(queue) \cup Elems(passed) \cup belts \cup Elems(accumulator)
        \cup ({hand} \ {NoTask})

\* The mutex `active` of the testing module is locked.
TestingActive == core \in {"up", "stop"}

\* mutex_trylock (active) fails: the module is active, or a testing thread
\* that found it stopped has not unlocked the mutex yet.
SeemsActive == TestingActive \/ \E s \in Slots : at[s] = "running"

Idle(s) == at[s] = "none"

Init ==
  /\ WebInit
  /\ queue = <<>> /\ belts = {} /\ accumulator = <<>> /\ accItems = 0
  /\ status = [t \in Tasks |-> "PENDING"] /\ unpacked = {}
  /\ global_state_changed = FALSE
  /\ queueActive = FALSE /\ beltsActive = FALSE
  /\ pc = "exited" /\ todo = {} /\ passed = <<>> /\ hand = NoTask
  /\ job = [s \in Slots |-> NoTask] /\ at = [s \in Slots |-> "none"]
  /\ lost = {} /\ core = "down"
-----------------------------------------------------------------------------
(* wt_queue_update and webiface_get_task_list.  The reply lists the new    *)
(* tasks in an order the web chooses.                                      *)

\* Mutant of QueueRoom: off by one.
QueueRoomForOneMore == Len(queue) =< QueueSize

\* wt_queue_full, negated.
QueueRoom == Len(queue) < QueueSize

\* Mutant of Duplicate: the belts are not searched.
DuplicateInQueue(t) == t \in Elems(queue)

\* wt_task_in_queue and wt_task_in_belts.
Duplicate(t) == t \in Elems(queue) \cup belts

QueueUpdate ==
  /\ pc = "idle" /\ queueActive
  /\ QueueRoom
  /\ pc' = "list" /\ todo' = NewTasks
  /\ UNCHANGED <<webVars, listVars, passed, hand, poolVars, flagVars, core>>

ReceiveTask(t, o) ==
  /\ pc = "list" /\ t \in todo
  /\ QueueRoom
  /\ todo' = todo \ {t}
  /\ IF Duplicate(t)
       THEN UNCHANGED <<webVars, queue, status, unpacked>>
       ELSE /\ queue' = Append(queue, t)
            /\ status' = [status EXCEPT ![t] = "PENDING"]
            /\ unpacked' = unpacked \ {t}
            /\ webiface_delete_task(t, o)
  /\ UNCHANGED <<belts, accumulator, accItems, pc, passed, hand, poolVars,
                 flagVars, core>>

ReceiveDone ==
  /\ pc = "list"
  /\ todo = {} \/ ~QueueRoom
  /\ pc' = "idle" /\ todo' = {}
  /\ UNCHANGED <<webVars, listVars, passed, hand, poolVars, flagVars, core>>

\* The tasks wt_queue_unpack asks for: the first UnpackCount without
\* parameters.
ToUnpack ==
  {queue[i] : i \in {k \in DOMAIN queue :
     /\ queue[k] \notin unpacked
     /\ Cardinality({j \in 1..k : queue[j] \notin unpacked}) =< UnpackCount}}

\* Some of the get_task requests succeed.
QueueUnpack(got) ==
  /\ pc = "idle"
  /\ got # {} /\ got \subseteq ToUnpack
  /\ unpacked' = unpacked \cup got
  /\ UNCHANGED <<webVars, queue, belts, accumulator, accItems, status,
                 mainVars, poolVars, flagVars, core>>
-----------------------------------------------------------------------------
(* wt_belts_update.                                                        *)

BeltsRoom == queue # <<>> /\ Cardinality(belts) < BeltsSize

BeltsUpdate ==
  /\ pc = "idle" /\ beltsActive
  /\ global_state_changed \/ BeltsRoom
  /\ pc' = "reset"
  /\ UNCHANGED <<webVars, listVars, todo, passed, hand, poolVars, flagVars,
                 core>>

\* global_state_changed = FALSE comes before the overview.
BeltsReset ==
  /\ pc = "reset"
  /\ global_state_changed' = FALSE
  /\ IF belts # {} \/ BeltsRoom THEN pc' = "overview" /\ todo' = belts
                                ELSE pc' = "idle" /\ UNCHANGED todo
  /\ UNCHANGED <<webVars, listVars, passed, hand, poolVars, queueActive,
                 beltsActive, core>>

\* accumulate_solution: a new accumulator gets a scheduler item of its own.
accumulate_solution(t) ==
  /\ accumulator' = Append(accumulator, t)
  /\ accItems' = IF accumulator = <<>> /\ accItems < MaxItems
                   THEN accItems + 1 ELSE accItems

\* Mutant of return_tested: an accumulated task stays on the belts.
return_tested_keeps(t, o) ==
  /\ webiface_put_solution(t, o)
  /\ IF o = "ok" THEN belts' = belts \ {t} /\ UNCHANGED <<accumulator, accItems>>
                 ELSE /\ Len(accumulator) < MaxResults /\ UNCHANGED belts
                      /\ accumulate_solution(t)

\* return_tested, and the removal of the task from the belts.
return_tested(t, o) ==
  /\ webiface_put_solution(t, o)
  /\ belts' = belts \ {t}
  /\ IF o = "ok" THEN UNCHANGED <<accumulator, accItems>>
                 ELSE /\ Len(accumulator) < MaxResults
                      /\ accumulate_solution(t)

\* Mutant of Interrupted: a task under test is taken for an interrupted one.
InterruptedOrRunning(t) == status[t] \in {"RUNNING", "INTERRUPTED"}

Interrupted(t) == status[t] = "INTERRUPTED"

\* One round of the loop of belts_overview_status.
OverviewTask(t, o) ==
  /\ pc = "overview" /\ t \in todo
  /\ todo' = todo \ {t}
  /\ CASE status[t] = "FINISHED" -> return_tested(t, o)
       [] Interrupted(t) ->
            /\ webiface_restore_task(t, o)
            /\ belts' = belts \ {t}
            /\ UNCHANGED <<accumulator, accItems>>
       [] OTHER -> UNCHANGED <<webVars, belts, accumulator, accItems>>
  /\ UNCHANGED <<queue, status, unpacked, pc, passed, hand, poolVars,
                 flagVars, core>>

\* Mutant of OverviewDone: global_state_changed is reset after the overview.
OverviewDoneResets ==
  /\ pc = "overview" /\ todo = {}
  /\ pc' = "fill" /\ global_state_changed' = FALSE
  /\ UNCHANGED <<webVars, listVars, todo, passed, hand, poolVars,
                 queueActive, beltsActive, core>>

OverviewDone ==
  /\ pc = "overview" /\ todo = {}
  /\ pc' = "fill"
  /\ UNCHANGED <<webVars, listVars, todo, passed, hand, poolVars, flagVars,
                 core>>
-----------------------------------------------------------------------------
(* belts_fill.  queue holds the nodes still ahead of the cursor; a task    *)
(* that must wait is pushed to the head of the list, behind the cursor.    *)

Filling == pc = "fill" /\ queue # <<>> /\ Cardinality(belts) < BeltsSize

\* send_for_testing found the parameters, the module and a free thread.
FillStart ==
  LET t == Head(queue) IN
  /\ Filling
  /\ t \notin belts /\ t \in Known /\ SeemsActive
  /\ \E s \in Slots : Idle(s)
  /\ queue' = Tail(queue)
  /\ unpacked' = unpacked \cup {t}
  /\ hand' = t /\ pc' = "push"
  /\ UNCHANGED <<webVars, belts, accumulator, accItems, status, todo, passed,
                 poolVars, flagVars, core>>

\* g_thread_pool_push.  The thread exists before the task is appended to the
\* belts.
FillPush(s) ==
  /\ pc = "push" /\ Idle(s)
  /\ job' = [job EXCEPT ![s] = hand]
  /\ at' = [at EXCEPT ![s] = "pushed"]
  /\ pc' = "append"
  /\ UNCHANGED <<webVars, listVars, todo, passed, hand, lost, flagVars, core>>

\* The pool is being freed by the shutdown or by an upload.
FillLost ==
  /\ pc = "push" /\ (core = "wait" \/ Uploads)
  /\ lost' = lost \cup {hand}
  /\ pc' = "append"
  /\ UNCHANGED <<webVars, listVars, todo, passed, hand, job, at, flagVars, core>>

FillAppend ==
  /\ pc = "append"
  /\ belts' = belts \cup {hand}
  /\ hand' = NoTask /\ pc' = "fill"
  /\ UNCHANGED <<webVars, queue, accumulator, accItems, status, unpacked,
                 todo, passed, poolVars, flagVars, core>>

\* dyna_delete of the node, dyna_push of the task.
PutBack(t) == passed' = <<t>> \o passed /\ queue' = Tail(queue)

\* "Testing pool is full": TF_KEEPINQUEUE, dyna_push to the queue.
FillKeep ==
  LET t == Head(queue) IN
  /\ Filling
  /\ t \notin belts /\ t \in Known /\ SeemsActive
  /\ \A s \in Slots : ~Idle(s)
  /\ PutBack(t)
  /\ unpacked' = unpacked \cup {t}
  /\ UNCHANGED <<webVars, belts, accumulator, accItems, status, pc, todo,
                 hand, poolVars, flagVars, core>>

\* get_task failed, there is no such module or testing is not active.
Refused(t) ==
  (t \notin unpacked /\ Faults # {"ok"}) \/ t \notin Known \/ ~TestingActive

\* Mutant of Drop: wt_restore_task is missing.
DropSilently(t, o) ==
  (t \in belts \/ Refused(t)) /\ o \in Outcome /\ UNCHANGED <<webVars, pc>>

\* Mutant of Drop: the else branch goes on to dyna_append.
DropAppends(t, o) ==
  /\ t \notin belts /\ Refused(t) /\ webiface_restore_task(t, o)
  /\ pc' = "append"

\* A refused task is restored and freed, a duplicate only freed.
Drop(t, o) ==
  /\ UNCHANGED pc
  /\ \/ t \in belts /\ UNCHANGED webVars
     \/ t \notin belts /\ Refused(t) /\ webiface_restore_task(t, o)

FillDrop(o) ==
  /\ Filling
  /\ Drop(Head(queue), o)
  /\ queue' = Tail(queue)
  /\ UNCHANGED <<belts, accumulator, accItems, status, unpacked, todo,
                 passed, hand, poolVars, flagVars, core>>

FillDone ==
  /\ pc = "fill" /\ ~Filling
  /\ queue' = passed \o queue
  /\ passed' = <<>> /\ pc' = "idle"
  /\ UNCHANGED <<webVars, belts, accumulator, accItems, status, unpacked,
                 todo, hand, poolVars, flagVars, core>>
-----------------------------------------------------------------------------
(* accumulator_overview_proc, called by scheduler_overview.                *)

SchedulerOverview ==
  /\ pc = "idle" /\ accItems > 0 /\ accumulator # <<>>
  /\ pc' = "flush"
  /\ UNCHANGED <<webVars, listVars, todo, passed, hand, poolVars, flagVars,
                 core>>

FlushTask(o) ==
  LET t == Head(accumulator) IN
  /\ pc = "flush" /\ accumulator # <<>>
  /\ webiface_put_solution(t, o)
  /\ accumulator' = Tail(accumulator)
  /\ passed' = IF o = "ok" THEN passed ELSE Append(passed, t)
  /\ UNCHANGED <<queue, belts, accItems, status, unpacked, pc, todo, hand,
                 poolVars, flagVars, core>>

\* Mutant of FlushDone: the overview removes its scheduler item.
FlushDoneUnschedules ==
  /\ pc = "flush" /\ accumulator = <<>>
  /\ accumulator' = passed /\ accItems' = accItems - 1
  /\ passed' = <<>> /\ pc' = "idle"
  /\ UNCHANGED <<webVars, queue, belts, status, unpacked, todo, hand,
                 poolVars, flagVars, core>>

\* An empty accumulator is destroyed; its scheduler item stays.
FlushDone ==
  /\ pc = "flush" /\ accumulator = <<>>
  /\ accumulator' = passed
  /\ passed' = <<>> /\ pc' = "idle"
  /\ UNCHANGED <<webVars, queue, belts, accItems, status, unpacked, todo,
                 hand, poolVars, flagVars, core>>
-----------------------------------------------------------------------------
(* A testing thread as the belts see it.  TASK_SET_STATUS writes the       *)
(* status first and raises global_state_changed second.                    *)

Step(s, from, to) == at[s] = from /\ at' = [at EXCEPT ![s] = to]

ThreadStart(s) ==
  /\ Step(s, "pushed", "running")
  /\ status' = [status EXCEPT ![job[s]] = "RUNNING"]
  /\ UNCHANGED <<webVars, queue, belts, accumulator, accItems, unpacked,
                 mainVars, job, lost, flagVars, core>>

\* TASK_SET_RESULT_MESSAGE raises global_state_changed too early.
ThreadResult(s) ==
  /\ Step(s, "running", "result")
  /\ global_state_changed' = TRUE
  /\ UNCHANGED <<webVars, listVars, mainVars, job, lost, queueActive, beltsActive,
                 core>>

ThreadFinish(s) ==
  /\ Step(s, "result", "raise")
  /\ status' = [status EXCEPT ![job[s]] = "FINISHED"]
  /\ UNCHANGED <<webVars, queue, belts, accumulator, accItems, unpacked,
                 mainVars, job, lost, flagVars, core>>

\* Mutant of ThreadInterrupt: the status is not set at __free_.
ThreadInterruptQuiet(s) ==
  /\ ~TestingActive
  /\ Step(s, "running", "cleanup")
  /\ UNCHANGED <<webVars, listVars, mainVars, job, lost, flagVars, core>>

\* TESTING_CHECK_ACTIVE found the module stopped.
ThreadInterrupt(s) ==
  /\ ~TestingActive
  /\ Step(s, "running", "raise")
  /\ status' = [status EXCEPT ![job[s]] = "INTERRUPTED"]
  /\ UNCHANGED <<webVars, queue, belts, accumulator, accItems, unpacked,
                 mainVars, job, lost, flagVars, core>>

ThreadRaise(s) ==
  /\ Step(s, "raise", "cleanup")
  /\ global_state_changed' = TRUE
  /\ UNCHANGED <<webVars, listVars, mainVars, job, lost, queueActive, beltsActive,
                 core>>

\* The thread removes its lock file and goes back to GLib.
ThreadLeave(s) ==
  /\ Step(s, "cleanup", "none")
  /\ job' = [job EXCEPT ![s] = NoTask]
  /\ UNCHANGED <<webVars, listVars, mainVars, lost, flagVars, core>>
-----------------------------------------------------------------------------
(* wt_mainloop_stop, wt_mainloop_done, wt_mainloop_start, and the IPC      *)
(* commands `queue start|stop` and `belts start|stop`.                     *)

MainloopStop ==
  /\ core = "up" /\ core' = "stop"
  /\ UNCHANGED <<webVars, listVars, mainVars, poolVars, flagVars>>

\* Informatics_stop_testing unlocks `active` ...
StopTesting ==
  /\ core = "stop" /\ core' = "wait"
  /\ UNCHANGED <<webVars, listVars, mainVars, poolVars, flagVars>>

\* ... and waits for the threads of the pool.
PoolFree ==
  /\ core = "wait" /\ core' = "join"
  /\ \A s \in Slots : Idle(s)
  /\ UNCHANGED <<webVars, listVars, mainVars, poolVars, flagVars>>

\* Mutant of Working: `working` is unlocked after the join.
WorkingUntilJoined == core \in {"up", "stop", "wait", "join"}

\* The mutex `working` is locked.
Working == core = "up"

\* g_mutex_trylock (working) at the head of the main loop.
MainloopExit ==
  /\ pc = "idle" /\ ~Working
  /\ pc' = "exited"
  /\ UNCHANGED <<webVars, listVars, todo, passed, hand, poolVars, flagVars,
                 core>>

MainloopJoin ==
  /\ core = "join" /\ pc = "exited"
  /\ core' = "free"
  /\ UNCHANGED <<webVars, listVars, mainVars, poolVars, flagVars>>

\* wt_queue_free, then wt_belts_free: wt_task_deleter_with_restore.
QueueFree(o) ==
  /\ core = "free" /\ queue # <<>>
  /\ webiface_restore_task(Head(queue), o)
  /\ queue' = Tail(queue)
  /\ UNCHANGED <<belts, accumulator, accItems, status, unpacked, mainVars,
                 poolVars, flagVars, core>>

BeltsFree(t, o) ==
  /\ core = "free" /\ queue = <<>> /\ t \in belts
  /\ webiface_restore_task(t, o)
  /\ belts' = belts \ {t} /\ lost' = lost \ {t}
  /\ UNCHANGED <<queue, accumulator, accItems, status, unpacked, mainVars,
                 job, at, flagVars, core>>

\* The process is gone and with it everything it held.
Exit ==
  /\ orphaned' = orphaned \cup {t \in Held : web[t] = "taken"}
  /\ UNCHANGED <<web, undeleted>>
  /\ queue' = <<>> /\ belts' = {} /\ accumulator' = <<>> /\ accItems' = 0
  /\ status' = [t \in Tasks |-> "PENDING"] /\ unpacked' = {}
  /\ global_state_changed' = FALSE
  /\ queueActive' = FALSE /\ beltsActive' = FALSE
  /\ pc' = "exited" /\ todo' = {} /\ passed' = <<>> /\ hand' = NoTask
  /\ job' = [s \in Slots |-> NoTask] /\ at' = [s \in Slots |-> "none"]
  /\ lost' = {} /\ core' = "down"

\* wt_belts_done frees the accumulator with wt_task_deleter.
BeltsDone ==
  /\ core = "free" /\ queue = <<>> /\ belts = {}
  /\ Exit

Crash ==
  /\ Crashes /\ core # "down"
  /\ Exit

\* A new process: reset_status, then the main loop with its autostarts.
MainloopStart(o) ==
  /\ core = "down" /\ core' = "up"
  /\ webiface_reset_status(o)
  /\ pc' = "idle"
  /\ queueActive' = Autostart /\ beltsActive' = Autostart
  /\ UNCHANGED <<listVars, todo, passed, hand, poolVars,
                 global_state_changed>>

ipc_queue(on) ==
  /\ Operator /\ core # "down" /\ queueActive # on
  /\ queueActive' = on
  /\ UNCHANGED <<webVars, listVars, mainVars, poolVars,
                 global_state_changed, beltsActive, core>>

ipc_belts(on) ==
  /\ Operator /\ core # "down" /\ beltsActive # on
  /\ beltsActive' = on
  /\ UNCHANGED <<webVars, listVars, mainVars, poolVars,
                 global_state_changed, queueActive, core>>
-----------------------------------------------------------------------------
SubmitTask(t) ==
  Submit(t) /\ UNCHANGED <<listVars, mainVars, poolVars, flagVars, core>>

MainNext ==
  \/ QueueUpdate \/ ReceiveDone \/ BeltsUpdate \/ BeltsReset
  \/ OverviewDone \/ FillStart \/ FillLost \/ FillAppend \/ FillKeep \/ FillDone
  \/ SchedulerOverview \/ FlushDone \/ MainloopExit
  \/ \E got \in SUBSET Elems(queue) : QueueUnpack(got)
  \/ \E t \in Tasks, o \in Faults : ReceiveTask(t, o)
  \/ \E t \in Tasks, o \in Faults : OverviewTask(t, o)
  \/ \E s \in Slots : FillPush(s)
  \/ \E o \in Faults : FillDrop(o)
  \/ \E o \in Faults : FlushTask(o)

ThreadNext(s) ==
  \/ ThreadStart(s) \/ ThreadResult(s) \/ ThreadFinish(s)
  \/ ThreadInterrupt(s) \/ ThreadRaise(s) \/ ThreadLeave(s)

CoreNext ==
  \/ MainloopStop \/ StopTesting \/ PoolFree \/ MainloopJoin \/ BeltsDone
  \/ Crash
  \/ \E o \in Faults : QueueFree(o)
  \/ \E t \in Tasks, o \in Faults : BeltsFree(t, o)
  \/ \E o \in Faults : MainloopStart(o)

IpcNext == \E on \in BOOLEAN : ipc_queue(on) \/ ipc_belts(on)

Next ==
  \/ \E t \in Tasks : SubmitTask(t)
  \/ MainNext
  \/ \E s \in Slots : ThreadNext(s)
  \/ CoreNext
  \/ IpcNext

Spec == Init /\ [][Next]_vars
-----------------------------------------------------------------------------
(* Safety.                                                                 *)

\* Every variable has the type the code gives it.
TypeOK ==
  /\ web \in [Tasks -> WebStatus]
  /\ undeleted \subseteq Tasks /\ orphaned \subseteq Tasks
  /\ queue \in Seq(Tasks) /\ belts \subseteq Tasks
  /\ accumulator \in Seq(Tasks) /\ accItems \in 0..MaxItems
  /\ status \in [Tasks -> TaskStatus] /\ unpacked \subseteq Tasks
  /\ global_state_changed \in BOOLEAN
  /\ queueActive \in BOOLEAN /\ beltsActive \in BOOLEAN
  /\ pc \in MainPC /\ todo \subseteq Tasks
  /\ passed \in Seq(Tasks) /\ hand \in Tasks \cup {NoTask}
  /\ job \in [Slots -> Tasks \cup {NoTask}]
  /\ at \in [Slots -> ThreadPC] /\ lost \subseteq Tasks
  /\ core \in CorePC

\* A sequence without repetitions.
Distinct(s) == \A i, j \in DOMAIN s : s[i] = s[j] => i = j

\* The whole list of the queue, the nodes a running belts_fill passed
\* included (passed holds nodes of the accumulator while it is flushed).
Waiting == IF pc = "flush" THEN queue ELSE passed \o queue

\* wt_queue and the belts never hold one task twice, however the web lists
\* it: the "Duplicate caughting" branch of belts_fill is never taken.
NoDuplicates ==
  /\ Distinct(Waiting)
  /\ \A t \in Elems(Waiting) : t \notin belts /\ t # hand
  /\ hand \notin belts

\* QueueSize and BeltsSize are never exceeded, with the task in the main
\* loop's hand counted in and the tasks kept by a full pool pushed back.
Capacity ==
  /\ Len(Waiting) =< QueueSize
  /\ Cardinality(belts) + (IF hand = NoTask THEN 0 ELSE 1) =< BeltsSize

\* A task the web has handed out is in the server, or one of the few calls
\* that may lose it did: a restore_task that never arrived, an accumulator
\* freed at shutdown, a crash, a reset_status that never arrived.
TakenIsHeld ==
  \A t \in Tasks : web[t] = "taken" => t \in Held \cup orphaned

\* The state change of a tested task is never lost: global_state_changed is
\* up, its thread is about to raise it, or the overview is on its way to it.
NoLostWakeup ==
  \A t \in belts \cup {hand} :
    t \in Tasks /\ status[t] \in {"FINISHED", "INTERRUPTED"} =>
      \/ global_state_changed
      \/ pc = "reset"
      \/ pc = "overview" /\ t \in todo
      \/ \E s \in Slots : job[s] = t /\ at[s] = "raise"

Testing == {"pushed", "running", "result"}

\* A testing thread's task is alive: no step of the main loop returns or
\* frees a task (wt_task_free) that a thread still uses, and no two threads
\* use the same one.  The last act of a shutdown, which frees the belts, is
\* the one exception (AllThreadsFinished).
ThreadOwnsTask ==
  \A s \in Slots : at[s] \in Testing =>
    /\ job[s] \in belts \cup {hand} \/ (core = "free" /\ queue = <<>>)
    /\ status[job[s]] \in {"PENDING", "RUNNING"}
    /\ \A r \in Slots : at[r] \in Testing /\ job[r] = job[s] => r = s

\* A task in the belts that is not tested yet has a thread that tests it, so
\* that it cannot occupy its place for ever, unless it was pushed to a pool
\* that an upload or the stop was freeing.
UntestedHasThread ==
  /\ \A t \in belts \cup {hand} :
       t \in Tasks /\ status[t] \in {"PENDING", "RUNNING"} =>
         \/ t \in lost
         \/ t = hand /\ pc = "push"
         \/ \E s \in Slots : at[s] \in Testing /\ job[s] = t
  /\ lost # {} => Uploads \/ ~TestingActive

\* "IMHO it is the best way to wait for all threads is finished": when
\* wt_mainloop_stop has stopped the testing module and joined the main loop,
\* and the belts are freed, no testing thread uses a task any more.
AllThreadsFinished == core = "free" => \A s \in Slots : at[s] \notin Testing

\* A task whose delete_task reached the web exists once in the server: it is
\* never tested again while its result waits in the accumulator.
OneCopy ==
  \A t \in Elems(accumulator) \ undeleted :
    t \notin Elems(queue) \cup belts \cup {hand}

\* A solution the web has got the result of is not put back to the list of
\* new ones, unless its delete_task was lost.
DoneStays ==
  [][\A t \in Tasks \ undeleted' : web[t] = "done" => web'[t] = "done"]_vars
-----------------------------------------------------------------------------
(* Liveness.                                                               *)

\* The main loop inside one of its operations.
MainStep == pc \notin {"idle", "exited"} /\ MainNext

\* Threads run; the main loop calls each operation again and again
\* (CALL_DELAYED), so one that stays possible is called; a request that is
\* repeated for ever succeeds at last.
Fairness ==
  /\ WF_vars(MainStep) /\ SF_vars(MainloopExit)
  /\ SF_vars(QueueUpdate) /\ SF_vars(BeltsUpdate)
  /\ SF_vars(SchedulerOverview)
  /\ \A s \in Slots : WF_vars(ThreadNext(s))
  /\ WF_vars(core # "up" /\ CoreNext /\ ~Crash)
  /\ \A t \in Tasks :
       /\ SF_vars(OverviewTask(t, "ok") /\ t \notin belts')
       /\ SF_vars(FlushTask("ok") /\ Head(accumulator) = t)
       /\ SF_vars(FillStart /\ Head(queue) = t)

LiveSpec == Spec /\ Fairness

\* Nobody stops the server or its queue and belts for good.
StaysUp == <>[](core = "up" /\ queueActive /\ beltsActive)

\* The belts are full of tasks nobody tests.
BeltsAreLost == Cardinality(lost) >= BeltsSize

\* Every submission of a known library is tested and its result reaches the
\* web, through lost requests, uploads, a full pool and the accumulator.  There
\* are three ways to lose it: the restore_task of a refused attempt was lost,
\* the task was pushed to a pool an upload was freeing, or tasks lost in this
\* way occupy all of the belts.
EventuallyDone ==
  StaysUp => \A t \in Known :
    web[t] = "new" ~> web[t] = "done" \/ t \in orphaned \cup lost \/ BeltsAreLost

\* A result in the accumulator reaches the web, or the server is shut down
\* first (wt_belts_done drops the accumulator).
EventuallySent ==
  \A t \in Tasks : t \in Elems(accumulator) ~> web[t] = "done" \/ core = "down"

\* wt_mainloop_stop ends, whatever the main loop and the threads are doing.
ShutdownEnds == core = "stop" ~> core = "down"
-----------------------------------------------------------------------------
(* The inductive invariant behind the safety properties.                   *)

\* The main loop's local state: a task is in its hand, and not on the belts,
\* only while it is being started, nodes are passed only inside belts_fill and
\* the accumulator's overview, and the lists are freed only once the loop has
\* been joined.
MainInv ==
  /\ (pc \in {"push", "append"} <=> hand # NoTask) /\ hand \notin belts
  /\ pc \notin {"fill", "push", "append", "flush"} => passed = <<>>
  /\ core \in {"free", "down"} => pc = "exited"

\* A thread that is not idle has a task, and nothing outlives the process.
PoolInv ==
  /\ \A s \in Slots : at[s] # "none" => job[s] \in Tasks
  /\ core = "down" => lost = {} /\ \A s \in Slots : at[s] = "none"

\* Nobody has touched the task that is about to be pushed.
PushInv ==
  pc = "push" =>
    /\ status[hand] = "PENDING"
    /\ \A s \in Slots : at[s] \in Testing => job[s] # hand

\* The nodes of the queue that belts_fill has passed.
Passed == IF pc = "flush" THEN <<>> ELSE passed

\* A waiting task has not been started: it waits once, in one place, and
\* nobody has changed its status since it was received.
QueueInv ==
  /\ Distinct(queue) /\ Distinct(Passed)
  /\ \A t \in Elems(queue) : t \notin Elems(Passed)
  /\ \A t \in Elems(queue) \cup Elems(Passed) :
       status[t] = "PENDING" /\ t \notin belts /\ t # hand

\* Each part needs the others: NoLostWakeup needs that a started task is
\* PENDING (QueueInv), which needs that no thread writes the status of a
\* waiting task (ThreadOwnsTask), which needs that an overview returns only
\* tasks whose thread is done with them.
IndInv ==
  /\ TypeOK /\ MainInv /\ PoolInv /\ QueueInv /\ PushInv
  /\ ThreadOwnsTask /\ UntestedHasThread /\ NoLostWakeup
=============================================================================
