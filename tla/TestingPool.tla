---------------------------- MODULE TestingPool -----------------------------
(***************************************************************************)
(* The pool of testing threads and those who replace it                    *)
(* (webtester/modules/informatics/{tester,uploader-problem}.c).  The main  *)
(* loop pushes tasks to the pool and starts the uploader; the uploader     *)
(* suspends testing while it replaces the files of a problem, by freeing   *)
(* the pool and making a new one; the shutdown frees the pool too.  The    *)
(* pointers `pool` and `mutex` are shared by the three threads without a   *)
(* lock.                                                                   *)
(*                                                                         *)
(* A pool is named by its generation.  The use of a freed pool or mutex,   *)
(* or of a null mutex, is undefined: the model stops there (broken).       *)
(***************************************************************************)
EXTENDS Naturals, FiniteSets

CONSTANTS Tasks,
          NoTask,
          MaxThreads,  \* max_threads
          MaxUploads   \* bound: the problems the web offers

ASSUME PoolAssumption ==
  /\ NoTask \notin Tasks
  /\ MaxThreads \in Nat \ {0} /\ MaxUploads \in Nat

VARIABLES
  testingActive, \* `active` of tester.c is locked
  suspended,     \* the mutex is locked
  pool,          \* the generation the pointer points to
  pstate,        \* of each generation
  freeing,       \* the pool each caller of g_thread_pool_free waits for
  run, home      \* of each task: its state and its pool
VARIABLES
  main, cand,    \* the main loop, and the task it is starting
  upl, uploads,  \* the uploading thread, and how many problems it got
  uploading,     \* `active` of uploader-problem.c
  mutex,         \* `mutex` of uploader-problem.c
  shut,          \* the thread that shuts the server down
  broken

poolVars == <<pool, pstate, freeing>>
taskVars == <<run, home>>
mainVars == <<main, cand>>
uplVars == <<upl, uploads>>
vars == <<testingActive, suspended, poolVars, taskVars, mainVars, uplVars,
          uploading, mutex, shut, broken>>

Pools == 1..(MaxUploads + 2)
NoPool == 0
Freers == {"uploader", "shutdown"}
MainPC == {"idle", "suspended", "probe", "count", "push", "upload", "exited"}
\* "barred": archives come through SAMBA, which is not there.
UploaderPC == {"none", "barred", "request", "suspend", "free", "wait", "create",
               "upload", "resume", "unlock"}
ShutPC == {"up", "free", "wait", "create", "stop", "lock", "unlock", "destroy",
           "null", "join", "down"}

Init ==
  /\ testingActive = TRUE /\ suspended = FALSE
  /\ pool = 1
  /\ pstate = [g \in Pools |-> IF g = 1 THEN "running" ELSE "none"]
  /\ freeing = [f \in Freers |-> NoPool]
  /\ run = [t \in Tasks |-> "waiting"] /\ home = [t \in Tasks |-> NoPool]
  /\ main = "idle" /\ cand = NoTask
  /\ upl \in {"none", "barred"} /\ uploads = 0 /\ uploading = TRUE /\ mutex = "null"
  /\ shut = "up" /\ broken = FALSE
-----------------------------------------------------------------------------
(* GLib's thread pool, as the module uses it.                              *)

Running(g) == {t \in Tasks : home[t] = g /\ run[t] = "running"}

\* Mutant of PoolFreeBegins: a second caller waits for the same pool.
PoolFreeBeginsAgain(f) ==
  /\ pstate' = [pstate EXCEPT ![pool] = "closing"]
  /\ freeing' = [freeing EXCEPT ![f] = pool]
  /\ broken' = (pstate[pool] = "freed")
  /\ UNCHANGED pool

\* g_thread_pool_free (pool, FALSE, TRUE) is called: no task is taken from
\* now on.  A pool that is being freed already is left alone.
PoolFreeBegins(f) ==
  /\ pstate' = IF pstate[pool] = "running"
                 THEN [pstate EXCEPT ![pool] = "closing"] ELSE pstate
  /\ freeing' = [freeing EXCEPT ![f] = IF pstate[pool] = "running" THEN pool
                                                                   ELSE NoPool]
  /\ broken' = (pstate[pool] = "freed")
  /\ UNCHANGED pool

\* Mutant of Drained: g_thread_pool_free does not wait.
DrainedAtOnce(g) == g \in Pools \cup {NoPool}

Drained(g) == Running(g) = {}

\* It returns when the pool has nothing to do.
PoolFreeReturns(f) ==
  LET g == freeing[f] IN
  /\ Drained(g)
  /\ pstate' = IF g = NoPool THEN pstate ELSE [pstate EXCEPT ![g] = "freed"]
  /\ freeing' = [freeing EXCEPT ![f] = NoPool]
  /\ UNCHANGED pool

create_testing_pool ==
  LET new == CHOOSE g \in Pools :
               pstate[g] = "none" /\ \A h \in 1..(g - 1) : pstate[h] # "none"
  IN /\ pool' = new /\ pstate' = [pstate EXCEPT ![new] = "running"]
     /\ UNCHANGED freeing

\* testing_thread returns (module Tester).
ThreadEnds(t) ==
  /\ ~broken /\ run[t] = "running" /\ run' = [run EXCEPT ![t] = "done"]
  /\ UNCHANGED <<testingActive, suspended, poolVars, home, mainVars, uplVars,
                 uploading, mutex, shut, broken>>
-----------------------------------------------------------------------------
(* Informatics_start_testing_thread, called by the main loop.              *)

Main(from, to) == ~broken /\ main = from /\ main' = to

StartCalled(t) ==
  /\ Main("idle", "suspended") /\ run[t] = "waiting" /\ cand' = t
  /\ UNCHANGED <<testingActive, suspended, poolVars, taskVars, uplVars,
                 uploading, mutex, shut, broken>>

\* mutex_lock (suspended); mutex_unlock (suspended).
NotSuspended ==
  /\ Main("suspended", "probe") /\ ~suspended
  /\ UNCHANGED <<testingActive, suspended, poolVars, taskVars, cand, uplVars,
                 uploading, mutex, shut, broken>>

\* mutex_trylock (active) fails: the module is active, or a testing thread is
\* just probing the mutex too.
StartProbe ==
  /\ Main("probe", "count")
  /\ testingActive \/ \E t \in Tasks : run[t] = "running"
  /\ UNCHANGED <<testingActive, suspended, poolVars, taskVars, cand, uplVars,
                 uploading, mutex, shut, broken>>

\* "Testing stuff is not active"; the belts restore the task to the web.
StartRefused ==
  /\ Main("probe", "idle") /\ ~testingActive
  /\ run' = [run EXCEPT ![cand] = "refused"] /\ cand' = NoTask
  /\ UNCHANGED <<testingActive, suspended, poolVars, home, uplVars, uploading,
                 mutex, shut, broken>>

\* Mutant of PoolIsFull: off by one.
PoolIsFullAbove == Cardinality(Running(pool)) > MaxThreads

\* g_thread_pool_get_num_threads (pool) >= max_threads.
PoolIsFull == Cardinality(Running(pool)) >= MaxThreads

\* "Testing pool is full": the task keeps waiting in the queue.
StartCount ==
  /\ Main("count", IF PoolIsFull THEN "idle" ELSE "push")
  /\ cand' = IF PoolIsFull THEN NoTask ELSE cand
  /\ broken' = (pstate[pool] = "freed")
  /\ UNCHANGED <<testingActive, suspended, poolVars, taskVars, uplVars,
                 uploading, mutex, shut>>

\* g_thread_pool_push: a pool that is being freed does not take the task, but
\* the result is TRUE in any case.
StartPush ==
  /\ Main("push", "idle") /\ cand' = NoTask
  /\ run' = [run EXCEPT ![cand] =
                 IF pstate[pool] = "running" THEN "running" ELSE "lost"]
  /\ home' = [home EXCEPT ![cand] = pool]
  /\ broken' = (pstate[pool] = "freed")
  /\ UNCHANGED <<testingActive, suspended, poolVars, uplVars, uploading, mutex,
                 shut>>
-----------------------------------------------------------------------------
(* Informatics_UploadProblem, called by the main loop, and the thread it   *)
(* starts.                                                                 *)

\* if (!mutex) mutex = mutex_create ().
UploadCalled ==
  /\ Main("idle", "upload")
  /\ mutex' = IF mutex = "null" THEN "free" ELSE mutex
  /\ UNCHANGED <<testingActive, suspended, poolVars, taskVars, cand, uplVars,
                 uploading, shut, broken>>

\* g_mutex_trylock (mutex).  Without SAMBA the function returns with the
\* mutex locked.
UploadTry ==
  /\ Main("upload", "idle")
  /\ mutex' = IF mutex = "free" THEN "locked" ELSE mutex
  /\ upl' = IF mutex = "free" /\ upl # "barred" THEN "request" ELSE upl
  /\ broken' = (mutex \in {"freed", "null"})
  /\ UNCHANGED <<testingActive, suspended, poolVars, taskVars, cand, uploads,
                 uploading, shut>>

Uploader(from, to) == ~broken /\ upl = from /\ upl' = to

\* get_problem: the web has a problem for us ...
RequestGets ==
  /\ Uploader("request", "suspend")
  /\ uploading /\ uploads < MaxUploads /\ uploads' = uploads + 1
  /\ UNCHANGED <<testingActive, suspended, poolVars, taskVars, mainVars,
                 uploading, mutex, shut, broken>>

\* ... or nothing, or it does not answer, or uploading was stopped.
RequestFails ==
  /\ Uploader("request", "unlock")
  /\ UNCHANGED <<testingActive, suspended, poolVars, taskVars, mainVars,
                 uploads, uploading, mutex, shut, broken>>

\* Informatics_SuspendTesting.
SuspendLock ==
  /\ Uploader("suspend", "free") /\ ~suspended /\ suspended' = TRUE
  /\ UNCHANGED <<testingActive, poolVars, taskVars, mainVars, uploads,
                 uploading, mutex, shut, broken>>

SuspendFree ==
  /\ Uploader("free", "wait") /\ PoolFreeBegins("uploader")
  /\ UNCHANGED <<testingActive, suspended, taskVars, mainVars, uploads,
                 uploading, mutex, shut>>

SuspendWait ==
  /\ Uploader("wait", "create") /\ PoolFreeReturns("uploader")
  /\ UNCHANGED <<testingActive, suspended, taskVars, mainVars, uploads,
                 uploading, mutex, shut, broken>>

SuspendCreate ==
  /\ Uploader("create", "upload") /\ create_testing_pool
  /\ UNCHANGED <<testingActive, suspended, taskVars, mainVars, uploads,
                 uploading, mutex, shut, broken>>

\* upload_task and put_problem: the files are replaced, or it fails.
UploadTask ==
  /\ Uploader("upload", "resume")
  /\ UNCHANGED <<testingActive, suspended, poolVars, taskVars, mainVars,
                 uploads, uploading, mutex, shut, broken>>

\* Mutant of ResumeTesting: `suspended` stays locked.
ResumeTestingForgets ==
  /\ Uploader("resume", "unlock")
  /\ UNCHANGED <<testingActive, suspended, poolVars, taskVars, mainVars,
                 uploads, uploading, mutex, shut, broken>>

\* Informatics_ResumeTesting.
ResumeTesting ==
  /\ Uploader("resume", "unlock") /\ suspended' = FALSE
  /\ UNCHANGED <<testingActive, poolVars, taskVars, mainVars, uploads,
                 uploading, mutex, shut, broken>>

\* Mutant of UploaderLeaves: the mutex stays locked.
UploaderLeavesLocked ==
  /\ Uploader("unlock", "none")
  /\ UNCHANGED <<testingActive, suspended, poolVars, taskVars, mainVars,
                 uploads, uploading, mutex, shut, broken>>

UploaderLeaves ==
  /\ Uploader("unlock", "none") /\ mutex' = "free"
  /\ UNCHANGED <<testingActive, suspended, poolVars, taskVars, mainVars,
                 uploads, uploading, shut, broken>>
-----------------------------------------------------------------------------
(* wt_mainloop_stop: `working` is unlocked, then CORE_STOPTESTING calls    *)
(* Informatics_stop_testing and Informatics_StopProblemUploading, then the *)
(* main loop is joined.                                                    *)

Shut(from, to) == ~broken /\ shut = from /\ shut' = to

StopTesting ==
  /\ Shut("up", "free") /\ testingActive' = FALSE
  /\ UNCHANGED <<suspended, poolVars, taskVars, mainVars, uplVars, uploading,
                 mutex, broken>>

StopFree ==
  /\ Shut("free", "wait") /\ PoolFreeBegins("shutdown")
  /\ UNCHANGED <<testingActive, suspended, taskVars, mainVars, uplVars,
                 uploading, mutex>>

StopWait ==
  /\ Shut("wait", "create") /\ PoolFreeReturns("shutdown")
  /\ UNCHANGED <<testingActive, suspended, taskVars, mainVars, uplVars,
                 uploading, mutex, broken>>

StopCreate ==
  /\ Shut("create", "stop") /\ create_testing_pool
  /\ UNCHANGED <<testingActive, suspended, taskVars, mainVars, uplVars,
                 uploading, mutex, broken>>

\* active = FALSE; if (mutex) ...
StopUploading ==
  /\ Shut("stop", IF mutex = "null" THEN "join" ELSE "lock")
  /\ uploading' = FALSE
  /\ UNCHANGED <<testingActive, suspended, poolVars, taskVars, mainVars,
                 uplVars, mutex, broken>>

MutexLock ==
  /\ Shut("lock", "unlock") /\ mutex = "free" /\ mutex' = "locked"
  /\ UNCHANGED <<testingActive, suspended, poolVars, taskVars, mainVars,
                 uplVars, uploading, broken>>

MutexUnlock ==
  /\ Shut("unlock", "destroy") /\ mutex' = "free"
  /\ UNCHANGED <<testingActive, suspended, poolVars, taskVars, mainVars,
                 uplVars, uploading, broken>>

\* mutex_free locks and unlocks the mutex once more.
MutexFree ==
  /\ Shut("destroy", "null") /\ mutex = "free" /\ mutex' = "freed"
  /\ UNCHANGED <<testingActive, suspended, poolVars, taskVars, mainVars,
                 uplVars, uploading, broken>>

MutexNull ==
  /\ Shut("null", "join") /\ mutex' = "null"
  /\ UNCHANGED <<testingActive, suspended, poolVars, taskVars, mainVars,
                 uplVars, uploading, broken>>

\* Mutant of MainloopExit: `working` is unlocked after the main loop is joined.
MainloopExitsLast ==
  /\ Main("idle", "exited") /\ shut = "down"
  /\ UNCHANGED <<testingActive, suspended, poolVars, taskVars, cand, uplVars,
                 uploading, mutex, shut, broken>>

\* The main loop finds `working` unlocked.
MainloopExit ==
  /\ Main("idle", "exited") /\ shut # "up"
  /\ UNCHANGED <<testingActive, suspended, poolVars, taskVars, cand, uplVars,
                 uploading, mutex, shut, broken>>

MainloopJoin ==
  /\ Shut("join", "down") /\ main = "exited"
  /\ UNCHANGED <<testingActive, suspended, poolVars, taskVars, mainVars,
                 uplVars, uploading, mutex, broken>>
-----------------------------------------------------------------------------
MainNext ==
  \/ \E t \in Tasks : StartCalled(t)
  \/ NotSuspended \/ StartProbe \/ StartRefused \/ StartCount \/ StartPush
  \/ UploadCalled \/ UploadTry \/ MainloopExit

UploaderNext ==
  \/ RequestGets \/ RequestFails \/ SuspendLock \/ SuspendFree \/ SuspendWait
  \/ SuspendCreate \/ UploadTask \/ ResumeTesting \/ UploaderLeaves

ShutNext ==
  \/ StopTesting \/ StopFree \/ StopWait \/ StopCreate \/ StopUploading
  \/ MutexLock \/ MutexUnlock \/ MutexFree \/ MutexNull \/ MainloopJoin

Next ==
  \/ MainNext \/ UploaderNext \/ ShutNext
  \/ \E t \in Tasks : ThreadEnds(t)

Spec == Init /\ [][Next]_vars

\* All threads run; the main loop passes its head again and again; a testing
\* thread ends (StopEnds of Tester, and limits on every process it runs).
Fairness ==
  /\ WF_vars(main # "idle" /\ MainNext) /\ SF_vars(MainloopExit)
  /\ WF_vars(UploaderNext) /\ WF_vars(shut # "up" /\ ShutNext)
  /\ \A t \in Tasks : WF_vars(ThreadEnds(t))

LiveSpec == Spec /\ Fairness
-----------------------------------------------------------------------------
\* Every variable has the type the code gives it, and a pool somebody waits
\* for is still there: it is freed once.
TypeOK ==
  /\ testingActive \in BOOLEAN /\ suspended \in BOOLEAN
  /\ pool \in Pools
  /\ pstate \in [Pools -> {"none", "running", "closing", "freed"}]
  /\ freeing \in [Freers -> Pools \cup {NoPool}]
  /\ \A f \in Freers : freeing[f] = NoPool \/ pstate[freeing[f]] = "closing"
  /\ run \in [Tasks -> {"waiting", "refused", "lost", "running", "done"}]
  /\ home \in [Tasks -> Pools \cup {NoPool}]
  /\ main \in MainPC /\ cand \in Tasks \cup {NoTask}
  /\ upl \in UploaderPC /\ uploads \in 0..MaxUploads /\ uploading \in BOOLEAN
  /\ mutex \in {"null", "free", "locked", "freed"}
  /\ shut \in ShutPC /\ broken \in BOOLEAN

\* While the server is up the files of a problem are replaced only when every
\* testing that was running when the upload asked for it is over: what the
\* wait in SuspendTesting is for.
OldTestingsAreOver ==
  upl = "upload" /\ shut = "up" => \A t \in Tasks : run[t] = "running" => home[t] = pool

\* No replacement of the pool lets more than max_threads solutions be tested
\* at a time, although it is counted per pool and before the push.
AtMostMaxThreads ==
  shut = "up" => Cardinality({t \in Tasks : run[t] = "running"}) =< MaxThreads

\* The main loop, which waits for the end of an upload inside belts_fill,
\* gets its turn again, unless a freed pool or mutex was used (broken).
StartReturns == main = "suspended" ~> main \in {"idle", "exited"} \/ broken

\* The shutdown waits for the mutex that Informatics_UploadProblem left locked
\* when archives come through SAMBA and SAMBA is not there: nobody unlocks it.
Stranded == upl = "barred" /\ shut \in {"lock", "destroy"} /\ mutex = "locked"

\* The shutdown ends in the middle of uploads and testings.  Two exceptions,
\* both real: it waits for ever for the mutex that was left locked (Stranded),
\* and what it does after a freed pool or mutex was used is undefined (broken).
ShutdownEnds == shut = "free" ~> shut = "down" \/ broken \/ Stranded
=============================================================================
