# Verification of WebTester

WebTester is the testing server of a programming-contest site. It takes
submissions from a web application over HTTP, compiles and runs them against
the tests of a problem, and returns a verdict. This directory holds TLA+
models of its server, of the library it runs programs with, of its command
interface and of the library code below them, TLC configurations that check
the models, and proofs checked by TLAPS.

Paths below are relative to `src/src/`.

## 1. The system

| part | source | state | operations |
|---|---|---|---|
| queue | `webtester/queue.c` | list of received tasks, `active` | update (ask the web), unpack, start/stop, free |
| belts | `webtester/belts.c` | list of tasks being tested, `global_state_changed`, the accumulator of unsent results | update = reset flag + overview + fill; accumulate; resend; free |
| tasks | `webtester/task.[ch]` | status, flags, buffers, chain | create, compare, free, free with restore |
| main loop | `webtester/mainloop.c` | mutex `working`, thread | start (reset_status), loop, stop, done |
| WebInterface plugin | `webtester/plugins/webinterface/transport.c` | none | get_task_list, get_task, delete_task, restore_task, put_solution, reset_status |
| informatics module | `webtester/modules/informatics/tester.c` | mutexes `active`, `suspended`, the thread pool; per thread the testing | init, start thread, suspend, resume, stop; compile, run, check, judge |
| problem / checker uploader | `.../uploader-problem.c`, `uploader-checker.c` | `active`, `mutex`, one thread | upload, stop |
| module library | `webtester/library.c` | list of loaded modules | load, send for testing |
| scheduler, hooks | `libwebtester/{scheduler,hook}.c` | list of items, mutex | add, remove, overview, call |
| data structures | `libwebtester/{dynastruc,assarr}.c` | lists with cursors | append, push, delete, search |
| testing directories | `tester.c`, `libwebtester/fs.c` | directories, lock files | make, lock, unlink old ones |
| librun | `librun/{run,hv,hv_pool,ipc,ipc_builtin}.c`, `librun/lrvm` | descriptors of processes, exit statistics, table of clients, unique numbers | execute, finalize, kill, wait, register, account |
| server IPC | `libwebtester/ipc*.c`, `webtester/ipc*.c` | clients, login stamps, blacklist and its file | connect, login, execute, blacklist, freeze |
| statistics, pipe | `webtester/stat.c`, `plugins/pipe/pipe.c` | registrations by client cell | register, review, send |
| configuration and text | `libwebtester/{flexval,hive,conf,cmd,strlib,util}.c` | parsed trees | parse, get, print |
| testlib and checkers | `stuff/` | an open file | read, compare, quit with a verdict |
| frontend, wrappers | `frontend/`, `libwebtester/{sock,network-*,regexp,recode,md5,...}.c` | | |

How they interact. The *main loop* thread is the only one that touches queue,
belts and accumulator. At intervals of its own it calls the scheduler (which
resends the accumulator), unpacking, the queue's update, the belts' update and
the uploaders. The belts hand a task to a module, whose *testing threads*
write the task's status and then raise `global_state_changed`, without a lock.
*Uploading threads* suspend testing while they replace the files of a problem,
by freeing the thread pool and making a new one. The thread that *stops* the
server unlocks `working`, stops the modules through a hook, joins the main
loop and then frees the lists, restoring every task to the web. Stopping is
signalled by unlocking a mutex (`working`, `active`) that everybody else only
probes with trylock.

A testing thread runs compilers, solutions and checkers through *librun*: its
call starts an execute thread, which pipes a small supervisor, *LRVM*; LRVM
connects to the server, identifies itself with a unique number and a key,
forks the task, reports what becomes of it and asks for finalisation. One
*listening* thread serves all LRVMs and kills tasks over their limits; an
*accounting* thread collects the kernel's exit statistics. Operators talk to
the *IPC* thread; the main loop's scheduler reviews its login stamps and sends
statistics to its clients.

What is hard: the unlocked flag and status between main loop and threads;
requests whose effect and whose reply may be lost independently; tasks that
live in the web and in the server at once; pools and mutexes freed and replaced
under their users; probes that disturb each other; crashes between any two
requests; a supervisor that dies, is late or falls silent between any two
commands; cells, unique numbers and directories that change hands; files
replaced piece by piece; formats that are read by other rules than they are
written. `PROJECT.json` lists these hazards at their lines, with the
properties that would catch them.

What makes each part correct:

* queue, belts, accumulator: a task taken from the web is never lost, doubled,
  or freed while in use; sizes are kept; every finished testing is noticed;
  every submission gets its result in the end; a shutdown ends.
* testing threads: verdict and points agree with the tests that ran; a testing
  is given up only because of a stop; a stop ends.
* pool and uploaders: no testing during a replacement of files; at most
  `MaxThreads` testings; no pool is freed twice; the main loop and the
  shutdown always get through.
* uploaders: what the web is told is there is there; a problem is replaced as a
  whole; everything offered is answered.
* librun: no command of one LRVM touches the process of another; the state a
  caller finds says what happened; every wait returns; the hypervisor stops.
* server IPC: guessing of passwords is bounded and delayed; the blacklist
  survives and is enforced.
* library: the list is a sequence; what is written is read back; a checker
  judges as a reader of the files would.

## 2. Modules

| module | models | remarks |
|---|---|---|
| `WebInterface` | the requests of `transport.c` and the web's record of a task | the web application is external |
| `Belts` | queue, belts, accumulator, main loop, shutdown; a testing thread as the belts see it | extends `WebInterface` |
| `TestingThreads` | abstract specification: what a testing module promises to the belts | |
| `Tester` | `testing_thread` in detail, with the probes of `active` | implements `TestingThreads` (`KeepsPromise`) |
| `TestingDirs` | the directories of solutions and their lock files | |
| `TestingPool` | `start_testing_thread` step by step against suspension, upload and stop | |
| `Uploader` | what uploads of problems and checkers do to files and to the web's record | |
| `RunProcess`, `HvPool` | operators on a descriptor, on the pool of exit statistics and on unique numbers | |
| `Librun` | callers, execute threads, listening and accounting thread, LRVM, task, kernel | extends both |
| `ServerIpc` | connections, login, blacklist, stop, crash and restart | |
| `StatClients` | registrations of clients for statistics and messages | |
| `DynaSeq` | abstract specification: a sequence | |
| `DynaList` | the doubly linked list of `dynastruc.c` on its pointers | implements `DynaSeq` (`ImplementsSequence`) |
| `Texts`, `Numbers`, `Hive`, `Testlib` | formats of `cmd.c`, `assarr.c`, `flexval.c`, `util.c`, `hive.c`, testlib and three checkers as operators | |
| `Conversions` | these operators on all inputs of small sets, with reference definitions | extends the four |
| `BeltsProofs`, `TesterProofs`, `TestingPoolProofs`, `TestingDirsProofs`, `UploaderProofs`, `ServerIpcProofs`, `LibrunProofs`, `DynaListProofs` | theorems about the module each is named after, with their inductive invariants | section 4 |
| `MC...` | instances for TLC | `MCTester` and `MCLibrary` join two modules that share nothing: only one of them moves in a behaviour, or at a time |

Two refinements are checked and proved, both `INSTANCE ... WITH`: `Tester`
implements `TestingThreads`, from which `Belts` takes its testing threads, and
`DynaList` implements `DynaSeq`, from which every other module takes its lists.

Operators named "Mutant of ..." are wrong variants of the operator they stand
before; they are used to show that each property can fail.

### Belts

A step of the main loop is its work on one node of a list, the HTTP requests
included. `pc` says which operation it is in, `todo` and `passed` which nodes
are ahead and behind. The variables map to the code as follows.

* `queue`, `accumulator` are the lists; `belts` is a set, since the order of the
  belts decides nothing but the order in which the overview visits them, and
  that is arbitrary in the model.
* In `belts_fill` the queue is split at the cursor: `queue` holds the nodes
  ahead, `passed` those that `dyna_push` put back in front. `FillDone` joins
  them. `hand` is the task being started: checked (`push`), then pushed to the
  pool and about to be appended (`append`).
* `status[t]` and `unpacked` belong to the task object. At most one object of a
  task is looked at through them at a time: while a second copy exists (see
  `OneCopy`) the first is in the accumulator, where nobody reads its status.
* `job`, `at` are the testing threads: `pushed`, `running` (status RUNNING),
  `result` (the result message has raised the flag early), `raise` (status
  written, flag not yet), `cleanup`.
* `core` is the thread that starts and stops the server. `TestingActive` and
  `Working` say whether the mutexes are locked, as functions of it.
* `undeleted` and `orphaned` are ghosts: the tasks of which a delete_task was
  lost, and those the server let go while the web has them as taken.

Requests have three outcomes: done and answered, never arrived, done but the
answer lost. The code cannot tell the last two apart. `Exit` empties the
memory of the process; `Crash` may do so at any moment, `BeltsDone` at the end
of a shutdown; `MainloopStart` is the next process.

Abstractions. Intervals (`CALL_DELAYED`) become an arbitrary order of the
operations at `idle`. A `get_task_list` that fails or finds a full queue changes
nothing. Between the module's check and its push the pool may be replaced: by
the stop (`PoolFree` frees it and makes a new one), or by an upload when
`Uploads` is TRUE. A push to a pool being freed is lost (`FillLost`, ghost
`lost`), one to the pool the stop has made starts a thread nobody waits for
(`belts_late`). How pools are replaced, and the instant at which the pointer
names a freed one, belong to `TestingPool`. A write of such a late thread to a
task the shutdown has freed has no further effect in the model: the process is
about to end. Waiting for `suspended` only delays the main loop. Chain testing
is left out. `belts_fill` reads the
successor of a node just deleted; the model assumes the freed node is intact.

### Tester and TestingThreads

One state machine per testing thread. `active` is the mutex with its owner:
`"module"` while the module runs, `"free"` once it is stopped, or the thread (or
the main loop) that is between a trylock that succeeded and its unlock. Each
probe site is a place of `pc`; `Probe`/`Release` are a probe that found the
module stopped, `GoesOn` one that did not. What a compiler, a solution or a
checker did is chosen when the code looks at it, after the probe. A test is
worth one point. `passed` (the tests the checker accepted) is a ghost. A
compiler that cannot be executed ends in CE, as in the code (`run_compiler`'s -1
is no failure to `!`). Files, command lines, limits and the log are abstracted
to the outcomes they lead to.

A start is two steps, the check of `active` (`StartPasses`; `StartProbe` and
`StartRefused` for a stopped module) and the push (`StartPush`, or `StartFull`
for a full pool), with the stop anywhere between.

`TestingThreads` has the statuses, the accepted tasks (checked, not yet begun)
and the progress of the stop. Its `Begin` needs an accepted task, not a running
module: that is all the code promises, since a task accepted before the stop may
begin after it. `Tester` implements it with the status and the stop as they are:
this is what justifies the threads of `Belts`.

### TestingPool

Three threads share the pointers `pool` and `mutex` without a lock: the main
loop (starting a task or an upload), the uploading thread, the shutdown. A pool
is named by its generation and is running, closing or freed. GLib is modelled
from its use: freeing a pool waits for its threads, a pool being freed takes no
new task, freeing it again returns at once. Using a freed pool or a freed or
null mutex is undefined; the model records that in `broken` and stops. This
state is reachable: `mutex_free` and `mutex = 0` in
`Informatics_StopProblemUploading` race the main loop, which is joined only
later. It is listed as a hazard, and liveness is stated up to it. So is the
state in which the shutdown waits for a mutex the main loop left locked
(`Stranded`): when archives come through SAMBA and it is not there, which the
model chooses at the start (`barred`), `Informatics_UploadProblem` returns with it.

### TestingDirs

One step per file operation of a testing thread: lock `dirs`, make the directory
anew, set the lock file, test, then, under `unlink_mutex`, list, look at a lock,
delete. `flock_set` closes the file it has locked and so drops the POSIX lock,
`F_GETLK` never reports locks of the own process, and `flock_test` answers the
opposite of its comment; together they test whether the lock file exists, which
is how `flock_test` is written in the model. `again` is a ghost: solutions that
are tested again while their old directory is there or listed.

### Uploader

A file is `<<kind, owner, version>>`; `share`, `tmp`, `data`, `storage` are the
directories. The uploading thread copies the archive, unlinks the original,
unpacks, compiles or links the checker, removes the old files, copies the new
ones one by one, answers; every `CHECK_ACTIVE` is a place where a stop is
noticed. Copying, linking and unpacking may each leave files out, as nobody
looks at their errors (`fs.c:412`, `uploader-problem.c:843`): `MoveEnds` needs
no file to have arrived, and one that was not written whole counts as missing.
Removing the old files is taken to succeed. The checker uploader runs in the
main loop. The web (external) offers one version after another, with or without
an archive, and remembers the answer; a request that fails may have been lost
either way. `torn` is a ghost: what each problem's directory lost to a crash or
to an ignored error, until an upload replaces it. `TestingPool` has the thread's
mutex and the suspension; the two modules share no variable, because testing
never reads the uploader's state.

### Librun

`pr[p]` is the descriptor `run_process_info_t`, with `state` as the set of its
`PS_` bits and `locked` as the plain flag it is. `thread`, `listener`, `hv` are
the places of the server's threads, `lrvm`, `task`, `out`, `ans`, `conn` the
supervisor, its child and its socket, `cell` the table of clients with the
command buffers, `upool`, `pool` the unique numbers and exit statistics. `over`
is what the task really exceeds. `applied` is a ghost: whose command changed
whose process. The environment misbehaves at most `MaxFaults` times, in the ways
`AllFaults` lists: failing threads, pipes, forks and executions, an LRVM that is
late or does not answer in time, a stopped or zombied task, one that ignores
SIGTERM (the only signal `run_kill_process` sends), a client kept too long, lost
or outdated statistics. PIDs are a constant, `Pid`, and two tasks may have the
same. When LRVM's child gives up, its `term` shuts the connection it shares with
LRVM (`shutdown` in `sock.c:89`), so that both end. A process that is killed and
one that is freed by its caller while commands are on their way are all
interleavings of these threads. Not in the model: use of a descriptor after it
was freed (see the list below).

### ServerIpc and StatClients

A client sends arbitrary lines, so a line is chosen when it is received. Time
counts in units of the windows; `login_info` are the stamps, `file` the
blacklist's file, `Skews` what reading it may add to a timestamp (`tm_isdst` is
uninitialised). `flush_blacklist` may fail to open its file and leaves the old
one. The stamps of an address have the memory the code allocates, three stamps
(`Room`: the allocator's smallest piece); what lies beyond reads back as anything
and may be the first stamp of another address. `Tries`, `Window` and
`ResetTimeout` may be anything the configuration allows, 0 (off) included.
`fails`, `failedAt`, `unsaved` and the fields `first` and `count` of a record are
ghosts. `ipc`, `at`, `main`, `stop` are
the places of the IPC thread, the main loop and the stopping thread.
`StatClients` has the two parallel tables of `stat.c` and `pipe.c`.

### DynaList, Conversions

`mem` is the memory of items with `next_ptr` and `prev_ptr`; operations that
walk take a step per item. Freed items keep their contents until they are given
away again. A step of `Conversions` writes an input by the rules of its format,
as the code or a user would, reads it with the model of the code, and keeps
both; the properties compare them, or compare a checker's verdict with a
reference definition (`LinesOf`, `RightLong`, `RightString`, `RightLines`). The
recursive operators of these modules are the code's loops. A client puts an
argument in quotes, with backslashes before quotes and backslashes and newlines
as `\n`, or does without and escapes blanks and characters other than ASCII too
(`Escaped`, `Written`); `addslashes` has no caller and is left out. A real
number is an integer in units of `10^-Places`; it is printed with `Kept`
decimals ("%lf" has six), a half going up or down as the error of the double
decides. What is read is the digits and how often they were divided by ten
(`flexval_atolf`, `testlib_read_float`): the double is that value up to the
error of the divisions, of which the properties say nothing. A file that cannot
be opened is `Missing`.

## 3. Runs

| run | question | bounds | result |
|---|---|---|---|
| `belts_faults` | all safety properties of `Belts` with every fault and uploads | 2 tasks, 1 thread, queue 1, belts 2, accumulator 2 | holds |
| `belts_live` | a submission is returned, a shutdown ends | 1 task, lost requests, uploads, operator, restarts | holds |
| `belts_late` | no testing thread is left when the belts are freed | 1 task, 1 thread | violated |
| `tester` | verdicts, probes, promise to the belts, end of the stop; directories | 2 threads, 2 tests; 3 solutions, 5 testings, room for 1 directory | holds |
| `pool` | replacement of the pool, thread bound, progress | 2 tasks, 1 thread, 2 uploads, with and without SAMBA | holds |
| `uploader` | files, answers, progress | 1 problem, 1 checker, 3 offers, 1 restart | holds |
| `librun` | commands, states and errors | 2 processes, 1 caller at a time, 1 cell, 1 unique number, 1 PID, 2 faults of any kind | holds |
| `librun_live` | waits return, the hypervisor stops | 1 process, every end, 2 faults of any kind | holds |
| `librun_limit` | the limit a process was killed for is kept | 1 process, no faults | violated |
| `ipc` | guessing, delays, blacklist | 1 address, 2 cells, 2 tries, 3 moments, a crash at any time | holds |
| `ipc_stat` | a registration belongs to the client that asked | 1 cell, 2 connections | violated |
| `library` | list against sequence; formats; checkers | lists of 3 items of 2 values; texts of 2 to 4 characters, configurations of 3 keys, numbers to 1200 | holds |

The properties are stated, each with a comment, at the end of each module. The
runs marked violated compare the code with what its own comments say; the
findings in `PROJECT.json` quote them.

Several properties have exceptions, which their comments state; each is a state
the code really reaches (section 5). `EventuallyDone` excepts a task whose
restore_task was lost, one pushed to a pool an upload was freeing, and belts
full of such tasks. `ShutdownEnds` of the pool excepts `broken` and `Stranded`.
`WaitReturns` excepts a task that stays out of reach: stopped, deaf to SIGTERM,
or started by an LRVM that was too late. `FinishedIsExact` lets the limits be
those of another ended task with the same PID. `OkMeansStored` and
`FilesAreWhole` except what is torn. `BlacklistIsSaved` excepts a crash while
the file is written and a file that cannot be opened. `AttemptsAreBounded` is
about the window after the first failure when there are more than two tries.
`DataReadsBack` and `ConfReadsBack` except strings with the characters the
writers do not escape, values that begin with a semicolon and configured strings
that begin with a brace.

Why the bounds are enough. Two tasks are what it takes for one to be visited
while the other changes, for a duplicate, and for a queue and belts with room
for one of them. One thread is enough for contention. Two testing threads are
what it takes to mislead a probe, and two tests for an error followed by a
further test. Three solutions with room for one directory give a cleaner, a
victim and a bystander. Two uploads make a pool be replaced while tasks of the
one before are over, running or about to be pushed, with the shutdown's own
replacement as the third. Three offers are a first version, its replacement, and
a checker or a repetition between them; an instance with two restarts (381499
states) was searched once for the three properties and has no error. One cell
and one unique number force every reuse two runs can have, and two faults are
one that leaves something behind and one that meets it. One PID for both tasks
lets the second find the record of the first, while what the first carries is
its own; with a PID for each (1.5 million states, searched once) both carry
their own. `EventuallyDone` was also searched once with two tasks, belts for
one, uploads and no lost requests (6552 states): it holds, and not without its
last exception. Two tries, the configured number, fill the ring of login stamps
and shift it; four, the fewest that do not fit their memory, with two addresses
to hit each other (1.6 million states), were searched once for
`AttemptsAreBounded`, which is a theorem for any number. Three items are a head,
a tail and one between; three keys give every nesting, sibling and hiding.
`MaxResults` (the accumulator) and `MaxItems` (scheduler items, counted up to
the bound) keep the state finite; they do not disable the loop, which may also
succeed. `SYMMETRY` is used in safety runs only. Deadlock is not checked where
the system really may stop: a stopped module, a server that is down, a web with
nothing left to offer. The type invariants of `Tester`, `Librun` and `ServerIpc`
were checked with the same instances while the models were written; the runs
spend their properties on the others.

### Fairness

* Threads run (weak fairness of every thread's steps, of the main loop inside
  an operation, of a shutdown once begun). The programs a testing runs have time
  limits, so a testing thread ends.
* The main loop calls each operation again and again, and returns to its head:
  an operation that is possible again and again is called (strong fairness of
  `QueueUpdate`, `BeltsUpdate`, `SchedulerOverview`, `MainloopExit`).
* A request repeated for ever succeeds at last (strong fairness of the
  successful `OverviewTask` and `FlushTask`, and of `FillStart`, which needs a
  `get_task` that succeeds when the pool is free). Nothing is assumed about the
  order in which waiting tasks get a free thread. Each task is submitted once,
  so what `EventuallyDone` shows is progress under a finite load: with new
  submissions for ever the code, which pushes kept tasks to the head in reverse
  order, promises no fairness.
* Uploads: both uploaders run, each is called again and again, a stopped or
  crashed server is started again, and a request that is repeated for ever is
  answered at last (strong fairness of `RequestGets`, `PutProblem` and their
  counterparts for checkers).
* librun: every thread, LRVM and the kernel take their steps; a task ends or
  exceeds a limit. Nothing is assumed about a stopped task or one that ignores
  SIGTERM: it may stay for ever.
* Server IPC: the IPC thread goes round its cells. Nobody has to send anything.
* Nobody has to submit, start an upload, stop the server or crash.

## 4. Proofs

Eight modules hold theorems, each about one component. They hold for every
value of the constants that the component's named assumption (`BeltsAssumption`,
`TesterAssumption`, ...) allows: any sets of tasks, threads, solutions,
problems, addresses, runs, any sizes and any bounds on faults and restarts. TLC
evaluates the assumptions in the runs, and the inductive invariants below were
checked by TLC on the runs' instances before they were proved.

Every proof has the same form: an invariant (`IndInv` in `BeltsProofs`, `IInv`
elsewhere) that is the conjunction of named parts, a lemma for the initial state,
one lemma per part or per kind of step, and the theorems, which follow by PTL.

| module | theorem | states |
|---|---|---|
| `BeltsProofs` | `Inductive` | `Spec => []IndInv` |
| | `TypeCorrect` | every variable keeps its type |
| | `ThreadsOwnTheirTasks` | the main loop frees or returns no task while a thread uses it, up to the final freeing of the belts |
| | `BeltsAreTested` | an untested task on the belts has a thread, unless its pool was being freed |
| | `WakeupsAreKept` | a finished testing is never missed |
| | `TasksAreUnique` | queue and belts hold a task once |
| | `TasksAreNotLost` | a task the web has handed out is in the server, or was let go by one of the named calls |
| | `SizesAreKept` | `QueueSize` and `BeltsSize` are kept |
| | `NoSecondCopy` | a task with a result in the accumulator is nowhere else, unless its delete_task was lost (`OneCopy`) |
| | `ResultsAreFinal` | no step takes back a result the web has, unless a delete_task was lost (`DoneStays`) |
| `TesterProofs` | `TypeCorrect` | types; no test past the last |
| | `OnlyStopInterrupts` | probes of other threads interrupt nobody |
| | `VerdictExact` | errors and points are what the tests say |
| | `PromiseKept` | `Tester`, with its start in two steps, implements `TestingThreads` |
| `TestingPoolProofs` | `TypeCorrect` | types, the number of pools included |
| | `SuspensionWaits` | an upload starts when the old testings are over |
| | `MaxThreadsKept` | at most `max_threads` testings at a time |
| `TestingDirsProofs` | `NewDirsSafe` | no directory in use by a new solution is deleted |
| `UploaderProofs` | `OkIsStored` | what was answered OK is stored, unless it is torn |
| | `DirectoriesWhole` | directories that are not torn are of one upload, whole |
| `ServerIpcProofs` | `TypeCorrect` | types |
| | `BlacklistSaved` | the blacklist is kept and in its file, up to its exceptions |
| | `AttemptsBounded` | failures within the window are bounded, for all `Tries` and `Window` |
| | `FailuresDelay` | a failed login delays |
| `LibrunProofs` | `CommandsAreOwn` | the commands of an LRVM change its own process only |
| | `ErrorsReported` | an error of execution reaches the caller |
| | `FinishedExact` | a finished process has the limits its task, or one with its PID, exceeded, and a signal only if there was one |
| `DynaListProofs` | `ListLinked` | the pointers form one list; no walk meets a freed item |
| | `ListIsSequence` | `DynaList` implements `DynaSeq` |

### Belts

`NoLostWakeup` is not inductive: that a task being started is not
already FINISHED needs that a waiting task is PENDING (`QueueInv`); that it
stays PENDING needs that no thread writes its status (`ThreadOwnsTask`); that no
thread does needs that the overview lets a task go only when its thread has
written its last status, that nobody touches a task between its check and its
push (`PushInv`), that no thread outlives the process (`PoolInv`), and that the
lists are freed only when the main loop is gone (`MainInv`), the queue before
the belts. `IndInv` is the conjunction; `NextInv` has one lemma per part, each
with one case per action. `TakenIsHeld` and the list sizes are then proved
relative to `IndInv` (`TakenStepInv`, `CapacityStepInv`), with finite-set
cardinality for the belts. For `OneCopy` and `DoneStays` the steps are first
classified by what they do to a task's places and to the web's record
(`CopyStep`). Among the tasks whose delete_task was not lost, one that is queued,
on the belts or at hand is "taken" for the web, and one whose result waits is
taken or done and not there a second time (`CopyInv`); this needs that a list
received from the web has only new tasks, that the overview visits what is on the
belts, and that nothing outlives the process (`FreshInv`).

### Tester, TestingPool, TestingDirs

`Mutex` says what a thread may conclude from `active`: up means that the module
holds it, and a thread that holds it is at a probe. `Statuses` ties the status to
the place in the code, `Counting` the points to the tests passed so far. `Exact`
is `VerdictIsExact` at the moment the verdict is given; it needs `Honest`: while the
module is up no test was left out, which is where a misled probe would show.
`PromiseKept` uses the invariant for the steps of `TestingThreads` that have a
condition on the stop.

In `TestingPool` the hard part is `Room`: between `g_thread_pool_get_num_threads`
and the push the pool that was asked may have been replaced, and the bound
still holds, because the uploader waits for the old pool (`UpInv`), there is only
one (`OneUploader`), and the main loop holds a waiting task (`Starting`).
`Pooled` counts the pools made so far, so that there is always a next one.

In `TestingDirs` lock and listing are read before the deletion. `Safe` says for
each place of a testing thread why the directory is not hit: it is not there
yet, not in the listing, or locked before the cleaner looks. `dir_listing` is
the increasing sequence of the directories; that it exists and has exactly their
elements is a lemma.

### Uploader

`OkMeansStored` at the moment of the answer is `ErrInv`; to get there every step
of the upload has to be followed: the job is what the web offers (`JobIsOffered`,
since the web offers nothing else before an answer), the temporary directory
holds what the steps so far made (`TmpInv`), nothing old is left while files are
moved (`Moving`). An upload without an archive relies on the tests of an earlier
one, through crashes: `TestsThere`. `Whole` has the exceptions of `FilesAreWhole`.
Since a copy may leave files out, none of these says that something has arrived:
what is in a directory is of the right version, and it is all there unless the ghost
`torn` names the part.

### ServerIpc

`AttemptsBounded` has two arguments. For every `Tries`, `Streak` follows a
record from its first failure: as long as the ring is not full the failures are
as many as the stamps, the first stamp is never before the first failure,
whatever overwrites it, and a failure beyond `Tries` was let through only
because the first stamp was out of the window. For one or two tries `Stamped`
says that the stamps are the last failures in order, and that what has no stamp
is out of the window, which gives the bound for any window; with three tries
that is wrong (section 5). `FailedInv` keeps what the check before the password
has found until the failure is stamped; `CellInv` and `DelayInv` say that rights
and commands belong to open cells and that the flag of a frozen client lasts as
long as the delay.

### Librun

The theorems assume `EnoughNumbers`: no more processes at a time than there are
unique numbers, and numbers that fit an unsigned short. In the code there are
65536 (`MAX_UNIQUE`) for the few threads of a testing pool. Without it a process
that got no number gives 65535 back to the pool, and numbers may be shared.

The commands are hard because a cell's buffer may begin with commands of the
cell's last client, and because the client is known by two records that are set
by two commands, the number and the key. `StreamInv` is about the stream a cell
will read, buffer and socket: before each command of p the last command that
says who the client is came from p, or there is none and what is known of the
client either is p or is refused (`Own`). It is kept when LRVM speaks, when a
buffer is received, when the first command is executed, and when a cell gets
another client; it needs that a number belongs to one process (`NumberInv`), that
one that has an LRVM does not enter the belts again (`RunInv`), that an LRVM
introduces itself first (`SocketInv`), and that a connection has one cell
(`CellInv`). `ErrorInv` says that only a process without an LRVM stays in the
belts after its thread, where nothing but the overview can write its state, and
that this leaves an error an error; `WorkInv` has what the listening thread holds
while it does so. `Kinds` lists what a step may change, so that each part is kept by
a dozen kinds of steps in place of the forty actions.

`FinishedExact` makes no assumption about PIDs. The kernel uses them again,
after a turn through all of them; the record of the earlier task is then in the
pool for as long as `lifetime` and its array allow, and is the one that is
found. `FInv` follows a verdict from the task to the descriptor, on top of
`IInv`. LRVM, task and kernel agree (`TaskInv`: a termsig is sent for a signaled
task, statistics are sent of an ended one), and a task that has ended changes no
more. Hence every record of the pool is that of an ended task and has its limits
(`PoolInv`), through new arrays, ageing and the arrays that leave; every termsig
in a socket or a buffer is true (`SignalInv`); what the listening thread has
read before it waits for the statistics or for a death is still right afterwards
(`SavedInv`); and the descriptor itself (`ResultInv`). All actions but two are
shown to add no signal and no end to a descriptor (`Mild`). A command adds one,
of its own process by `CommandsAreOwn`'s argument; the finalisation adds an end,
with the limits of the record it finds, which is that of an ended task with this
PID (`OfPid`).

### DynaList

`Struct` says that `mem` links the items of the history `items` in both
directions, `Links`, with `head`, `tail` and `count`. Insertions and
`dyna_delete` are shown once, on values, to keep `Links`, whatever the caller has
done to the ends before (`dyna_pop` moves `head` first). The other parts say how
far a walk is: a search has passed only items that do not match (`FindInv`), an
access by index has gone `i` steps (`GetInv`), `dyna_delete_all` is at the head
(`ClearInv`), and only a caller whose list has not changed holds a result
(`CallInv`). `unblacklist_ip` goes on from the item it has deleted: `FindInv` says
that the successor it reads there is the item that has taken the place. The sort
is a bubble sort of a fixed number of passes. `SortInv` says that `i` passes have
brought the last `i` items to their places and that the current pass carries the
greatest item it has met (`Settled`), so that after `count` passes the data are in
order, which is what `DynaSeq` asks of `SortEnds`.

The refinement maps the list to the data along `items` and a result to its
position. An operation that walks is one step of the sequence, at its end, or one
per item deleted or exchanged; its other steps change nothing. A search ends at
the least position with the key because of `FindInv`, a removal deletes the least
one for the same reason.

### Only model-checked

* Liveness (`EventuallyDone`, `WaitReturns`, the ends of the stops, ...) and the
  progress parts of the properties: fairness is out of the prover's reach.
* What recursive operators compute: `Texts`, `Numbers`, `Hive`, `Testlib`,
  `Conversions`. The prover has no induction over data, and no SMT backend where
  `RECURSIVE` occurs.
* The properties of the runs that are violated.

## 5. What the models show besides

The models follow the code where it departs from what a reader would expect.
These departures are reachable in the models, or were met while writing them.

Belts and tester:

* Results that wait in the accumulator are freed unsent at shutdown
  (`belts.c:518`); the next start's `reset_status` has them tested again.
* A stopped testing whose probes meet another thread's probe twice finishes with
  OK and the bonus for tests it never ran: the loop's probe finds the module
  stopped, and the one after the loop (`tester.c:1112`) and the next in
  `testing_thread` fail to lock `active` while the other thread's probe holds it.
  The comment at line 1465, "Now task is completely tested", is then wrong; stated
  as an invariant, TLC finds this trace.
* A task whose start has passed the check of `suspended` may be pushed to the
  pool an upload has just made, and tested while files are replaced, or to the
  pool that is being freed, and is then lost, and keeps its place on the belts
  (`tester.c:1639`, `1660`).
* A task accepted before the stop may begin after it, and while such a thread is
  left its probes may let in another.
* Without SAMBA, an upload that wants it leaves its mutex locked and the
  shutdown waits for ever (`uploader-problem.c:1069`; `Stranded`).
* A solution that is tested again may lose its new directory to a deletion that
  was decided for the old one. Lock files left by a crash keep their
  directories for ever.

Uploaders:

* The original archive is deleted before the upload is complete, so that a
  stop, a crash or a lost answer makes the retry answer `E_UPLOAD`.
* `unpack_file` never fails: a broken archive is reported as OK and the problem
  is left without tests. Errors of `copyfile`, `fcopydir` and `symlink` are
  ignored as well, and `move_to_dataroot`, "@return TRUE on success, FALSE
  otherwise", always succeeds (`uploader-problem.c:843`). An own checker without
  an archive is always `E_CHECKER`.
* A checker from the storage is a link, so a failed recompilation takes it from
  all problems that use it, while they may be tested.
* `compile` copies a message that is NULL when the compiler cannot be executed;
  `put_problem` and `put_checker` free the message twice on an HTTP error.

librun:

* `run_kill_process`'s state is overwritten by the report of its own signal
  (`librun_limit`).
* A task that is stopped by a signal or ignores SIGTERM, or an LRVM that connects
  after the process was given up, makes `run_pwait` wait for ever.
* LRVM's report of an error after a refused command is unquoted words, which the
  server refuses as an invalid argument list.
* LRVM gives up after 2 s while finalisation may wait 3.4 s for statistics; the
  caller can then free the descriptor under the listening thread (the comment
  at `run.c:441` asks about a "strange segfolt").
* A client that is refused because the table is full ends without a word. The
  buffer of a cell keeps unread commands, which shifts the answers of the next
  client by one. A reused PID finds the oldest statistics.
* `unique_release` of -1, for a process that got no number, is not refused.

Server IPC and statistics:

* The ring of login stamps is right for up to two tries only: the shift's loop
  has an empty body (`ipc_builtin.c:196`). With three or more the first stamp stays,
  and once it is old any number of failures is let through; stated as an
  invariant (`GuessesAreLimited` with `Tries = 3`), TLC finds it. The memory of the
  stamps is allocated with the size of a function, one byte per stamp.
* The delay of a failed login stays with the cell and hits the next client; only
  the first of several lines received at once is executed; unblacklisting is
  not written to the file; a crash while the file is written loses it, and nobody
  is told when it cannot be opened.
* `review_clients` never stores a uid (`ipc_stat`).

Library and checkers:

* A packed value that begins with a semicolon is taken for an empty one and its
  rest for keys (`assarr.c:380` looks for it before the state), and a length of
  0 before anything else makes `assarr_unpack` loop for ever.
* Quotes and brackets in strings are not escaped by `flexval_serialize`; an empty
  quoted argument ends a command line, and a backslash at the end of one is lost.
* `flexval_serialize` rounds a real number to six decimals; reading one divides a
  double by ten once for each decimal, so that 0.07 is not the nearest double.
* A string of a configuration that begins with a brace is taken for the brace, in
  quotes or not (`hive.c:531`, `547`).
* An output file that cannot be opened is CR, not the PE that `Testlib_Init` has for
  it: `OpenStream` has quit before (`testlib++.cxx:233`, `308`).
* `flexval_atolf` of a hexadecimal number writes to its argument and returns 2;
  `is_number` accepts a comma at which `flexval_atolf` stops; `parse_range`
  writes one byte past its token for 16 digits.
* `unblacklist_ip` searches on from the item it has deleted; `belts_fill` reads
  its successor.
* Lines longer than `TESTLIB_MAX_STRLEN` lose a character at each border, so that
  different lines may compare equal; a real number may have two points if it
  begins with one; when output and answer are both malformed the verdict
  depends on the order of evaluation.

## 6. Not modelled

Chain testing (nothing in the repository starts it), the text of buffers and
logs, `use_chroot` (shared by testing threads), `recode_tests` and the renaming
of test files, the copying functions of flexval, `addslashes`, which nobody
calls, the functions of testlib that no checker of the repository calls. Hooks
and the scheduler appear as the calls they make. Sockets, HTTP, SMB, regular
expressions and recoding are wrappers of external libraries; MD5 is out of TLC's
reach; core, logging and plugins are start-up code; the frontend is a GTK
client, largely generated.

## 7. Plan

1. *(done)* `WebInterface`, `Belts`, `BeltsProofs`; `TestingThreads`, `Tester`;
   `TestingPool`.
2. *(done)* librun, server IPC, uploaders, testing directories, library,
   checkers.
3. *(done)* Proofs about `Tester`, `TestingPool`, `TestingDirs`, `Uploader`,
   `ServerIpc`, `Librun`; `OneCopy` and `DoneStays` of `Belts`.
4. *(done)* Proofs of `Linked` and the refinement of `DynaSeq` for `DynaList`, of
   `FinishedIsExact` for `Librun`. Every safety property that a passing run checks
   is now a theorem, up to those of `Conversions`, which are about recursive
   operators.
5. *(done)* Error paths that the first models left out: the start in two steps,
   failing copies, signals that are ignored, reused PIDs, a blacklist that cannot be
   written, real numbers, files that cannot be opened; the proofs follow.
