------------------------------- MODULE Tester -------------------------------
(***************************************************************************)
(* The testing thread of the informatics module: compile the solution, run *)
(* it on every test, judge its output, give the verdict                    *)
(* (webtester/modules/informatics/tester.c).                               *)
(*                                                                         *)
(* Nobody may block a testing thread, so the module is stopped through a   *)
(* mutex that is only ever probed: `active` is locked while the module     *)
(* runs, Informatics_stop_testing unlocks it, and whoever wants to know    *)
(* calls trylock.  A trylock that succeeds finds the module stopped, but   *)
(* holds the mutex until the unlock that follows, and every other trylock  *)
(* fails meanwhile.                                                        *)
(***************************************************************************)
EXTENDS Integers, FiniteSets

CONSTANTS Threads,         \* one for each task
          TestsCount,      \* tests of a problem; a test is worth one point
          Bonus,           \* BONUS of a problem
          SolutionErrors,  \* what a run of the solution may end with
          CheckerErrors    \* what the checker may answer besides _OK

ASSUME TesterAssumption ==
  /\ TestsCount \in Nat /\ Bonus \in Nat
  /\ SolutionErrors \subseteq {"ML", "TL", "RE", "PE"}
  /\ CheckerErrors \subseteq {"WA", "PE"}
  /\ Threads \cap {"module", "free", "main", "none"} = {}

VARIABLES
  active,   \* the owner of the mutex; "module": locked by init_testing
  stopping, \* progress of Informatics_stop_testing
  starting  \* the task the main loop is starting
VARIABLES   \* of each thread
  pc, status,
  acm,      \* the problem has ACM rules
  i,        \* the test it is at, from 0
  points,
  flags,    \* RE, ML, TL, WA, PE of testing_main_loop
  CR,       \* the flag of LOOPCRASH
  errors,   \* the verdict, a set of words; {} is the empty string
  passed    \* ghost: the tests the checker accepted

mutexVars == <<active, stopping, starting>>
runVars == <<i, points, flags, CR, passed>>
vars == <<mutexVars, pc, status, acm, runVars, errors>>

\* At these places a thread probes `active`.
Probing == {"compiled", "head", "ran", "checked", "done", "final"}
ThreadPC == Probing \cup {"none", "passed", "pushed", "setup", "test", "finish",
                          "free_", "lost", "refused", "end"}
Errors == SolutionErrors \cup CheckerErrors

Init ==
  /\ active = "module" /\ stopping = "up" /\ starting = "none"
  /\ pc = [t \in Threads |-> "none"]
  /\ status = [t \in Threads |-> "PENDING"]
  /\ acm \in [Threads -> BOOLEAN]
  /\ i = [t \in Threads |-> 0] /\ points = [t \in Threads |-> 0]
  /\ flags = [t \in Threads |-> {}] /\ CR = [t \in Threads |-> FALSE]
  /\ errors = [t \in Threads |-> {}]
  /\ passed = [t \in Threads |-> {}]
-----------------------------------------------------------------------------
(* The probes: LOOP_CHECK_ACTIVE, LOOP_DONE_CHECK_ACTIVE,                  *)
(* TESTING_CHECK_ACTIVE.                                                   *)

At(t, place) == pc[t] = place
Goto(t, place) == pc' = [pc EXCEPT ![t] = place]

\* Mutant of Locked: the probe gives the module's lock away.
LockedAndReleased == active # "free" /\ active' = "free"

\* mutex_trylock failed.
Locked == active # "free" /\ UNCHANGED active

\* The probe at `place` lets the thread go on.
GoesOn(t, place) ==
  At(t, place) /\ active # t /\ Locked /\ UNCHANGED <<stopping, starting>>

\* i < tests_count, the condition of the loop.
MoreTests(t) == i[t] < TestsCount

\* mutex_trylock succeeded ...
Probe(t) ==
  /\ pc[t] \in Probing /\ (At(t, "head") => MoreTests(t))
  /\ active = "free" /\ active' = t
  /\ UNCHANGED <<stopping, starting, pc, status, acm, runVars, errors>>

\* Mutant of Leaving: the loop goes on with the next test.
LeavingNotTheLoop(place) ==
  CASE place \in {"compiled", "final"} -> "free_"
    [] place \in {"head", "ran", "checked"} -> "head"
    [] place = "done" -> "final"

\* Where a thread goes that found the module stopped.
Leaving(place) ==
  CASE place \in {"compiled", "final"} -> "free_"
    [] place \in {"head", "ran", "checked"} -> "done"
    [] place = "done" -> "final"

\* ... and mutex_unlock follows.
Release(t) ==
  /\ active = t /\ active' = "free"
  /\ Goto(t, Leaving(pc[t]))
  /\ UNCHANGED <<stopping, starting, status, acm, runVars, errors>>
-----------------------------------------------------------------------------
(* testing_thread up to the compilation.                                   *)

Start(t) ==
  /\ At(t, "pushed") /\ Goto(t, "setup")
  /\ status' = [status EXCEPT ![t] = "RUNNING"]
  /\ UNCHANGED <<mutexVars, acm, runVars, errors>>

\* check_required_params or save_solution failed.
SetupFails(t) ==
  /\ At(t, "setup") /\ Goto(t, "finish")
  /\ errors' = [errors EXCEPT ![t] = {"CR"}]
  /\ UNCHANGED <<mutexVars, status, acm, runVars>>

\* The compiler runs; what came out of it is looked at after the probe.
Compile(t) ==
  /\ At(t, "setup") /\ Goto(t, "compiled")
  /\ UNCHANGED <<mutexVars, status, acm, runVars, errors>>

\* An error executing the compiler gives -1, which is no failure to `!`.
run_compiler(outcome) ==
  CASE outcome = "exec_error" -> -1 [] outcome = "error" -> 0 [] OTHER -> 1

\* post_compiling_check looks for the executable.
compile_solution(outcome, exists) ==
  CASE outcome = "undefined" -> -1
    [] outcome # "undefined" /\ run_compiler(outcome) = 0 -> 0
    [] OTHER -> IF exists THEN 1 ELSE 0

CompileOutcome == {"undefined", "exec_error", "error", "compiled"}

\* The verdict of a compilation that did not succeed.
CompileVerdict(rc) == IF rc < 0 THEN {"CR"} ELSE {"CE"}

Compiled(t, outcome, exists) ==
  LET rc == compile_solution(outcome, exists) IN
  /\ GoesOn(t, "compiled")
  /\ IF rc > 0
       THEN Goto(t, "head") /\ UNCHANGED errors
       ELSE Goto(t, "finish") /\ errors' = [errors EXCEPT ![t] = CompileVerdict(rc)]
  /\ UNCHANGED <<status, acm, runVars>>
-----------------------------------------------------------------------------
(* testing_main_loop.                                                      *)

LOOPCRASH(t) ==
  /\ points' = [points EXCEPT ![t] = 0]
  /\ CR' = [CR EXCEPT ![t] = TRUE]
  /\ errors' = [errors EXCEPT ![t] = {"CR"}]
  /\ Goto(t, "done")
  /\ UNCHANGED <<i, flags, passed>>

\* The bottom of the loop.
NextTest(t) == i' = [i EXCEPT ![t] = @ + 1] /\ Goto(t, "head")

\* Under ACM rules the first error ends the testing.
ERR(t, e) ==
  /\ flags' = [flags EXCEPT ![t] = @ \cup {e}]
  /\ IF acm[t] THEN Goto(t, "done") /\ UNCHANGED i ELSE NextTest(t)
  /\ UNCHANGED <<points, CR, passed, errors>>

\* No probe after the last test.
LoopEnds(t) ==
  /\ At(t, "head") /\ ~MoreTests(t) /\ Goto(t, "done")
  /\ UNCHANGED <<mutexVars, status, acm, runVars, errors>>

LoopHead(t) ==
  /\ MoreTests(t) /\ GoesOn(t, "head") /\ Goto(t, "test")
  /\ UNCHANGED <<status, acm, runVars, errors>>

CopyFails(t) ==
  /\ At(t, "test") /\ LOOPCRASH(t)
  /\ UNCHANGED <<mutexVars, status, acm>>

RunSolution(t) ==
  /\ At(t, "test") /\ Goto(t, "ran")
  /\ UNCHANGED <<mutexVars, status, acm, runVars, errors>>

\* The solution could not be executed, failed (no output file is a PE) or
\* left an output for the checker, which runs at once.
SolutionCrash(t) ==
  GoesOn(t, "ran") /\ LOOPCRASH(t) /\ UNCHANGED <<status, acm>>

SolutionError(t, e) ==
  GoesOn(t, "ran") /\ ERR(t, e) /\ UNCHANGED <<status, acm>>

RunChecker(t) ==
  /\ GoesOn(t, "ran") /\ Goto(t, "checked")
  /\ UNCHANGED <<status, acm, runVars, errors>>

\* The checker was not executed, was killed, hit a limit or gave an unknown
\* exit code.
CheckerCrash(t) ==
  GoesOn(t, "checked") /\ LOOPCRASH(t) /\ UNCHANGED <<status, acm>>

CheckerError(t, e) ==
  GoesOn(t, "checked") /\ ERR(t, e) /\ UNCHANGED <<status, acm>>

\* _OK.
CheckerAccepts(t) ==
  /\ GoesOn(t, "checked") /\ NextTest(t)
  /\ points' = [points EXCEPT ![t] = @ + 1]
  /\ passed' = [passed EXCEPT ![t] = @ \cup {i[t]}]
  /\ UNCHANGED <<flags, CR, errors, status, acm>>

\* Mutant of Verdict: a crash is forgotten.
VerdictOfFlags(t) ==
  /\ errors' = [errors EXCEPT ![t] = IF flags[t] = {} THEN {"OK"} ELSE flags[t]]
  /\ points' = [points EXCEPT ![t] = IF flags[t] = {} THEN @ + Bonus ELSE @]

\* The end of testing_main_loop.
Verdict(t) ==
  IF CR[t] THEN UNCHANGED <<errors, points>>
  ELSE /\ errors' = [errors EXCEPT ![t] = IF flags[t] = {} THEN {"OK"} ELSE flags[t]]
       /\ points' = [points EXCEPT ![t] = IF flags[t] = {} THEN @ + Bonus ELSE @]

LoopDone(t) ==
  /\ GoesOn(t, "done") /\ Goto(t, "final") /\ Verdict(t)
  /\ UNCHANGED <<status, acm, i, flags, CR, passed>>
-----------------------------------------------------------------------------
(* testing_thread after the loop.                                          *)

Final(t) ==
  /\ GoesOn(t, "final") /\ Goto(t, "finish")
  /\ UNCHANGED <<status, acm, runVars, errors>>

\* __done_: output parameters, result message, log, TS_FINISHED.
Finish(t) ==
  /\ At(t, "finish") /\ Goto(t, "end")
  /\ status' = [status EXCEPT ![t] = "FINISHED"]
  /\ UNCHANGED <<mutexVars, acm, runVars, errors>>

\* __free_: TS_INTERRUPTED.
Free(t) ==
  /\ At(t, "free_") /\ Goto(t, "end")
  /\ status' = [status EXCEPT ![t] = "INTERRUPTED"]
  /\ UNCHANGED <<mutexVars, acm, runVars, errors>>
-----------------------------------------------------------------------------
(* The main loop and the shutdown.                                         *)

\* Informatics_start_testing_thread: its probe fails ...
StartPasses(t) ==
  /\ At(t, "none") /\ starting = "none"
  /\ active # "free"
  /\ starting' = t /\ Goto(t, "passed")
  /\ UNCHANGED <<active, stopping, status, acm, runVars, errors>>

\* ... and the task is pushed.  By now the module may be stopping, and a pool
\* that is being freed does not take it, or stopped, and the pool is a new
\* one nobody waits for.
StartPush(t) ==
  /\ At(t, "passed") /\ starting' = "none"
  /\ Goto(t, IF stopping = "freeing" THEN "lost" ELSE "pushed")
  /\ UNCHANGED <<active, stopping, status, acm, runVars, errors>>

\* "Testing pool is full": the task keeps waiting in the queue.
StartFull(t) ==
  /\ At(t, "passed") /\ starting' = "none" /\ Goto(t, "none")
  /\ UNCHANGED <<active, stopping, status, acm, runVars, errors>>

\* "Testing stuff is not active".
StartProbe(t) ==
  /\ At(t, "none") /\ starting = "none"
  /\ active = "free" /\ active' = "main" /\ starting' = t
  /\ UNCHANGED <<stopping, pc, status, acm, runVars, errors>>

StartRefused(t) ==
  /\ At(t, "none") /\ starting = t /\ starting' = "none"
  /\ active' = "free" /\ Goto(t, "refused")
  /\ UNCHANGED <<stopping, status, acm, runVars, errors>>

StartNext(t) ==
  \/ StartPasses(t) \/ StartPush(t) \/ StartFull(t)
  \/ StartProbe(t) \/ StartRefused(t)

\* Informatics_stop_testing: its trylock fails, it unlocks `active` ...
StopTesting ==
  /\ stopping = "up" /\ stopping' = "freeing"
  /\ active' = "free"
  /\ UNCHANGED <<starting, pc, status, acm, runVars, errors>>

\* Mutant of Quiet: the pool is freed without waiting for its threads.
QuietAtOnce == TRUE

\* No thread of the pool has work.
Quiet == \A t \in Threads : pc[t] \in {"none", "passed", "lost", "refused", "end"}

\* ... g_thread_pool_free returns when the pool has nothing to do, and there is
\* a new pool.
PoolFreed ==
  /\ stopping = "freeing" /\ Quiet /\ stopping' = "stopped"
  /\ UNCHANGED <<active, starting, pc, status, acm, runVars, errors>>
-----------------------------------------------------------------------------
ThreadNext(t) ==
  \/ Probe(t) \/ Release(t)
  \/ Start(t) \/ SetupFails(t) \/ Compile(t)
  \/ \E outcome \in CompileOutcome, exists \in BOOLEAN : Compiled(t, outcome, exists)
  \/ LoopEnds(t) \/ LoopHead(t) \/ CopyFails(t) \/ RunSolution(t)
  \/ SolutionCrash(t) \/ RunChecker(t) \/ CheckerCrash(t) \/ CheckerAccepts(t)
  \/ \E e \in SolutionErrors : SolutionError(t, e)
  \/ \E e \in CheckerErrors : CheckerError(t, e)
  \/ LoopDone(t) \/ Final(t) \/ Finish(t) \/ Free(t)

Next ==
  \/ \E t \in Threads : ThreadNext(t)
  \/ \E t \in Threads : StartNext(t)
  \/ StopTesting \/ PoolFreed

Spec == Init /\ [][Next]_vars

\* Threads and the shutdown run, and the main loop does not stop inside a
\* start.  Nobody has to start a task or to stop the module.
Fairness ==
  /\ \A t \in Threads :
       WF_vars(ThreadNext(t)) /\ WF_vars(starting = t /\ StartNext(t))
  /\ WF_vars(PoolFreed)

LiveSpec == Spec /\ Fairness
-----------------------------------------------------------------------------
\* Every variable has the type the code gives it.
TypeOK ==
  /\ active \in Threads \cup {"module", "free", "main"}
  /\ stopping \in {"up", "freeing", "stopped"} /\ starting \in Threads \cup {"none"}
  /\ pc \in [Threads -> ThreadPC]
  /\ status \in [Threads -> {"PENDING", "RUNNING", "FINISHED", "INTERRUPTED"}]
  /\ acm \in [Threads -> BOOLEAN] /\ i \in [Threads -> 0..TestsCount]
  /\ points \in [Threads -> 0..(TestsCount + Bonus)]
  /\ flags \in [Threads -> SUBSET Errors] /\ CR \in [Threads -> BOOLEAN]
  /\ errors \in [Threads -> SUBSET (Errors \cup {"OK", "CE", "CR"})]
  /\ passed \in [Threads -> SUBSET (0..(TestsCount - 1))]

\* No solution is given up while the module runs.
InterruptedOnlyByStop ==
  \A t \in Threads : At(t, "free_") \/ status[t] = "INTERRUPTED" => stopping # "up"

AllTests == 0..(TestsCount - 1)

\* While nobody stops the module the verdict is what the tests say: "OK" with
\* the bonus for all tests passed, otherwise the errors and a point for each
\* test passed, and nothing for a crash or a compilation error.
VerdictIsExact ==
  \A t \in Threads : stopping = "up" /\ status[t] = "FINISHED" =>
    /\ errors[t] # {}
    /\ errors[t] = {"OK"} => passed[t] = AllTests
    /\ points[t] = CASE errors[t] = {"OK"} -> TestsCount + Bonus
                     [] errors[t] \in {{"CR"}, {"CE"}} -> 0
                     [] OTHER -> Cardinality(passed[t])

\* Tasks that passed the check and have not begun.
Accepted == {t \in Threads : pc[t] \in {"passed", "pushed"}}

Promise == INSTANCE TestingThreads
             WITH Threads <- Threads, status <- status, accepted <- Accepted,
                  stopping <- stopping

\* The module keeps its promises to the belts, with the start in two steps:
\* after the check of `active` the stop may return before the push.  Then one
\* task begins that nobody waits for, and as long as a thread is left its
\* probes may let in another.
KeepsPromise == Promise!ThreadsSpec

\* Stopping the module takes as long as one run of a solution or checker per
\* thread, never for ever.
StopEnds == stopping = "freeing" ~> stopping = "stopped"
=============================================================================
