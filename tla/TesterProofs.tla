---------------------------- MODULE TesterProofs ----------------------------
(***************************************************************************)
(* Proofs about Tester, for every set of threads, every number of tests,   *)
(* every bonus and every set of errors.                                    *)
(***************************************************************************)
EXTENDS Tester, TLAPS, FiniteSetTheorems

\* Places of a thread before its task is taken, before the verdict is there
\* and after it.
Waiting == {"none", "passed", "pushed", "lost", "refused"}
InLoop == {"head", "test", "ran", "checked"}
Fresh == Waiting \cup {"setup", "compiled"}
Counted == Fresh \cup InLoop \cup {"done"}

\* Who holds `active`, and what the others may conclude from it.
Mutex ==
  /\ stopping = "up" <=> active = "module"
  /\ active \in Threads => pc[active] \in Probing /\ (At(active, "head") => MoreTests(active))
  /\ active = "main" <=> \E t \in Threads : starting = t /\ At(t, "none")
  /\ \A t \in Threads : starting = t => pc[t] \in {"none", "passed"}
  /\ \A t \in Threads : At(t, "passed") => starting = t

\* The status follows the place of the thread.
Statuses(t) ==
  /\ pc[t] \in Waiting => status[t] = "PENDING"
  /\ pc[t] \notin Waiting \cup {"end"} => status[t] = "RUNNING"
  /\ pc[t] = "end" => status[t] \in {"FINISHED", "INTERRUPTED"}
  /\ stopping = "up" => pc[t] # "free_" /\ status[t] # "INTERRUPTED"

\* Until the verdict there is a point for each test passed, or none after a
\* crash.
Counting(t) ==
  /\ pc[t] \in Fresh =>
       i[t] = 0 /\ passed[t] = {} /\ flags[t] = {} /\ errors[t] = {} /\ ~CR[t]
  /\ pc[t] \in {"test", "ran", "checked"} => i[t] < TestsCount
  /\ pc[t] \in InLoop => ~CR[t]
  /\ pc[t] \in Counted =>
       /\ passed[t] \subseteq 0..(i[t] - 1)
       /\ points[t] = IF CR[t] THEN 0 ELSE Cardinality(passed[t])

\* What VerdictIsExact says of a thread.
Exact(t) ==
  /\ errors[t] # {}
  /\ errors[t] = {"OK"} => passed[t] = AllTests
  /\ points[t] = CASE errors[t] = {"OK"} -> TestsCount + Bonus
                   [] errors[t] \in {{"CR"}, {"CE"}} -> 0
                   [] OTHER -> Cardinality(passed[t])

\* While the module is up no test is left out: as long as there is no error
\* every test so far was passed, and the verdict is exact from the moment it
\* is given.
Honest(t) ==
  stopping = "up" =>
    /\ pc[t] \in InLoop /\ flags[t] = {} => passed[t] = 0..(i[t] - 1)
    /\ pc[t] = "done" /\ CR[t] => errors[t] = {"CR"}
    /\ pc[t] = "done" /\ ~CR[t] /\ flags[t] = {} => passed[t] = AllTests
    /\ pc[t] \in {"final", "finish", "end"} => Exact(t)

\* A step of thread t, or of the main loop for its task.
Moves(t) == ThreadNext(t) \/ StartNext(t)

ThreadInv(t) == Statuses(t) /\ Counting(t) /\ Honest(t)

IInv == TypeOK /\ Mutex /\ \A t \in Threads : ThreadInv(t)
-----------------------------------------------------------------------------
(* Facts about sets of tests.                                              *)

\* The tests up to test n are n, and fewer than n were passed if one of them
\* was not.
LEMMA TestsBelow ==
  ASSUME NEW n \in Nat, NEW S, S \subseteq 0..(n - 1)
  PROVE  /\ IsFiniteSet(S) /\ Cardinality(S) \in 0..n
         /\ S \in SUBSET Nat
         /\ Cardinality(0..(n - 1)) = n
<1>1. IsFiniteSet(0..(n - 1)) /\ Cardinality(0..(n - 1)) = n
  BY FS_Interval
<1>2. IsFiniteSet(S) /\ Cardinality(S) <= n
  BY <1>1, FS_Subset
<1> QED  BY <1>1, <1>2, FS_CardinalityType

\* A test passed for the first time is one test more.
LEMMA OneMoreTest ==
  ASSUME NEW n \in Nat, NEW S, S \subseteq 0..(n - 1)
  PROVE  /\ S \cup {n} \subseteq 0..n
         /\ Cardinality(S \cup {n}) = Cardinality(S) + 1
<1>1. IsFiniteSet(S)
  BY TestsBelow
<1>2. n \notin S
  OBVIOUS
<1> QED  BY <1>1, <1>2, FS_AddElement

\* Every step leaves the types alone; the count of tests and points needs the
\* count of the tests passed so far.
LEMMA Typing ==
  ASSUME IInv, [Next]_vars
  PROVE  TypeOK'
<1> USE TesterAssumption DEF TypeOK, At, Goto, GoesOn, Locked, mutexVars, runVars
<1>1. ASSUME NEW t \in Threads, Moves(t) PROVE TypeOK'
  <2> USE DEF ThreadPC, Probing
  <2>a. ThreadInv(t) /\ Mutex /\ i[t] \in 0..TestsCount /\ points[t] \in 0..(TestsCount + Bonus)
    BY DEF IInv
  <2>b. pc[t] \in Counted => points[t] \in 0..i[t]
    BY <2>a, TestsBelow DEF ThreadInv, Counting
  <2>c. pc[t] \in {"test", "ran", "checked"} => pc[t] \in Counted /\ i[t] + 1 \in 0..TestsCount
    BY <2>a DEF ThreadInv, Counting, Counted, InLoop
  <2>d. TypeOK
    BY DEF IInv
  <2> USE <2>d
  <2>1. CASE Probe(t)
    BY <2>1 DEF Probe
  <2>2. CASE Release(t)
    BY <2>2, <2>a DEF Release, Leaving, Mutex
  <2>3. CASE Start(t)
    BY <2>3 DEF Start
  <2>4. CASE SetupFails(t)
    BY <2>4 DEF SetupFails
  <2>5. CASE Compile(t)
    BY <2>5 DEF Compile
  <2>6. CASE \E outcome \in CompileOutcome, exists \in BOOLEAN : Compiled(t, outcome, exists)
    BY <2>6 DEF Compiled, CompileVerdict
  <2>7. CASE LoopEnds(t)
    BY <2>7 DEF LoopEnds
  <2>8. CASE LoopHead(t)
    BY <2>8 DEF LoopHead
  <2>9. CASE CopyFails(t)
    BY <2>9 DEF CopyFails, LOOPCRASH
  <2>10. CASE RunSolution(t)
    BY <2>10 DEF RunSolution
  <2>11. CASE SolutionCrash(t)
    BY <2>11 DEF SolutionCrash, LOOPCRASH
  <2>12. CASE RunChecker(t)
    BY <2>12 DEF RunChecker
  <2>13. CASE CheckerCrash(t)
    BY <2>13 DEF CheckerCrash, LOOPCRASH
  <2>14. CASE CheckerAccepts(t)
    BY <2>14, <2>b, <2>c DEF CheckerAccepts, NextTest
  <2>15. CASE \E e \in SolutionErrors : SolutionError(t, e)
    BY <2>15, <2>c DEF SolutionError, ERR, NextTest, Errors
  <2>16. CASE \E e \in CheckerErrors : CheckerError(t, e)
    BY <2>16, <2>c DEF CheckerError, ERR, NextTest, Errors
  <2>17. CASE LoopDone(t)
    BY <2>17, <2>b DEF LoopDone, Verdict, Counted
  <2>18. CASE Final(t)
    BY <2>18 DEF Final
  <2>19. CASE Finish(t)
    BY <2>19 DEF Finish
  <2>20. CASE Free(t)
    BY <2>20 DEF Free
  <2>21. CASE StartPasses(t) \/ StartPush(t) \/ StartFull(t)
    BY <2>21 DEF StartPasses, StartPush, StartFull
  <2>22. CASE StartProbe(t)
    BY <2>22 DEF StartProbe
  <2>23. CASE StartRefused(t)
    BY <2>23 DEF StartRefused
  <2> QED  BY <1>1, <2>1, <2>2, <2>3, <2>4, <2>5, <2>6, <2>7, <2>8, <2>9,
              <2>10, <2>11, <2>12, <2>13, <2>14, <2>15, <2>16, <2>17, <2>18,
              <2>19, <2>20, <2>21, <2>22, <2>23 DEF Moves, ThreadNext, StartNext
<1>2. CASE StopTesting \/ PoolFreed \/ UNCHANGED vars
  BY <1>2 DEF IInv, StopTesting, PoolFreed, vars
<1> QED  BY <1>1, <1>2 DEF Next, Moves

\* A probe that succeeds finds the module stopped, for `active` is the module's
\* as long as it is up, and a stopped module has no thread at work.
LEMMA MutexKept ==
  ASSUME IInv, TypeOK', [Next]_vars
  PROVE  Mutex'
<1> USE TesterAssumption DEF TypeOK, Mutex, At, Goto, GoesOn, Locked, Quiet,
        MoreTests, mutexVars, runVars
<1>0. TypeOK /\ Mutex /\ \A t \in Threads : ThreadInv(t)
  BY DEF IInv
<1>1. ASSUME NEW t \in Threads, Moves(t) PROVE Mutex'
  <2> USE <1>0 DEF Probing
  <2>1. CASE Probe(t)
    BY <2>1 DEF Probe
  <2>2. CASE Release(t)
    BY <2>2 DEF Release, Leaving
  <2>3. CASE Start(t)
    BY <2>3 DEF Start
  <2>4. CASE SetupFails(t)
    BY <2>4 DEF SetupFails
  <2>5. CASE Compile(t)
    BY <2>5 DEF Compile
  <2>6. CASE \E outcome \in CompileOutcome, exists \in BOOLEAN : Compiled(t, outcome, exists)
    BY <2>6 DEF Compiled, CompileVerdict
  <2>7. CASE LoopEnds(t)
    BY <2>7 DEF LoopEnds
  <2>8. CASE LoopHead(t)
    BY <2>8 DEF LoopHead
  <2>9. CASE CopyFails(t)
    BY <2>9 DEF CopyFails, LOOPCRASH
  <2>10. CASE RunSolution(t)
    BY <2>10 DEF RunSolution
  <2>11. CASE SolutionCrash(t)
    BY <2>11 DEF SolutionCrash, LOOPCRASH
  <2>12. CASE RunChecker(t)
    BY <2>12 DEF RunChecker
  <2>13. CASE CheckerCrash(t)
    BY <2>13 DEF CheckerCrash, LOOPCRASH
  <2>14. CASE CheckerAccepts(t)
    BY <2>14 DEF CheckerAccepts, NextTest
  <2>15. CASE \E e \in SolutionErrors : SolutionError(t, e)
    BY <2>15 DEF SolutionError, ERR, NextTest
  <2>16. CASE \E e \in CheckerErrors : CheckerError(t, e)
    BY <2>16 DEF CheckerError, ERR, NextTest
  <2>17. CASE LoopDone(t)
    BY <2>17 DEF LoopDone, Verdict
  <2>18. CASE Final(t)
    BY <2>18 DEF Final
  <2>19. CASE Finish(t)
    BY <2>19 DEF Finish
  <2>20. CASE Free(t)
    BY <2>20 DEF Free
  <2>21. CASE StartPasses(t) \/ StartPush(t) \/ StartFull(t)
    BY <2>21 DEF StartPasses, StartPush, StartFull
  <2>22. CASE StartProbe(t)
    BY <2>22 DEF StartProbe
  <2>23. CASE StartRefused(t)
    BY <2>23 DEF StartRefused
  <2> QED  BY <1>1, <2>1, <2>2, <2>3, <2>4, <2>5, <2>6, <2>7, <2>8, <2>9,
              <2>10, <2>11, <2>12, <2>13, <2>14, <2>15, <2>16, <2>17, <2>18,
              <2>19, <2>20, <2>21, <2>22, <2>23 DEF Moves, ThreadNext, StartNext
<1>2. CASE StopTesting \/ PoolFreed \/ UNCHANGED vars
  BY <1>0, <1>2 DEF StopTesting, PoolFreed, vars
<1> QED  BY <1>1, <1>2 DEF Next, Moves

\* What is known of a thread holds as long as the thread does not move and the
\* module is not started again.
LEMMA ThreadFrame ==
  ASSUME NEW t \in Threads, ThreadInv(t), stopping' = "up" => stopping = "up",
         pc[t]' = pc[t], status[t]' = status[t], i[t]' = i[t], points[t]' = points[t],
         flags[t]' = flags[t], CR[t]' = CR[t], errors[t]' = errors[t], passed[t]' = passed[t]
  PROVE  ThreadInv(t)'
BY DEF ThreadInv, Statuses, Counting, Honest, Exact

\* A step of one thread is no step of another.
LEMMA OthersStay ==
  ASSUME TypeOK, NEW t \in Threads, NEW u \in Threads, u # t,
         Moves(t)
  PROVE  /\ stopping' = stopping
         /\ pc[u]' = pc[u] /\ status[u]' = status[u] /\ i[u]' = i[u] /\ points[u]' = points[u]
         /\ flags[u]' = flags[u] /\ CR[u]' = CR[u] /\ errors[u]' = errors[u] /\ passed[u]' = passed[u]
<1> USE DEF TypeOK, Goto, GoesOn, Locked, mutexVars, runVars
<1>1. CASE Probe(t)
  BY <1>1 DEF Probe
<1>2. CASE Release(t)
  BY <1>2 DEF Release, Leaving
<1>3. CASE Start(t)
  BY <1>3 DEF Start
<1>4. CASE SetupFails(t)
  BY <1>4 DEF SetupFails
<1>5. CASE Compile(t)
  BY <1>5 DEF Compile
<1>6. CASE \E outcome \in CompileOutcome, exists \in BOOLEAN : Compiled(t, outcome, exists)
  BY <1>6 DEF Compiled, CompileVerdict
<1>7. CASE LoopEnds(t)
  BY <1>7 DEF LoopEnds
<1>8. CASE LoopHead(t)
  BY <1>8 DEF LoopHead
<1>9. CASE CopyFails(t)
  BY <1>9 DEF CopyFails, LOOPCRASH
<1>10. CASE RunSolution(t)
  BY <1>10 DEF RunSolution
<1>11. CASE SolutionCrash(t)
  BY <1>11 DEF SolutionCrash, LOOPCRASH
<1>12. CASE RunChecker(t)
  BY <1>12 DEF RunChecker
<1>13. CASE CheckerCrash(t)
  BY <1>13 DEF CheckerCrash, LOOPCRASH
<1>14. CASE CheckerAccepts(t)
  BY <1>14 DEF CheckerAccepts, NextTest
<1>15. CASE \E e \in SolutionErrors : SolutionError(t, e)
  BY <1>15 DEF SolutionError, ERR, NextTest
<1>16. CASE \E e \in CheckerErrors : CheckerError(t, e)
  BY <1>16 DEF CheckerError, ERR, NextTest
<1>17. CASE LoopDone(t)
  BY <1>17 DEF LoopDone, Verdict
<1>18. CASE Final(t)
  BY <1>18 DEF Final
<1>19. CASE Finish(t)
  BY <1>19 DEF Finish
<1>20. CASE Free(t)
  BY <1>20 DEF Free
<1>21. CASE StartPasses(t) \/ StartPush(t) \/ StartFull(t)
  BY <1>21 DEF StartPasses, StartPush, StartFull
<1>22. CASE StartProbe(t)
  BY <1>22 DEF StartProbe
<1>23. CASE StartRefused(t)
  BY <1>23 DEF StartRefused
<1> QED  BY <1>1, <1>2, <1>3, <1>4, <1>5, <1>6, <1>7, <1>8, <1>9, <1>10, <1>11,
            <1>12, <1>13, <1>14, <1>15, <1>16, <1>17, <1>18, <1>19, <1>20,
            <1>21, <1>22, <1>23 DEF Moves, ThreadNext, StartNext

\* Every step of a thread keeps its status in line with its place.
LEMMA StatusesKept ==
  ASSUME IInv, NEW t \in Threads, Moves(t)
  PROVE  Statuses(t)'
<1>0. TypeOK /\ Mutex /\ Statuses(t)
  BY DEF IInv, ThreadInv
<1> USE <1>0, TesterAssumption
        DEF TypeOK, Mutex, Statuses, Waiting, Probing, At, Goto, GoesOn,
            Locked, mutexVars, runVars
<1>1. CASE Probe(t)
  BY <1>1 DEF Probe
<1>2. CASE Release(t)
  BY <1>2 DEF Release, Leaving
<1>3. CASE Start(t)
  BY <1>3 DEF Start
<1>4. CASE SetupFails(t)
  BY <1>4 DEF SetupFails
<1>5. CASE Compile(t)
  BY <1>5 DEF Compile
<1>6. CASE \E outcome \in CompileOutcome, exists \in BOOLEAN : Compiled(t, outcome, exists)
  BY <1>6 DEF Compiled, CompileVerdict
<1>7. CASE LoopEnds(t)
  BY <1>7 DEF LoopEnds
<1>8. CASE LoopHead(t)
  BY <1>8 DEF LoopHead
<1>9. CASE CopyFails(t)
  BY <1>9 DEF CopyFails, LOOPCRASH
<1>10. CASE RunSolution(t)
  BY <1>10 DEF RunSolution
<1>11. CASE SolutionCrash(t)
  BY <1>11 DEF SolutionCrash, LOOPCRASH
<1>12. CASE RunChecker(t)
  BY <1>12 DEF RunChecker
<1>13. CASE CheckerCrash(t)
  BY <1>13 DEF CheckerCrash, LOOPCRASH
<1>14. CASE CheckerAccepts(t)
  BY <1>14 DEF CheckerAccepts, NextTest
<1>15. CASE \E e \in SolutionErrors : SolutionError(t, e)
  BY <1>15 DEF SolutionError, ERR, NextTest
<1>16. CASE \E e \in CheckerErrors : CheckerError(t, e)
  BY <1>16 DEF CheckerError, ERR, NextTest
<1>17. CASE LoopDone(t)
  BY <1>17 DEF LoopDone, Verdict
<1>18. CASE Final(t)
  BY <1>18 DEF Final
<1>19. CASE Finish(t)
  BY <1>19 DEF Finish
<1>20. CASE Free(t)
  BY <1>20 DEF Free
<1>21. CASE StartPasses(t) \/ StartPush(t) \/ StartFull(t)
  BY <1>21 DEF StartPasses, StartPush, StartFull
<1>22. CASE StartProbe(t)
  BY <1>22 DEF StartProbe
<1>23. CASE StartRefused(t)
  BY <1>23 DEF StartRefused
<1> QED  BY <1>1, <1>2, <1>3, <1>4, <1>5, <1>6, <1>7, <1>8, <1>9, <1>10, <1>11,
            <1>12, <1>13, <1>14, <1>15, <1>16, <1>17, <1>18, <1>19, <1>20,
            <1>21, <1>22, <1>23 DEF Moves, ThreadNext, StartNext

\* Every step of a thread keeps the count of its tests and points.
LEMMA CountingKept ==
  ASSUME IInv, NEW t \in Threads, Moves(t)
  PROVE  Counting(t)'
<1>0. TypeOK /\ Mutex /\ Counting(t)
  BY DEF IInv, ThreadInv
<1>n. i[t] \in Nat /\ Cardinality({}) = 0
  BY <1>0, TesterAssumption, FS_EmptySet DEF TypeOK
<1> USE <1>0, <1>n, TesterAssumption
        DEF TypeOK, Counting, Counted, Fresh, InLoop, Waiting, At, Goto,
            GoesOn, Locked, mutexVars, runVars
<1>1. CASE Probe(t)
  BY <1>1 DEF Probe
<1>2. CASE Release(t)
  BY <1>2 DEF Release, Leaving, Mutex, Probing
<1>3. CASE Start(t)
  BY <1>3 DEF Start
<1>4. CASE SetupFails(t)
  BY <1>4 DEF SetupFails
<1>5. CASE Compile(t)
  BY <1>5 DEF Compile
<1>6. CASE \E outcome \in CompileOutcome, exists \in BOOLEAN : Compiled(t, outcome, exists)
  BY <1>6 DEF Compiled, CompileVerdict
<1>7. CASE LoopEnds(t)
  BY <1>7 DEF LoopEnds, MoreTests
<1>8. CASE LoopHead(t)
  BY <1>8 DEF LoopHead, MoreTests
<1>9. CASE CopyFails(t)
  BY <1>9 DEF CopyFails, LOOPCRASH
<1>10. CASE RunSolution(t)
  BY <1>10 DEF RunSolution
<1>11. CASE SolutionCrash(t)
  BY <1>11 DEF SolutionCrash, LOOPCRASH
<1>12. CASE RunChecker(t)
  BY <1>12 DEF RunChecker
<1>13. CASE CheckerCrash(t)
  BY <1>13 DEF CheckerCrash, LOOPCRASH
<1>14. CASE CheckerAccepts(t)
  BY <1>14, OneMoreTest DEF CheckerAccepts, NextTest
<1>15. CASE \E e \in SolutionErrors : SolutionError(t, e)
  BY <1>15 DEF SolutionError, ERR, NextTest
<1>16. CASE \E e \in CheckerErrors : CheckerError(t, e)
  BY <1>16 DEF CheckerError, ERR, NextTest
<1>17. CASE LoopDone(t)
  BY <1>17 DEF LoopDone, Verdict
<1>18. CASE Final(t)
  BY <1>18 DEF Final
<1>19. CASE Finish(t)
  BY <1>19 DEF Finish
<1>20. CASE Free(t)
  BY <1>20 DEF Free
<1>21. CASE StartPasses(t) \/ StartPush(t) \/ StartFull(t)
  BY <1>21 DEF StartPasses, StartPush, StartFull
<1>22. CASE StartProbe(t)
  BY <1>22 DEF StartProbe
<1>23. CASE StartRefused(t)
  BY <1>23 DEF StartRefused, Mutex
<1> QED  BY <1>1, <1>2, <1>3, <1>4, <1>5, <1>6, <1>7, <1>8, <1>9, <1>10, <1>11,
            <1>12, <1>13, <1>14, <1>15, <1>16, <1>17, <1>18, <1>19, <1>20,
            <1>21, <1>22, <1>23 DEF Moves, ThreadNext, StartNext

\* Every step of a thread keeps the verdict honest while the module is up.
LEMMA HonestKept ==
  ASSUME IInv, NEW t \in Threads, Moves(t)
  PROVE  Honest(t)'
<1>0. TypeOK /\ Mutex /\ Statuses(t) /\ Counting(t) /\ Honest(t)
  BY DEF IInv, ThreadInv
<1>n. i[t] \in Nat /\ TestsCount \in Nat /\ Cardinality({}) = 0 /\ Cardinality(AllTests) = TestsCount
  BY <1>0, TesterAssumption, FS_EmptySet, TestsBelow DEF TypeOK, AllTests
<1> USE <1>0, <1>n, TesterAssumption
        DEF TypeOK, Counting, Counted, Fresh, InLoop, Waiting, Honest, At,
            Goto, GoesOn, Locked, mutexVars, runVars
<1>1. CASE Probe(t)
  BY <1>1 DEF Probe, Mutex
<1>2. CASE Release(t)
  BY <1>2 DEF Release, Leaving, Mutex, Probing
<1>3. CASE Start(t)
  BY <1>3 DEF Start
<1>4. CASE SetupFails(t)
  BY <1>4 DEF SetupFails, Exact
<1>5. CASE Compile(t)
  BY <1>5 DEF Compile
<1>6. CASE \E outcome \in CompileOutcome, exists \in BOOLEAN : Compiled(t, outcome, exists)
  <2>1. PICK outcome \in CompileOutcome, exists \in BOOLEAN : Compiled(t, outcome, exists)
    BY <1>6
  <2>2. /\ pc[t] = "compiled" /\ points[t] = 0 /\ passed[t] = {} /\ i[t] = 0
        /\ passed' = passed /\ points' = points /\ i' = i /\ stopping' = stopping
    BY <2>1 DEF Compiled
  <2>3. CASE compile_solution(outcome, exists) > 0
    <3>1. pc'[t] = "head"
      BY <2>1, <2>3 DEF Compiled
    <3>2. passed[t] = 0..(i[t] - 1)
      BY <2>2
    <3> QED  BY <2>2, <3>1, <3>2
  <2>4. CASE ~(compile_solution(outcome, exists) > 0)
    <3>1. pc'[t] = "finish" /\ (errors'[t] = {"CR"} \/ errors'[t] = {"CE"})
      BY <2>1, <2>4 DEF Compiled, CompileVerdict
    <3>2. Exact(t)'
      BY <2>2, <3>1 DEF Exact
    <3> QED  BY <2>2, <3>1, <3>2
  <2> QED  BY <2>3, <2>4
<1>7. CASE LoopEnds(t)
  BY <1>7 DEF LoopEnds, MoreTests, AllTests
<1>8. CASE LoopHead(t)
  BY <1>8 DEF LoopHead
<1>9. CASE CopyFails(t)
  BY <1>9 DEF CopyFails, LOOPCRASH
<1>10. CASE RunSolution(t)
  BY <1>10 DEF RunSolution
<1>11. CASE SolutionCrash(t)
  BY <1>11 DEF SolutionCrash, LOOPCRASH
<1>12. CASE RunChecker(t)
  BY <1>12 DEF RunChecker
<1>13. CASE CheckerCrash(t)
  BY <1>13 DEF CheckerCrash, LOOPCRASH
<1>14. CASE CheckerAccepts(t)
  BY <1>14 DEF CheckerAccepts, NextTest
<1>15. CASE \E e \in SolutionErrors : SolutionError(t, e)
  BY <1>15 DEF SolutionError, ERR, NextTest
<1>16. CASE \E e \in CheckerErrors : CheckerError(t, e)
  BY <1>16 DEF CheckerError, ERR, NextTest
<1>17. CASE LoopDone(t)
  <2>1. /\ pc[t] = "done" /\ pc'[t] = "final" /\ passed' = passed /\ stopping' = stopping
        /\ flags[t] \subseteq {"ML", "TL", "RE", "PE", "WA"}
    BY <1>17 DEF LoopDone, Errors
  <2> SUFFICES ASSUME stopping = "up" PROVE Exact(t)'
    BY <2>1
  <2>2. CASE CR[t]
    BY <1>17, <2>1, <2>2 DEF LoopDone, Verdict, Exact
  <2>3. CASE ~CR[t] /\ flags[t] = {}
    <3>1. errors'[t] = {"OK"} /\ points'[t] = points[t] + Bonus
      BY <1>17, <2>3 DEF LoopDone, Verdict
    <3> QED  BY <2>1, <2>3, <3>1 DEF Exact
  <2>4. CASE ~CR[t] /\ flags[t] # {}
    <3>1. errors'[t] = flags[t] /\ points'[t] = points[t]
      BY <1>17, <2>4 DEF LoopDone, Verdict
    <3>2. "OK" \notin flags[t] /\ "CR" \notin flags[t] /\ "CE" \notin flags[t]
      BY <2>1
    <3>3. flags[t] # {"OK"} /\ flags[t] # {"CR"} /\ flags[t] # {"CE"}
      BY <3>2
    <3> QED  BY <2>1, <2>4, <3>1, <3>3 DEF Exact
  <2> QED  BY <2>2, <2>3, <2>4
<1>18. CASE Final(t)
  BY <1>18 DEF Final, Exact
<1>19. CASE Finish(t)
  BY <1>19 DEF Finish, Exact
<1>20. CASE Free(t)
  BY <1>20 DEF Free, Statuses
<1>21. CASE StartPasses(t) \/ StartPush(t) \/ StartFull(t)
  BY <1>21 DEF StartPasses, StartPush, StartFull
<1>22. CASE StartProbe(t)
  BY <1>22 DEF StartProbe
<1>23. CASE StartRefused(t)
  BY <1>23 DEF StartRefused, Mutex
<1> QED  BY <1>1, <1>2, <1>3, <1>4, <1>5, <1>6, <1>7, <1>8, <1>9, <1>10, <1>11,
            <1>12, <1>13, <1>14, <1>15, <1>16, <1>17, <1>18, <1>19, <1>20,
            <1>21, <1>22, <1>23 DEF Moves, ThreadNext, StartNext

\* The invariant holds initially ...
LEMMA InitIInv == Init => IInv
<1> SUFFICES ASSUME Init PROVE IInv
  OBVIOUS
<1> USE TesterAssumption DEF Init
<1>1. TypeOK
  BY DEF TypeOK, ThreadPC, Errors
<1>2. Mutex
  BY DEF Mutex, At
<1>3. ASSUME NEW t \in Threads PROVE ThreadInv(t)
  BY FS_EmptySet DEF ThreadInv, Statuses, Counting, Honest, Waiting, InLoop,
     Fresh, Counted
<1> QED  BY <1>1, <1>2, <1>3 DEF IInv

\* ... and every step keeps it.
LEMMA Inductive == IInv /\ [Next]_vars => IInv'
<1> SUFFICES ASSUME IInv, [Next]_vars PROVE IInv'
  OBVIOUS
<1>1. TypeOK' /\ Mutex'
  BY Typing, MutexKept
<1>2. ASSUME NEW u \in Threads PROVE ThreadInv(u)'
  <2>0. TypeOK /\ ThreadInv(u)
    BY DEF IInv
  <2>1. ASSUME NEW t \in Threads, Moves(t)
        PROVE  ThreadInv(u)'
    <3>1. CASE u = t
      BY <2>1, <3>1, StatusesKept, CountingKept, HonestKept DEF ThreadInv
    <3>2. CASE u # t
      BY <2>0, <2>1, <3>2, OthersStay, ThreadFrame
    <3> QED  BY <3>1, <3>2
  <2>2. CASE StopTesting \/ PoolFreed \/ UNCHANGED vars
    BY <2>0, <2>2, ThreadFrame DEF StopTesting, PoolFreed, vars, runVars, mutexVars
  <2> QED  BY <2>1, <2>2 DEF Next, Moves
<1> QED  BY <1>1, <1>2 DEF IInv

\* The inductive invariant is an invariant of the testing threads.
LEMMA IInvHolds == Spec => []IInv
BY InitIInv, Inductive, PTL DEF Spec

\* Every variable of the testing threads keeps its type: in particular no
\* thread goes past the last test or is given more points than the tests and
\* the bonus are worth.
THEOREM TypeCorrect == Spec => []TypeOK
<1>1. IInv => TypeOK
  BY DEF IInv
<1> QED  BY <1>1, IInvHolds, PTL

\* The probes of any number of threads, and those of the main loop, never
\* make a thread give up a solution while the module runs.
THEOREM OnlyStopInterrupts == Spec => []InterruptedOnlyByStop
<1>1. IInv => InterruptedOnlyByStop
  BY DEF IInv, ThreadInv, Statuses, InterruptedOnlyByStop, At
<1> QED  BY <1>1, IInvHolds, PTL

\* As long as the module is up, the verdict and the points of a finished
\* testing are exactly what its tests say, for any number of tests.
THEOREM VerdictExact == Spec => []VerdictIsExact
<1>1. IInv => VerdictIsExact
  <2> SUFFICES ASSUME IInv, NEW t \in Threads, stopping = "up", status[t] = "FINISHED"
               PROVE  Exact(t)
    BY DEF VerdictIsExact, Exact
  <2>1. pc[t] = "end"
    BY DEF IInv, ThreadInv, Statuses
  <2> QED  BY <2>1 DEF IInv, ThreadInv, Honest
<1> QED  BY <1>1, IInvHolds, PTL

\* Each step of the testing threads is a step the belts may rely on, or none
\* that they see.
LEMMA StepKeepsPromise ==
  ASSUME IInv, [Next]_vars
  PROVE  [Promise!ThreadsNext]_<<status, Accepted, stopping>>
<1>0. TypeOK /\ Mutex /\ \A t \in Threads : Statuses(t)
  BY DEF IInv, ThreadInv
<1> USE DEF Promise!ThreadsNext, Promise!Change
<1>1. ASSUME NEW t \in Threads, Start(t)
      PROVE  Promise!Begin(t)
  BY <1>0, <1>1 DEF Start, Promise!Begin, At, Goto, Statuses, Waiting, Accepted,
     TypeOK, mutexVars
<1>2. ASSUME NEW t \in Threads, Finish(t)
      PROVE  Promise!Complete(t)
  BY <1>0, <1>2 DEF Finish, Promise!Complete, At, Goto, Statuses, Waiting,
     Accepted, TypeOK, mutexVars
<1>3. ASSUME NEW t \in Threads, Free(t)
      PROVE  Promise!Interrupt(t)
  BY <1>0, <1>3 DEF Free, Promise!Interrupt, At, Goto, Statuses, Waiting,
     Accepted, TypeOK, mutexVars
<1>p. ASSUME NEW t \in Threads, StartPasses(t)
      PROVE  Promise!Accept(t)
  <2>1. stopping = "up" \/ \E u \in Threads : status[u] = "RUNNING"
    <3>1. active \in Threads \/ active = "module"
      BY <1>0, <1>p, TesterAssumption DEF StartPasses, Mutex, TypeOK
    <3>2. ASSUME active \in Threads PROVE status[active] = "RUNNING"
      BY <1>0, <3>2 DEF Mutex, Statuses, Probing, Waiting
    <3> QED  BY <1>0, <3>1, <3>2 DEF Mutex
  <2>2. Accepted' = Accepted \cup {t}
    BY <1>0, <1>p DEF StartPasses, Goto, Accepted, TypeOK
  <2> QED  BY <1>0, <1>p, <2>1, <2>2 DEF StartPasses, Promise!Accept,
              Promise!Running, At, Statuses, Waiting
<1>g. ASSUME NEW t \in Threads, StartPush(t) \/ StartFull(t)
      PROVE  Promise!GiveUp(t) \/ UNCHANGED <<status, Accepted, stopping>>
  BY <1>0, <1>g DEF StartPush, StartFull, Promise!GiveUp, At, Goto, Accepted, TypeOK
<1>4. CASE StopTesting
  BY <1>4 DEF StopTesting, Promise!BeginStop, Accepted
<1>5. CASE PoolFreed
  <2>1. \A t \in Threads : status[t] # "RUNNING"
    BY <1>0, <1>5 DEF PoolFreed, Quiet, Statuses, Waiting
  <2>2. \A t, u \in Accepted : t = u
    BY <1>0, <1>5 DEF PoolFreed, Quiet, Accepted, Mutex, At
  <2> QED  BY <1>5, <2>1, <2>2 DEF PoolFreed, Promise!EndStop, Promise!Running, Accepted
<1>6. ASSUME NEW t \in Threads, Moves(t)
      PROVE  \/ Start(t) \/ Finish(t) \/ Free(t) \/ StartPasses(t) \/ StartPush(t)
             \/ StartFull(t) \/ UNCHANGED <<status, Accepted, stopping>>
  <2> USE <1>0 DEF At, Goto, GoesOn, mutexVars, Accepted, TypeOK
  <2>1. CASE Probe(t)
    BY <2>1 DEF Probe
  <2>2. CASE Release(t)
    BY <2>2 DEF Release, Leaving, Mutex, Probing
  <2>3. CASE SetupFails(t)
    BY <2>3 DEF SetupFails
  <2>4. CASE Compile(t)
    BY <2>4 DEF Compile
  <2>5. CASE \E outcome \in CompileOutcome, exists \in BOOLEAN : Compiled(t, outcome, exists)
    BY <2>5 DEF Compiled, CompileVerdict
  <2>6. CASE LoopEnds(t)
    BY <2>6 DEF LoopEnds
  <2>7. CASE LoopHead(t)
    BY <2>7 DEF LoopHead
  <2>8. CASE CopyFails(t)
    BY <2>8 DEF CopyFails, LOOPCRASH
  <2>9. CASE RunSolution(t)
    BY <2>9 DEF RunSolution
  <2>10. CASE SolutionCrash(t)
    BY <2>10 DEF SolutionCrash, LOOPCRASH
  <2>11. CASE RunChecker(t)
    BY <2>11 DEF RunChecker
  <2>12. CASE CheckerCrash(t)
    BY <2>12 DEF CheckerCrash, LOOPCRASH
  <2>13. CASE CheckerAccepts(t)
    BY <2>13 DEF CheckerAccepts, NextTest
  <2>14. CASE \E e \in SolutionErrors : SolutionError(t, e)
    BY <2>14 DEF SolutionError, ERR, NextTest
  <2>15. CASE \E e \in CheckerErrors : CheckerError(t, e)
    BY <2>15 DEF CheckerError, ERR, NextTest
  <2>16. CASE LoopDone(t)
    BY <2>16 DEF LoopDone, Verdict
  <2>17. CASE Final(t)
    BY <2>17 DEF Final
  <2>19. CASE StartProbe(t)
    BY <2>19 DEF StartProbe
  <2>20. CASE StartRefused(t)
    BY <2>20 DEF StartRefused
  <2> QED  BY <1>6, <2>1, <2>2, <2>3, <2>4, <2>5, <2>6, <2>7, <2>8, <2>9,
              <2>10, <2>11, <2>12, <2>13, <2>14, <2>15, <2>16, <2>17,
              <2>19, <2>20 DEF Moves, ThreadNext, StartNext
<1>7. CASE UNCHANGED vars
  BY <1>7 DEF vars, mutexVars, Accepted
<1> QED  BY <1>1, <1>2, <1>3, <1>p, <1>g, <1>4, <1>5, <1>6, <1>7 DEF Next, Moves

\* The testing threads implement what the belts assume of them: a task is
\* tested at most once, ends FINISHED or, only after a stop began, INTERRUPTED;
\* the stop returns when nothing runs, and what begins after it was accepted
\* before or while another testing was running.
THEOREM PromiseKept == Spec => KeepsPromise
<1>1. Init => Promise!ThreadsInit
  BY DEF Init, Promise!ThreadsInit, Accepted
<1>2. IInv /\ [Next]_vars => [Promise!ThreadsNext]_<<status, Accepted, stopping>>
  BY StepKeepsPromise
<1> QED  BY <1>1, <1>2, IInvHolds, PTL DEF Spec, KeepsPromise,
            Promise!ThreadsSpec, Promise!threadVars
=============================================================================
