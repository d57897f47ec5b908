-------------------------- MODULE TestingPoolProofs -------------------------
(***************************************************************************)
(* Proofs about TestingPool, for every set of tasks, every max_threads and *)
(* every number of uploads.                                                *)
(***************************************************************************)
EXTENDS TestingPool, TLAPS, FiniteSetTheorems

\* The tasks being tested, in whatever pool.
Busy == {t \in Tasks : run[t] = "running"}

\* The pools created so far: one by init_testing, one for each upload that
\* suspended testing and one by the shutdown.
Created ==
  uploads + (IF upl \in {"suspend", "free", "wait", "create"} THEN 0 ELSE 1)
          + (IF shut \in {"up", "free", "wait", "create"} THEN 0 ELSE 1)

\* Pools are created one after the other, and nobody else waits for the pool a
\* caller of g_thread_pool_free waits for.
Pooled ==
  /\ \A g \in Pools : pstate[g] # "none" <=> g <= Created
  /\ freeing["uploader"] = freeing["shutdown"] => freeing["uploader"] = NoPool

\* There is one uploader at a time: it holds `mutex` all its life, and the
\* shutdown never unlocks a mutex it does not hold.
OneUploader ==
  /\ upl \notin {"none", "barred"} => mutex = "locked"
  /\ shut = "unlock" => mutex = "locked" /\ upl \in {"none", "barred"}
  /\ shut = "null" => mutex = "freed"

\* The main loop holds a task that waits.
Starting == main \in {"suspended", "probe", "count", "push"} =>
              cand \in Tasks /\ run[cand] = "waiting"

\* While the server is up only the uploader replaces the pool, and it waits
\* for the old one.
UpInv ==
  shut = "up" =>
    /\ \A t \in Busy : home[t] = pool
    /\ upl \notin {"wait", "create"} => pstate[pool] = "running"
    /\ upl = "wait" => pstate[pool] = "closing" /\ freeing["uploader"] = pool
    /\ upl = "create" => pstate[pool] = "freed" /\ Busy = {}

\* There is room in the pool between g_thread_pool_get_num_threads and the
\* push, whatever became of the pool that was asked.
Room ==
  /\ IsFiniteSet(Busy)
  /\ shut = "up" => /\ Cardinality(Busy) <= MaxThreads
                    /\ main = "push" => Cardinality(Busy) < MaxThreads

IInv == TypeOK /\ Pooled /\ OneUploader /\ Starting /\ UpInv /\ Room
-----------------------------------------------------------------------------
\* create_testing_pool makes the next pool, and there is one left for it.
LEMMA NewPool ==
  ASSUME TypeOK, Pooled, create_testing_pool, Created + 1 \in Pools
  PROVE  /\ pool' = Created + 1
         /\ pstate' = [pstate EXCEPT ![Created + 1] = "running"]
         /\ freeing' = freeing /\ pstate[Created + 1] = "none"
<1> DEFINE Unused(g) == pstate[g] = "none" /\ \A h \in 1..(g - 1) : pstate[h] # "none"
<1>1. Created \in Int
  BY DEF Created, TypeOK
<1>2. Unused(Created + 1)
  <2>1. pstate[Created + 1] = "none"
    BY <1>1 DEF Pooled
  <2>2. ASSUME NEW h \in 1..Created PROVE h \in Pools /\ h <= Created
    BY <1>1, PoolAssumption DEF Pools
  <2> QED  BY <1>1, <2>1, <2>2 DEF Pooled
<1>3. ASSUME NEW g \in Pools, Unused(g) PROVE g = Created + 1
  BY <1>1, <1>2, <1>3 DEF Pools
<1>4. (CHOOSE g \in Pools : Unused(g)) = Created + 1
  BY <1>2, <1>3
<1> QED  BY <1>2, <1>4 DEF create_testing_pool

\* Both callers of create_testing_pool find a pool left.
LEMMA PoolLeft ==
  ASSUME TypeOK, upl = "create" \/ shut = "create"
  PROVE  Created + 1 \in Pools
BY PoolAssumption DEF TypeOK, Created, Pools

\* Every step leaves the types alone and frees a pool once.
LEMMA Typing ==
  ASSUME IInv, [Next]_vars
  PROVE  TypeOK'
<1>0. TypeOK /\ Pooled /\ Starting
  BY DEF IInv
<1> USE <1>0, PoolAssumption
        DEF TypeOK, Main, Uploader, Shut, MainPC, UploaderPC, ShutPC, Freers, NoPool,
            poolVars, taskVars, mainVars, uplVars
<1>1. CASE \E t \in Tasks : StartCalled(t)
  BY <1>1 DEF StartCalled
<1>2. CASE NotSuspended
  BY <1>2 DEF NotSuspended
<1>3. CASE StartProbe
  BY <1>3 DEF StartProbe
<1>4. CASE StartRefused
  BY <1>4 DEF StartRefused, Starting
<1>5. CASE StartCount
  BY <1>5 DEF StartCount
<1>6. CASE StartPush
  BY <1>6 DEF StartPush, Starting
<1>7. CASE UploadCalled
  BY <1>7 DEF UploadCalled
<1>8. CASE UploadTry
  BY <1>8 DEF UploadTry
<1>9. CASE MainloopExit
  BY <1>9 DEF MainloopExit
<1>10. CASE RequestGets
  BY <1>10 DEF RequestGets
<1>11. CASE RequestFails
  BY <1>11 DEF RequestFails
<1>12. CASE SuspendLock
  BY <1>12 DEF SuspendLock
<1>13. CASE SuspendFree
  BY <1>13 DEF SuspendFree, PoolFreeBegins
<1>14. CASE SuspendWait
  BY <1>14 DEF SuspendWait, Pooled, PoolFreeReturns
<1>15. CASE SuspendCreate
  BY <1>15, NewPool, PoolLeft DEF SuspendCreate
<1>16. CASE UploadTask
  BY <1>16 DEF UploadTask
<1>17. CASE ResumeTesting
  <2>1. suspended' \in BOOLEAN
    BY <1>17 DEF ResumeTesting
  <2> QED  BY <1>17, <2>1 DEF ResumeTesting
<1>18. CASE UploaderLeaves
  BY <1>18 DEF UploaderLeaves
<1>19. CASE StopTesting
  BY <1>19 DEF StopTesting
<1>20. CASE StopFree
  BY <1>20 DEF StopFree, PoolFreeBegins
<1>21. CASE StopWait
  BY <1>21 DEF StopWait, Pooled, PoolFreeReturns
<1>22. CASE StopCreate
  BY <1>22, NewPool, PoolLeft DEF StopCreate
<1>23. CASE StopUploading
  BY <1>23 DEF StopUploading
<1>24. CASE MutexLock
  BY <1>24 DEF MutexLock
<1>25. CASE MutexUnlock
  BY <1>25 DEF MutexUnlock
<1>26. CASE MutexFree
  BY <1>26 DEF MutexFree
<1>27. CASE MutexNull
  BY <1>27 DEF MutexNull
<1>28. CASE MainloopJoin
  BY <1>28 DEF MainloopJoin
<1>29. CASE \E t \in Tasks : ThreadEnds(t)
  BY <1>29 DEF ThreadEnds
<1>30. CASE UNCHANGED vars
  BY <1>30 DEF vars
<1> QED  BY <1>1, <1>2, <1>3, <1>4, <1>5, <1>6, <1>7, <1>8, <1>9, <1>10, <1>11,
            <1>12, <1>13, <1>14, <1>15, <1>16, <1>17, <1>18, <1>19, <1>20,
            <1>21, <1>22, <1>23, <1>24, <1>25, <1>26, <1>27, <1>28, <1>29, <1>30
            DEF Next, MainNext, UploaderNext, ShutNext

\* Every step keeps the pools in order.
LEMMA PooledKept ==
  ASSUME IInv, [Next]_vars
  PROVE  Pooled'
<1>0. TypeOK /\ Pooled /\ OneUploader
  BY DEF IInv
<1> USE <1>0, PoolAssumption
        DEF TypeOK, Pooled, Main, Uploader, Shut, Freers, NoPool, Created,
            poolVars, taskVars, mainVars, uplVars
<1>1. CASE \E t \in Tasks : StartCalled(t)
  BY <1>1 DEF StartCalled
<1>2. CASE NotSuspended
  BY <1>2 DEF NotSuspended
<1>3. CASE StartProbe
  BY <1>3 DEF StartProbe
<1>4. CASE StartRefused
  BY <1>4 DEF StartRefused
<1>5. CASE StartCount
  BY <1>5 DEF StartCount
<1>6. CASE StartPush
  BY <1>6 DEF StartPush
<1>7. CASE UploadCalled
  BY <1>7 DEF UploadCalled
<1>8. CASE UploadTry
  BY <1>8 DEF UploadTry, OneUploader
<1>9. CASE MainloopExit
  BY <1>9 DEF MainloopExit
<1>10. CASE RequestGets
  BY <1>10 DEF RequestGets
<1>11. CASE RequestFails
  BY <1>11 DEF RequestFails
<1>12. CASE SuspendLock
  BY <1>12 DEF SuspendLock
<1>13. CASE SuspendFree
  BY <1>13 DEF SuspendFree, PoolFreeBegins
<1>14. CASE SuspendWait
  BY <1>14 DEF SuspendWait, PoolFreeReturns
<1>15. CASE SuspendCreate
  <2>1. /\ Created + 1 \in Pools /\ Created' = Created + 1 /\ Created \in Int
        /\ pstate' = [pstate EXCEPT ![Created + 1] = "running"] /\ freeing' = freeing
    BY <1>15, NewPool, PoolLeft DEF SuspendCreate, Created
  <2> QED  BY <2>1 DEF Pooled, Pools
<1>16. CASE UploadTask
  BY <1>16 DEF UploadTask
<1>17. CASE ResumeTesting
  BY <1>17 DEF ResumeTesting
<1>18. CASE UploaderLeaves
  BY <1>18 DEF UploaderLeaves
<1>19. CASE StopTesting
  BY <1>19 DEF StopTesting
<1>20. CASE StopFree
  BY <1>20 DEF StopFree, PoolFreeBegins
<1>21. CASE StopWait
  BY <1>21 DEF StopWait, PoolFreeReturns
<1>22. CASE StopCreate
  <2>1. /\ Created + 1 \in Pools /\ Created' = Created + 1 /\ Created \in Int
        /\ pstate' = [pstate EXCEPT ![Created + 1] = "running"] /\ freeing' = freeing
    BY <1>22, NewPool, PoolLeft DEF StopCreate, Created
  <2> QED  BY <2>1 DEF Pooled, Pools
<1>23. CASE StopUploading
  BY <1>23 DEF StopUploading
<1>24. CASE MutexLock
  BY <1>24 DEF MutexLock
<1>25. CASE MutexUnlock
  BY <1>25 DEF MutexUnlock
<1>26. CASE MutexFree
  BY <1>26 DEF MutexFree
<1>27. CASE MutexNull
  BY <1>27 DEF MutexNull
<1>28. CASE MainloopJoin
  BY <1>28 DEF MainloopJoin
<1>29. CASE \E t \in Tasks : ThreadEnds(t)
  BY <1>29 DEF ThreadEnds
<1>30. CASE UNCHANGED vars
  BY <1>30 DEF vars
<1> QED  BY <1>1, <1>2, <1>3, <1>4, <1>5, <1>6, <1>7, <1>8, <1>9, <1>10, <1>11,
            <1>12, <1>13, <1>14, <1>15, <1>16, <1>17, <1>18, <1>19, <1>20,
            <1>21, <1>22, <1>23, <1>24, <1>25, <1>26, <1>27, <1>28, <1>29, <1>30
            DEF Next, MainNext, UploaderNext, ShutNext

\* Every step keeps the uploader alone.
LEMMA OneUploaderKept ==
  ASSUME IInv, [Next]_vars
  PROVE  OneUploader'
<1>0. TypeOK /\ OneUploader
  BY DEF IInv
<1> USE <1>0 DEF TypeOK, OneUploader, Main, Uploader, Shut, mainVars, uplVars
<1>1. CASE \E t \in Tasks : StartCalled(t)
  BY <1>1 DEF StartCalled
<1>2. CASE NotSuspended
  BY <1>2 DEF NotSuspended
<1>3. CASE StartProbe
  BY <1>3 DEF StartProbe
<1>4. CASE StartRefused
  BY <1>4 DEF StartRefused
<1>5. CASE StartCount
  BY <1>5 DEF StartCount
<1>6. CASE StartPush
  BY <1>6 DEF StartPush
<1>7. CASE UploadCalled
  BY <1>7 DEF UploadCalled
<1>8. CASE UploadTry
  BY <1>8 DEF UploadTry
<1>9. CASE MainloopExit
  BY <1>9 DEF MainloopExit
<1>10. CASE RequestGets
  BY <1>10 DEF RequestGets
<1>11. CASE RequestFails
  BY <1>11 DEF RequestFails
<1>12. CASE SuspendLock
  BY <1>12 DEF SuspendLock
<1>13. CASE SuspendFree
  BY <1>13 DEF SuspendFree, PoolFreeBegins
<1>14. CASE SuspendWait
  BY <1>14 DEF SuspendWait, PoolFreeReturns
<1>15. CASE SuspendCreate
  BY <1>15 DEF SuspendCreate, create_testing_pool
<1>16. CASE UploadTask
  BY <1>16 DEF UploadTask
<1>17. CASE ResumeTesting
  BY <1>17 DEF ResumeTesting
<1>18. CASE UploaderLeaves
  BY <1>18 DEF UploaderLeaves
<1>19. CASE StopTesting
  BY <1>19 DEF StopTesting
<1>20. CASE StopFree
  BY <1>20 DEF StopFree, PoolFreeBegins
<1>21. CASE StopWait
  BY <1>21 DEF StopWait, PoolFreeReturns
<1>22. CASE StopCreate
  BY <1>22 DEF StopCreate, create_testing_pool
<1>23. CASE StopUploading
  BY <1>23 DEF StopUploading
<1>24. CASE MutexLock
  BY <1>24 DEF MutexLock
<1>25. CASE MutexUnlock
  BY <1>25 DEF MutexUnlock
<1>26. CASE MutexFree
  BY <1>26 DEF MutexFree
<1>27. CASE MutexNull
  BY <1>27 DEF MutexNull
<1>28. CASE MainloopJoin
  BY <1>28 DEF MainloopJoin
<1>29. CASE \E t \in Tasks : ThreadEnds(t)
  BY <1>29 DEF ThreadEnds
<1>30. CASE UNCHANGED vars
  BY <1>30 DEF vars
<1> QED  BY <1>1, <1>2, <1>3, <1>4, <1>5, <1>6, <1>7, <1>8, <1>9, <1>10, <1>11,
            <1>12, <1>13, <1>14, <1>15, <1>16, <1>17, <1>18, <1>19, <1>20,
            <1>21, <1>22, <1>23, <1>24, <1>25, <1>26, <1>27, <1>28, <1>29, <1>30
            DEF Next, MainNext, UploaderNext, ShutNext

\* Every step keeps the task of the main loop waiting.
LEMMA StartingKept ==
  ASSUME IInv, [Next]_vars
  PROVE  Starting'
<1>0. TypeOK /\ Starting
  BY DEF IInv
<1> USE <1>0, PoolAssumption DEF TypeOK, Starting, Main, Uploader, Shut,
        taskVars, mainVars
<1>1. CASE \E t \in Tasks : StartCalled(t)
  BY <1>1 DEF StartCalled
<1>2. CASE NotSuspended
  BY <1>2 DEF NotSuspended
<1>3. CASE StartProbe
  BY <1>3 DEF StartProbe
<1>4. CASE StartRefused
  BY <1>4 DEF StartRefused
<1>5. CASE StartCount
  BY <1>5 DEF StartCount
<1>6. CASE StartPush
  BY <1>6 DEF StartPush
<1>7. CASE UploadCalled
  BY <1>7 DEF UploadCalled
<1>8. CASE UploadTry
  BY <1>8 DEF UploadTry
<1>9. CASE MainloopExit
  BY <1>9 DEF MainloopExit
<1>10. CASE RequestGets
  BY <1>10 DEF RequestGets
<1>11. CASE RequestFails
  BY <1>11 DEF RequestFails
<1>12. CASE SuspendLock
  BY <1>12 DEF SuspendLock
<1>13. CASE SuspendFree
  BY <1>13 DEF SuspendFree, PoolFreeBegins
<1>14. CASE SuspendWait
  BY <1>14 DEF SuspendWait, PoolFreeReturns
<1>15. CASE SuspendCreate
  BY <1>15 DEF SuspendCreate, create_testing_pool
<1>16. CASE UploadTask
  BY <1>16 DEF UploadTask
<1>17. CASE ResumeTesting
  BY <1>17 DEF ResumeTesting
<1>18. CASE UploaderLeaves
  BY <1>18 DEF UploaderLeaves
<1>19. CASE StopTesting
  BY <1>19 DEF StopTesting
<1>20. CASE StopFree
  BY <1>20 DEF StopFree, PoolFreeBegins
<1>21. CASE StopWait
  BY <1>21 DEF StopWait, PoolFreeReturns
<1>22. CASE StopCreate
  BY <1>22 DEF StopCreate, create_testing_pool
<1>23. CASE StopUploading
  BY <1>23 DEF StopUploading
<1>24. CASE MutexLock
  BY <1>24 DEF MutexLock
<1>25. CASE MutexUnlock
  BY <1>25 DEF MutexUnlock
<1>26. CASE MutexFree
  BY <1>26 DEF MutexFree
<1>27. CASE MutexNull
  BY <1>27 DEF MutexNull
<1>28. CASE MainloopJoin
  BY <1>28 DEF MainloopJoin
<1>29. CASE \E t \in Tasks : ThreadEnds(t)
  BY <1>29 DEF ThreadEnds
<1>30. CASE UNCHANGED vars
  BY <1>30 DEF vars
<1> QED  BY <1>1, <1>2, <1>3, <1>4, <1>5, <1>6, <1>7, <1>8, <1>9, <1>10, <1>11,
            <1>12, <1>13, <1>14, <1>15, <1>16, <1>17, <1>18, <1>19, <1>20,
            <1>21, <1>22, <1>23, <1>24, <1>25, <1>26, <1>27, <1>28, <1>29, <1>30
            DEF Next, MainNext, UploaderNext, ShutNext

\* Every step of a server that is up keeps the testings in the pool of the
\* pointer.
LEMMA UpInvKept ==
  ASSUME IInv, [Next]_vars
  PROVE  UpInv'
<1>0. TypeOK /\ Pooled /\ UpInv /\ OneUploader /\ Starting
  BY DEF IInv
<1> USE <1>0, PoolAssumption
        DEF TypeOK, UpInv, Busy, Main, Uploader, Shut, Freers, NoPool,
            poolVars, taskVars, mainVars, uplVars
<1>1. CASE \E t \in Tasks : StartCalled(t)
  BY <1>1 DEF StartCalled
<1>2. CASE NotSuspended
  BY <1>2 DEF NotSuspended
<1>3. CASE StartProbe
  BY <1>3 DEF StartProbe
<1>4. CASE StartRefused
  BY <1>4 DEF StartRefused
<1>5. CASE StartCount
  BY <1>5 DEF StartCount
<1>6. CASE StartPush
  BY <1>6 DEF StartPush, Starting
<1>7. CASE UploadCalled
  BY <1>7 DEF UploadCalled
<1>8. CASE UploadTry
  BY <1>8 DEF UploadTry, OneUploader
<1>9. CASE MainloopExit
  BY <1>9 DEF MainloopExit
<1>10. CASE RequestGets
  BY <1>10 DEF RequestGets
<1>11. CASE RequestFails
  BY <1>11 DEF RequestFails
<1>12. CASE SuspendLock
  BY <1>12 DEF SuspendLock
<1>13. CASE SuspendFree
  BY <1>13 DEF SuspendFree, PoolFreeBegins
<1>14. CASE SuspendWait
  BY <1>14 DEF SuspendWait, Drained, Running, Pools, PoolFreeReturns
<1>15. CASE SuspendCreate
  BY <1>15, NewPool, PoolLeft DEF SuspendCreate
<1>16. CASE UploadTask
  BY <1>16 DEF UploadTask
<1>17. CASE ResumeTesting
  BY <1>17 DEF ResumeTesting
<1>18. CASE UploaderLeaves
  BY <1>18 DEF UploaderLeaves
<1>19. CASE StopTesting
  BY <1>19 DEF StopTesting
<1>20. CASE StopFree
  BY <1>20 DEF StopFree, PoolFreeBegins
<1>21. CASE StopWait
  BY <1>21 DEF StopWait, PoolFreeReturns
<1>22. CASE StopCreate
  BY <1>22, NewPool, PoolLeft DEF StopCreate
<1>23. CASE StopUploading
  BY <1>23 DEF StopUploading
<1>24. CASE MutexLock
  BY <1>24 DEF MutexLock
<1>25. CASE MutexUnlock
  BY <1>25 DEF MutexUnlock
<1>26. CASE MutexFree
  BY <1>26 DEF MutexFree
<1>27. CASE MutexNull
  BY <1>27 DEF MutexNull
<1>28. CASE MainloopJoin
  BY <1>28 DEF MainloopJoin
<1>29. CASE \E t \in Tasks : ThreadEnds(t)
  BY <1>29 DEF ThreadEnds
<1>30. CASE UNCHANGED vars
  BY <1>30 DEF vars
<1> QED  BY <1>1, <1>2, <1>3, <1>4, <1>5, <1>6, <1>7, <1>8, <1>9, <1>10, <1>11,
            <1>12, <1>13, <1>14, <1>15, <1>16, <1>17, <1>18, <1>19, <1>20,
            <1>21, <1>22, <1>23, <1>24, <1>25, <1>26, <1>27, <1>28, <1>29, <1>30
            DEF Next, MainNext, UploaderNext, ShutNext

\* Every step keeps room for what the main loop is about to push.
LEMMA RoomKept ==
  ASSUME IInv, [Next]_vars
  PROVE  Room'
<1>0. TypeOK /\ UpInv /\ Starting /\ Room
  BY DEF IInv
<1> USE <1>0, PoolAssumption
        DEF TypeOK, Main, Uploader, Shut, poolVars, taskVars, mainVars, uplVars
<1>s. ASSUME Busy' = Busy, shut' = "up" => shut = "up",
             main' = "push" => main = "push"
      PROVE  Room'
  BY <1>s DEF Room
<1>1. CASE \E t \in Tasks : StartCalled(t)
  BY <1>1, <1>s DEF StartCalled, Busy
<1>2. CASE NotSuspended
  BY <1>2, <1>s DEF NotSuspended, Busy
<1>3. CASE StartProbe
  BY <1>3, <1>s DEF StartProbe, Busy
<1>4. CASE StartRefused
  BY <1>4, <1>s DEF StartRefused, Busy, Starting
<1>5. CASE StartCount
  <2>1. Busy' = Busy /\ shut' = shut
    BY <1>5 DEF StartCount, Busy
  <2>2. CASE shut = "up" /\ main' = "push"
    <3>1. Running(pool) = Busy
      BY <2>2 DEF UpInv, Running, Busy
    <3>2. Cardinality(Busy) \in Nat /\ ~(Cardinality(Busy) >= MaxThreads)
      BY <1>5, <2>2, <3>1, FS_CardinalityType DEF StartCount, PoolIsFull, Room
    <3> QED  BY <2>1, <3>2 DEF Room
  <2> QED  BY <2>1, <2>2 DEF Room
<1>6. CASE StartPush
  <2>1. cand \in Tasks /\ cand \notin Busy /\ shut' = shut /\ main = "push" /\ main' = "idle"
    BY <1>6 DEF StartPush, Starting, Busy
  <2>2. Busy' = Busy \/ Busy' = Busy \cup {cand}
    BY <1>6, <2>1 DEF StartPush, Busy
  <2>3. CASE Busy' = Busy
    BY <2>1, <2>3 DEF Room
  <2>4. CASE Busy' = Busy \cup {cand}
    <3>1. IsFiniteSet(Busy') /\ Cardinality(Busy') = Cardinality(Busy) + 1
      BY <2>1, <2>4, FS_AddElement DEF Room
    <3>2. Cardinality(Busy) \in Nat
      BY FS_CardinalityType DEF Room
    <3> QED  BY <2>1, <3>1, <3>2 DEF Room
  <2> QED  BY <2>2, <2>3, <2>4
<1>7. CASE UploadCalled
  BY <1>7, <1>s DEF UploadCalled, Busy
<1>8. CASE UploadTry
  BY <1>8, <1>s DEF UploadTry, Busy
<1>9. CASE MainloopExit
  BY <1>9, <1>s DEF MainloopExit, Busy
<1>10. CASE RequestGets
  BY <1>10, <1>s DEF RequestGets, Busy
<1>11. CASE RequestFails
  BY <1>11, <1>s DEF RequestFails, Busy
<1>12. CASE SuspendLock
  BY <1>12, <1>s DEF SuspendLock, Busy
<1>13. CASE SuspendFree
  BY <1>13, <1>s DEF SuspendFree, PoolFreeBegins, Busy
<1>14. CASE SuspendWait
  BY <1>14, <1>s DEF SuspendWait, PoolFreeReturns, Busy
<1>15. CASE SuspendCreate
  BY <1>15, <1>s DEF SuspendCreate, Busy
<1>16. CASE UploadTask
  BY <1>16, <1>s DEF UploadTask, Busy
<1>17. CASE ResumeTesting
  BY <1>17, <1>s DEF ResumeTesting, Busy
<1>18. CASE UploaderLeaves
  BY <1>18, <1>s DEF UploaderLeaves, Busy
<1>19. CASE StopTesting
  BY <1>19, <1>s DEF StopTesting, Busy
<1>20. CASE StopFree
  BY <1>20, <1>s DEF StopFree, PoolFreeBegins, Busy
<1>21. CASE StopWait
  BY <1>21, <1>s DEF StopWait, PoolFreeReturns, Busy
<1>22. CASE StopCreate
  BY <1>22, <1>s DEF StopCreate, Busy
<1>23. CASE StopUploading
  BY <1>23, <1>s DEF StopUploading, Busy
<1>24. CASE MutexLock
  BY <1>24, <1>s DEF MutexLock, Busy
<1>25. CASE MutexUnlock
  BY <1>25, <1>s DEF MutexUnlock, Busy
<1>26. CASE MutexFree
  BY <1>26, <1>s DEF MutexFree, Busy
<1>27. CASE MutexNull
  BY <1>27, <1>s DEF MutexNull, Busy
<1>28. CASE MainloopJoin
  BY <1>28, <1>s DEF MainloopJoin, Busy
<1>29. CASE \E t \in Tasks : ThreadEnds(t)
  <2>1. Busy' \subseteq Busy /\ shut' = shut /\ main' = main
    BY <1>29 DEF ThreadEnds, Busy
  <2>2. IsFiniteSet(Busy') /\ Cardinality(Busy') <= Cardinality(Busy)
    BY <2>1, FS_Subset DEF Room
  <2>3. Cardinality(Busy) \in Nat /\ Cardinality(Busy') \in Nat
    BY <2>2, FS_CardinalityType DEF Room
  <2> QED  BY <2>1, <2>2, <2>3 DEF Room
<1>30. CASE UNCHANGED vars
  BY <1>30, <1>s DEF vars, Busy
<1> QED  BY <1>1, <1>2, <1>3, <1>4, <1>5, <1>6, <1>7, <1>8, <1>9, <1>10, <1>11,
            <1>12, <1>13, <1>14, <1>15, <1>16, <1>17, <1>18, <1>19, <1>20,
            <1>21, <1>22, <1>23, <1>24, <1>25, <1>26, <1>27, <1>28, <1>29, <1>30
            DEF Next, MainNext, UploaderNext, ShutNext

\* The invariant holds initially ...
LEMMA InitIInv == Init => IInv
<1> SUFFICES ASSUME Init PROVE IInv
  OBVIOUS
<1> USE PoolAssumption DEF Init
<1>1. TypeOK
  <2>1. 1 \in Pools /\ 0 \in 0..MaxUploads
    BY DEF Pools
  <2> QED  BY <2>1 DEF TypeOK, Freers, NoPool, MainPC, UploaderPC, ShutPC
<1>2. Pooled
  BY DEF Pooled, Created, Pools, Freers
<1>3. OneUploader /\ Starting
  BY DEF OneUploader, Starting
<1>4. Busy = {} /\ 1 \in Pools
  BY DEF Busy, Pools
<1>5. UpInv
  BY <1>4 DEF UpInv
<1>6. Room
  BY <1>4, FS_EmptySet DEF Room
<1> QED  BY <1>1, <1>2, <1>3, <1>5, <1>6 DEF IInv

\* ... and every step keeps it.
LEMMA Inductive == IInv /\ [Next]_vars => IInv'
BY Typing, PooledKept, OneUploaderKept, StartingKept, UpInvKept, RoomKept DEF IInv

\* The inductive invariant is an invariant of the pool.
LEMMA IInvHolds == Spec => []IInv
BY InitIInv, Inductive, PTL DEF Spec

\* Every variable has its type, every suspension finds a pool to make, and
\* g_thread_pool_free never waits for a pool another thread has freed.
THEOREM TypeCorrect == Spec => []TypeOK
<1>1. IInv => TypeOK
  BY DEF IInv
<1> QED  BY <1>1, IInvHolds, PTL

\* For any number of tasks and uploads, SuspendTesting returns when no testing
\* of the old pool is left.
THEOREM SuspensionWaits == Spec => []OldTestingsAreOver
<1>1. IInv => OldTestingsAreOver
  BY DEF IInv, UpInv, Busy, OldTestingsAreOver
<1> QED  BY <1>1, IInvHolds, PTL

\* For any max_threads, the count before the push is enough to keep to it,
\* even when the pool is replaced between the count and the push.
THEOREM MaxThreadsKept == Spec => []AtMostMaxThreads
<1>1. IInv => AtMostMaxThreads
  BY DEF IInv, Room, Busy, AtMostMaxThreads
<1> QED  BY <1>1, IInvHolds, PTL
=============================================================================
