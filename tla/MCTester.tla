------------------------------ MODULE MCTester ------------------------------
(* The testing threads and, as they share nothing else, the directories    *)
(* they test in: either the ones move or the others.                       *)
EXTENDS Tester, TestingDirs

CONSTANTS w1, w2

TwoThreads == {w1, w2}
RuntimeError == {"RE"}
WrongAnswer == {"WA"}

NoTesting == stopping = "up" /\ \A t \in Threads : pc[t] = "none" /\ ~acm[t]

MCInit == Init /\ DirsInit

MCNext == \/ testings = 0 /\ Next /\ UNCHANGED dirVars
          \/ NoTesting /\ DirsNext /\ UNCHANGED vars

MCSpec == MCInit /\ [][MCNext]_<<vars, dirVars>> /\ Fairness
=============================================================================
