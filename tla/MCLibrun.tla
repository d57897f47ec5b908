------------------------------ MODULE MCLibrun ------------------------------
(* Instances of Librun for TLC. *)
EXTENDS Librun, TLC

CONSTANTS p1, p2

OneProc == {p1}
TwoProcs == {p1, p2}
OwnPid == [p \in Procs |-> p]
OnePid == [p \in Procs |-> "pid"]
Exit0 == {"exit0"}
AllEnds == {"exit0", "exit1", "signaled"}
Time == {"TIMELIMIT"}
NoFaults == {}
ProcSymmetry == Permutations(Procs)
=============================================================================
