------------------------------ MODULE MCBelts -------------------------------
(* Small instances of Belts for TLC. *)
EXTENDS Belts, TLC

CONSTANTS t1, t2, s1

TwoTasks == {t1, t2}
OneTask == {t1}
OneSlot == {s1}

AllFaults == Outcome
LostRequests == {"ok", "no_request"}
NoFaults == {"ok"}

TaskSymmetry == Permutations(TwoTasks)
=============================================================================
