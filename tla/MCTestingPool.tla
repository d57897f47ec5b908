---------------------------- MODULE MCTestingPool ---------------------------
(* Small instances of TestingPool for TLC. *)
EXTENDS TestingPool

CONSTANTS t1, t2

TwoTasks == {t1, t2}
=============================================================================
