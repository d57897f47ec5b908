----------------------------- MODULE RunProcess -----------------------------
(***************************************************************************)
(* The descriptor of a process under librun (run_process_info_t of         *)
(* librun/run.h) and what run.c does to it, as operators on a record.      *)
(*                                                                         *)
(* `state` is the set of PS_ bits.  An amount of time or memory is         *)
(* abstracted to the set of limits it exceeds, a subset of Limits.  PIDs   *)
(* and unique numbers are values; NoPid is 0.                              *)
(***************************************************************************)
EXTENDS Integers

CONSTANT NoPid

Limits == {"TIMELIMIT", "MEMORYLIMIT"}
StateBits == Limits \cup {"STARTING", "RUNNING", "FINISHED", "KILLED", "TERMINATED",
                          "STOPPED", "CONTINUED", "EXECERROR"}

\* zerolize_process and spawn_new_process.
NewProcess(unique) ==
  [state |-> {}, unique |-> unique, locked |-> FALSE, inbelts |-> FALSE,
   lrvm_pid |-> FALSE, task_pid |-> NoPid, late |-> FALSE, zombied |-> FALSE,
   exit_code |-> 0, term_sig |-> FALSE, stop_sig |-> FALSE,
   usage |-> {}, err_desc |-> FALSE]

\* SET_PROCESS_EXECERROR.
ExecError(proc) == [proc EXCEPT !.state = {"EXECERROR"}, !.err_desc = TRUE]

\* RUN_PROC_STATE_EXECUTING.
Executing(proc) == proc.state \cap {"RUNNING", "STOPPED", "CONTINUED"} # {}

\* RUN_PROC_GETSIGNAL.
Signals(proc) == proc.state \cap {"TERMINATED", "KILLED", "STOPPED", "CONTINUED"}

\* No answer of LRVM yet.
Unanswered(proc) == ~proc.lrvm_pid \/ proc.task_pid = NoPid

\* run_process_terminated, run_process_stopped, run_process_continued.
run_process_terminated(proc) ==
  IF proc.locked THEN proc
  ELSE [proc EXCEPT !.state = {"TERMINATED"}, !.term_sig = TRUE]

run_process_stopped(proc) ==
  IF proc.locked THEN proc
  ELSE [proc EXCEPT !.state = {"STOPPED"}, !.stop_sig = TRUE]

run_process_continued(proc) ==
  IF proc.locked THEN proc ELSE [proc EXCEPT !.state = {"CONTINUED"}]

\* Mutant of Finalized: the limits are not looked at again.
FinalizedUnlimited(proc, signals, over) ==
  [proc EXCEPT !.usage = over, !.state = signals \cup {"FINISHED"}, !.locked = FALSE]

\* The end of run_finalize_executing: the record was found.
Finalized(proc, signals, over) ==
  [proc EXCEPT !.usage = over, !.state = signals \cup over \cup {"FINISHED"},
               !.locked = FALSE]

\* The end of run_kill_process.
Killed(proc, why) ==
  [proc EXCEPT !.state = {"KILLED"} \cup why \cup (@ \cap {"EXECERROR"}),
               !.lrvm_pid = FALSE, !.locked = FALSE]

\* Mutant of ThreadLeaves: the description of an error is not looked at.
ThreadLeavesSilently(proc) == proc

\* The end of execute_thread.
ThreadLeaves(proc) ==
  IF proc.err_desc THEN [proc EXCEPT !.state = @ \cup {"EXECERROR"}] ELSE proc
=============================================================================
