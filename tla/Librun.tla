------------------------------- MODULE Librun -------------------------------
(***************************************************************************)
(* librun: running a command under limits (librun/run.c, hv.c, hv_pool.c,  *)
(* ipc.c, ipc_builtin.c, unique.c) together with what it runs: LRVM, the   *)
(* little supervisor that forks and watches the task (librun/lrvm/main.c), *)
(* the task itself and the kernel's accounting.                            *)
(*                                                                         *)
(* Four kinds of threads of the server touch a descriptor:                 *)
(*   - the caller: create, execute, wait, free;                            *)
(*   - the execute thread of the process: pipe to LRVM, belts;             *)
(*   - the listening thread, one for all: accepts LRVMs, executes their    *)
(*     commands, overviews the belts and kills;                            *)
(*   - the accounting thread, which fills the pool of exit statistics.     *)
(* `locked` is a plain flag, not a mutex: the listening thread leaves a    *)
(* locked process alone.  Only the list of belts has a mutex.              *)
(***************************************************************************)
EXTENDS RunProcess, HvPool, FiniteSets

CONSTANTS
  Procs,     \* runs of a command
  Pid,       \* the PID the kernel gives the task of each run
  MaxClients,\* size of the table of IPC clients
  MaxUnique, \* size of the pool of unique numbers
  ArrSize,   \* size of an array of the accounting pool
  NoProc,
  MaxCallers,\* how many commands are run at a time (threads of the tester)
  Ends,      \* how a task may end
  Exceeds,   \* the limits a task may exceed
  Faults,    \* what else the environment may do, a subset of AllFaults
  MaxFaults  \* ... and how often: a bound of the model

AllFaults == {"thread", "unpack", "popen", "lrvm", "fork", "access", "exec", "late",
              "timeout", "stop", "term", "zombie", "keep", "lost", "old"}

ASSUME LibrunAssumption ==
  /\ MaxClients \in Nat \ {0} /\ MaxUnique \in Nat \ {0} /\ ArrSize \in Nat \ {0}
  /\ NoProc \notin Procs
  /\ \A p \in Procs : Pid[p] # NoPid
  /\ MaxCallers \in Nat \ {0} /\ MaxFaults \in Nat
  /\ Ends \subseteq {"exit0", "exit1", "signaled"} /\ Exceeds \subseteq Limits
  /\ Faults \subseteq AllFaults

Cells == 1..MaxClients

VARIABLES
  caller,   \* of each run: how far the thread is that asked for it
  pr,       \* its descriptor
  thread,   \* its execute thread
  lrvm,     \* its LRVM: the command it waits for an answer of
  task,     \* its task
  over,     \* the limits the task really exceeds
  stats,    \* the kernel's exit statistics of the task
  out,      \* the socket of LRVM: commands the server has not received
  ans,      \* ... and the first unread answer
  conn,     \* ... and whether the server has it
  upool,    \* unique numbers
  cell,     \* the table of clients
  pool,     \* exit statistics
  listener, \* the listening thread
  hv        \* the hypervisor: "up", "stopping", "deaf" (no accounting thread), "down"
VARIABLES
  applied,  \* ghost: <<p, q>>: a command of p's LRVM was applied to q
  faults    \* how often the environment has misbehaved

envVars == <<lrvm, task, over, stats, out, ans, conn>>
vars == <<caller, pr, thread, envVars, upool, cell, pool, listener, hv, applied, faults>>

FreeCell == [owner |-> NoProc, unique |-> -1, key |-> NoProc, cmd |-> <<>>, stale |-> FALSE]

Listening == [pc |-> "listen", at |-> 0, proc |-> NoProc, signals |-> {}, todo |-> {}]

\* run_init, run_hypervisor_init and what they call.
Init ==
  /\ caller = [p \in Procs |-> "none"]
  /\ pr = [p \in Procs |-> NewProcess(-1)]
  /\ thread = [p \in Procs |-> "none"]
  /\ lrvm = [p \in Procs |-> "none"] /\ task = [p \in Procs |-> "none"]
  /\ over = [p \in Procs |-> {}] /\ stats = [p \in Procs |-> "none"]
  /\ out = [p \in Procs |-> <<>>] /\ ans = [p \in Procs |-> "none"]
  /\ conn = [p \in Procs |-> "none"]
  /\ upool = unique_pool_create(MaxUnique)
  /\ cell = [c \in Cells |-> FreeCell]
  /\ pool = <<>>
  /\ listener = Listening
  /\ hv = "up"
  /\ applied = {} /\ faults = 0
-----------------------------------------------------------------------------
Alive(p) == lrvm[p] \notin {"none", "dead"}
Halted(p) == task[p] \in {"stopped", "halted"}
Running(p) == Halted(p) \/ task[p] \in {"running", "resumed", "doomed"}
Ended(p) == task[p] \in {"exit0", "exit1", "signaled"}

InBelts(p) == pr[p].inbelts

\* Nobody holds belts_mutex.
BeltsFree == listener.pc \notin {"overview", "kill"}

\* The environment misbehaves, at most MaxFaults times.
May(fault) == fault \in Faults /\ faults < MaxFaults /\ faults' = faults + 1
Fine == faults' = faults
-----------------------------------------------------------------------------
(* The caller.                                                             *)

run_create_process(p) ==
  /\ caller[p] = "none" /\ hv = "up"
  /\ Cardinality({q \in Procs : caller[q] \notin {"none", "freed"}}) < MaxCallers
  /\ caller' = [caller EXCEPT ![p] = "created"]
  /\ pr' = [pr EXCEPT ![p] = NewProcess(unique_alloc_uid(upool, MaxUnique))]
  /\ upool' = AfterAlloc(upool, MaxUnique)
  /\ UNCHANGED <<thread, envVars, cell, pool, listener, hv, applied, faults>>

\* No unique number or no thread: run_pwait has nothing to wait for.
run_execute_process(p) ==
  /\ caller[p] = "created"
  /\ caller' = [caller EXCEPT ![p] = "waiting"]
  /\ \/ /\ pr[p].unique >= 0 /\ Fine
        /\ thread' = [thread EXCEPT ![p] = "start"]
        /\ pr' = [pr EXCEPT ![p].state = {"STARTING"}]
     \/ /\ IF pr[p].unique < 0 THEN Fine ELSE May("thread")
        /\ thread' = [thread EXCEPT ![p] = "ended"]
        /\ pr' = [pr EXCEPT ![p] = ExecError(@)]
  /\ UNCHANGED <<envVars, upool, cell, pool, listener, hv, applied>>

run_pwait(p) ==
  /\ caller[p] = "waiting" /\ thread[p] = "ended"
  /\ InBelts(p) => BeltsFree
  /\ caller' = [caller EXCEPT ![p] = "waited"]
  /\ pr' = [pr EXCEPT ![p].inbelts = FALSE]
  /\ UNCHANGED <<thread, envVars, upool, cell, pool, listener, hv, applied, faults>>

run_free_process(p) ==
  /\ caller[p] = "waited"
  /\ caller' = [caller EXCEPT ![p] = "freed"]
  /\ upool' = unique_release_uid(upool, pr[p].unique)
  /\ pr' = [pr EXCEPT ![p] = NewProcess(-1)]
  /\ UNCHANGED <<thread, envVars, cell, pool, listener, hv, applied, faults>>
-----------------------------------------------------------------------------
(* execute_thread.                                                         *)

ThreadAt(p, from, to) == thread[p] = from /\ thread' = [thread EXCEPT ![p] = to]

belts_append(p) ==
  /\ ThreadAt(p, "start", "unpack") /\ BeltsFree
  /\ pr' = [pr EXCEPT ![p].state = {"RUNNING"}, ![p].inbelts = TRUE]
  /\ UNCHANGED <<caller, envVars, upool, cell, pool, listener, hv, applied, faults>>

\* No file to execute or no pipe: the thread leaves the process in the belts.
ExecuteFails(p) ==
  /\ May("unpack") \/ May("popen")
  /\ ThreadAt(p, "unpack", "ended")
  /\ pr' = [pr EXCEPT ![p] = ExecError(@)]
  /\ UNCHANGED <<caller, envVars, upool, cell, pool, listener, hv, applied>>

popen(p) ==
  /\ ThreadAt(p, "unpack", "pid")
  /\ lrvm' = [lrvm EXCEPT ![p] = "boot"]
  /\ UNCHANGED <<caller, pr, task, over, stats, out, ans, conn, upool, cell, pool, listener, hv,
                 applied, faults>>

\* LRVM writes its PID first.  A shell that found no LRVM writes no number.
proc_read_lrvm_pid(p) ==
  /\ lrvm[p] # "boot"
  /\ ThreadAt(p, "pid", "pipe")
  /\ pr' = [pr EXCEPT ![p].lrvm_pid = lrvm[p] # "dead" \/ conn[p] # "none"]
  /\ UNCHANGED <<caller, envVars, upool, cell, pool, listener, hv, applied, faults>>

\* The end of the pipe: LRVM and the task, which inherits it, are gone.
read_process_pipe(p) ==
  /\ lrvm[p] = "dead" /\ task[p] # "forked" /\ ~Running(p)
  /\ ThreadAt(p, "pipe", "close")
  /\ pr' = [pr EXCEPT ![p].locked = TRUE]
  /\ UNCHANGED <<caller, envVars, upool, cell, pool, listener, hv, applied, faults>>

\* The lock of anybody else goes with that of proc_close_pipe.
proc_close_pipe(p) ==
  /\ ThreadAt(p, "close", "remove")
  /\ pr' = [pr EXCEPT ![p].locked = FALSE]
  /\ UNCHANGED <<caller, envVars, upool, cell, pool, listener, hv, applied, faults>>

belts_remove(p) ==
  /\ ThreadAt(p, "remove", "leave") /\ BeltsFree
  /\ pr' = [pr EXCEPT ![p].inbelts = FALSE]
  /\ UNCHANGED <<caller, envVars, upool, cell, pool, listener, hv, applied, faults>>

ExecuteEnds(p) ==
  /\ ThreadAt(p, "leave", "ended")
  /\ pr' = [pr EXCEPT ![p] = ThreadLeaves(@)]
  /\ UNCHANGED <<caller, envVars, upool, cell, pool, listener, hv, applied, faults>>
-----------------------------------------------------------------------------
(* LRVM.  lrvm[p] is "boot", "connect", "run" while it waits for the task, *)
(* or the command it has sent and waits for the answer of.                 *)

Waiting == {"hello", "unique", "security", "validate", "taskpid", "base", "exit_code",
            "termsig", "stopsig", "continue", "finalize", "exec_error", "bug_report"}

serverVars == <<caller, pr, thread, upool, cell, pool, listener, hv, applied>>

\* lrvm_ipc_send_command; a connection the server has closed is the end.
Send(p, command) ==
  IF conn[p] = "closed"
    THEN lrvm' = [lrvm EXCEPT ![p] = "dead"] /\ UNCHANGED out
    ELSE /\ lrvm' = [lrvm EXCEPT ![p] = command]
         /\ out' = [out EXCEPT ![p] = Append(@, [from |-> p, name |-> command])]

\* lrvm_ipc_wait_answer returns.
Answered(p, answer) ==
  lrvm[p] \in Waiting /\ ans[p] = answer /\ ans' = [ans EXCEPT ![p] = "none"]

\* term.  The child that LRVM forked shares its connection, which term shuts
\* down: what one of them sends when the other has ended fails, and it ends too.
Term(p) == lrvm' = [lrvm EXCEPT ![p] = "dead"]

LrvmBoots(p) ==
  /\ lrvm[p] = "boot"
  /\ \/ lrvm' = [lrvm EXCEPT ![p] = "connect"] /\ Fine
     \/ May("lrvm") /\ Term(p)
  /\ UNCHANGED <<serverVars, task, over, stats, out, ans, conn>>

lrvm_ipc_init(p) ==
  /\ lrvm[p] = "connect"
  /\ lrvm' = [lrvm EXCEPT ![p] = "hello"]
  /\ conn' = [conn EXCEPT ![p] = "backlog"]
  /\ UNCHANGED <<serverVars, task, over, stats, out, ans, faults>>

\* main up to validate.
Introduction == [hello |-> "unique", unique |-> "security", security |-> "validate"]

LrvmIntroduces(p) ==
  /\ lrvm[p] \in DOMAIN Introduction /\ Answered(p, "OK")
  /\ Send(p, Introduction[lrvm[p]])
  /\ UNCHANGED <<serverVars, task, over, stats, conn, faults>>

\* The kernel may give the task this PID: nobody has it any more.
PidFree(p) ==
  \A q \in Procs \ {p} :
    Pid[q] = Pid[p] => task[q] = "none" \/ (Ended(q) /\ lrvm[q] # "run")

\* fork; the child checks its user and group and reports its PID.
LrvmForks(p) ==
  /\ lrvm[p] = "validate" /\ Answered(p, "OK")
  /\ \/ PidFree(p) /\ Send(p, "taskpid") /\ task' = [task EXCEPT ![p] = "forked"] /\ Fine
     \/ /\ PidFree(p) /\ May("access") /\ Send(p, "exec_error")
        /\ task' = [task EXCEPT ![p] = "forked"]
     \/ May("fork") /\ Term(p) /\ UNCHANGED <<out, task>>
  /\ UNCHANGED <<serverVars, over, stats, conn>>

LrvmReportsBase(p) ==
  /\ lrvm[p] = "taskpid" /\ Answered(p, "OK") /\ Send(p, "base")
  /\ UNCHANGED <<serverVars, task, over, stats, conn, faults>>

\* execute: a failing execv ends the child with errno.
LrvmExecutes(p) ==
  /\ lrvm[p] = "base" /\ Answered(p, "OK")
  /\ lrvm' = [lrvm EXCEPT ![p] = "run"]
  /\ \/ task' = [task EXCEPT ![p] = "running"] /\ UNCHANGED stats /\ Fine
     \/ /\ May("exec")
        /\ task' = [task EXCEPT ![p] = "exit1"] /\ stats' = [stats EXCEPT ![p] = "sent"]
  /\ UNCHANGED <<serverVars, over, out, conn>>

\* waitpid tells of an end, a stop or a continuation of the task.
waitpid(p) ==
  /\ lrvm[p] = "run"
  /\ \/ task[p] \in {"exit0", "exit1"} /\ Send(p, "exit_code") /\ UNCHANGED task
     \/ task[p] = "signaled" /\ Send(p, "termsig") /\ UNCHANGED task
     \/ task[p] = "stopped" /\ Send(p, "stopsig") /\ task' = [task EXCEPT ![p] = "halted"]
     \/ task[p] = "resumed" /\ Send(p, "continue") /\ task' = [task EXCEPT ![p] = "running"]
  /\ UNCHANGED <<serverVars, over, stats, ans, conn, faults>>

LrvmWaitsAgain(p) ==
  /\ lrvm[p] \in {"stopsig", "continue"} /\ Answered(p, "OK")
  /\ lrvm' = [lrvm EXCEPT ![p] = "run"]
  /\ UNCHANGED <<serverVars, task, over, stats, out, conn, faults>>

LrvmFinalizes(p) ==
  /\ lrvm[p] \in {"exit_code", "termsig"} /\ Answered(p, "OK") /\ Send(p, "finalize")
  /\ UNCHANGED <<serverVars, task, over, stats, conn, faults>>

LrvmExits(p) ==
  /\ \/ lrvm[p] = "finalize" /\ Answered(p, "OK")
     \/ /\ lrvm[p] \in {"exec_error", "bug_report"}
        /\ \E answer \in {"OK", "ERR"} : Answered(p, answer)
  /\ Term(p)
  /\ UNCHANGED <<serverVars, task, over, stats, out, conn, faults>>

\* -ERR: report it and go.  The report is an exec_error of several words.
LrvmRefused(p) ==
  /\ lrvm[p] \notin {"exec_error", "bug_report"} /\ Answered(p, "ERR")
  /\ Send(p, "bug_report")
  /\ UNCHANGED <<serverVars, task, over, stats, conn, faults>>

\* No answer for LRVM_SOCK_READ_TIMEOUT.
LrvmTimeout(p) ==
  /\ May("timeout") /\ lrvm[p] \in Waiting /\ ans[p] = "none"
  /\ Term(p)
  /\ UNCHANGED <<serverVars, task, over, stats, out, ans, conn>>

LrvmNext(p) ==
  \/ LrvmBoots(p) \/ lrvm_ipc_init(p) \/ LrvmIntroduces(p) \/ LrvmForks(p)
  \/ LrvmReportsBase(p) \/ LrvmExecutes(p) \/ waitpid(p) \/ LrvmWaitsAgain(p)
  \/ LrvmFinalizes(p) \/ LrvmExits(p) \/ LrvmRefused(p)
-----------------------------------------------------------------------------
(* The task and the kernel.                                                *)

TaskEnds(p, how) ==
  /\ task[p] \in {"running", "resumed"}
  /\ task' = [task EXCEPT ![p] = how]
  /\ stats' = [stats EXCEPT ![p] = "sent"]
  /\ UNCHANGED <<serverVars, lrvm, over, out, ans, conn, faults>>

\* The child of an LRVM that is gone gets no answer any more.
ChildEnds(p) ==
  /\ task[p] = "forked" /\ lrvm[p] = "dead"
  /\ task' = [task EXCEPT ![p] = "exit1"]
  /\ stats' = [stats EXCEPT ![p] = "sent"]
  /\ UNCHANGED <<serverVars, lrvm, over, out, ans, conn, faults>>

TaskUses(p, limit) ==
  /\ Running(p) /\ limit \notin over[p]
  /\ over' = [over EXCEPT ![p] = @ \cup {limit}]
  /\ UNCHANGED <<serverVars, lrvm, task, stats, out, ans, conn, faults>>

TaskStops(p) ==
  /\ May("stop") /\ task[p] = "running"
  /\ task' = [task EXCEPT ![p] = "stopped"]
  /\ UNCHANGED <<serverVars, lrvm, over, stats, out, ans, conn>>

\* A signal that came meanwhile is delivered now.
TaskContinues(p) ==
  /\ task[p] \in {"halted", "doomed"}
  /\ IF task[p] = "halted"
       THEN task' = [task EXCEPT ![p] = "resumed"] /\ UNCHANGED stats
       ELSE /\ task' = [task EXCEPT ![p] = "signaled"]
            /\ stats' = [stats EXCEPT ![p] = "sent"]
  /\ UNCHANGED <<serverVars, lrvm, over, out, ans, conn, faults>>

\* listening_thread_acct; a full netlink socket loses messages.
AcctReceives(p) ==
  /\ stats[p] = "sent" /\ hv \in {"up", "stopping"}
  /\ \/ /\ stats' = [stats EXCEPT ![p] = "put"] /\ Fine
        /\ pool' = run_hvpool_put(pool, ArrSize, Pid[p], over[p])
     \/ May("lost") /\ stats' = [stats EXCEPT ![p] = "lost"] /\ UNCHANGED pool
  /\ UNCHANGED <<caller, pr, thread, lrvm, task, over, out, ans, conn, upool, cell, listener, hv,
                 applied>>

\* `lifetime` passes.
PoolAges ==
  /\ May("old") /\ pool # Aged(pool) /\ pool' = Aged(pool)
  /\ UNCHANGED <<caller, pr, thread, envVars, upool, cell, listener, hv, applied>>
-----------------------------------------------------------------------------
(* listening_thread: run_ipc_listen, run_ipc_interact, run_belts_overview. *)

At(pc) == listener.pc = pc
Goto(pc) == listener' = [listener EXCEPT !.pc = pc]

\* An answer to the owner of a socket; it reads what came first.
Reply(p, answer) ==
  ans' = [ans EXCEPT ![p] = IF @ = "none" /\ Alive(p) THEN answer ELSE @]

\* disconnect_client leaves the buffer of commands as it is.
Disconnected(c) == [FreeCell EXCEPT !.cmd = cell[c].cmd]

TableFull == \A c \in Cells : cell[c].owner # NoProc

\* The first cell that is free or whose client was silent for too long.
NewCell == Min({c \in Cells : cell[c].owner = NoProc \/ cell[c].stale})

\* spawn_new_client.
Registered(c, p) == [Disconnected(c) EXCEPT !.owner = p]

\* run_ipc_listen, register_client.
Accept(p) ==
  /\ At("listen") /\ hv = "up" /\ conn[p] = "backlog" /\ Goto("recv")
  /\ IF TableFull
       THEN /\ conn' = [conn EXCEPT ![p] = "closed"]
            /\ Reply(p, "ERR") /\ UNCHANGED <<cell, out>>
       ELSE LET evicted == {q \in Procs : q = cell[NewCell].owner} IN
            /\ cell' = [cell EXCEPT ![NewCell] = Registered(NewCell, p)]
            /\ conn' = [q \in Procs |-> IF q = p THEN "open"
                                        ELSE IF q \in evicted THEN "closed" ELSE conn[q]]
            /\ out' = [q \in Procs |-> IF q \in evicted THEN <<>> ELSE out[q]]
            /\ Reply(p, "OK")
  /\ UNCHANGED <<caller, pr, thread, lrvm, task, over, stats, upool, pool, hv, applied, faults>>

\* max_keep_timeout passes without a command of a client.
KeepTimeout(c) ==
  /\ May("keep") /\ cell[c].owner # NoProc /\ ~cell[c].stale
  /\ cell' = [cell EXCEPT ![c].stale = TRUE]
  /\ UNCHANGED <<caller, pr, thread, envVars, upool, pool, listener, hv, applied>>

\* run_ipc_interact: what LRVM has sent comes before the end of its socket.
Receive ==
  LET lost == {c \in Cells : /\ cell[c].owner # NoProc
                             /\ out[cell[c].owner] = <<>> /\ lrvm[cell[c].owner] = "dead"}
      open == {c \in Cells : cell[c].owner # NoProc}
  IN
  /\ At("recv") \/ (At("listen") /\ hv = "up" /\ \A p \in Procs : conn[p] # "backlog")
  /\ listener' = [listener EXCEPT !.pc = "parse", !.at = 0]
  /\ cell' = [c \in Cells |->
                IF c \in lost THEN Disconnected(c)
                ELSE IF c \in open THEN [cell[c] EXCEPT !.cmd = @ \o out[cell[c].owner]]
                ELSE cell[c]]
  /\ out' = [p \in Procs |-> IF conn[p] = "open" THEN <<>> ELSE out[p]]
  /\ conn' = [p \in Procs |-> IF \E c \in lost : cell[c].owner = p THEN "closed" ELSE conn[p]]
  /\ UNCHANGED <<caller, pr, thread, lrvm, task, over, stats, ans, upool, pool, hv, applied, faults>>

\* run_process_info_by_unique.
Target(c) == {q \in Procs : InBelts(q) /\ pr[q].unique = cell[c].unique}

\* Clients parse_clients still has to look at.
ToParse == {c \in Cells : c > listener.at /\ cell[c].owner # NoProc /\ cell[c].cmd # <<>>}

\* parse_client: the commands for a locked process stay in the buffer.
ParseClient ==
  LET c == Min(ToParse) IN
  /\ At("parse") /\ ToParse # {}
  /\ cell' = [cell EXCEPT ![c].stale = FALSE]
  /\ listener' = [listener EXCEPT !.at = c,
                     !.pc = IF \E q \in Target(c) : pr[q].locked THEN "parse" ELSE "execute"]
  /\ UNCHANGED <<caller, pr, thread, envVars, upool, pool, hv, applied, faults>>

\* run_belts_overview goes on with these processes, or is over.
Overview(procs) ==
  listener' = IF procs = {} THEN Listening ELSE [Listening EXCEPT !.pc = "overview", !.todo = procs]

ParseEnds ==
  /\ At("parse") /\ ToParse = {}
  /\ Overview({p \in Procs : InBelts(p)})
  /\ UNCHANGED <<caller, pr, thread, envVars, upool, cell, pool, hv, applied, faults>>

Command == Head(cell[listener.at].cmd)

\* A command is done with.
Done(table, answer) ==
  LET c == listener.at IN
  /\ cell' = [table EXCEPT ![c].cmd = Tail(@)]
  /\ Goto(IF Len(table[c].cmd) = 1 THEN "parse" ELSE "execute")
  /\ Reply(table[c].owner, answer)

\* run_ipc_proc_unique, run_ipc_proc_security.
ExecuteIntroduction ==
  LET c == listener.at IN
  /\ At("execute")
  /\ \/ /\ Command.name = "unique"
        /\ Done([cell EXCEPT ![c].unique = pr[Command.from].unique], "OK")
     \/ /\ Command.name = "security"
        /\ Done([cell EXCEPT ![c].key = Command.from], "OK")
  /\ UNCHANGED <<caller, pr, thread, lrvm, task, over, stats, out, conn, upool, pool, hv, applied, faults>>

\* Mutant of ValidProc: the security key is not compared.
ValidProcAnyKey(q) == q \in Target(listener.at)

\* VALIDATE_PROC.
ValidProc(q) == q \in Target(listener.at) /\ cell[listener.at].key = q

\* VALIDATE_PROC fails, or the list of arguments is too long.
ExecuteRefused ==
  /\ At("execute") /\ Command.name \notin {"unique", "security"}
  /\ Command.name = "bug_report" \/ ~\E q \in Procs : ValidProc(q)
  /\ Done(cell, "ERR")
  /\ UNCHANGED <<caller, pr, thread, lrvm, task, over, stats, out, conn, upool, pool, hv, applied, faults>>

\* The handlers of ipc_builtin.c.
Handled(proc, command) ==
  CASE command.name \in {"validate", "base"} -> proc
    [] command.name = "taskpid" -> [proc EXCEPT !.task_pid = Pid[command.from]]
    [] command.name = "exit_code" ->
         [proc EXCEPT !.exit_code = IF task[command.from] = "exit1" THEN 1 ELSE 0]
    [] command.name = "termsig" -> run_process_terminated(proc)
    [] command.name = "stopsig" -> run_process_stopped(proc)
    [] command.name = "continue" -> run_process_continued(proc)
    [] command.name = "exec_error" -> ExecError(proc)

ExecuteCommand(q) ==
  /\ At("execute") /\ Command.name \notin {"unique", "security", "finalize", "bug_report"}
  /\ ValidProc(q)
  /\ pr' = [pr EXCEPT ![q] = Handled(@, Command)]
  /\ applied' = applied \cup {<<Command.from, q>>}
  /\ Done(cell, "OK")
  /\ UNCHANGED <<caller, thread, lrvm, task, over, stats, out, conn, upool, pool, hv, faults>>

\* run_finalize_executing up to its wait for the statistics.
run_finalize_executing(q) ==
  /\ At("execute") /\ Command.name = "finalize" /\ ValidProc(q)
  /\ pr' = [pr EXCEPT ![q].locked = TRUE]
  /\ applied' = applied \cup {<<Command.from, q>>}
  /\ listener' = [listener EXCEPT !.pc = "finalize", !.proc = q, !.signals = Signals(pr[q])]
  /\ UNCHANGED <<caller, thread, envVars, upool, cell, pool, hv, faults>>

\* run_hvpool_stats_by_pid finds a record or gives up after its last try,
\* which leaves the process locked.
FinalizeEnds ==
  LET q == listener.proc IN
  /\ At("finalize")
  /\ pr' = [pr EXCEPT ![q] =
        IF HasStats(pool, @.task_pid)
          THEN Finalized(@, listener.signals, run_hvpool_stats_by_pid_iter(pool, @.task_pid))
          ELSE ExecError(@)]
  /\ cell' = [cell EXCEPT ![listener.at].cmd = Tail(@)]
  /\ listener' = [listener EXCEPT !.proc = NoProc, !.signals = {},
                     !.pc = IF Len(cell[listener.at].cmd) = 1 THEN "parse" ELSE "execute"]
  /\ Reply(cell[listener.at].owner, "OK")
  /\ UNCHANGED <<caller, thread, lrvm, task, over, stats, out, conn, upool, pool, hv, applied, faults>>
-----------------------------------------------------------------------------
(* run_belts_overview, with belts_mutex.                                   *)

\* run_hv_proc_stats: a living task or the child that will become it, or none.
Owner(pid) == {q \in Procs : /\ Pid[q] = pid
                             /\ Running(q) \/ (task[q] = "forked" /\ Alive(q))}

Overviewed(p) == Overview(listener.todo \ {p})

\* run_kill_process up to the signal to the task, which is a SIGTERM that the
\* task may ignore.  One that finds the child of LRVM before its execv takes
\* LRVM along.
StartKill(p, proc, why) ==
  LET hit == {q \in Owner(proc.task_pid) : Running(q)} IN
  /\ pr' = [pr EXCEPT ![p] = [proc EXCEPT !.locked = TRUE, !.task_pid = NoPid]]
  /\ \E struck \in SUBSET hit :
       /\ "term" \notin Faults => struck = hit
       /\ task' = [q \in Procs |-> IF q \notin struck THEN task[q]
                                  ELSE IF Halted(q) \/ task[q] = "doomed" THEN "doomed"
                                  ELSE "signaled"]
       /\ stats' = [q \in Procs |-> IF q \in struck /\ task'[q] = "signaled"
                                     THEN "sent" ELSE stats[q]]
  /\ lrvm' = [lrvm EXCEPT ![p] = IF proc.task_pid # NoPid /\ task[p] = "forked"
                                   THEN "dead" ELSE @]
  /\ listener' = [listener EXCEPT !.pc = "kill", !.proc = p, !.signals = why]
  /\ UNCHANGED <<caller, thread, over, out, ans, conn, upool, cell, pool, hv, applied>>

Overviewing(p) == At("overview") /\ p \in listener.todo

OverviewSkips(p) ==
  /\ Overviewing(p) /\ Overviewed(p)
  /\ \/ pr[p].locked
     \/ Unanswered(pr[p]) /\ ~pr[p].late
     \/ ~Unanswered(pr[p]) /\ ~Executing(pr[p])
  /\ UNCHANGED <<caller, pr, thread, envVars, upool, cell, pool, hv, applied, faults>>

\* lrvm_ans_timeout is over, once and for all.
belts_check_lrvm_ans_timeout(p) ==
  /\ Overviewing(p) /\ ~pr[p].locked
  /\ Unanswered(pr[p]) /\ IF pr[p].late THEN Fine ELSE May("late")
  /\ StartKill(p, [ExecError(pr[p]) EXCEPT !.late = TRUE], {})

\* No statistics: the task is gone, and is a zombie until LRVM says so.
belts_check_proc_zombie(p) ==
  /\ Overviewing(p) /\ ~pr[p].locked
  /\ ~Unanswered(pr[p]) /\ Executing(pr[p]) /\ Owner(pr[p].task_pid) = {}
  /\ \/ /\ pr' = [pr EXCEPT ![p].zombied = TRUE] /\ Overviewed(p) /\ Fine
        /\ UNCHANGED <<caller, thread, envVars, upool, cell, pool, hv, applied>>
     \/ May("zombie") /\ pr[p].zombied /\ StartKill(p, ExecError(pr[p]), {})

\* Mutant of belts_check_limits: the limits are only recorded.
LimitsUnenforced(p) ==
  \E q \in Owner(pr[p].task_pid) :
    /\ Overviewing(p) /\ ~pr[p].locked /\ ~Unanswered(pr[p]) /\ Executing(pr[p]) /\ Fine
    /\ pr' = [pr EXCEPT ![p].zombied = FALSE, ![p].usage = over[q]] /\ Overviewed(p)
    /\ UNCHANGED <<caller, thread, envVars, upool, cell, pool, hv, applied>>

belts_check_limits(p) ==
  \E q \in Owner(pr[p].task_pid) :
    LET proc == [pr[p] EXCEPT !.zombied = FALSE, !.usage = over[q]] IN
    /\ Overviewing(p) /\ ~pr[p].locked /\ ~Unanswered(pr[p]) /\ Executing(pr[p]) /\ Fine
    /\ IF over[q] # {} THEN StartKill(p, proc, over[q])
       ELSE /\ pr' = [pr EXCEPT ![p] = proc] /\ Overviewed(p)
            /\ UNCHANGED <<caller, thread, envVars, upool, cell, pool, hv, applied>>

\* The rest of run_kill_process.
run_kill_process ==
  LET p == listener.proc IN
  /\ At("kill")
  /\ lrvm' = [lrvm EXCEPT ![p] = IF pr[p].lrvm_pid /\ Alive(p) THEN "dead" ELSE @]
  /\ pr' = [pr EXCEPT ![p] = Killed(@, listener.signals)]
  /\ Overviewed(p)
  /\ UNCHANGED <<caller, thread, task, over, stats, out, ans, conn, upool, cell, pool, hv, applied, faults>>
-----------------------------------------------------------------------------
(* run_done, when nobody has a process any more.                           *)

run_done ==
  /\ hv = "up" /\ \A p \in Procs : caller[p] \in {"none", "freed"}
  /\ hv' = "stopping"
  /\ UNCHANGED <<caller, pr, thread, envVars, upool, cell, pool, listener, applied, faults>>

\* Mutant of ListenerLeaves: the thread waits for its clients to go.
ListenerLeavesLast ==
  /\ At("listen") /\ hv # "up" /\ Goto("gone")
  /\ \A c \in Cells : cell[c].owner = NoProc
  /\ UNCHANGED <<caller, pr, thread, envVars, upool, cell, pool, hv, applied, faults>>

ListenerLeaves ==
  /\ At("listen") /\ hv # "up" /\ Goto("gone")
  /\ UNCHANGED <<caller, pr, thread, envVars, upool, cell, pool, hv, applied, faults>>

\* The accounting thread sleeps in recv until some process of the system ends.
AcctLeaves ==
  /\ hv = "stopping" /\ hv' = "deaf"
  /\ UNCHANGED <<caller, pr, thread, envVars, upool, cell, pool, listener, applied, faults>>

\* Both threads joined: the sockets, the pool and the clients go.
run_hypervisor_done ==
  /\ At("gone") /\ hv = "deaf"
  /\ hv' = "down" /\ pool' = <<>> /\ cell' = [c \in Cells |-> Disconnected(c)]
  /\ UNCHANGED <<caller, pr, thread, envVars, upool, listener, applied, faults>>
-----------------------------------------------------------------------------
ListenerNext ==
  \/ \E p \in Procs : Accept(p)
  \/ Receive \/ ParseClient \/ ParseEnds
  \/ ExecuteIntroduction \/ ExecuteRefused \/ FinalizeEnds
  \/ \E q \in Procs : ExecuteCommand(q) \/ run_finalize_executing(q)
  \/ \E p \in Procs : \/ OverviewSkips(p) \/ belts_check_lrvm_ans_timeout(p)
                       \/ belts_check_proc_zombie(p) \/ belts_check_limits(p)
  \/ run_kill_process \/ ListenerLeaves

ThreadNext(p) ==
  \/ belts_append(p) \/ ExecuteFails(p) \/ popen(p) \/ proc_read_lrvm_pid(p)
  \/ read_process_pipe(p) \/ proc_close_pipe(p) \/ belts_remove(p) \/ ExecuteEnds(p)

CallerNext(p) ==
  run_create_process(p) \/ run_execute_process(p) \/ run_pwait(p) \/ run_free_process(p)

TaskNext(p) ==
  \/ ChildEnds(p) \/ \E how \in Ends : TaskEnds(p, how)
  \/ \E limit \in Exceeds : TaskUses(p, limit)
  \/ TaskStops(p) \/ TaskContinues(p)

Next ==
  \/ \E p \in Procs : \/ CallerNext(p) \/ ThreadNext(p) \/ LrvmNext(p) \/ LrvmTimeout(p)
                       \/ TaskNext(p) \/ AcctReceives(p)
  \/ ListenerNext \/ PoolAges \/ \E c \in Cells : KeepTimeout(c)
  \/ run_done \/ AcctLeaves \/ run_hypervisor_done

\* Threads and programs that can go on do; nobody sleeps for ever, and a task
\* that does not end comes to the end of its time.  The listening thread
\* sleeps between two rounds with belts_mutex free, so who wants it gets it;
\* some process of the system ends now and then and wakes the accounting.
Fairness ==
  /\ WF_vars(ListenerNext) /\ WF_vars(AcctLeaves) /\ WF_vars(run_hypervisor_done)
  /\ \A p \in Procs :
       /\ SF_vars(ThreadNext(p)) /\ WF_vars(LrvmNext(p)) /\ WF_vars(AcctReceives(p))
       /\ WF_vars(run_execute_process(p)) /\ SF_vars(run_pwait(p)) /\ WF_vars(run_free_process(p))
       /\ WF_vars(TaskUses(p, "TIMELIMIT")) /\ WF_vars(ChildEnds(p))

Spec == Init /\ [][Next]_vars
FairSpec == Spec /\ Fairness
-----------------------------------------------------------------------------
\* Every variable has the type the code gives it, and the buffer of a client
\* holds one command of each LRVM at most: LRVM waits for every answer.
TypeOK ==
  /\ caller \in [Procs -> {"none", "created", "waiting", "waited", "freed"}]
  /\ thread \in [Procs -> {"none", "start", "unpack", "pid", "pipe", "close", "remove",
                           "leave", "ended"}]
  /\ \A p \in Procs :
       /\ pr[p].state \subseteq StateBits /\ pr[p].usage \subseteq Limits
       /\ pr[p].unique \in -1..65535
       /\ pr[p].task_pid \in {NoPid} \cup {Pid[q] : q \in Procs}
  /\ lrvm \in [Procs -> Waiting \cup {"none", "boot", "connect", "run", "dead"}]
  /\ task \in [Procs -> {"none", "forked", "running", "stopped", "halted", "resumed",
                         "doomed", "exit0", "exit1", "signaled"}]
  /\ over \in [Procs -> SUBSET Limits]
  /\ stats \in [Procs -> {"none", "sent", "put", "lost"}]
  /\ ans \in [Procs -> {"none", "OK", "ERR"}]
  /\ conn \in [Procs -> {"none", "backlog", "open", "closed"}]
  /\ \A c \in Cells : /\ cell[c].owner \in Procs \cup {NoProc}
                       /\ cell[c].key \in Procs \cup {NoProc}
                       /\ Len(cell[c].cmd) =< Cardinality(Procs)
  /\ upool.ptr \in 0..MaxUnique
  /\ listener.pc \in {"listen", "recv", "parse", "execute", "finalize", "overview", "kill", "gone"}
  /\ hv \in {"up", "stopping", "deaf", "down"} /\ faults \in 0..MaxFaults

\* A command of an LRVM only ever changes the process this LRVM runs, although
\* disconnect_client and spawn_new_client leave the unread commands of the last
\* client in the buffer of the next one and unique numbers are used again:
\* the security key keeps them apart (VALIDATE_PROC of ipc_builtin.c).
OwnCommands == \A pair \in applied : pair[1] = pair[2]

\* A process that run_finalize_executing has finished carries exactly the
\* limits its task went over, and a signal only if there was one, whatever
\* was lost, late or killed on the way.  When the kernel gives a PID again
\* while the pool has a record of it, the limits may be those of the earlier
\* task: statistics are found by PID, the oldest first.  (Not the other way
\* round for signals: an LRVM that is answered for a command left by the last
\* client runs one command ahead, and its termsig may come when the process is
\* locked and be ignored.)
FinishedIsExact ==
  \A p \in Procs : caller[p] # "freed" /\ "FINISHED" \in pr[p].state =>
    /\ Ended(p)
    /\ \E q \in Procs : Pid[q] = Pid[p] /\ Ended(q) /\ pr[p].state \cap Limits = over[q]
    /\ "TERMINATED" \in pr[p].state => task[p] = "signaled"

\* An error of execution that was described is in the state the caller finds
\* after run_pwait, although later commands of LRVM overwrite the state; only
\* the statistics of a finished process may stand in its place.
ErrorIsReported ==
  \A p \in Procs : caller[p] = "waited" /\ pr[p].err_desc =>
    pr[p].state \cap {"EXECERROR", "FINISHED"} # {}

\* A task nobody will kill: it is stopped, or the overview leaves its process
\* alone, because a first kill is over that the task ignored, or that came when
\* LRVM was late and had no task yet.
OutOfReach(p) ==
  /\ Running(p)
  /\ Halted(p) \/ task[p] = "doomed" \/ Unanswered(pr[p]) \/ ~Executing(pr[p])

\* run_pwait returns: a task that ends is reported and one that does not is
\* killed by the overview, through lost statistics, refused connections, dead
\* and silent LRVMs, and the locks run_finalize_executing leaves behind.  It
\* waits for ever only for a task that is out of reach for ever: stopped and not
\* continued, deaf to SIGTERM, or started by an LRVM that answered too late.
WaitReturns ==
  \A p \in Procs : caller[p] = "waiting" ~> (caller[p] = "waited" \/ []OutOfReach(p))

\* run_done comes to its end: both threads of the hypervisor leave.
HypervisorStops == hv = "stopping" ~> hv = "down"

\* The limit that run_kill_process killed a process for ("state to save")
\* stays in its state.
LimitIsKept ==
  [][\A p \in Procs : caller'[p] = "waiting" /\ pr[p].state \cap Limits # {} =>
                        pr'[p].state \cap Limits # {}]_vars
=============================================================================
