--------------------------- MODULE TestingThreads ---------------------------
(***************************************************************************)
(* What the testing module promises to the rest of the server about the    *)
(* tasks it was given (webtester/modules/informatics): the belts act on    *)
(* the status alone, so this is all they may rely on.  A task is tested at *)
(* most once, a testing ends FINISHED or, only when the module is being    *)
(* stopped, INTERRUPTED.  A stopped module accepts a task only while a     *)
(* testing is still running.  When the stop returns nothing is RUNNING,    *)
(* but the one task that was accepted and not yet pushed may begin later.  *)
(***************************************************************************)
CONSTANT Threads    \* one for each task given to the module

VARIABLES status,   \* TS_* of the task of each thread
          accepted, \* tasks that passed the check and have not begun
          stopping  \* progress of Informatics_stop_testing

threadVars == <<status, accepted, stopping>>

Running(t) == status[t] = "RUNNING"

Accept(t) ==
  /\ status[t] = "PENDING"
  /\ stopping = "up" \/ \E u \in Threads : Running(u)
  /\ accepted' = accepted \cup {t}
  /\ UNCHANGED <<status, stopping>>

\* The pool is full, or is being freed and takes nothing.
GiveUp(t) ==
  t \in accepted /\ accepted' = accepted \ {t} /\ UNCHANGED <<status, stopping>>

Change(t, from, to) ==
  status[t] = from /\ status' = [status EXCEPT ![t] = to] /\ UNCHANGED stopping

Begin(t) ==
  t \in accepted /\ accepted' = accepted \ {t} /\ Change(t, "PENDING", "RUNNING")

Complete(t) == Change(t, "RUNNING", "FINISHED") /\ UNCHANGED accepted

Interrupt(t) ==
  stopping # "up" /\ Change(t, "RUNNING", "INTERRUPTED") /\ UNCHANGED accepted

BeginStop ==
  stopping = "up" /\ stopping' = "freeing" /\ UNCHANGED <<status, accepted>>

EndStop ==
  /\ stopping = "freeing" /\ stopping' = "stopped"
  /\ \A t \in Threads : ~Running(t)
  /\ \A t, u \in accepted : t = u
  /\ UNCHANGED <<status, accepted>>

ThreadsInit ==
  /\ status = [t \in Threads |-> "PENDING"] /\ accepted = {}
  /\ stopping = "up"

ThreadsNext ==
  \/ BeginStop \/ EndStop
  \/ \E t \in Threads :
       Accept(t) \/ GiveUp(t) \/ Begin(t) \/ Complete(t) \/ Interrupt(t)

ThreadsSpec == ThreadsInit /\ [][ThreadsNext]_threadVars
=============================================================================
