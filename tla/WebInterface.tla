---------------------------- MODULE WebInterface ----------------------------
(***************************************************************************)
(* The web side of WebTester and the HTTP requests the server's            *)
(* WebInterface plugin sends to it (plugins/webinterface/transport.c).     *)
(* The web application is not part of the repository: a solution is        *)
(* listed as "new", marked "taken" by delete_task, put back by             *)
(* restore_task or reset_status, and closed by put_solution.               *)
(*                                                                         *)
(* A request has three outcomes.  The caller only learns whether it got    *)
(* an answer, so a request that did its work can still be reported as a    *)
(* failure ("no_reply").                                                   *)
(***************************************************************************)

CONSTANT Tasks   \* the submissions, each one a pair sid@lid

VARIABLES web,       \* what the web application stores about a task
          undeleted, \* ghost: a delete_task request for the task got lost
          orphaned   \* ghost: let go by the server while the web has it taken

webVars == <<web, undeleted, orphaned>>

WebStatus == {"absent", "new", "taken", "done"}
Outcome == {"ok", "no_request", "no_reply"}

WebInit ==
  /\ web = [t \in Tasks |-> "absent"]
  /\ undeleted = {}
  /\ orphaned = {}

\* A contestant submits a solution.
Submit(t) ==
  /\ web[t] = "absent"
  /\ web' = [web EXCEPT ![t] = "new"]
  /\ UNCHANGED <<undeleted, orphaned>>

\* The web application's answer to get_task_list.
NewTasks == {t \in Tasks : web[t] = "new"}

\* The web application's new status of t after a request with outcome o.
Requested(t, o, status) ==
  IF o = "no_request" THEN web ELSE [web EXCEPT ![t] = status]

\* The caller ignores the result.
webiface_delete_task(t, o) ==
  /\ web' = Requested(t, o, "taken")
  /\ undeleted' = IF o = "no_request" THEN undeleted \cup {t} ELSE undeleted
  /\ orphaned' = orphaned \ {t}

\* Every caller frees its copy of the task afterwards, whatever the result.
webiface_restore_task(t, o) ==
  /\ web' = Requested(t, o, "new")
  /\ orphaned' = IF o = "no_request" THEN orphaned \cup {t} ELSE orphaned
  /\ UNCHANGED undeleted

webiface_put_solution(t, o) ==
  /\ web' = Requested(t, o, "done")
  /\ UNCHANGED <<undeleted, orphaned>>

\* Sent once, at start-up, when the server holds nothing.
webiface_reset_status(o) ==
  /\ web' = IF o = "no_request" THEN web
            ELSE [t \in Tasks |-> IF web[t] = "taken" THEN "new" ELSE web[t]]
  /\ orphaned' = IF o = "no_request" THEN orphaned ELSE {}
  /\ UNCHANGED undeleted

=============================================================================
