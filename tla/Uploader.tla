------------------------------ MODULE Uploader -------------------------------
(***************************************************************************)
(* Uploading of problems and checkers from the web                         *)
(* (webtester/modules/informatics/uploader-{problem,checker}.c): what the  *)
(* requests, the stop and a crash do to the files.  A thread of its own    *)
(* uploads problems (module TestingPool has its mutex and the suspension   *)
(* of testing), the main loop uploads checkers.                            *)
(*                                                                         *)
(* An archive is named by its problem and version.  A file of a directory  *)
(* is <<kind, owner, version>>; a checker from the storage is a link.      *)
(***************************************************************************)
EXTENDS Naturals, FiniteSets

CONSTANTS Problems, Checkers, None,
          MaxOffers,    \* bound: problems and checkers offered, new versions included
          MaxRestarts   \* bound: crashes and stops

ASSUME UploaderAssumption ==
  /\ Problems \cap Checkers = {} /\ None \notin Problems \cup Checkers
  /\ MaxOffers \in Nat \ {0} /\ MaxRestarts \in Nat

Things == Problems \cup Checkers
Versions == 0..MaxOffers

VARIABLES
  wanted, answer,  \* the web: what it offers, and what it was told
  offers,          \* how often it did
  share,           \* archives in ServerProblemsRoot
  tmp,             \* files in the temporary directory
  data,            \* files in the directory of each problem
  storage,         \* source and binary of each checker
  torn             \* what each directory lost: to a crash, or to an error that
                   \* nobody looks at ("tests", "checker")
VARIABLES
  server, restarts,
  problemActive, upl, job, err,   \* `active`, the uploading thread
  checkerActive, chk, cjob, cerr  \* `active`, UploadChecker in the main loop

webVars == <<wanted, answer, offers>>
fileVars == <<share, tmp, data, storage, torn>>
uplVars == <<problemActive, upl, job, err>>
chkVars == <<checkerActive, chk, cjob, cerr>>
vars == <<webVars, fileVars, server, restarts, uplVars, chkVars>>

Own == "own"
NoOffer == [version |-> 0, tests |-> 0, checker |-> Own]
NoJob == [id |-> None, version |-> 0, archive |-> FALSE, checker |-> Own]

Started ==
  /\ server' = "up"
  /\ problemActive' = TRUE /\ upl' = "idle" /\ job' = NoJob /\ err' = "OK"
  /\ checkerActive' = TRUE /\ chk' = "idle" /\ cjob' = NoJob /\ cerr' = "OK"

Init ==
  /\ wanted = [x \in Things |-> NoOffer] /\ answer = [x \in Things |-> "none"]
  /\ offers = 0 /\ share = {} /\ tmp = {} /\ data = [p \in Problems |-> {}]
  /\ storage = [c \in Checkers |-> [source |-> 0, binary |-> 0]]
  /\ torn = [p \in Problems |-> {}] /\ server = "up" /\ restarts = 0
  /\ problemActive = TRUE /\ upl = "idle" /\ job = NoJob /\ err = "OK"
  /\ checkerActive = TRUE /\ chk = "idle" /\ cjob = NoJob /\ cerr = "OK"
-----------------------------------------------------------------------------
(* The web.  A new version is offered when the last one was answered, and  *)
(* without an archive when the server has the tests.                       *)

NextVersion(x) == wanted[x].version + 1

OfferProblem(p, archive, checker) ==
  /\ answer[p] # "offered" /\ offers < MaxOffers /\ offers' = offers + 1
  /\ archive \/ answer[p] = "OK"
  /\ wanted' = [wanted EXCEPT ![p] =
       [version |-> NextVersion(p), tests |-> IF archive THEN NextVersion(p) ELSE @.tests,
        checker |-> checker]]
  /\ answer' = [answer EXCEPT ![p] = "offered"]
  /\ share' = IF archive THEN share \cup {<<p, NextVersion(p)>>} ELSE share
  /\ UNCHANGED <<tmp, data, storage, torn, server, restarts, uplVars, chkVars>>

OfferChecker(c) ==
  /\ answer[c] # "offered" /\ offers < MaxOffers /\ offers' = offers + 1
  /\ wanted' = [wanted EXCEPT ![c].version = @ + 1]
  /\ answer' = [answer EXCEPT ![c] = "offered"]
  /\ UNCHANGED <<fileVars, server, restarts, uplVars, chkVars>>

\* The parameters of the reply to get_problem and get_checker.
Params(x) ==
  [id |-> x, version |-> wanted[x].version,
   archive |-> wanted[x].tests = wanted[x].version, checker |-> wanted[x].checker]
-----------------------------------------------------------------------------
(* The thread that uploads problems.                                       *)

Uploader(from, to) == server # "down" /\ upl = from /\ upl' = to

\* Informatics_UploadProblem and the mutex it takes.
UploadCalled ==
  /\ Uploader("idle", "request") /\ server = "up"
  /\ UNCHANGED <<webVars, fileVars, server, restarts, problemActive, job, err, chkVars>>

\* send_ipc_request: the web has something for us ...
RequestGets(p) ==
  /\ Uploader("request", "create") /\ problemActive /\ answer[p] = "offered"
  /\ job' = Params(p) /\ err' = "OK"
  /\ UNCHANGED <<webVars, fileVars, server, restarts, problemActive, chkVars>>

\* ... or not, or does not answer, or uploading is stopped.
RequestFails ==
  /\ Uploader("request", "idle")
  /\ UNCHANGED <<webVars, fileVars, server, restarts, problemActive, job, err, chkVars>>

\* Files of an instance that was not finished are removed.
create_temporary_dir == tmp' = {}

\* The goto and the macro CHECK_ACTIVE end here: with err still "OK" when the
\* upload was interrupted.
Failed(e) == upl' = "put" /\ tmp' = {} /\ err' = e

CreateTmp ==
  /\ server # "down" /\ upl = "create"
  /\ IF problemActive
     THEN /\ create_temporary_dir /\ UNCHANGED err
          /\ upl' = IF job.archive THEN "copy" ELSE "checker"
     ELSE Failed("OK")
  /\ UNCHANGED <<webVars, share, data, storage, torn, server, restarts,
                 problemActive, job, chkVars>>

TheArchive == <<job.id, job.version>>

\* upload_archive_through_samba and _localfs: the archive is copied ...
UploadCopies ==
  /\ Uploader("copy", "unlink") /\ TheArchive \in share
  /\ tmp' = tmp \cup {<<"archive", job.id, job.version>>}
  /\ UNCHANGED <<webVars, share, data, storage, torn, server, restarts,
                 problemActive, job, err, chkVars>>

\* ... or cannot be opened ...
UploadFails ==
  /\ server # "down" /\ upl = "copy" /\ Failed("E_UPLOAD")
  /\ UNCHANGED <<webVars, share, data, storage, torn, server, restarts,
                 problemActive, job, chkVars>>

\* ... and its original is removed.
UploadUnlinks ==
  /\ server # "down" /\ upl = "unlink" /\ share' = share \ {TheArchive}
  /\ IF problemActive THEN upl' = "unpack" /\ UNCHANGED <<tmp, err>>
                      ELSE Failed("OK")
  /\ UNCHANGED <<webVars, data, storage, torn, server, restarts,
                 problemActive, job, chkVars>>

\* unpack_archive.  unpack_file never fails: without an unpacker it returns
\* zero, and what an unpacker returns is not looked at.  An archive nobody can
\* read, one that was not written whole, a full disk leave a part or nothing.
Unpack ==
  /\ Uploader("unpack", "checker")
  /\ LET unpacked == tmp \ {<<"archive", job.id, job.version>>} IN
     tmp' \in {tmp, unpacked} \cup
             {unpacked \cup {<<kind, job.id, job.version>>} : kind \in {"raw", "part"}}
  /\ UNCHANGED <<webVars, share, data, storage, torn, server, restarts,
                 problemActive, job, err, chkVars>>

HasConf == \E v \in Versions, kind \in {"raw", "part"} : <<kind, job.id, v>> \in tmp

\* compile_checker needs checker.conf of the archive.
CompileChecker ==
  /\ Uploader("checker", "remove") /\ job.checker = Own /\ HasConf
  /\ tmp' = tmp \cup {<<"own", job.id, job.version>>}
  /\ UNCHANGED <<webVars, share, data, storage, torn, server, restarts,
                 problemActive, job, err, chkVars>>

\* use_checker links to what the storage has, and does not look whether
\* symlink succeeds.
UseChecker ==
  /\ Uploader("checker", "remove")
  /\ job.checker # Own /\ storage[job.checker].binary # 0
  /\ tmp' \in {tmp, tmp \cup {<<"link", job.checker, 0>>}}
  /\ UNCHANGED <<webVars, share, data, storage, torn, server, restarts,
                 problemActive, job, err, chkVars>>

CheckerizeFails ==
  /\ server # "down" /\ upl = "checker"
  /\ job.checker # Own => storage[job.checker].binary = 0
  /\ Failed("E_CHECKER")
  /\ UNCHANGED <<webVars, share, data, storage, torn, server, restarts,
                 problemActive, job, chkVars>>

CheckerFiles(files) == {f \in files : f[1] \in {"own", "link"}}

\* Mutant of MoveRemoves: the tests of the last version stay.
MoveRemovesChecker ==
  /\ Uploader("remove", "move")
  /\ data' = [data EXCEPT ![job.id] = @ \ CheckerFiles(@)]
  /\ UNCHANGED <<webVars, share, tmp, storage, torn, server, restarts,
                 problemActive, job, err, chkVars>>

\* move_to_dataroot: unlinkdir if there is an archive, unlink (full_checker).
MoveRemoves ==
  /\ Uploader("remove", "move")
  /\ data' = [data EXCEPT ![job.id] =
                IF job.archive THEN {} ELSE @ \ CheckerFiles(@)]
  /\ UNCHANGED <<webVars, share, tmp, storage, torn, server, restarts,
                 problemActive, job, err, chkVars>>

\* fcopydir.
MoveCopies(f) ==
  /\ Uploader("move", "move") /\ f \in tmp \ data[job.id]
  /\ data' = [data EXCEPT ![job.id] = @ \cup {f}]
  /\ UNCHANGED <<webVars, share, tmp, storage, torn, server, restarts,
                 problemActive, job, err, chkVars>>

\* What an upload replaces, and whether all of it is there.
Parts == IF job.archive THEN {"tests", "checker"} ELSE {"checker"}

Complete ==
  /\ tmp \subseteq data[job.id] /\ CheckerFiles(tmp) # {}
  /\ job.archive => <<"raw", job.id, job.version>> \in tmp

\* adopt_tests: the names become what the tester looks for.
Adopted(f) == IF f[1] = "raw" THEN <<"tests", f[2], f[3]>> ELSE f

\* fcopydir returns.  A file that is not there by now is one that copyfile could
\* not open or not write whole: neither it nor fcopydir's caller looks at that.
MoveEnds ==
  /\ Uploader("move", "put")
  /\ data' = [data EXCEPT ![job.id] = {Adopted(f) : f \in @}]
  /\ tmp' = {}
  /\ torn' = [torn EXCEPT ![job.id] = IF Complete THEN @ \ Parts ELSE @ \cup Parts]
  /\ UNCHANGED <<webVars, share, storage, server, restarts, problemActive,
                 job, err, chkVars>>

\* Mutant of SendsProblem: CHECK_ACTIVE_VOID is gone.
SendsProblemAlways == err \in {"OK", "E_UPLOAD", "E_CHECKER"}

\* Mutant of SendsProblem: only success is reported.
SendsProblemOnSuccess == problemActive /\ err = "OK"

SendsProblem == problemActive

\* put_problem, whose reply is only logged; the thread ends.
PutProblem ==
  /\ Uploader("put", "idle") /\ SendsProblem
  /\ answer' = [answer EXCEPT ![job.id] = err]
  /\ job' = NoJob /\ err' = "OK"
  /\ UNCHANGED <<wanted, offers, fileVars, server, restarts, problemActive, chkVars>>

\* The request is lost, or uploading is stopped.
PutProblemFails ==
  /\ Uploader("put", "idle") /\ job' = NoJob /\ err' = "OK"
  /\ UNCHANGED <<webVars, fileVars, server, restarts, problemActive, chkVars>>
-----------------------------------------------------------------------------
(* Informatics_UploadChecker, called by the scheduler of the main loop.    *)

MainLoop(from, to) == server # "down" /\ chk = from /\ chk' = to

CheckerRequestGets(c, complete) ==
  /\ MainLoop("idle", IF complete THEN "save" ELSE "put")
  /\ checkerActive /\ answer[c] = "offered"
  /\ cjob' = Params(c) /\ cerr' = IF complete THEN "OK" ELSE "ERR"
  /\ UNCHANGED <<webVars, fileVars, server, restarts, checkerActive, uplVars>>

\* save_checker.
SaveChecker ==
  /\ MainLoop("save", IF checkerActive THEN "unlink" ELSE "put")
  /\ storage' = IF checkerActive
                  THEN [storage EXCEPT ![cjob.id].source = cjob.version] ELSE storage
  /\ cerr' = IF checkerActive THEN "OK" ELSE "ERR"
  /\ UNCHANGED <<webVars, share, tmp, data, torn, server, restarts,
                 checkerActive, cjob, uplVars>>

\* compile: the old binary is removed ...
CompileUnlinks ==
  /\ MainLoop("unlink", IF checkerActive THEN "exec" ELSE "put")
  /\ storage' = IF checkerActive
                  THEN [storage EXCEPT ![cjob.id].binary = 0] ELSE storage
  /\ cerr' = IF checkerActive THEN "OK" ELSE "CE"
  /\ UNCHANGED <<webVars, share, tmp, data, torn, server, restarts,
                 checkerActive, cjob, uplVars>>

\* ... and the compiler writes the new one, or not.
ExecCompiler(ok) ==
  /\ MainLoop("exec", "put")
  /\ storage' = IF ok THEN [storage EXCEPT ![cjob.id].binary = storage[cjob.id].source]
                      ELSE storage
  /\ cerr' = IF ok THEN "OK" ELSE "CE"
  /\ UNCHANGED <<webVars, share, tmp, data, torn, server, restarts,
                 checkerActive, cjob, uplVars>>

put_checker ==
  /\ MainLoop("put", "idle") /\ checkerActive
  /\ answer' = [answer EXCEPT ![cjob.id] = cerr]
  /\ cjob' = NoJob /\ cerr' = "OK"
  /\ UNCHANGED <<wanted, offers, fileVars, server, restarts, checkerActive, uplVars>>

PutCheckerFails ==
  /\ MainLoop("put", "idle") /\ cjob' = NoJob /\ cerr' = "OK"
  /\ UNCHANGED <<webVars, fileVars, server, restarts, checkerActive, uplVars>>
-----------------------------------------------------------------------------
(* Stop, crash and restart.                                                *)

\* Informatics_StopCheckerUploading, the first of the two hooks.
StopCheckerUploading ==
  /\ server = "up" /\ restarts < MaxRestarts
  /\ server' = "stopping" /\ checkerActive' = FALSE
  /\ UNCHANGED <<webVars, fileVars, restarts, uplVars, chk, cjob, cerr>>

\* Informatics_StopProblemUploading.
StopProblemUploading ==
  /\ server = "stopping" /\ problemActive /\ problemActive' = FALSE
  /\ UNCHANGED <<webVars, fileVars, server, restarts, upl, job, err, chkVars>>

Down == /\ server' = "down" /\ restarts' = restarts + 1
        /\ problemActive' = FALSE /\ upl' = "idle" /\ job' = NoJob /\ err' = "OK"
        /\ checkerActive' = FALSE /\ chk' = "idle" /\ cjob' = NoJob /\ cerr' = "OK"

\* The stop has waited for the mutex and for the main loop.
StopEnds ==
  /\ server = "stopping" /\ ~problemActive /\ upl = "idle" /\ chk = "idle"
  /\ Down /\ UNCHANGED <<webVars, fileVars>>

\* A crash, such as the one that a checker whose compiler cannot be executed
\* brings about: strcpy of a message nobody has set.
Crash ==
  /\ server # "down" /\ restarts < MaxRestarts /\ Down
  /\ torn' = IF upl = "move" THEN [torn EXCEPT ![job.id] = @ \cup Parts] ELSE torn
  /\ UNCHANGED <<webVars, share, tmp, data, storage>>

Restart == server = "down" /\ Started /\ UNCHANGED <<webVars, fileVars, restarts>>
-----------------------------------------------------------------------------
UploaderNext ==
  \/ UploadCalled \/ (\E p \in Problems : RequestGets(p)) \/ RequestFails
  \/ CreateTmp \/ UploadCopies \/ UploadFails \/ UploadUnlinks \/ Unpack
  \/ CompileChecker \/ UseChecker \/ CheckerizeFails
  \/ MoveRemoves \/ (\E f \in tmp : MoveCopies(f)) \/ MoveEnds
  \/ PutProblem \/ PutProblemFails

CheckerNext ==
  \/ \E c \in Checkers, complete \in BOOLEAN : CheckerRequestGets(c, complete)
  \/ SaveChecker \/ CompileUnlinks \/ (\E ok \in BOOLEAN : ExecCompiler(ok))
  \/ put_checker \/ PutCheckerFails

Next ==
  \/ \E p \in Problems, archive \in BOOLEAN, checker \in Checkers \cup {Own} :
       OfferProblem(p, archive, checker)
  \/ \E c \in Checkers : OfferChecker(c)
  \/ UploaderNext \/ CheckerNext
  \/ StopCheckerUploading \/ StopProblemUploading \/ StopEnds \/ Crash \/ Restart

Spec == Init /\ [][Next]_vars

\* The main loop calls the uploaders again and again and both run; the server
\* is started again.  A request that is repeated gets through in the end.
Fairness ==
  /\ WF_vars(UploaderNext) /\ WF_vars(chk # "idle" /\ CheckerNext)
  /\ \A p \in Problems : SF_vars(RequestGets(p))
  /\ \A c \in Checkers : SF_vars(\E complete \in BOOLEAN : CheckerRequestGets(c, complete))
  /\ \A p \in Problems : SF_vars(job.id = p /\ PutProblem)
  /\ \A c \in Checkers : SF_vars(cjob.id = c /\ put_checker)
  /\ WF_vars(server = "stopping" /\ (StopProblemUploading \/ StopEnds))
  /\ WF_vars(Restart)

LiveSpec == Spec /\ Fairness
-----------------------------------------------------------------------------
\* What a problem's archive and checker become in its directory.
Stored(p, tests, checker) ==
  /\ <<"tests", p, tests>> \in data[p] /\ Cardinality(data[p]) = 2
  /\ \/ checker # Own /\ <<"link", checker, 0>> \in data[p]
     \/ checker = Own /\ \E v \in Versions : <<"own", p, v>> \in data[p]

\* What the web is told is there is there: `err` is "OK" while an upload goes
\* on, and an upload that the stop, a crash or a lost answer cut short is
\* never reported with it, nor is a checker whose old binary is gone and whose
\* new one was not compiled.  Directories that lost files to an error nobody
\* looks at (copyfile, symlink, the unpacker) are excepted: "OK" is sent for
\* them too.
OkMeansStored ==
  /\ \A p \in Problems : answer[p] = "OK" /\ torn[p] = {} =>
       Stored(p, wanted[p].tests, wanted[p].checker)
  /\ \A c \in Checkers : answer[c] = "OK" =>
       storage[c].source = wanted[c].version /\ storage[c].binary = wanted[c].version

\* A problem is replaced as a whole or not at all, whatever fails before the
\* move: its directory holds the tests of one version and one checker, except
\* while it is replaced, and after a crash or an ignored error in that moment,
\* until an upload has replaced what was lost.
FilesAreWhole ==
  \A p \in Problems :
    \/ torn[p] # {} \/ (upl = "move" /\ job.id = p)
    \/ data[p] = {}
    \/ \E v \in Versions, c \in Checkers \cup {Own} : Stored(p, v, c)

\* Everything the web offers is answered, through lost requests, stops and
\* crashes.
EventuallyAnswered ==
  \A x \in Things : answer[x] = "offered" ~> answer[x] # "offered"
=============================================================================
