--------------------------- MODULE UploaderProofs ---------------------------
(***************************************************************************)
(* Proofs about Uploader, for every set of problems and checkers and any   *)
(* number of offers, crashes, stops and errors that nobody looks at.       *)
(***************************************************************************)
EXTENDS Uploader, TLAPS, FiniteSetTheorems

UploaderPC == {"idle", "request", "create", "copy", "unlink", "unpack", "checker", "remove",
               "move", "put"}
MainPC == {"idle", "save", "unlink", "exec", "put"}

TypeOK ==
  /\ offers \in 0..MaxOffers
  /\ wanted \in [Things -> [version : 0..offers, tests : 0..offers,
                            checker : Checkers \cup {Own}]]
  /\ \A x \in Things : wanted[x].tests <= wanted[x].version
  /\ answer = [x \in Things |-> answer[x]] /\ data = [p \in Problems |-> data[p]]
  /\ torn \in [Problems -> SUBSET {"tests", "checker"}]
  /\ storage \in [Checkers -> [source : Versions, binary : Versions]]
  /\ problemActive \in BOOLEAN /\ checkerActive \in BOOLEAN
  /\ upl \in UploaderPC /\ err \in {"OK", "E_UPLOAD", "E_CHECKER"} /\ chk \in MainPC

\* What is uploaded is what the web offers, until it is answered: the answer
\* is the uploader's own.
JobIsOffered ==
  /\ server = "down" => upl = "idle"
  /\ upl \notin {"idle", "request"} =>
       job.id \in Problems /\ job = Params(job.id) /\ answer[job.id] = "offered"

CheckerIsOffered ==
  chk # "idle" => cjob.id \in Checkers /\ cjob = Params(cjob.id) /\ answer[cjob.id] = "offered"

\* The temporary directory: an archive, what it was unpacked to, the checker.
TheFile(kind) == <<kind, job.id, job.version>>
TheLink == <<"link", job.checker, 0>>
Unpacked == {{TheFile("raw")}, {TheFile("part")}, {TheFile("archive")}, {}}

TmpInv ==
  /\ upl = "copy" => job.archive /\ tmp = {}
  /\ upl \in {"unlink", "unpack"} => job.archive /\ tmp = {TheFile("archive")}
  /\ upl = "checker" => tmp = {} \/ (job.archive /\ tmp \in Unpacked)
  /\ upl \in {"remove", "move"} =>
       \E files \in Unpacked, checker \in {{}, {TheLink}, {TheFile("own")}} :
         /\ tmp = files \cup checker /\ (~job.archive => files = {})
         /\ IF job.checker = Own THEN job.archive /\ checker = {TheFile("own")}
                                ELSE checker # {TheFile("own")}

\* The directory of a problem holds its tests and its checker and nothing else.
Tests(p, v) == <<"tests", p, v>>

Has(p, tests, checker) ==
  \/ checker # Own /\ data[p] = {Tests(p, tests), <<"link", checker, 0>>}
  \/ checker = Own /\ \E v \in Versions : data[p] = {Tests(p, tests), <<"own", p, v>>}

\* What a complete upload of what the web offers leaves.
TestsOnly(p) == data[p] \ CheckerFiles(data[p]) = {Tests(p, wanted[p].tests)}

Right(p) ==
  /\ torn[p] = {} => Has(p, wanted[p].tests, wanted[p].checker)
  /\ "tests" \notin torn[p] => TestsOnly(p)

\* An archive the web does not offer again is in the directory, even after a
\* crash in the middle of the move.
TestsThere(p) ==
  /\ "tests" \notin torn[p]
  /\ answer[p] = "OK" \/ (answer[p] = "offered" /\ wanted[p].tests # wanted[p].version)
  => TestsOnly(p)

\* Nothing that was there before is left while files are copied.
Moving ==
  upl = "move" => IF job.archive THEN data[job.id] \subseteq tmp
                                 ELSE CheckerFiles(data[job.id]) \subseteq tmp

\* `err` is still "OK" when the upload is over, or when it was interrupted, but
\* then nothing is reported.
ErrInv == upl = "put" /\ err = "OK" /\ problemActive => Right(job.id)

Whole(p) ==
  \/ torn[p] # {} \/ (upl = "move" /\ job.id = p)
  \/ data[p] = {}
  \/ \E v \in Versions, c \in Checkers \cup {Own} : Has(p, v, c)

ProblemInv(p) == TestsThere(p) /\ (answer[p] = "OK" => Right(p)) /\ Whole(p)

\* The source that is compiled is the one the web offers.
StorageInv ==
  /\ chk \in {"unlink", "exec"} => storage[cjob.id].source = cjob.version
  /\ chk = "put" /\ cerr = "OK" =>
       storage[cjob.id].source = cjob.version /\ storage[cjob.id].binary = cjob.version

CheckerInv(c) ==
  answer[c] = "OK" =>
    storage[c].source = wanted[c].version /\ storage[c].binary = wanted[c].version

IInv ==
  /\ TypeOK /\ JobIsOffered /\ CheckerIsOffered /\ TmpInv /\ Moving /\ ErrInv /\ StorageInv
  /\ \A p \in Problems : ProblemInv(p)
  /\ \A c \in Checkers : CheckerInv(c)
-----------------------------------------------------------------------------
(* What the two threads leave alone.                                       *)

\* A step of the uploading thread touches the answer and the directory of its
\* own problem only.
LEMMA UploaderFrame ==
  ASSUME TypeOK, JobIsOffered, UploaderNext
  PROVE  /\ UNCHANGED <<wanted, offers, storage, server, restarts, problemActive, chkVars>>
         /\ \A x \in Things : x # job.id => answer'[x] = answer[x]
         /\ \A p \in Problems : p # job.id => data'[p] = data[p] /\ torn'[p] = torn[p]
         /\ \A c \in Checkers : answer'[c] = answer[c]
<1> USE UploaderAssumption DEF TypeOK, JobIsOffered, Things, webVars, fileVars,
        uplVars, chkVars
<1>1. CASE UploadCalled
  BY <1>1 DEF UploadCalled, Uploader
<1>2. CASE \E p \in Problems : RequestGets(p)
  BY <1>2 DEF RequestGets, Uploader
<1>3. CASE RequestFails
  BY <1>3 DEF RequestFails, Uploader
<1>4. CASE CreateTmp
  BY <1>4 DEF CreateTmp, create_temporary_dir, Failed
<1>5. CASE UploadCopies
  BY <1>5 DEF UploadCopies, Uploader
<1>6. CASE UploadFails
  BY <1>6 DEF UploadFails, Failed
<1>7. CASE UploadUnlinks
  BY <1>7 DEF UploadUnlinks, Failed
<1>8. CASE Unpack
  BY <1>8 DEF Unpack, Uploader
<1>9. CASE CompileChecker
  BY <1>9 DEF CompileChecker, Uploader
<1>10. CASE UseChecker
  BY <1>10 DEF UseChecker, Uploader
<1>11. CASE CheckerizeFails
  BY <1>11 DEF CheckerizeFails, Failed
<1>12. CASE MoveRemoves
  BY <1>12 DEF MoveRemoves, Uploader
<1>13. CASE \E f \in tmp : MoveCopies(f)
  BY <1>13 DEF MoveCopies, Uploader
<1>14. CASE MoveEnds
  BY <1>14 DEF MoveEnds, Uploader
<1>15. CASE PutProblem
  BY <1>15 DEF PutProblem, Uploader
<1>16. CASE PutProblemFails
  BY <1>16 DEF PutProblemFails, Uploader
<1> QED  BY <1>1, <1>2, <1>3, <1>4, <1>5, <1>6, <1>7, <1>8, <1>9, <1>10, <1>11,
            <1>12, <1>13, <1>14, <1>15, <1>16 DEF UploaderNext

\* A step of UploadChecker touches the answer and the files of its own checker
\* only.
LEMMA CheckerFrame ==
  ASSUME TypeOK, CheckerIsOffered, CheckerNext
  PROVE  /\ UNCHANGED <<wanted, offers, share, tmp, data, torn, server, restarts,
                        checkerActive, uplVars>>
         /\ \A c \in Checkers : c # cjob.id => answer'[c] = answer[c] /\ storage'[c] = storage[c]
         /\ \A p \in Problems : answer'[p] = answer[p]
<1> USE UploaderAssumption DEF TypeOK, CheckerIsOffered, Things, webVars,
        fileVars, uplVars, chkVars
<1>1. CASE \E c \in Checkers, complete \in BOOLEAN : CheckerRequestGets(c, complete)
  BY <1>1 DEF CheckerRequestGets, MainLoop
<1>2. CASE SaveChecker
  BY <1>2 DEF SaveChecker, MainLoop
<1>3. CASE CompileUnlinks
  BY <1>3 DEF CompileUnlinks, MainLoop
<1>4. CASE \E ok \in BOOLEAN : ExecCompiler(ok)
  BY <1>4 DEF ExecCompiler, MainLoop
<1>5. CASE put_checker
  BY <1>5 DEF put_checker, MainLoop
<1>6. CASE PutCheckerFails
  BY <1>6 DEF PutCheckerFails, MainLoop
<1> QED  BY <1>1, <1>2, <1>3, <1>4, <1>5, <1>6 DEF CheckerNext

\* The parameters of a reply are of the type the web has given them.
LEMMA ParamsType ==
  ASSUME TypeOK, NEW x \in Things
  PROVE  /\ Params(x).id = x /\ Params(x).version = wanted[x].version
         /\ Params(x).version \in 0..offers /\ Params(x).version \in Versions
         /\ Params(x).checker = wanted[x].checker /\ Params(x).checker \in Checkers \cup {Own}
         /\ Params(x).archive = (wanted[x].tests = wanted[x].version)
         /\ Params(x).archive \in BOOLEAN
BY UploaderAssumption DEF TypeOK, Params, Versions

\* Every step leaves the types alone.
LEMMA Typing ==
  ASSUME IInv, [Next]_vars
  PROVE  TypeOK'
<1>0. TypeOK /\ JobIsOffered /\ CheckerIsOffered
  BY DEF IInv
<1> USE <1>0, UploaderAssumption DEF TypeOK, UploaderPC, MainPC, Things,
        webVars, fileVars, uplVars, chkVars
<1>1. CASE \E p \in Problems, archive \in BOOLEAN, checker \in Checkers \cup {Own} :
             OfferProblem(p, archive, checker)
  <2>1. PICK p \in Problems, archive \in BOOLEAN, checker \in Checkers \cup {Own} :
          OfferProblem(p, archive, checker)
    BY <1>1
  <2> DEFINE Offer == [version |-> NextVersion(p), checker |-> checker,
                       tests |-> IF archive THEN NextVersion(p) ELSE wanted[p].tests]
             Old == [version : 0..offers, tests : 0..offers, checker : Checkers \cup {Own}]
             New == [version : 0..offers', tests : 0..offers', checker : Checkers \cup {Own}]
  <2>2. /\ offers' = offers + 1 /\ offers' \in 0..MaxOffers /\ p \in Things
        /\ wanted' = [wanted EXCEPT ![p] = Offer]
    BY <2>1 DEF OfferProblem
  <2>3. Offer \in New /\ Offer.tests <= Offer.version
    BY <2>2 DEF NextVersion
  <2>4. wanted \in [Things -> New]
    <3>1. ASSUME NEW r \in Old PROVE r \in New
      BY <2>2
    <3> QED  BY <3>1
  <2>5. wanted' \in [Things -> New] /\ \A x \in Things : wanted'[x].tests <= wanted'[x].version
    BY <2>2, <2>3, <2>4
  <2> HIDE DEF Offer, Old
  <2> QED  BY <2>1, <2>2, <2>5 DEF OfferProblem
<1>2. CASE \E c \in Checkers : OfferChecker(c)
  <2>1. PICK c \in Checkers : OfferChecker(c)
    BY <1>2
  <2> DEFINE Old == [version : 0..offers, tests : 0..offers, checker : Checkers \cup {Own}]
             New == [version : 0..offers', tests : 0..offers', checker : Checkers \cup {Own}]
  <2>2. offers' = offers + 1 /\ offers' \in 0..MaxOffers /\ c \in Things
    BY <2>1 DEF OfferChecker
  <2>3. ASSUME NEW r \in Old PROVE r \in New
    BY <2>2
  <2>4. ASSUME NEW x \in Things
        PROVE  wanted'[x] \in New /\ wanted'[x].tests <= wanted'[x].version
    <3>1. wanted[x] \in Old /\ wanted[x].tests <= wanted[x].version
      OBVIOUS
    <3>2. CASE x = c
      <4>1. wanted'[x] = [wanted[x] EXCEPT !.version = wanted[x].version + 1]
        BY <2>1, <2>2, <3>2 DEF OfferChecker
      <4>2. wanted'[x] = [version |-> wanted[x].version + 1, tests |-> wanted[x].tests,
                          checker |-> wanted[x].checker]
        BY <3>1, <4>1
      <4> QED  BY <2>2, <3>1, <4>2
    <3>3. CASE x # c
      BY <2>1, <2>3, <3>1, <3>3 DEF OfferChecker
    <3> QED  BY <3>2, <3>3
  <2>5. wanted' = [x \in Things |-> wanted'[x]]
    BY <2>1 DEF OfferChecker
  <2> HIDE DEF Old
  <2> QED  BY <2>1, <2>2, <2>4, <2>5 DEF OfferChecker
<1>3. CASE UploadCalled
  BY <1>3 DEF UploadCalled, Uploader
<1>4. CASE \E p \in Problems : RequestGets(p)
  BY <1>4 DEF RequestGets, Uploader
<1>5. CASE RequestFails
  BY <1>5 DEF RequestFails, Uploader
<1>6. CASE CreateTmp
  BY <1>6 DEF CreateTmp, create_temporary_dir, Failed
<1>7. CASE UploadCopies
  BY <1>7 DEF UploadCopies, Uploader
<1>8. CASE UploadFails
  BY <1>8 DEF UploadFails, Failed
<1>9. CASE UploadUnlinks
  BY <1>9 DEF UploadUnlinks, Failed
<1>10. CASE Unpack
  BY <1>10 DEF Unpack, Uploader
<1>11. CASE CompileChecker
  BY <1>11 DEF CompileChecker, Uploader
<1>12. CASE UseChecker
  BY <1>12 DEF UseChecker, Uploader
<1>13. CASE CheckerizeFails
  BY <1>13 DEF CheckerizeFails, Failed
<1>14. CASE MoveRemoves
  BY <1>14 DEF MoveRemoves, Uploader
<1>15. CASE \E f \in tmp : MoveCopies(f)
  BY <1>15 DEF MoveCopies, Uploader
<1>16. CASE MoveEnds
  <2>1. job.id \in Problems /\ Parts \subseteq {"tests", "checker"}
    BY <1>16 DEF MoveEnds, Uploader, JobIsOffered, Parts
  <2>2. torn' \in [Problems -> SUBSET {"tests", "checker"}]
    BY <1>16, <2>1 DEF MoveEnds
  <2> QED  BY <1>16, <2>2 DEF MoveEnds, Uploader
<1>17. CASE PutProblem
  BY <1>17 DEF PutProblem, Uploader
<1>18. CASE PutProblemFails
  BY <1>18 DEF PutProblemFails, Uploader
<1>19. CASE \E c \in Checkers, complete \in BOOLEAN : CheckerRequestGets(c, complete)
  BY <1>19 DEF CheckerRequestGets, MainLoop
<1>20. CASE SaveChecker
  <2>1. chk = "save" /\ cjob.id \in Checkers /\ cjob.version \in Versions
    BY <1>20, ParamsType DEF SaveChecker, MainLoop, CheckerIsOffered
  <2> QED  BY <1>20, <2>1 DEF SaveChecker, MainLoop
<1>21. CASE CompileUnlinks
  <2>1. 0 \in Versions
    BY DEF Versions
  <2> QED  BY <1>21, <2>1 DEF CompileUnlinks, MainLoop, CheckerIsOffered
<1>22. CASE \E ok \in BOOLEAN : ExecCompiler(ok)
  BY <1>22 DEF ExecCompiler, MainLoop, CheckerIsOffered, Versions
<1>23. CASE put_checker
  BY <1>23 DEF put_checker, MainLoop
<1>24. CASE PutCheckerFails
  BY <1>24 DEF PutCheckerFails, MainLoop
<1>25. CASE StopCheckerUploading
  BY <1>25 DEF StopCheckerUploading
<1>26. CASE StopProblemUploading
  BY <1>26 DEF StopProblemUploading
<1>27. CASE StopEnds
  BY <1>27 DEF StopEnds, Down
<1>28. CASE Crash
  <2>1. upl = "move" => job.id \in Problems /\ Parts \subseteq {"tests", "checker"}
    BY DEF JobIsOffered, Parts
  <2>2. torn' \in [Problems -> SUBSET {"tests", "checker"}]
    BY <1>28, <2>1 DEF Crash
  <2> QED  BY <1>28, <2>2 DEF Crash, Down
<1>29. CASE Restart
  BY <1>29 DEF Restart, Started
<1>30. CASE UNCHANGED vars
  BY <1>30 DEF vars
<1> QED  BY <1>1, <1>2, <1>3, <1>4, <1>5, <1>6, <1>7, <1>8, <1>9, <1>10, <1>11,
            <1>12, <1>13, <1>14, <1>15, <1>16, <1>17, <1>18, <1>19, <1>20,
            <1>21, <1>22, <1>23, <1>24, <1>25, <1>26, <1>27, <1>28, <1>29, <1>30
            DEF Next, UploaderNext, CheckerNext

\* Every step keeps the job of the uploading thread on offer.
LEMMA JobKept ==
  ASSUME IInv, [Next]_vars
  PROVE  JobIsOffered'
<1>0. TypeOK /\ JobIsOffered /\ CheckerIsOffered
  BY DEF IInv
<1> USE <1>0, UploaderAssumption DEF TypeOK, JobIsOffered, Params, Things,
        webVars, fileVars, uplVars, chkVars
<1>1. CASE \E p \in Problems, archive \in BOOLEAN, checker \in Checkers \cup {Own} :
             OfferProblem(p, archive, checker)
  BY <1>1 DEF OfferProblem, NextVersion
<1>2. CASE \E c \in Checkers : OfferChecker(c)
  BY <1>2 DEF OfferChecker
<1>3. CASE UploadCalled
  BY <1>3 DEF UploadCalled, Uploader
<1>4. CASE \E p \in Problems : RequestGets(p)
  BY <1>4 DEF RequestGets, Uploader
<1>5. CASE RequestFails
  BY <1>5 DEF RequestFails, Uploader
<1>6. CASE CreateTmp
  BY <1>6 DEF CreateTmp, create_temporary_dir, Failed
<1>7. CASE UploadCopies
  BY <1>7 DEF UploadCopies, Uploader
<1>8. CASE UploadFails
  BY <1>8 DEF UploadFails, Failed
<1>9. CASE UploadUnlinks
  BY <1>9 DEF UploadUnlinks, Failed
<1>10. CASE Unpack
  BY <1>10 DEF Unpack, Uploader
<1>11. CASE CompileChecker
  BY <1>11 DEF CompileChecker, Uploader
<1>12. CASE UseChecker
  BY <1>12 DEF UseChecker, Uploader
<1>13. CASE CheckerizeFails
  BY <1>13 DEF CheckerizeFails, Failed
<1>14. CASE MoveRemoves
  BY <1>14 DEF MoveRemoves, Uploader
<1>15. CASE \E f \in tmp : MoveCopies(f)
  BY <1>15 DEF MoveCopies, Uploader
<1>16. CASE MoveEnds
  BY <1>16 DEF MoveEnds, Uploader
<1>17. CASE PutProblem
  BY <1>17 DEF PutProblem, Uploader
<1>18. CASE PutProblemFails
  BY <1>18 DEF PutProblemFails, Uploader
<1>19. CASE CheckerNext
  BY <1>19, CheckerFrame
<1>20. CASE StopCheckerUploading
  BY <1>20 DEF StopCheckerUploading
<1>21. CASE StopProblemUploading
  BY <1>21 DEF StopProblemUploading
<1>22. CASE StopEnds
  BY <1>22 DEF StopEnds, Down
<1>23. CASE Crash
  BY <1>23 DEF Crash, Down
<1>24. CASE Restart
  BY <1>24 DEF Restart, Started
<1>25. CASE UNCHANGED vars
  BY <1>25 DEF vars
<1> QED  BY <1>1, <1>2, <1>3, <1>4, <1>5, <1>6, <1>7, <1>8, <1>9, <1>10, <1>11,
            <1>12, <1>13, <1>14, <1>15, <1>16, <1>17, <1>18, <1>19, <1>20,
            <1>21, <1>22, <1>23, <1>24, <1>25 DEF Next, UploaderNext

\* Every step keeps the job of the main loop on offer.
LEMMA CheckerJobKept ==
  ASSUME IInv, [Next]_vars
  PROVE  CheckerIsOffered'
<1>0. TypeOK /\ JobIsOffered /\ CheckerIsOffered
  BY DEF IInv
<1> USE <1>0, UploaderAssumption DEF TypeOK, CheckerIsOffered, Params, Things,
        webVars, fileVars, uplVars, chkVars
<1>1. CASE \E p \in Problems, archive \in BOOLEAN, checker \in Checkers \cup {Own} :
             OfferProblem(p, archive, checker)
  BY <1>1 DEF OfferProblem, NextVersion
<1>2. CASE \E c \in Checkers : OfferChecker(c)
  BY <1>2 DEF OfferChecker
<1>3. CASE UploaderNext
  BY <1>3, UploaderFrame
<1>4. CASE \E c \in Checkers, complete \in BOOLEAN : CheckerRequestGets(c, complete)
  BY <1>4 DEF CheckerRequestGets, MainLoop
<1>5. CASE SaveChecker
  BY <1>5 DEF SaveChecker, MainLoop
<1>6. CASE CompileUnlinks
  BY <1>6 DEF CompileUnlinks, MainLoop
<1>7. CASE \E ok \in BOOLEAN : ExecCompiler(ok)
  BY <1>7 DEF ExecCompiler, MainLoop
<1>8. CASE put_checker
  BY <1>8 DEF put_checker, MainLoop
<1>9. CASE PutCheckerFails
  BY <1>9 DEF PutCheckerFails, MainLoop
<1>10. CASE StopCheckerUploading
  BY <1>10 DEF StopCheckerUploading
<1>11. CASE StopProblemUploading
  BY <1>11 DEF StopProblemUploading
<1>12. CASE StopEnds
  BY <1>12 DEF StopEnds, Down
<1>13. CASE Crash
  BY <1>13 DEF Crash, Down
<1>14. CASE Restart
  BY <1>14 DEF Restart, Started
<1>15. CASE UNCHANGED vars
  BY <1>15 DEF vars
<1> QED  BY <1>1, <1>2, <1>3, <1>4, <1>5, <1>6, <1>7, <1>8, <1>9, <1>10, <1>11,
            <1>12, <1>13, <1>14, <1>15 DEF Next, CheckerNext

\* Every step of the main loop keeps what it knows of the storage, and the
\* checkers that were answered.
LEMMA StorageKept ==
  ASSUME IInv, [Next]_vars
  PROVE  StorageInv' /\ \A c \in Checkers : CheckerInv(c)'
<1>0. /\ TypeOK /\ JobIsOffered /\ CheckerIsOffered /\ StorageInv
      /\ \A c \in Checkers : CheckerInv(c)
  BY DEF IInv
<1> USE <1>0, UploaderAssumption
        DEF TypeOK, MainPC, CheckerIsOffered, StorageInv, CheckerInv, Params,
            Things, webVars, fileVars, uplVars, chkVars
<1>1. CASE \E p \in Problems, archive \in BOOLEAN, checker \in Checkers \cup {Own} :
             OfferProblem(p, archive, checker)
  BY <1>1 DEF OfferProblem, NextVersion
<1>2. CASE \E c \in Checkers : OfferChecker(c)
  BY <1>2 DEF OfferChecker
<1>3. CASE UploaderNext
  BY <1>3, UploaderFrame
<1>4. CASE \E c \in Checkers, complete \in BOOLEAN : CheckerRequestGets(c, complete)
  BY <1>4 DEF CheckerRequestGets, MainLoop
<1>5. CASE SaveChecker
  BY <1>5 DEF SaveChecker, MainLoop
<1>6. CASE CompileUnlinks
  BY <1>6 DEF CompileUnlinks, MainLoop
<1>7. CASE \E ok \in BOOLEAN : ExecCompiler(ok)
  BY <1>7 DEF ExecCompiler, MainLoop
<1>8. CASE put_checker
  BY <1>8 DEF put_checker, MainLoop
<1>9. CASE PutCheckerFails
  BY <1>9 DEF PutCheckerFails, MainLoop
<1>10. CASE StopCheckerUploading
  BY <1>10 DEF StopCheckerUploading
<1>11. CASE StopProblemUploading
  BY <1>11 DEF StopProblemUploading
<1>12. CASE StopEnds
  BY <1>12 DEF StopEnds, Down
<1>13. CASE Crash
  BY <1>13 DEF Crash, Down
<1>14. CASE Restart
  BY <1>14 DEF Restart, Started
<1>15. CASE UNCHANGED vars
  BY <1>15 DEF vars
<1> QED  BY <1>1, <1>2, <1>3, <1>4, <1>5, <1>6, <1>7, <1>8, <1>9, <1>10, <1>11,
            <1>12, <1>13, <1>14, <1>15 DEF Next, CheckerNext

\* Every step keeps the temporary directory what it is at its place.
LEMMA TmpKept ==
  ASSUME IInv, [Next]_vars
  PROVE  TmpInv'
<1>0. TypeOK /\ JobIsOffered /\ CheckerIsOffered /\ TmpInv
  BY DEF IInv
<1> USE <1>0 DEF TmpInv, TheFile, TheLink, Unpacked, webVars, fileVars,
        uplVars, chkVars
<1>1. CASE \E p \in Problems, archive \in BOOLEAN, checker \in Checkers \cup {Own} :
             OfferProblem(p, archive, checker)
  BY <1>1 DEF OfferProblem, NextVersion
<1>2. CASE \E c \in Checkers : OfferChecker(c)
  BY <1>2 DEF OfferChecker
<1>3. CASE UploadCalled
  BY <1>3 DEF UploadCalled, Uploader
<1>4. CASE \E p \in Problems : RequestGets(p)
  BY <1>4 DEF RequestGets, Uploader
<1>5. CASE RequestFails
  BY <1>5 DEF RequestFails, Uploader
<1>6. CASE CreateTmp
  <2>1. job.archive \in BOOLEAN
    BY <1>6, ParamsType DEF CreateTmp, JobIsOffered, Things
  <2> QED  BY <1>6, <2>1 DEF CreateTmp, create_temporary_dir, Failed
<1>7. CASE UploadCopies
  BY <1>7 DEF UploadCopies, Uploader
<1>8. CASE UploadFails
  BY <1>8 DEF UploadFails, Failed
<1>9. CASE UploadUnlinks
  BY <1>9 DEF UploadUnlinks, Failed
<1>10. CASE Unpack
  BY <1>10 DEF Unpack, Uploader
<1>11. CASE CompileChecker
  BY <1>11 DEF CompileChecker, Uploader, HasConf
<1>12. CASE UseChecker
  BY <1>12 DEF UseChecker, Uploader
<1>13. CASE CheckerizeFails
  BY <1>13 DEF CheckerizeFails, Failed
<1>14. CASE MoveRemoves
  BY <1>14 DEF MoveRemoves, Uploader
<1>15. CASE \E f \in tmp : MoveCopies(f)
  BY <1>15 DEF MoveCopies, Uploader
<1>16. CASE MoveEnds
  BY <1>16 DEF MoveEnds, Uploader
<1>17. CASE PutProblem
  BY <1>17 DEF PutProblem, Uploader
<1>18. CASE PutProblemFails
  BY <1>18 DEF PutProblemFails, Uploader
<1>19. CASE CheckerNext
  BY <1>19, CheckerFrame
<1>20. CASE StopCheckerUploading
  BY <1>20 DEF StopCheckerUploading
<1>21. CASE StopProblemUploading
  BY <1>21 DEF StopProblemUploading
<1>22. CASE StopEnds
  BY <1>22 DEF StopEnds, Down
<1>23. CASE Crash
  BY <1>23 DEF Crash, Down
<1>24. CASE Restart
  BY <1>24 DEF Restart, Started
<1>25. CASE UNCHANGED vars
  BY <1>25 DEF vars
<1> QED  BY <1>1, <1>2, <1>3, <1>4, <1>5, <1>6, <1>7, <1>8, <1>9, <1>10, <1>11,
            <1>12, <1>13, <1>14, <1>15, <1>16, <1>17, <1>18, <1>19, <1>20,
            <1>21, <1>22, <1>23, <1>24, <1>25 DEF Next, UploaderNext

\* Every step keeps old files out of the directory that is being filled.
LEMMA MovingKept ==
  ASSUME IInv, [Next]_vars
  PROVE  Moving'
<1>0. TypeOK /\ JobIsOffered /\ CheckerIsOffered /\ Moving
  BY DEF IInv
<1> USE <1>0 DEF TypeOK, JobIsOffered, Moving, CheckerFiles, webVars, fileVars,
        uplVars, chkVars
<1>1. CASE \E p \in Problems, archive \in BOOLEAN, checker \in Checkers \cup {Own} :
             OfferProblem(p, archive, checker)
  BY <1>1 DEF OfferProblem, NextVersion
<1>2. CASE \E c \in Checkers : OfferChecker(c)
  BY <1>2 DEF OfferChecker
<1>3. CASE UploadCalled
  BY <1>3 DEF UploadCalled, Uploader
<1>4. CASE \E p \in Problems : RequestGets(p)
  BY <1>4 DEF RequestGets, Uploader
<1>5. CASE RequestFails
  BY <1>5 DEF RequestFails, Uploader
<1>6. CASE CreateTmp
  BY <1>6 DEF CreateTmp, create_temporary_dir, Failed
<1>7. CASE UploadCopies
  BY <1>7 DEF UploadCopies, Uploader
<1>8. CASE UploadFails
  BY <1>8 DEF UploadFails, Failed
<1>9. CASE UploadUnlinks
  BY <1>9 DEF UploadUnlinks, Failed
<1>10. CASE Unpack
  BY <1>10 DEF Unpack, Uploader
<1>11. CASE CompileChecker
  BY <1>11 DEF CompileChecker, Uploader
<1>12. CASE UseChecker
  BY <1>12 DEF UseChecker, Uploader
<1>13. CASE CheckerizeFails
  BY <1>13 DEF CheckerizeFails, Failed
<1>14. CASE MoveRemoves
  BY <1>14 DEF MoveRemoves, Uploader
<1>15. CASE \E f \in tmp : MoveCopies(f)
  BY <1>15 DEF MoveCopies, Uploader
<1>16. CASE MoveEnds
  BY <1>16 DEF MoveEnds, Uploader
<1>17. CASE PutProblem
  BY <1>17 DEF PutProblem, Uploader
<1>18. CASE PutProblemFails
  BY <1>18 DEF PutProblemFails, Uploader
<1>19. CASE CheckerNext
  BY <1>19, CheckerFrame
<1>20. CASE StopCheckerUploading
  BY <1>20 DEF StopCheckerUploading
<1>21. CASE StopProblemUploading
  BY <1>21 DEF StopProblemUploading
<1>22. CASE StopEnds
  BY <1>22 DEF StopEnds, Down
<1>23. CASE Crash
  BY <1>23 DEF Crash, Down
<1>24. CASE Restart
  BY <1>24 DEF Restart, Started
<1>25. CASE UNCHANGED vars
  BY <1>25 DEF vars
<1> QED  BY <1>1, <1>2, <1>3, <1>4, <1>5, <1>6, <1>7, <1>8, <1>9, <1>10, <1>11,
            <1>12, <1>13, <1>14, <1>15, <1>16, <1>17, <1>18, <1>19, <1>20,
            <1>21, <1>22, <1>23, <1>24, <1>25 DEF Next, UploaderNext
-----------------------------------------------------------------------------
(* The directory of a problem.                                             *)

\* What an upload that was moved leaves is whole.
LEMMA RightIsWhole ==
  ASSUME TypeOK', NEW p \in Problems, Right(p)'
  PROVE  TestsThere(p)' /\ Whole(p)'
<1>1. wanted'[p].tests \in Versions /\ wanted'[p].checker \in Checkers \cup {Own}
  BY UploaderAssumption DEF TypeOK, Things, Versions
<1>2. CASE torn'[p] = {}
  BY <1>1, <1>2 DEF Right, TestsThere, Whole, Has
<1>3. CASE torn'[p] # {}
  BY <1>3 DEF Right, TestsThere, Whole
<1> QED  BY <1>2, <1>3

\* move_to_dataroot leaves exactly what the web offers when nothing was lost,
\* also when the archive was uploaded before, and when a crash has cut short
\* an earlier attempt.
LEMMA MoveIsRight ==
  ASSUME IInv, MoveEnds
  PROVE  Right(job.id)'
<1> DEFINE p == job.id
<1>0. TypeOK /\ JobIsOffered /\ TmpInv /\ Moving /\ TestsThere(p) /\ p \in Problems
  BY DEF IInv, ProblemInv, MoveEnds, Uploader, JobIsOffered
<1>1. /\ upl = "move" /\ wanted' = wanted /\ job' = job
      /\ data'[p] = {Adopted(f) : f \in data[p]}
      /\ torn'[p] = IF Complete THEN torn[p] \ Parts ELSE torn[p] \cup Parts
  BY <1>0 DEF MoveEnds, Uploader, TypeOK, webVars
<1>2. /\ job = Params(p) /\ answer[p] = "offered" /\ p \in Things
      /\ job.version = wanted[p].version /\ job.version \in Versions
      /\ job.checker = wanted[p].checker
      /\ job.archive = (wanted[p].tests = wanted[p].version)
  BY <1>0, <1>1, ParamsType DEF JobIsOffered, Things
<1>a. ASSUME torn'[p] # {}, "tests" \notin torn'[p] PROVE TestsOnly(p)'
  <2>1. ~job.archive /\ "tests" \notin torn[p]
    BY <1>0, <1>1, <1>2, <1>a DEF Parts, TypeOK
  <2>2. TestsOnly(p)
    BY <1>0, <1>2, <2>1 DEF TestsThere
  <2>3. data'[p] = data[p]
    <3>1. \A f \in data[p] : f = Tests(p, wanted[p].tests) \/ f \in CheckerFiles(data[p])
      BY <2>2 DEF TestsOnly
    <3>2. \A f \in data[p] : Adopted(f) = f
      BY <3>1 DEF Adopted, CheckerFiles, Tests
    <3> QED  BY <1>1, <3>2
  <2> QED  BY <1>1, <2>2, <2>3 DEF TestsOnly
<1>b. Has(p, wanted[p].tests, wanted[p].checker)' => TestsOnly(p)'
  BY <1>1 DEF Has, TestsOnly, CheckerFiles, Tests
<1> SUFFICES ASSUME torn'[p] = {} PROVE Has(p, wanted[p].tests, wanted[p].checker)'
  BY <1>1, <1>a, <1>b DEF Right
<1>3. Complete /\ (~job.archive => "tests" \notin torn[p])
  BY <1>1 DEF Parts
<1>4. PICK files \in Unpacked, checker \in {{}, {TheLink}, {TheFile("own")}} :
        /\ tmp = files \cup checker /\ (~job.archive => files = {})
        /\ IF job.checker = Own THEN job.archive /\ checker = {TheFile("own")}
                               ELSE checker # {TheFile("own")}
  BY <1>0, <1>1 DEF TmpInv
<1>5. job.checker # Own => checker = {TheLink}
  <2>1. \A f \in files : f[1] \notin {"own", "link"}
    BY <1>4 DEF Unpacked, TheFile
  <2>2. checker # {}
    BY <1>3, <1>4, <2>1 DEF Complete, CheckerFiles
  <2> QED  BY <1>4, <2>2
<1>6. job.archive => files = {TheFile("raw")}
  BY <1>3, <1>4 DEF Complete, Unpacked, TheFile, TheLink
<1>7. CASE job.archive
  <2>1. data[p] = {TheFile("raw")} \cup checker
    BY <1>0, <1>1, <1>3, <1>4, <1>6, <1>7 DEF Moving, Complete
  <2>2. CASE job.checker = Own
    <3>0. data[p] = {TheFile("raw"), TheFile("own")}
      BY <1>4, <2>1, <2>2
    <3>1. data'[p] = {Tests(p, job.version), TheFile("own")}
      BY <1>1, <3>0 DEF Adopted, TheFile, Tests
    <3>2. data'[p] = {Tests(p, wanted'[p].tests), <<"own", p, job.version>>}
      BY <1>1, <1>2, <1>7, <3>1 DEF TheFile
    <3> QED  BY <1>1, <1>2, <2>2, <3>2 DEF Has
  <2>3. CASE job.checker # Own
    <3>0. data[p] = {TheFile("raw"), TheLink}
      BY <1>5, <2>1, <2>3
    <3>1. data'[p] = {Tests(p, job.version), TheLink}
      BY <1>1, <3>0 DEF Adopted, TheFile, Tests, TheLink
    <3> QED  BY <1>1, <1>2, <1>7, <2>3, <3>1 DEF Has, TheLink
  <2> QED  BY <2>2, <2>3
<1>8. CASE ~job.archive
  <2>0. tmp = {TheLink} /\ job.checker # Own
    BY <1>4, <1>5, <1>8
  <2>1. CheckerFiles(data[p]) = {TheLink}
    BY <1>0, <1>1, <1>3, <1>8, <2>0 DEF Moving, Complete, CheckerFiles, TheLink
  <2>2. data[p] \ CheckerFiles(data[p]) = {Tests(p, wanted[p].tests)}
    BY <1>0, <1>2, <1>3, <1>8 DEF TestsThere, TestsOnly
  <2>3. CheckerFiles(data[p]) \subseteq data[p]
    BY DEF CheckerFiles
  <2>4. data[p] = {Tests(p, wanted[p].tests), TheLink}
    BY <2>1, <2>2, <2>3
  <2>5. data'[p] = {Tests(p, wanted[p].tests), TheLink}
    BY <1>1, <2>4 DEF Adopted, Tests, TheLink
  <2> QED  BY <1>1, <1>2, <2>0, <2>5 DEF Has, TheLink
<1> QED  BY <1>7, <1>8, <1>2

\* Only a complete upload is about to be reported with "OK".
LEMMA ErrKept ==
  ASSUME IInv, [Next]_vars
  PROVE  ErrInv'
<1>0. TypeOK /\ JobIsOffered /\ CheckerIsOffered /\ ErrInv
  BY DEF IInv
<1> USE <1>0, UploaderAssumption DEF TypeOK, JobIsOffered, ErrInv, webVars,
        fileVars, uplVars, chkVars
<1>s. ASSUME NEW p \in Problems, data'[p] = data[p], wanted'[p] = wanted[p],
             torn'[p] = torn[p], Right(p)
      PROVE  Right(p)'
  BY <1>s DEF Right, Has, TestsOnly
<1>1. CASE \E p \in Problems, archive \in BOOLEAN, checker \in Checkers \cup {Own} :
             OfferProblem(p, archive, checker)
  BY <1>1, <1>s DEF OfferProblem, NextVersion
<1>2. CASE \E c \in Checkers : OfferChecker(c)
  BY <1>2, <1>s DEF OfferChecker, Things
<1>3. CASE UploadCalled
  BY <1>3 DEF UploadCalled, Uploader
<1>4. CASE \E p \in Problems : RequestGets(p)
  BY <1>4 DEF RequestGets, Uploader
<1>5. CASE RequestFails
  BY <1>5 DEF RequestFails, Uploader
<1>6. CASE CreateTmp
  BY <1>6 DEF CreateTmp, create_temporary_dir, Failed
<1>7. CASE UploadCopies
  BY <1>7 DEF UploadCopies, Uploader
<1>8. CASE UploadFails
  BY <1>8 DEF UploadFails, Failed
<1>9. CASE UploadUnlinks
  BY <1>9 DEF UploadUnlinks, Failed
<1>10. CASE Unpack
  BY <1>10 DEF Unpack, Uploader
<1>11. CASE CompileChecker
  BY <1>11 DEF CompileChecker, Uploader
<1>12. CASE UseChecker
  BY <1>12 DEF UseChecker, Uploader
<1>13. CASE CheckerizeFails
  BY <1>13 DEF CheckerizeFails, Failed
<1>14. CASE MoveRemoves
  BY <1>14 DEF MoveRemoves, Uploader
<1>15. CASE \E f \in tmp : MoveCopies(f)
  BY <1>15 DEF MoveCopies, Uploader
<1>16. CASE MoveEnds
  BY <1>16, MoveIsRight DEF MoveEnds, Uploader
<1>17. CASE PutProblem
  BY <1>17 DEF PutProblem, Uploader
<1>18. CASE PutProblemFails
  BY <1>18 DEF PutProblemFails, Uploader
<1>19. CASE CheckerNext
  BY <1>19, <1>s, CheckerFrame
<1>20. CASE StopCheckerUploading
  BY <1>20, <1>s DEF StopCheckerUploading
<1>21. CASE StopProblemUploading
  BY <1>21 DEF StopProblemUploading
<1>22. CASE StopEnds
  BY <1>22 DEF StopEnds, Down
<1>23. CASE Crash
  BY <1>23 DEF Crash, Down
<1>24. CASE Restart
  BY <1>24 DEF Restart, Started
<1>25. CASE UNCHANGED vars
  BY <1>25, <1>s DEF vars
<1> QED  BY <1>1, <1>2, <1>3, <1>4, <1>5, <1>6, <1>7, <1>8, <1>9, <1>10, <1>11,
            <1>12, <1>13, <1>14, <1>15, <1>16, <1>17, <1>18, <1>19, <1>20,
            <1>21, <1>22, <1>23, <1>24, <1>25 DEF Next, UploaderNext

\* A directory stays whole, and what is known of a problem holds, as long as
\* nobody touches it.
LEMMA WholeFrame ==
  ASSUME NEW p \in Problems, Whole(p), data'[p] = data[p],
         torn[p] # {} \/ (upl = "move" /\ job.id = p) =>
           torn'[p] # {} \/ (upl' = "move" /\ job'.id = p)
  PROVE  Whole(p)'
BY DEF Whole, Has

LEMMA ProblemFrame ==
  ASSUME NEW p \in Problems, ProblemInv(p),
         data'[p] = data[p], answer'[p] = answer[p], wanted'[p] = wanted[p],
         torn[p] \subseteq torn'[p],
         torn[p] # {} \/ (upl = "move" /\ job.id = p) =>
           torn'[p] # {} \/ (upl' = "move" /\ job'.id = p)
  PROVE  ProblemInv(p)'
BY DEF ProblemInv, TestsThere, TestsOnly, Right, Whole, Has

\* Every step keeps what is known of a problem.
LEMMA ProblemKept ==
  ASSUME IInv, [Next]_vars, TypeOK', NEW p \in Problems
  PROVE  ProblemInv(p)'
<1>0. TypeOK /\ JobIsOffered /\ CheckerIsOffered /\ ProblemInv(p) /\ p \in Things
  BY DEF IInv, Things
<1> USE <1>0, UploaderAssumption
        DEF TypeOK, JobIsOffered, webVars, fileVars, uplVars, chkVars
<1>1. CASE \E q \in Problems, archive \in BOOLEAN, checker \in Checkers \cup {Own} :
             OfferProblem(q, archive, checker)
  <2>1. PICK q \in Problems, archive \in BOOLEAN, checker \in Checkers \cup {Own} :
          OfferProblem(q, archive, checker)
    BY <1>1
  <2>2. CASE q # p
    BY <2>1, <2>2, ProblemFrame DEF OfferProblem
  <2>3. CASE q = p
    <3>1. /\ data' = data /\ torn' = torn /\ upl' = upl /\ job' = job
          /\ answer[p] # "offered" /\ answer'[p] = "offered"
          /\ archive \/ answer[p] = "OK"
          /\ wanted'[p].version = wanted[p].version + 1
          /\ wanted'[p].tests = IF archive THEN wanted'[p].version ELSE wanted[p].tests
      BY <2>1, <2>3 DEF OfferProblem, NextVersion
    <3>2. wanted[p].version \in Nat /\ wanted[p].tests \in Nat
      OBVIOUS
    <3>4. Whole(p)'
      BY <3>1, WholeFrame DEF ProblemInv
    <3>5. TestsThere(p)'
      BY <3>1, <3>2 DEF ProblemInv, TestsThere, TestsOnly
    <3> QED  BY <3>1, <3>4, <3>5 DEF ProblemInv
  <2> QED  BY <2>2, <2>3
<1>2. CASE \E c \in Checkers : OfferChecker(c)
  <2>1. /\ data' = data /\ torn' = torn /\ upl' = upl /\ job' = job
        /\ answer'[p] = answer[p] /\ wanted'[p] = wanted[p]
    BY <1>2 DEF OfferChecker, Things
  <2> QED  BY <2>1, ProblemFrame
<1>3. CASE UploadCalled
  BY <1>3, ProblemFrame DEF UploadCalled, Uploader
<1>4. CASE \E q \in Problems : RequestGets(q)
  BY <1>4, ProblemFrame DEF RequestGets, Uploader
<1>5. CASE RequestFails
  BY <1>5, ProblemFrame DEF RequestFails, Uploader
<1>6. CASE CreateTmp
  BY <1>6, ProblemFrame DEF CreateTmp, create_temporary_dir, Failed
<1>7. CASE UploadCopies
  BY <1>7, ProblemFrame DEF UploadCopies, Uploader
<1>8. CASE UploadFails
  BY <1>8, ProblemFrame DEF UploadFails, Failed
<1>9. CASE UploadUnlinks
  BY <1>9, ProblemFrame DEF UploadUnlinks, Failed
<1>10. CASE Unpack
  BY <1>10, ProblemFrame DEF Unpack, Uploader
<1>11. CASE CompileChecker
  BY <1>11, ProblemFrame DEF CompileChecker, Uploader
<1>12. CASE UseChecker
  BY <1>12, ProblemFrame DEF UseChecker, Uploader
<1>13. CASE CheckerizeFails
  BY <1>13, ProblemFrame DEF CheckerizeFails, Failed
<1>14. CASE MoveRemoves
  <2>1. CASE p # job.id
    BY <1>14, <2>1, ProblemFrame DEF MoveRemoves, Uploader
  <2>2. CASE p = job.id
    <3>1. /\ upl' = "move" /\ job' = job /\ wanted' = wanted /\ answer' = answer
          /\ answer[p] = "offered" /\ job.archive = (wanted[p].tests = wanted[p].version)
          /\ data'[p] = IF job.archive THEN {} ELSE data[p] \ CheckerFiles(data[p])
      BY <1>14, <2>2, ParamsType DEF MoveRemoves, Uploader
    <3>2. data'[p] \subseteq data[p] /\ (~job.archive =>
            data'[p] \ CheckerFiles(data'[p]) = data[p] \ CheckerFiles(data[p]))
      BY <3>1 DEF CheckerFiles
    <3>4. TestsThere(p)'
      BY <1>14, <3>1, <3>2 DEF ProblemInv, TestsThere, TestsOnly, MoveRemoves
    <3> QED  BY <2>2, <3>1, <3>4 DEF ProblemInv, Whole
  <2> QED  BY <2>1, <2>2
<1>15. CASE \E f \in tmp : MoveCopies(f)
  <2>1. PICK f \in tmp : MoveCopies(f)
    BY <1>15
  <2>2. CASE p # job.id
    BY <2>1, <2>2, ProblemFrame DEF MoveCopies, Uploader
  <2>3. CASE p = job.id
    <3>1. /\ upl = "move" /\ upl' = "move" /\ job' = job /\ wanted' = wanted /\ answer' = answer
          /\ answer[p] = "offered" /\ job.archive = (wanted[p].tests = wanted[p].version)
          /\ data'[p] = data[p] \cup {f}
      BY <2>1, <2>3, ParamsType DEF MoveCopies, Uploader
    <3>2. ~job.archive => f = TheLink
      BY <3>1 DEF IInv, TmpInv
    <3>3. ~job.archive => data'[p] \ CheckerFiles(data'[p]) = data[p] \ CheckerFiles(data[p])
      BY <3>1, <3>2 DEF CheckerFiles, TheLink
    <3>5. TestsThere(p)'
      BY <2>1, <3>1, <3>3 DEF ProblemInv, TestsThere, TestsOnly, MoveCopies
    <3> QED  BY <2>3, <3>1, <3>5 DEF ProblemInv, Whole
  <2> QED  BY <2>2, <2>3
<1>16. CASE MoveEnds
  <2>1. CASE p # job.id
    BY <1>16, <2>1, ProblemFrame DEF MoveEnds, Uploader
  <2>2. CASE p = job.id
    <3>1. Right(p)' /\ answer'[p] = "offered"
      BY <1>16, <2>2, MoveIsRight DEF MoveEnds, Uploader
    <3> QED  BY <3>1, RightIsWhole DEF ProblemInv
  <2> QED  BY <2>1, <2>2
<1>17. CASE PutProblem
  <2>1. CASE p # job.id
    BY <1>17, <2>1, ProblemFrame DEF PutProblem, Uploader
  <2>2. CASE p = job.id
    <3>1. /\ upl = "put" /\ problemActive /\ answer'[p] = err /\ err # "offered"
          /\ data' = data /\ wanted' = wanted /\ torn' = torn
      BY <1>17, <2>2 DEF PutProblem, Uploader, SendsProblem
    <3>2. Whole(p)'
      BY <3>1 DEF ProblemInv, Whole, Has
    <3>3. CASE err = "OK"
      <4>1. Right(p)
        BY <2>2, <3>1, <3>3 DEF IInv, ErrInv
      <4>2. Right(p)'
        BY <3>1, <4>1 DEF Right, Has, TestsOnly
      <4> QED  BY <3>2, <4>2, RightIsWhole DEF ProblemInv
    <3>4. CASE err # "OK"
      BY <3>1, <3>2, <3>4 DEF ProblemInv, TestsThere
    <3> QED  BY <3>3, <3>4
  <2> QED  BY <2>1, <2>2
<1>18. CASE PutProblemFails
  BY <1>18, ProblemFrame DEF PutProblemFails, Uploader
<1>19. CASE CheckerNext
  BY <1>19, CheckerFrame, ProblemFrame
<1>20. CASE StopCheckerUploading
  BY <1>20, ProblemFrame DEF StopCheckerUploading
<1>21. CASE StopProblemUploading
  BY <1>21, ProblemFrame DEF StopProblemUploading
<1>22. CASE StopEnds
  BY <1>22, ProblemFrame DEF StopEnds, Down
<1>23. CASE Crash
  <2>1. /\ data' = data /\ answer' = answer /\ wanted' = wanted
        /\ torn[p] \subseteq torn'[p]
        /\ upl = "move" /\ job.id = p => torn'[p] # {}
    BY <1>23 DEF Crash, Parts
  <2> QED  BY <2>1, ProblemFrame
<1>24. CASE Restart
  BY <1>24, ProblemFrame DEF Restart, Started
<1>25. CASE UNCHANGED vars
  BY <1>25, ProblemFrame DEF vars
<1> QED  BY <1>1, <1>2, <1>3, <1>4, <1>5, <1>6, <1>7, <1>8, <1>9, <1>10, <1>11,
            <1>12, <1>13, <1>14, <1>15, <1>16, <1>17, <1>18, <1>19, <1>20,
            <1>21, <1>22, <1>23, <1>24, <1>25 DEF Next, UploaderNext
-----------------------------------------------------------------------------
\* A directory with tests and a checker has two files.
LEMMA HasIsStored ==
  ASSUME NEW p \in Problems, NEW v, NEW c, Has(p, v, c)
  PROVE  Stored(p, v, c)
<1>1. ASSUME NEW a, NEW b, a # b PROVE Cardinality({a, b}) = 2
  <2>1. IsFiniteSet({a}) /\ Cardinality({a}) = 1
    BY FS_Singleton
  <2>2. {a, b} = {a} \cup {b} /\ b \notin {a}
    BY <1>1
  <2> QED  BY <2>1, <2>2, FS_AddElement
<1>2. Tests(p, v) # <<"link", c, 0>> /\ \A n : Tests(p, v) # <<"own", p, n>>
  BY DEF Tests
<1>3. Tests(p, v) \in data[p] /\ Cardinality(data[p]) = 2
  <2>1. CASE data[p] = {Tests(p, v), <<"link", c, 0>>}
    BY <1>1, <1>2, <2>1
  <2>2. ASSUME NEW n, data[p] = {Tests(p, v), <<"own", p, n>>}
        PROVE  Tests(p, v) \in data[p] /\ Cardinality(data[p]) = 2
    <3>1. Tests(p, v) # <<"own", p, n>>
      BY <1>2
    <3>2. Cardinality({Tests(p, v), <<"own", p, n>>}) = 2
      BY <1>1, <3>1
    <3> QED  BY <2>2, <3>2
  <2> QED  BY <2>1, <2>2 DEF Has
<1> QED  BY <1>3 DEF Has, Stored, Tests

\* The invariant holds initially ...
LEMMA InitIInv == Init => IInv
<1> SUFFICES ASSUME Init PROVE IInv
  OBVIOUS
<1> USE UploaderAssumption DEF Init
<1>1. TypeOK
  BY DEF TypeOK, NoOffer, Versions, UploaderPC, MainPC
<1>2. /\ JobIsOffered /\ CheckerIsOffered /\ TmpInv /\ Moving /\ ErrInv /\ StorageInv
  BY DEF JobIsOffered, CheckerIsOffered, TmpInv, Moving, ErrInv, StorageInv
<1>3. ASSUME NEW p \in Problems PROVE ProblemInv(p)
  BY DEF ProblemInv, TestsThere, Whole, Things
<1>4. ASSUME NEW c \in Checkers PROVE CheckerInv(c)
  BY DEF CheckerInv, Things
<1> QED  BY <1>1, <1>2, <1>3, <1>4 DEF IInv

\* ... and every step keeps it.
LEMMA Inductive == IInv /\ [Next]_vars => IInv'
<1> SUFFICES ASSUME IInv, [Next]_vars PROVE IInv'
  OBVIOUS
<1>1. TypeOK' /\ JobIsOffered' /\ CheckerIsOffered' /\ TmpInv' /\ Moving' /\ ErrInv'
  BY Typing, JobKept, CheckerJobKept, TmpKept, MovingKept, ErrKept
<1>2. StorageInv' /\ \A c \in Checkers : CheckerInv(c)'
  BY StorageKept
<1>3. \A p \in Problems : ProblemInv(p)'
  BY <1>1, ProblemKept
<1> QED  BY <1>1, <1>2, <1>3 DEF IInv

\* The inductive invariant is an invariant of the uploaders.
LEMMA IInvHolds == Spec => []IInv
BY InitIInv, Inductive, PTL DEF Spec

\* Whatever stops, crashes, lost requests and failures cut short: what the web
\* was told is stored is stored, in the version the web offers, unless files
\* were lost to an error that nobody looks at.
THEOREM OkIsStored == Spec => []OkMeansStored
<1>1. IInv => OkMeansStored
  <2> SUFFICES ASSUME IInv PROVE OkMeansStored
    OBVIOUS
  <2>1. ASSUME NEW p \in Problems, answer[p] = "OK", torn[p] = {}
        PROVE  Stored(p, wanted[p].tests, wanted[p].checker)
    BY <2>1, HasIsStored DEF IInv, ProblemInv, Right
  <2>2. ASSUME NEW c \in Checkers, answer[c] = "OK"
        PROVE  storage[c].source = wanted[c].version /\ storage[c].binary = wanted[c].version
    BY <2>2 DEF IInv, CheckerInv
  <2> QED  BY <2>1, <2>2 DEF OkMeansStored
<1> QED  BY <1>1, IInvHolds, PTL

\* A directory that lost nothing to a crash or an ignored error holds one
\* version of a problem as a whole, except while the move goes on.
THEOREM DirectoriesWhole == Spec => []FilesAreWhole
<1>1. IInv => FilesAreWhole
  <2> SUFFICES ASSUME IInv, NEW p \in Problems
               PROVE  \/ torn[p] # {} \/ (upl = "move" /\ job.id = p)
                      \/ data[p] = {}
                      \/ \E v \in Versions, c \in Checkers \cup {Own} : Stored(p, v, c)
    BY DEF FilesAreWhole
  <2> QED  BY HasIsStored DEF IInv, ProblemInv, Whole
<1> QED  BY <1>1, IInvHolds, PTL
=============================================================================
