----------------------------- MODULE TestingDirs -----------------------------
(***************************************************************************)
(* The directories solutions are tested in                                 *)
(* (webtester/modules/informatics/tester.c, libwebtester/fs.c).  Each      *)
(* testing thread makes the directory of its solution anew and marks it    *)
(* with a lock file; at its end it deletes the directories that are too    *)
(* many and not locked.  A solution may be tested again when its last      *)
(* thread has ended.                                                       *)
(*                                                                         *)
(* flock_set closes the lock file and so drops the lock it has just taken, *)
(* F_GETLK does not report locks of the own process, and flock_test        *)
(* returns the opposite of what its comment says: together they test       *)
(* whether the lock file exists.                                           *)
(***************************************************************************)
EXTENDS Integers, Sequences, FiniteSets, SequencesExt

CONSTANTS Solutions,      \* numbers: the listing is sorted by them
          KeepAlive,      \* keep_alive_testdirs
          MaxTestings     \* bound: testings in all

ASSUME DirsAssumption ==
  Solutions \subseteq Nat /\ KeepAlive \in Nat /\ MaxTestings \in Nat

VARIABLES
  dirs, lockFiles,   \* on the disk
  lck, unlinker,     \* owners of lck_mutex and unlink_mutex; 0 is none
  at,                \* where the thread of each solution is
  ls, to_delete,     \* of the owner of unlink_mutex
  again,             \* solutions whose directory was there, or listed, before
  testings

dirVars == <<dirs, lockFiles, lck, unlinker, at, ls, to_delete, again, testings>>

Nobody == -1

DirsInit ==
  /\ dirs = {} /\ lockFiles = {} /\ lck = Nobody /\ unlinker = Nobody
  /\ at = [s \in Solutions |-> "none"]
  /\ ls = <<>> /\ to_delete = 0 /\ again = {} /\ testings = 0

Moves(s, from, to) == at[s] = from /\ at' = [at EXCEPT ![s] = to]
-----------------------------------------------------------------------------
(* fs.c                                                                    *)

unlinkdir(s) == dirs' = dirs \ {s} /\ lockFiles' = lockFiles \ {s}

\* The file is created; the lock does not outlive the call.
flock_set(s) == lockFiles' = lockFiles \cup (IF s \in dirs THEN {s} ELSE {})

flock_clear(s) == lockFiles' = lockFiles \ {s}

\* Mutant of flock_test: as its comment has it, nonzero for a locked file.
flock_test_documented(s) == s \notin Solutions

flock_test(s) == s \in lockFiles

\* The names in increasing order.
dir_listing(existing) ==
  CHOOSE l \in SetToSeqs(existing) : \A j, k \in DOMAIN l : j < k => l[j] < l[k]
-----------------------------------------------------------------------------
(* testing_thread, before and after the testing.                           *)

\* Delete all unwanted data.
Begin(s) ==
  /\ testings < MaxTestings /\ testings' = testings + 1
  /\ Moves(s, "none", "lck") /\ unlinkdir(s)
  /\ again' = IF s \in dirs \cup Range(ls) THEN again \cup {s} ELSE again \ {s}
  /\ UNCHANGED <<lck, unlinker, ls, to_delete>>

LockDirs(s) ==
  /\ Moves(s, "lck", "mkdir") /\ lck = Nobody /\ lck' = s
  /\ UNCHANGED <<dirs, lockFiles, unlinker, ls, to_delete, again, testings>>

MakeDir(s) ==
  /\ Moves(s, "mkdir", "flock") /\ dirs' = dirs \cup {s}
  /\ UNCHANGED <<lockFiles, lck, unlinker, ls, to_delete, again, testings>>

SetLock(s) ==
  /\ Moves(s, "flock", "testing") /\ flock_set(s) /\ lck' = Nobody
  /\ UNCHANGED <<dirs, unlinker, ls, to_delete, again, testings>>

TestingEnds(s) ==
  /\ Moves(s, "testing", "unlink") /\ flock_clear(s)
  /\ UNCHANGED <<dirs, lck, unlinker, ls, to_delete, again, testings>>
-----------------------------------------------------------------------------
(* unlink_unwanted_testing_dirs.                                           *)

LockUnlink(s) ==
  /\ Moves(s, "unlink", "interval") /\ unlinker = Nobody /\ unlinker' = s
  /\ UNCHANGED <<dirs, lockFiles, lck, ls, to_delete, again, testings>>

\* unlink_interval has not passed yet.
NotYet(s) ==
  /\ Moves(s, "interval", "none") /\ unlinker' = Nobody
  /\ UNCHANGED <<dirs, lockFiles, lck, ls, to_delete, again, testings>>

\* The mutex lck is taken for the listing alone.
ListDirs(s) ==
  /\ Moves(s, "interval", "each") /\ lck = Nobody
  /\ ls' = dir_listing(dirs)
  /\ to_delete' = IF Cardinality(dirs) > KeepAlive
                    THEN Cardinality(dirs) - KeepAlive ELSE 0
  /\ UNCHANGED <<dirs, lockFiles, lck, unlinker, again, testings>>

\* A locked directory is skipped, but counts.
SkipLocked(s) ==
  /\ Moves(s, "each", "each") /\ to_delete > 0 /\ ls # <<>> /\ flock_test(Head(ls))
  /\ ls' = Tail(ls) /\ to_delete' = to_delete - 1
  /\ UNCHANGED <<dirs, lockFiles, lck, unlinker, again, testings>>

FoundUnlocked(s) ==
  /\ Moves(s, "each", "rm") /\ to_delete > 0 /\ ls # <<>> /\ ~flock_test(Head(ls))
  /\ UNCHANGED <<dirs, lockFiles, lck, unlinker, ls, to_delete, again, testings>>

UnlinkDir(s) ==
  /\ Moves(s, "rm", "each") /\ unlinkdir(Head(ls))
  /\ ls' = Tail(ls) /\ to_delete' = to_delete - 1
  /\ UNCHANGED <<lck, unlinker, again, testings>>

UnlinkEnds(s) ==
  /\ Moves(s, "each", "none") /\ (to_delete = 0 \/ ls = <<>>)
  /\ unlinker' = Nobody /\ ls' = <<>> /\ to_delete' = 0
  /\ UNCHANGED <<dirs, lockFiles, lck, again, testings>>
-----------------------------------------------------------------------------
DirsNext ==
  \E s \in Solutions :
    \/ Begin(s) \/ LockDirs(s) \/ MakeDir(s) \/ SetLock(s) \/ TestingEnds(s)
    \/ LockUnlink(s) \/ NotYet(s) \/ ListDirs(s) \/ SkipLocked(s)
    \/ FoundUnlocked(s) \/ UnlinkDir(s) \/ UnlinkEnds(s)

DirsSpec == DirsInit /\ [][DirsNext]_dirVars

\* Nobody deletes the directory of a running testing, although the lock is
\* looked at after the listing and the directory deleted after that; unless
\* the solution was tested before and its old directory was there or listed
\* when the testing began: then the deletion decided for the old one may hit
\* the new one.
NewDirsAreSafe ==
  \A s \in Solutions \ again : at[s] = "testing" => s \in dirs /\ s \in lockFiles
=============================================================================
