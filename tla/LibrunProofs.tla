---------------------------- MODULE LibrunProofs ----------------------------
(***************************************************************************)
(* Proofs about Librun, for any number of runs, clients and faults: the    *)
(* commands of one LRVM never reach the process of another, an error of    *)
(* execution is reported, and what a finished process carries is what its  *)
(* task did.  All need that no two processes have the same unique number,  *)
(* which is so as long as the pool is not exhausted: EnoughNumbers below.  *)
(***************************************************************************)
EXTENDS Librun, TLAPS, FiniteSetTheorems, WellFoundedInduction

\* At most as many processes at a time as there are numbers, and numbers that fit
\* an unsigned short.  MAX_UNIQUE of libwebtester/unique.h is 65536.
EnoughNumbers == MaxCallers =< MaxUnique /\ MaxUnique =< 65536

\* The values of an unsigned short.
Shorts == {u \in Nat : u % 65536 = u}
-----------------------------------------------------------------------------
(* Types.                                                                  *)

Msg == [from : Procs, name : Waiting \ {"hello"}]
Client == [owner : Procs \cup {NoProc}, unique : Int, key : Procs \cup {NoProc},
           cmd : Seq(Msg), stale : BOOLEAN]
LrvmPC == Waiting \cup {"none", "boot", "connect", "run", "dead"}
TaskPC == {"none", "forked", "running", "stopped", "halted", "resumed", "doomed",
           "exit0", "exit1", "signaled"}
ListenerPC == {"listen", "recv", "parse", "execute", "finalize", "overview",
               "kill", "gone"}

\* The fields of a descriptor.
Fields == {"state", "unique", "locked", "inbelts", "lrvm_pid", "task_pid", "late",
           "zombied", "exit_code", "term_sig", "stop_sig", "usage", "err_desc"}
IsProc(r) == r = [f \in Fields |-> r[f]]

IsListener(r) == r = [f \in {"pc", "at", "proc", "signals", "todo"} |-> r[f]]

Types ==
  /\ caller \in [Procs -> {"none", "created", "waiting", "waited", "freed"}]
  /\ thread \in [Procs -> {"none", "start", "unpack", "pid", "pipe", "close",
                           "remove", "leave", "ended"}]
  /\ lrvm \in [Procs -> LrvmPC]
  /\ task \in [Procs -> TaskPC]
  /\ ans \in [Procs -> {"none", "OK", "ERR"}]
  /\ conn \in [Procs -> {"none", "backlog", "open", "closed"}]
  /\ out \in [Procs -> Seq(Msg)] /\ cell \in [Cells -> Client]
  /\ pr = [p \in Procs |-> pr[p]] /\ \A p \in Procs : IsProc(pr[p])
  /\ IsListener(listener)
  /\ listener.pc \in ListenerPC /\ listener.at \in Cells \cup {0}
  /\ listener.proc \in Procs \cup {NoProc} /\ listener.todo \subseteq Procs
-----------------------------------------------------------------------------
(* Unique numbers.                                                         *)

\* The processes that have one.
Holders == {p \in Procs : caller[p] \notin {"none", "freed"}}

Spare == upool.ptr..(MaxUnique - 1)

\* Every number of the pool is free or belongs to one process.
NumberInv ==
  /\ upool \in [stack : [0..(MaxUnique - 1) -> Shorts], ptr : 0..MaxUnique]
  /\ IsFiniteSet(Holders) /\ upool.ptr = Cardinality(Holders)
  /\ \A i, j \in Spare : upool.stack[i] = upool.stack[j] => i = j
  /\ \A p \in Holders : /\ pr[p].unique \in Shorts
                        /\ \A i \in Spare : upool.stack[i] # pr[p].unique
  /\ \A p, q \in Holders : pr[p].unique = pr[q].unique => p = q
  /\ \A p \in Procs \ Holders : pr[p].unique = -1
-----------------------------------------------------------------------------
(* Callers, threads and LRVMs.                                             *)

\* The caller, the execute thread and LRVM of a run go along together.
RunInv(p) ==
  /\ caller[p] \in {"none", "created"} <=> thread[p] = "none"
  /\ caller[p] \in {"waited", "freed"} => thread[p] = "ended"
  /\ pr[p].inbelts => caller[p] = "waiting" /\ thread[p] \notin {"start", "leave"}
  /\ lrvm[p] # "none" => thread[p] \notin {"none", "start", "unpack"}
  /\ pr[p].lrvm_pid => thread[p] \notin {"none", "start", "unpack"}
  /\ task[p] # "none" => lrvm[p] # "none"

\* Before it is accepted, LRVM has sent nothing and was told nothing; then it
\* is welcome.
SocketInv(p) ==
  /\ lrvm[p] \in {"none", "boot", "connect"} => conn[p] = "none"
  /\ conn[p] \in {"none", "backlog"} =>
       /\ out[p] = <<>> /\ ans[p] = "none"
       /\ lrvm[p] \in {"none", "boot", "connect", "hello", "dead"}
  /\ conn[p] = "open" /\ lrvm[p] = "hello" => ans[p] = "OK"

\* The listening thread works on a client that has a command.
ListenerInv ==
  /\ listener.pc \in {"execute", "finalize"} =>
       /\ listener.at \in Cells /\ cell[listener.at].owner # NoProc
       /\ cell[listener.at].cmd # <<>>
  /\ listener.pc = "finalize" => Command.name = "finalize"

\* A connection has one cell, and only processes that run have commands.
CellInv(c) ==
  /\ cell[c].owner # NoProc => conn[cell[c].owner] = "open"
  /\ \A d \in Cells : cell[c].owner = cell[d].owner /\ cell[c].owner # NoProc => c = d
  /\ cell[c].key # NoProc => lrvm[cell[c].key] # "none"
  /\ \A i \in 1..Len(cell[c].cmd) : lrvm[cell[c].cmd[i].from] # "none"

OutInv(p) == \A i \in 1..Len(out[p]) : out[p][i].from = p /\ lrvm[p] # "none"
-----------------------------------------------------------------------------
(* The commands of a client.                                               *)

\* What the server will read from a client: its buffer, which may begin with
\* commands of the last client, and what is in its socket.
Stream(c) ==
  cell[c].cmd \o (IF cell[c].owner = NoProc THEN <<>> ELSE out[cell[c].owner])

\* Commands that say who a client is.
Intro(m) == m.name \in {"unique", "security"}

\* The last such command before place j of s is from p, or there is none and
\* the client is known to be p (own).
Fits(s, j, p, own) ==
  \/ \E i \in 1..(j - 1) : /\ Intro(s[i]) /\ s[i].from = p
                           /\ \A k \in (i + 1)..(j - 1) : ~Intro(s[k])
  \/ own /\ \A i \in 1..(j - 1) : ~Intro(s[i])

\* As things stand, a command of p for the client in cell c is executed on
\* p's process or refused.
Own(c, p) ==
  LET k == cell[c].key IN
  k \in {NoProc, p} \/ ~(pr[k].inbelts /\ pr[k].unique = cell[c].unique)

\* LRVM has sent its first command.
Introduced(p) == lrvm[p] \in (Waiting \ {"hello"}) \cup {"run"}

StreamInv(c) ==
  LET s == Stream(c) IN
  \A p \in Procs :
    /\ \A j \in 1..Len(s) : s[j].from = p /\ ~Intro(s[j]) => Fits(s, j, p, Own(c, p))
    /\ cell[c].owner = p /\ Introduced(p) => Fits(s, Len(s) + 1, p, Own(c, p))
-----------------------------------------------------------------------------
(* Errors.                                                                 *)

\* run_belts_overview holds belts_mutex, so that what it works on stays in
\* the belts; a process that is finalized was run by an LRVM.
WorkInv ==
  /\ \A p \in listener.todo : pr[p].inbelts
  /\ listener.pc = "overview" => listener.todo # {}
  /\ listener.pc \notin {"overview", "kill"} => listener.todo = {}
  /\ listener.pc = "kill" => listener.proc \in listener.todo
  /\ listener.pc = "finalize" =>
       listener.proc \in Procs /\ lrvm[listener.proc] # "none"

\* A thread that failed leaves its process in the belts, where only the
\* missing answer of LRVM can be noticed.
ErrorInv(p) ==
  thread[p] = "ended" =>
    /\ pr[p].inbelts => /\ lrvm[p] = "none" /\ ~pr[p].lrvm_pid
                        /\ "EXECERROR" \in pr[p].state
    /\ pr[p].err_desc => pr[p].state \cap {"EXECERROR", "FINISHED"} # {}

IInv ==
  /\ Types /\ NumberInv /\ ListenerInv /\ WorkInv /\ OwnCommands
  /\ \A p \in Procs : RunInv(p) /\ SocketInv(p) /\ OutInv(p) /\ ErrorInv(p)
  /\ \A c \in Cells : CellInv(c) /\ StreamInv(c)
-----------------------------------------------------------------------------
(* Operators on sequences of commands.                                     *)

\* Taking away the first command, one that introduces nobody, ...
LEMMA FitsTail ==
  ASSUME NEW s \in Seq(Msg), s # <<>>, NEW j \in 2..(Len(s) + 1), NEW p, NEW own,
         Fits(s, j, p, own), ~Intro(s[1])
  PROVE  Fits(Tail(s), j - 1, p, own)
<1> DEFINE t == Tail(s)
<1>1. /\ Len(s) \in Nat /\ Len(s) >= 1 /\ Len(t) = Len(s) - 1
      /\ \A i \in 1..Len(t) : t[i] = s[i + 1]
  OBVIOUS
<1> HIDE DEF t
<1>2. CASE \E i \in 1..(j - 1) : /\ Intro(s[i]) /\ s[i].from = p
                                 /\ \A k \in (i + 1)..(j - 1) : ~Intro(s[k])
  <2>1. PICK i \in 1..(j - 1) : /\ Intro(s[i]) /\ s[i].from = p
                                /\ \A k \in (i + 1)..(j - 1) : ~Intro(s[k])
    BY <1>2
  <2>2. i # 1 /\ i - 1 \in 1..(j - 1 - 1) /\ i - 1 \in 1..Len(t)
    BY <1>1, <2>1
  <2>3. Intro(t[i - 1]) /\ t[i - 1].from = p
    BY <1>1, <2>1, <2>2
  <2>4. \A k \in ((i - 1) + 1)..(j - 1 - 1) :
          k \in 1..Len(t) /\ k + 1 \in (i + 1)..(j - 1)
    BY <1>1, <2>2
  <2>5. \A k \in ((i - 1) + 1)..(j - 1 - 1) : ~Intro(t[k])
    BY <1>1, <2>1, <2>4
  <2> QED
    BY <2>2, <2>3, <2>5 DEF Fits, t
<1>3. CASE own /\ \A i \in 1..(j - 1) : ~Intro(s[i])
  <2>1. \A k \in 1..(j - 1 - 1) : k \in 1..Len(t) /\ k + 1 \in 1..(j - 1)
    BY <1>1
  <2>2. \A k \in 1..(j - 1 - 1) : ~Intro(t[k])
    BY <1>1, <1>3, <2>1
  <2> QED
    BY <1>3, <2>2 DEF Fits, t
<1> QED
  BY <1>2, <1>3 DEF Fits

\* ... or one of r that does: now the client is known to be r.
LEMMA FitsTailIntro ==
  ASSUME NEW s \in Seq(Msg), s # <<>>, NEW j \in 2..(Len(s) + 1), NEW p, NEW own,
         Fits(s, j, p, own), Intro(s[1])
  PROVE  Fits(Tail(s), j - 1, p, s[1].from = p)
<1> DEFINE t == Tail(s)
<1>1. /\ Len(s) \in Nat /\ Len(s) >= 1 /\ Len(t) = Len(s) - 1
      /\ \A i \in 1..Len(t) : t[i] = s[i + 1]
  OBVIOUS
<1> HIDE DEF t
<1>2. PICK i \in 1..(j - 1) : /\ Intro(s[i]) /\ s[i].from = p
                              /\ \A k \in (i + 1)..(j - 1) : ~Intro(s[k])
  <2>1. 1 \in 1..(j - 1)
    OBVIOUS
  <2> QED
    BY <2>1 DEF Fits
<1>3. CASE i = 1
  <2>1. \A k \in 1..(j - 1 - 1) : k \in 1..Len(t) /\ k + 1 \in (i + 1)..(j - 1)
    BY <1>1, <1>3
  <2>2. \A k \in 1..(j - 1 - 1) : ~Intro(t[k])
    BY <1>1, <1>2, <2>1
  <2> QED
    BY <1>2, <1>3, <2>2 DEF Fits, t
<1>4. CASE i # 1
  <2>2. i - 1 \in 1..(j - 1 - 1) /\ i - 1 \in 1..Len(t)
    BY <1>1, <1>4
  <2>3. Intro(t[i - 1]) /\ t[i - 1].from = p
    BY <1>1, <1>2, <2>2
  <2>4. \A k \in ((i - 1) + 1)..(j - 1 - 1) :
          k \in 1..Len(t) /\ k + 1 \in (i + 1)..(j - 1)
    BY <1>1, <2>2
  <2>5. \A k \in ((i - 1) + 1)..(j - 1 - 1) : ~Intro(t[k])
    BY <1>1, <1>2, <2>4
  <2> QED
    BY <2>2, <2>3, <2>5 DEF Fits, t
<1> QED
  BY <1>3, <1>4

\* Only the commands before place j matter.
LEMMA FitsPrefix ==
  ASSUME NEW s, NEW t, NEW j \in Nat, NEW p, NEW own, NEW own2,
         \A i \in 1..(j - 1) : s[i] = t[i], Fits(s, j, p, own), own => own2
  PROVE  Fits(t, j, p, own2)
<1>1. CASE \E i \in 1..(j - 1) : /\ Intro(s[i]) /\ s[i].from = p
                                 /\ \A k \in (i + 1)..(j - 1) : ~Intro(s[k])
  <2>1. PICK i \in 1..(j - 1) : /\ Intro(s[i]) /\ s[i].from = p
                                /\ \A k \in (i + 1)..(j - 1) : ~Intro(s[k])
    BY <1>1
  <2>2. \A k \in (i + 1)..(j - 1) : k \in 1..(j - 1)
    OBVIOUS
  <2> QED
    BY <2>1, <2>2 DEF Fits
<1>2. CASE own /\ \A i \in 1..(j - 1) : ~Intro(s[i])
  BY <1>2 DEF Fits
<1> QED
  BY <1>1, <1>2 DEF Fits

\* A command added at the end: what p sends fits if what it sent before does.
LEMMA FitsAppend ==
  ASSUME NEW s \in Seq(Msg), NEW m \in Msg, NEW own,
         Intro(m) \/ Fits(s, Len(s) + 1, m.from, own)
  PROVE  Fits(Append(s, m), Len(Append(s, m)) + 1, m.from, own)
<1> DEFINE t == Append(s, m)
<1>1. /\ Len(s) \in Nat /\ Len(t) = Len(s) + 1 /\ t[Len(s) + 1] = m
      /\ \A i \in 1..Len(s) : t[i] = s[i]
  OBVIOUS
<1> HIDE DEF t
<1>2. CASE Intro(m)
  <2>1. /\ Len(s) + 1 \in 1..(Len(t) + 1 - 1)
        /\ \A k \in (Len(s) + 1 + 1)..(Len(t) + 1 - 1) : FALSE
    BY <1>1
  <2> QED
    BY <1>1, <1>2, <2>1 DEF Fits, t
<1>3. CASE ~Intro(m) /\ Fits(s, Len(s) + 1, m.from, own)
  <2> DEFINE j == Len(s) + 1
  <2>1. CASE \E i \in 1..(j - 1) : /\ Intro(s[i]) /\ s[i].from = m.from
                                   /\ \A k \in (i + 1)..(j - 1) : ~Intro(s[k])
    <3>1. PICK i \in 1..(j - 1) : /\ Intro(s[i]) /\ s[i].from = m.from
                                  /\ \A k \in (i + 1)..(j - 1) : ~Intro(s[k])
      BY <2>1
    <3>2. i \in 1..Len(s) /\ i \in 1..(Len(t) + 1 - 1)
      BY <1>1
    <3>3. Intro(t[i]) /\ t[i].from = m.from
      BY <1>1, <3>1, <3>2
    <3>4. ASSUME NEW k \in (i + 1)..(Len(t) + 1 - 1) PROVE ~Intro(t[k])
      <4>1. CASE k = Len(s) + 1
        BY <1>1, <1>3, <4>1
      <4>2. CASE k # Len(s) + 1
        <5>1. k \in 1..Len(s) /\ k \in (i + 1)..(j - 1)
          BY <1>1, <4>2
        <5> QED
          BY <1>1, <3>1, <5>1
      <4> QED
        BY <4>1, <4>2
    <3> QED
      BY <3>2, <3>3, <3>4 DEF Fits, t
  <2>2. CASE own /\ \A i \in 1..(j - 1) : ~Intro(s[i])
    <3>1. ASSUME NEW k \in 1..(Len(t) + 1 - 1) PROVE ~Intro(t[k])
      <4>1. CASE k = Len(s) + 1
        BY <1>1, <1>3, <4>1
      <4>2. CASE k # Len(s) + 1
        <5>1. k \in 1..Len(s) /\ k \in 1..(j - 1)
          BY <1>1, <4>2
        <5> QED
          BY <1>1, <2>2, <5>1
      <4> QED
        BY <4>1, <4>2
    <3> QED
      BY <2>2, <3>1 DEF Fits, t
  <2> QED
    BY <1>3, <2>1, <2>2 DEF Fits
<1> QED
  BY <1>2, <1>3

\* The elements of two sequences put together.
LEMMA Joined ==
  ASSUME NEW s \in Seq(Msg), NEW t \in Seq(Msg), NEW i \in 1..Len(s \o t)
  PROVE  \/ i \in 1..Len(s) /\ (s \o t)[i] = s[i]
         \/ i - Len(s) \in 1..Len(t) /\ (s \o t)[i] = t[i - Len(s)]
<1>1. Len(s) \in Nat /\ Len(t) \in Nat /\ Len(s \o t) = Len(s) + Len(t)
  OBVIOUS
<1>2. CASE i =< Len(s)
  BY <1>1, <1>2
<1>3. CASE ~(i =< Len(s))
  <2>1. i - Len(s) \in 1..Len(t)
    BY <1>1, <1>3
  <2>2. (s \o t)[i] = t[i - Len(s)]
    BY <1>1, <1>3
  <2> QED
    BY <2>1, <2>2
<1> QED
  BY <1>2, <1>3
\* The numbers of the pool fit.
LEMMA SmallNumbers ==
  ASSUME MaxUnique \in Nat, MaxUnique =< 65536
  PROVE  0..(MaxUnique - 1) \subseteq Shorts
<1>1. ASSUME NEW u \in 0..(MaxUnique - 1) PROVE u \in Nat /\ u % 65536 = u
  BY SMT
<1> QED
  BY <1>1 DEF Shorts

\* A set of natural numbers has a least element.
LEMMA MinIn ==
  ASSUME NEW S \in SUBSET Nat, S # {}
  PROVE  Min(S) \in S
<1>1. \E x \in S : \A y \in S : ~(<<y, x>> \in OpToRel(<, Nat))
  BY WFMin, NatLessThanWellFounded
<1>2. PICK x \in S : \A y \in S : ~(<<y, x>> \in OpToRel(<, Nat))
  BY <1>1
<1>3. \A y \in S : ~(y < x)
  <2>1. ASSUME NEW y \in S, y < x PROVE FALSE
    <3>1. <<y, x>> \in Nat \X Nat /\ <<y, x>>[1] < <<y, x>>[2]
      BY <2>1
    <3>2. <<y, x>> \in OpToRel(<, Nat)
      BY <3>1 DEF OpToRel
    <3> QED
      BY <1>2, <3>2
  <2> QED
    BY <2>1
<1>4. \A y \in S : x =< y
  BY <1>3
<1> QED
  BY <1>4 DEF Min
-----------------------------------------------------------------------------
(* Operators on descriptors.                                               *)

\* What a change of other fields keeps: the unique number and the place in
\* the belts.
Alike(r, s) == IsProc(r) /\ r.unique = s.unique /\ r.inbelts = s.inbelts

\* The fields of a new descriptor, ...
LEMMA NewIsProc ==
  ASSUME NEW u
  PROVE  LET r == NewProcess(u) IN
         /\ IsProc(r) /\ r.unique = u /\ ~r.inbelts /\ ~r.lrvm_pid /\ ~r.err_desc
BY DEF NewProcess, IsProc, Fields

\* ... of a failed one, ...
LEMMA ErrorIsProc ==
  ASSUME NEW r, IsProc(r)
  PROVE  LET s == ExecError(r) IN
         /\ Alike(s, r) /\ s.lrvm_pid = r.lrvm_pid
         /\ s.state = {"EXECERROR"} /\ s.err_desc
BY DEF ExecError, IsProc, Fields, Alike

\* ... after a command, ...
LEMMA HandledIsProc ==
  ASSUME NEW r, IsProc(r), NEW m \in Msg,
         m.name \notin {"unique", "security", "finalize", "bug_report"}
  PROVE  LET s == Handled(r, m) IN Alike(s, r) /\ s.lrvm_pid = r.lrvm_pid
<1>0. m.name \in {"validate", "base", "taskpid", "exit_code", "termsig",
                  "stopsig", "continue", "exec_error"}
  BY DEF Msg, Waiting
<1>1. CASE m.name \in {"validate", "base"}
  BY <1>1 DEF Handled, Alike
<1>2. CASE m.name = "taskpid"
  BY <1>2 DEF Handled, Alike, IsProc, Fields
<1>3. CASE m.name = "exit_code"
  BY <1>3 DEF Handled, Alike, IsProc, Fields
<1>4. CASE m.name = "termsig"
  BY <1>4 DEF Handled, Alike, IsProc, Fields, run_process_terminated
<1>5. CASE m.name = "stopsig"
  BY <1>5 DEF Handled, Alike, IsProc, Fields, run_process_stopped
<1>6. CASE m.name = "continue"
  BY <1>6 DEF Handled, Alike, IsProc, Fields, run_process_continued
<1>7. CASE m.name = "exec_error"
  BY <1>7, ErrorIsProc DEF Handled
<1> QED
  BY <1>0, <1>1, <1>2, <1>3, <1>4, <1>5, <1>6, <1>7

\* ... after its statistics were found, ...
LEMMA FinalizedIsProc ==
  ASSUME NEW r, IsProc(r), NEW signals, NEW limits
  PROVE  LET s == Finalized(r, signals, limits) IN
         Alike(s, r) /\ s.lrvm_pid = r.lrvm_pid /\ "FINISHED" \in s.state
BY DEF Finalized, IsProc, Fields, Alike

\* ... after it was killed, ...
LEMMA KilledIsProc ==
  ASSUME NEW r, IsProc(r), NEW why
  PROVE  LET s == Killed(r, why) IN
         /\ Alike(s, r) /\ ~s.lrvm_pid /\ s.err_desc = r.err_desc
         /\ "EXECERROR" \in r.state => "EXECERROR" \in s.state
BY DEF Killed, IsProc, Fields, Alike

\* ... after its thread has ended.
LEMMA LeavesIsProc ==
  ASSUME NEW r, IsProc(r)
  PROVE  LET s == ThreadLeaves(r) IN
         /\ Alike(s, r) /\ s.lrvm_pid = r.lrvm_pid
         /\ s.err_desc => "EXECERROR" \in s.state
BY DEF ThreadLeaves, Alike, IsProc, Fields
-----------------------------------------------------------------------------
(* Kinds of steps.                                                         *)

\* LRVM connects, sends a command, or does neither.
Connects(p) ==
  /\ lrvm[p] = "connect" /\ lrvm'[p] = "hello" /\ UNCHANGED <<out, ans>>
  /\ conn' = [conn EXCEPT ![p] = "backlog"]

Speaks(p) ==
  /\ conn[p] = "open" /\ lrvm'[p] \in Waiting \ {"hello"} /\ UNCHANGED conn
  /\ lrvm'[p] = "unique" \/ Introduced(p)
  /\ out' = [out EXCEPT ![p] = Append(@, [from |-> p, name |-> lrvm'[p]])]

Quiet(p) ==
  /\ UNCHANGED <<out, conn>>
  /\ \/ lrvm'[p] = "dead"
     \/ lrvm[p] = "boot" /\ lrvm'[p] = "connect" /\ UNCHANGED ans
     \/ Introduced(p) /\ lrvm'[p] = "run"

LrvmMoves(p) ==
  /\ UNCHANGED <<caller, pr, thread, upool, cell, listener, applied>>
  /\ lrvm[p] # "none" /\ lrvm' = [lrvm EXCEPT ![p] = lrvm'[p]]
  /\ ans' \in {ans, [ans EXCEPT ![p] = "none"]}
  /\ task' \in [Procs -> TaskPC] /\ \A q \in Procs \ {p} : task'[q] = task[q]
  /\ Connects(p) \/ Speaks(p) \/ Quiet(p)

\* Every step of an LRVM is of this kind: it has introduced itself before it
\* sends anything else.
LEMMA LrvmSteps ==
  ASSUME Types, NEW p \in Procs, SocketInv(p), LrvmNext(p) \/ LrvmTimeout(p)
  PROVE  LrvmMoves(p)
<1> DEFINE Does == Connects(p) \/ Speaks(p) \/ Quiet(p)
<1>0. /\ lrvm \in [Procs -> LrvmPC] /\ lrvm[p] \in LrvmPC
      /\ task \in [Procs -> TaskPC] /\ ans \in [Procs -> {"none", "OK", "ERR"}]
      /\ conn \in [Procs -> {"none", "backlog", "open", "closed"}]
      /\ out \in [Procs -> Seq(Msg)]
  BY DEF Types
<1>s. ASSUME NEW m \in Waiting \ {"hello"}, Send(p, m), UNCHANGED conn,
             conn[p] \notin {"none", "backlog"}, m = "unique" \/ Introduced(p)
      PROVE  lrvm' = [lrvm EXCEPT ![p] = lrvm'[p]] /\ Does
  <2>1. CASE conn[p] = "closed"
    BY <1>0, <1>s, <2>1 DEF Send, Quiet
  <2>2. CASE conn[p] # "closed"
    BY <1>0, <1>s, <2>2 DEF Send, Speaks
  <2> QED
    BY <2>1, <2>2
<1>t. ASSUME Term(p), UNCHANGED <<out, conn>>
      PROVE  lrvm' = [lrvm EXCEPT ![p] = lrvm'[p]] /\ Does
  BY <1>0, <1>t DEF Term, Quiet
<1>a. ASSUME NEW a \in {"OK", "ERR"}, Answered(p, a)
      PROVE  /\ conn[p] \notin {"none", "backlog"}
             /\ conn[p] = "open" /\ lrvm[p] = "hello" => a = "OK"
             /\ ans' = [ans EXCEPT ![p] = "none"]
  BY <1>0, <1>a DEF Answered, SocketInv
<1> USE DEF serverVars
<1>1. CASE LrvmBoots(p)
  BY <1>0, <1>1, <1>t DEF LrvmBoots, LrvmMoves, Quiet
<1>2. CASE lrvm_ipc_init(p)
  BY <1>0, <1>2 DEF lrvm_ipc_init, LrvmMoves, Connects
<1>3. CASE LrvmIntroduces(p)
  <2>1. Introduction[lrvm[p]] \in Waiting \ {"hello"}
    BY <1>3 DEF LrvmIntroduces, Introduction, Waiting
  <2>2. Introduction[lrvm[p]] = "unique" \/ Introduced(p)
    BY <1>3 DEF LrvmIntroduces, Introduction, Waiting, Introduced
  <2> QED
    BY <1>0, <1>3, <1>s, <1>a, <2>1, <2>2 DEF LrvmIntroduces, LrvmMoves, Introduction
<1>4. CASE LrvmForks(p)
  <2>1. "taskpid" \in Waiting \ {"hello"} /\ "exec_error" \in Waiting \ {"hello"}
    BY DEF Waiting
  <2>2. Introduced(p) /\ lrvm[p] # "none"
    BY <1>4 DEF LrvmForks, Introduced, Waiting
  <2>3. Answered(p, "OK") /\ UNCHANGED serverVars /\ UNCHANGED conn
    BY <1>4 DEF LrvmForks
  <2>4. task' \in [Procs -> TaskPC] /\ \A q \in Procs \ {p} : task'[q] = task[q]
    BY <1>0, <1>4 DEF LrvmForks, TaskPC
  <2>5. lrvm' = [lrvm EXCEPT ![p] = lrvm'[p]] /\ Does
    BY <1>4, <1>s, <1>t, <1>a, <2>1, <2>2, <2>3 DEF LrvmForks
  <2> QED
    BY <1>a, <2>2, <2>3, <2>4, <2>5 DEF LrvmMoves
<1>5. CASE LrvmReportsBase(p)
  <2>1. "base" \in Waiting \ {"hello"} /\ Introduced(p)
    BY <1>5 DEF Waiting, LrvmReportsBase, Introduced
  <2> QED
    BY <1>0, <1>5, <1>s, <1>a, <2>1 DEF LrvmReportsBase, LrvmMoves
<1>6. CASE LrvmExecutes(p)
  <2>1. Introduced(p)
    BY <1>6 DEF Waiting, LrvmExecutes, Introduced
  <2>2. task' \in [Procs -> TaskPC] /\ \A q \in Procs \ {p} : task'[q] = task[q]
    BY <1>0, <1>6 DEF LrvmExecutes, TaskPC
  <2>3. Quiet(p) /\ lrvm' = [lrvm EXCEPT ![p] = lrvm'[p]]
    BY <1>0, <1>6, <2>1 DEF LrvmExecutes, Quiet
  <2> QED
    BY <1>6, <1>a, <2>2, <2>3 DEF LrvmExecutes, LrvmMoves
<1>7. CASE waitpid(p)
  <2>1. /\ {"exit_code", "termsig", "stopsig", "continue"} \subseteq Waiting \ {"hello"}
        /\ Introduced(p)
    BY <1>7 DEF Waiting, waitpid, Introduced
  <2>2. task' \in [Procs -> TaskPC] /\ \A q \in Procs \ {p} : task'[q] = task[q]
    BY <1>0, <1>7 DEF waitpid, TaskPC
  <2>3. conn[p] \notin {"none", "backlog"}
    BY <1>7 DEF waitpid, SocketInv
  <2>4. lrvm' = [lrvm EXCEPT ![p] = lrvm'[p]] /\ Does
    BY <1>7, <1>s, <2>1, <2>3 DEF waitpid
  <2> QED
    BY <1>7, <2>2, <2>4 DEF waitpid, LrvmMoves
<1>8. CASE LrvmWaitsAgain(p)
  <2>1. Introduced(p)
    BY <1>8 DEF Waiting, LrvmWaitsAgain, Introduced
  <2> QED
    BY <1>0, <1>8, <1>a, <2>1 DEF LrvmWaitsAgain, LrvmMoves, Quiet
<1>9. CASE LrvmFinalizes(p)
  <2>1. "finalize" \in Waiting \ {"hello"} /\ Introduced(p)
    BY <1>9 DEF Waiting, LrvmFinalizes, Introduced
  <2> QED
    BY <1>0, <1>9, <1>s, <1>a, <2>1 DEF LrvmFinalizes, LrvmMoves
<1>10. CASE LrvmExits(p)
  BY <1>0, <1>10, <1>t, <1>a DEF LrvmExits, LrvmMoves
<1>11. CASE LrvmRefused(p)
  <2>1. "bug_report" \in Waiting \ {"hello"} /\ lrvm[p] # "none"
    BY <1>11 DEF Waiting, LrvmRefused, Answered
  <2>2. CASE lrvm[p] = "hello"
    <3>1. conn[p] = "closed"
      BY <1>0, <1>11, <1>a, <2>2 DEF LrvmRefused
    <3>2. lrvm' = [lrvm EXCEPT ![p] = lrvm'[p]] /\ Does
      BY <1>0, <1>11, <3>1 DEF LrvmRefused, Send, Quiet
    <3> QED
      BY <1>0, <1>11, <1>a, <2>1, <3>2 DEF LrvmRefused, LrvmMoves
  <2>3. CASE lrvm[p] # "hello"
    <3>1. Introduced(p)
      BY <1>11, <2>3 DEF LrvmRefused, Answered, Introduced
    <3> QED
      BY <1>0, <1>11, <1>s, <1>a, <2>1, <3>1 DEF LrvmRefused, LrvmMoves
  <2> QED
    BY <2>2, <2>3
<1>12. CASE LrvmTimeout(p)
  <2>1. lrvm[p] # "none"
    BY <1>12 DEF LrvmTimeout, Waiting
  <2> QED
    BY <1>0, <1>12, <1>t, <2>1 DEF LrvmTimeout, LrvmMoves
<1> QED
  BY <1>1, <1>2, <1>3, <1>4, <1>5, <1>6, <1>7, <1>8, <1>9, <1>10, <1>11, <1>12
  DEF LrvmNext

\* How far the caller and the thread of p get, and what becomes of the
\* descriptor.
Goes(p, c, c2, t, t2) ==
  caller[p] = c /\ caller'[p] = c2 /\ thread[p] = t /\ thread'[p] = t2

Blank(p) == ~pr'[p].inbelts /\ ~pr'[p].lrvm_pid /\ ~pr'[p].err_desc

ErrorKept(p) == pr'[p].state = pr[p].state /\ pr'[p].err_desc = pr[p].err_desc

Same(p) == pr'[p].unique = pr[p].unique /\ pr'[p].lrvm_pid = pr[p].lrvm_pid /\ UNCHANGED upool

ThreadStep(p) ==
  /\ UNCHANGED <<task, out, ans, conn, cell, listener, applied>>
  /\ caller' = [caller EXCEPT ![p] = caller'[p]]
  /\ thread' = [thread EXCEPT ![p] = thread'[p]]
  /\ pr' = [pr EXCEPT ![p] = pr'[p]] /\ IsProc(pr'[p])
  /\ \/ /\ Goes(p, "none", "created", "none", "none") /\ Blank(p)
        /\ Cardinality(Holders) < MaxCallers /\ upool' = AfterAlloc(upool, MaxUnique)
        /\ pr'[p].unique = unique_alloc_uid(upool, MaxUnique)
     \/ /\ Goes(p, "waited", "freed", "ended", "ended") /\ Blank(p)
        /\ upool' = unique_release_uid(upool, pr[p].unique) /\ pr'[p].unique = -1
     \/ /\ Goes(p, "created", "waiting", "none", "start")
        /\ Same(p) /\ pr'[p].inbelts = pr[p].inbelts
     \/ /\ \/ Goes(p, "created", "waiting", "none", "ended")
           \/ Goes(p, "waiting", "waiting", "unpack", "ended")
        /\ Same(p) /\ pr'[p].inbelts = pr[p].inbelts /\ "EXECERROR" \in pr'[p].state
     \/ /\ Goes(p, "waiting", "waited", "ended", "ended") /\ (pr[p].inbelts => BeltsFree)
        /\ Same(p) /\ ~pr'[p].inbelts /\ ErrorKept(p)
     \/ /\ Goes(p, "waiting", "waiting", "start", "unpack") /\ BeltsFree
        /\ Same(p) /\ pr'[p].inbelts
     \/ /\ Goes(p, "waiting", "waiting", "unpack", "pid") /\ UNCHANGED <<pr, upool>>
     \/ /\ Goes(p, "waiting", "waiting", "pid", "pipe") /\ UNCHANGED upool
        /\ pr'[p].unique = pr[p].unique /\ pr'[p].inbelts = pr[p].inbelts
     \/ /\ \/ Goes(p, "waiting", "waiting", "pipe", "close")
           \/ Goes(p, "waiting", "waiting", "close", "remove")
        /\ Same(p) /\ pr'[p].inbelts = pr[p].inbelts
     \/ /\ Goes(p, "waiting", "waiting", "remove", "leave") /\ BeltsFree
        /\ Same(p) /\ ~pr'[p].inbelts
     \/ /\ Goes(p, "waiting", "waiting", "leave", "ended")
        /\ Same(p) /\ pr'[p].inbelts = pr[p].inbelts
        /\ pr'[p].err_desc => "EXECERROR" \in pr'[p].state
  /\ IF thread[p] = "unpack" /\ thread'[p] = "pid"
       THEN lrvm' = [lrvm EXCEPT ![p] = "boot"] ELSE UNCHANGED lrvm

\* A step of a caller or of its thread is one of these.
LEMMA ThreadSteps ==
  ASSUME Types, NEW p \in Procs, RunInv(p), CallerNext(p) \/ ThreadNext(p)
  PROVE  ThreadStep(p)
<1>0. /\ pr = [k \in Procs |-> pr[k]] /\ caller = [k \in Procs |-> caller[k]]
      /\ thread = [k \in Procs |-> thread[k]]
  BY DEF Types
<1>1. IsProc(pr[p])
  BY DEF Types
<1>2. thread[p] \in {"start", "unpack", "pid", "pipe", "close", "remove", "leave"} =>
        caller[p] = "waiting"
  BY DEF Types, RunInv
<1> DEFINE Frame == /\ UNCHANGED <<task, out, ans, conn, cell, listener, applied>>
                    /\ caller' = [caller EXCEPT ![p] = caller'[p]]
                    /\ thread' = [thread EXCEPT ![p] = thread'[p]]
<1> USE DEF envVars
<1>3. CASE run_create_process(p)
  <2> DEFINE r == NewProcess(unique_alloc_uid(upool, MaxUnique))
  <2>1. /\ IsProc(r) /\ ~r.inbelts /\ ~r.lrvm_pid /\ ~r.err_desc
        /\ r.unique = unique_alloc_uid(upool, MaxUnique)
    BY NewIsProc
  <2>2. pr' = [pr EXCEPT ![p] = r]
    BY <1>3 DEF run_create_process
  <2> HIDE DEF r
  <2>3. pr'[p] = r
    BY <1>0, <2>2
  <2>4. Frame /\ UNCHANGED lrvm /\ Goes(p, "none", "created", "none", "none")
    BY <1>0, <1>3 DEF run_create_process, Goes, RunInv
  <2>5. Cardinality(Holders) < MaxCallers /\ upool' = AfterAlloc(upool, MaxUnique)
    BY <1>3 DEF run_create_process, Holders
  <2> QED
    BY <2>1, <2>2, <2>3, <2>4, <2>5 DEF ThreadStep, Blank, Goes
<1>4. CASE run_execute_process(p)
  <2>0. Frame /\ UNCHANGED <<lrvm, upool>>
    BY <1>0, <1>4 DEF run_execute_process
  <2>1. CASE pr' = [pr EXCEPT ![p].state = {"STARTING"}]
             /\ thread' = [thread EXCEPT ![p] = "start"]
    <3> DEFINE r == [pr[p] EXCEPT !.state = {"STARTING"}]
    <3>1. IsProc(r) /\ r.inbelts = pr[p].inbelts /\ r.unique = pr[p].unique
          /\ r.lrvm_pid = pr[p].lrvm_pid
      BY <1>1 DEF IsProc, Fields
    <3>2. pr' = [pr EXCEPT ![p] = r]
      BY <2>1
    <3> HIDE DEF r
    <3>3. pr'[p] = r
      BY <1>0, <3>2
    <3>4. Goes(p, "created", "waiting", "none", "start")
      BY <1>0, <1>4, <2>1 DEF run_execute_process, Goes, RunInv
    <3> QED
      BY <2>0, <3>1, <3>2, <3>3, <3>4 DEF ThreadStep, Same, Goes
  <2>2. CASE pr' = [pr EXCEPT ![p] = ExecError(pr[p])]
             /\ thread' = [thread EXCEPT ![p] = "ended"]
    <3> DEFINE r == ExecError(pr[p])
    <3>1. IsProc(r) /\ r.inbelts = pr[p].inbelts /\ r.unique = pr[p].unique
          /\ r.lrvm_pid = pr[p].lrvm_pid /\ "EXECERROR" \in r.state
      BY <1>1, ErrorIsProc DEF Alike
    <3> HIDE DEF r
    <3>3. pr'[p] = r
      BY <1>0, <2>2 DEF r
    <3>4. Goes(p, "created", "waiting", "none", "ended")
      BY <1>0, <1>4, <2>2 DEF run_execute_process, Goes, RunInv
    <3> QED
      BY <2>0, <2>2, <3>1, <3>3, <3>4 DEF ThreadStep, Same, Goes, r
  <2> QED
    BY <1>4, <2>1, <2>2 DEF run_execute_process
<1>5. CASE run_pwait(p)
  <2> DEFINE r == [pr[p] EXCEPT !.inbelts = FALSE]
  <2>1. /\ IsProc(r) /\ ~r.inbelts /\ r.unique = pr[p].unique /\ r.lrvm_pid = pr[p].lrvm_pid
        /\ r.state = pr[p].state /\ r.err_desc = pr[p].err_desc
    BY <1>1 DEF IsProc, Fields
  <2>2. pr' = [pr EXCEPT ![p] = r]
    BY <1>5 DEF run_pwait
  <2> HIDE DEF r
  <2>3. pr'[p] = r
    BY <1>0, <2>2
  <2>4. /\ Frame /\ UNCHANGED <<lrvm, upool>> /\ Goes(p, "waiting", "waited", "ended", "ended")
        /\ pr[p].inbelts => BeltsFree
    BY <1>0, <1>5 DEF run_pwait, Goes, InBelts
  <2> QED
    BY <2>1, <2>2, <2>3, <2>4 DEF ThreadStep, Same, ErrorKept, Goes
<1>6. CASE run_free_process(p)
  <2> DEFINE r == NewProcess(-1)
  <2>1. IsProc(r) /\ ~r.inbelts /\ ~r.lrvm_pid /\ ~r.err_desc /\ r.unique = -1
    BY NewIsProc
  <2>2. pr' = [pr EXCEPT ![p] = r]
    BY <1>6 DEF run_free_process
  <2> HIDE DEF r
  <2>3. pr'[p] = r
    BY <1>0, <2>2
  <2>4. Frame /\ UNCHANGED lrvm /\ Goes(p, "waited", "freed", "ended", "ended")
    BY <1>0, <1>6 DEF run_free_process, Goes, RunInv
  <2>5. upool' = unique_release_uid(upool, pr[p].unique)
    BY <1>6 DEF run_free_process
  <2> QED
    BY <2>1, <2>2, <2>3, <2>4, <2>5 DEF ThreadStep, Blank, Goes
<1>7. CASE belts_append(p)
  <2> DEFINE r == [pr[p] EXCEPT !.state = {"RUNNING"}, !.inbelts = TRUE]
  <2>1. /\ IsProc(r) /\ r.unique = pr[p].unique /\ r.lrvm_pid = pr[p].lrvm_pid /\ r.inbelts
    BY <1>1 DEF IsProc, Fields
  <2>2. pr' = [pr EXCEPT ![p] = r]
    BY <1>0, <1>7 DEF belts_append
  <2> HIDE DEF r
  <2>3. pr'[p] = r
    BY <1>0, <2>2
  <2>4. /\ Frame /\ UNCHANGED <<lrvm, upool>> /\ BeltsFree
        /\ Goes(p, "waiting", "waiting", "start", "unpack")
    BY <1>0, <1>2, <1>7 DEF belts_append, ThreadAt, Goes
  <2> QED
    BY <2>1, <2>2, <2>3, <2>4 DEF ThreadStep, Same, Goes
<1>8. CASE ExecuteFails(p)
  <2> DEFINE r == ExecError(pr[p])
  <2>1. /\ IsProc(r) /\ r.unique = pr[p].unique /\ r.lrvm_pid = pr[p].lrvm_pid /\ r.inbelts = pr[p].inbelts
        /\ "EXECERROR" \in r.state
    BY <1>1, ErrorIsProc DEF Alike
  <2>2. pr' = [pr EXCEPT ![p] = r]
    BY <1>0, <1>8 DEF ExecuteFails
  <2> HIDE DEF r
  <2>3. pr'[p] = r
    BY <1>0, <2>2
  <2>4. /\ Frame /\ UNCHANGED <<lrvm, upool>>
        /\ Goes(p, "waiting", "waiting", "unpack", "ended")
    BY <1>0, <1>2, <1>8 DEF ExecuteFails, ThreadAt, Goes
  <2> QED
    BY <2>1, <2>2, <2>3, <2>4 DEF ThreadStep, Same, Goes
<1>9. CASE popen(p)
  <2>1. /\ Frame /\ UNCHANGED <<pr, upool>> /\ lrvm' = [lrvm EXCEPT ![p] = "boot"]
        /\ Goes(p, "waiting", "waiting", "unpack", "pid")
    BY <1>0, <1>2, <1>9 DEF popen, ThreadAt, Goes
  <2>2. pr' = [pr EXCEPT ![p] = pr'[p]] /\ IsProc(pr'[p])
    BY <1>0, <1>1, <2>1
  <2> QED
    BY <2>1, <2>2 DEF ThreadStep, Goes
<1>10. CASE proc_read_lrvm_pid(p)
  <2> DEFINE r == [pr[p] EXCEPT !.lrvm_pid = lrvm[p] # "dead" \/ conn[p] # "none"]
  <2>1. /\ IsProc(r) /\ r.unique = pr[p].unique /\ r.inbelts = pr[p].inbelts
    BY <1>1 DEF IsProc, Fields
  <2>2. pr' = [pr EXCEPT ![p] = r]
    BY <1>0, <1>10 DEF proc_read_lrvm_pid
  <2> HIDE DEF r
  <2>3. pr'[p] = r
    BY <1>0, <2>2
  <2>4. /\ Frame /\ UNCHANGED <<lrvm, upool>>
        /\ Goes(p, "waiting", "waiting", "pid", "pipe")
    BY <1>0, <1>2, <1>10 DEF proc_read_lrvm_pid, ThreadAt, Goes
  <2> QED
    BY <2>1, <2>2, <2>3, <2>4 DEF ThreadStep, Same, Goes
<1>11. CASE read_process_pipe(p)
  <2> DEFINE r == [pr[p] EXCEPT !.locked = TRUE]
  <2>1. /\ IsProc(r) /\ r.unique = pr[p].unique /\ r.lrvm_pid = pr[p].lrvm_pid /\ r.inbelts = pr[p].inbelts
    BY <1>1 DEF IsProc, Fields
  <2>2. pr' = [pr EXCEPT ![p] = r]
    BY <1>0, <1>11 DEF read_process_pipe
  <2> HIDE DEF r
  <2>3. pr'[p] = r
    BY <1>0, <2>2
  <2>4. /\ Frame /\ UNCHANGED <<lrvm, upool>>
        /\ Goes(p, "waiting", "waiting", "pipe", "close")
    BY <1>0, <1>2, <1>11 DEF read_process_pipe, ThreadAt, Goes
  <2> QED
    BY <2>1, <2>2, <2>3, <2>4 DEF ThreadStep, Same, Goes
<1>12. CASE proc_close_pipe(p)
  <2> DEFINE r == [pr[p] EXCEPT !.locked = FALSE]
  <2>1. /\ IsProc(r) /\ r.unique = pr[p].unique /\ r.lrvm_pid = pr[p].lrvm_pid /\ r.inbelts = pr[p].inbelts
    BY <1>1 DEF IsProc, Fields
  <2>2. pr' = [pr EXCEPT ![p] = r]
    BY <1>0, <1>12 DEF proc_close_pipe
  <2> HIDE DEF r
  <2>3. pr'[p] = r
    BY <1>0, <2>2
  <2>4. /\ Frame /\ UNCHANGED <<lrvm, upool>>
        /\ Goes(p, "waiting", "waiting", "close", "remove")
    BY <1>0, <1>2, <1>12 DEF proc_close_pipe, ThreadAt, Goes
  <2> QED
    BY <2>1, <2>2, <2>3, <2>4 DEF ThreadStep, Same, Goes
<1>13. CASE belts_remove(p)
  <2> DEFINE r == [pr[p] EXCEPT !.inbelts = FALSE]
  <2>1. /\ IsProc(r) /\ r.unique = pr[p].unique /\ r.lrvm_pid = pr[p].lrvm_pid /\ ~r.inbelts
    BY <1>1 DEF IsProc, Fields
  <2>2. pr' = [pr EXCEPT ![p] = r]
    BY <1>0, <1>13 DEF belts_remove
  <2> HIDE DEF r
  <2>3. pr'[p] = r
    BY <1>0, <2>2
  <2>4. /\ Frame /\ UNCHANGED <<lrvm, upool>> /\ BeltsFree
        /\ Goes(p, "waiting", "waiting", "remove", "leave")
    BY <1>0, <1>2, <1>13 DEF belts_remove, ThreadAt, Goes
  <2> QED
    BY <2>1, <2>2, <2>3, <2>4 DEF ThreadStep, Same, Goes
<1>14. CASE ExecuteEnds(p)
  <2> DEFINE r == ThreadLeaves(pr[p])
  <2>1. /\ IsProc(r) /\ r.unique = pr[p].unique /\ r.lrvm_pid = pr[p].lrvm_pid /\ r.inbelts = pr[p].inbelts
        /\ r.err_desc => "EXECERROR" \in r.state
    BY <1>1, LeavesIsProc DEF Alike
  <2>2. pr' = [pr EXCEPT ![p] = r]
    BY <1>0, <1>14 DEF ExecuteEnds
  <2> HIDE DEF r
  <2>3. pr'[p] = r
    BY <1>0, <2>2
  <2>4. /\ Frame /\ UNCHANGED <<lrvm, upool>>
        /\ Goes(p, "waiting", "waiting", "leave", "ended")
    BY <1>0, <1>2, <1>14 DEF ExecuteEnds, ThreadAt, Goes
  <2> QED
    BY <2>1, <2>2, <2>3, <2>4 DEF ThreadStep, Same, Goes
<1> QED
  BY <1>3, <1>4, <1>5, <1>6, <1>7, <1>8, <1>9, <1>10, <1>11, <1>12, <1>13, <1>14
  DEF CallerNext, ThreadNext

\* run_belts_overview works on p, which is in the belts: it may be killed, and
\* an error that LRVM does not answer stays.
Overviews(p) ==
  /\ UNCHANGED <<caller, thread, out, ans, conn, upool, cell, applied>>
  /\ p \in listener.todo /\ pr' = [pr EXCEPT ![p] = pr'[p]] /\ Alike(pr'[p], pr[p])
  /\ ~pr[p].lrvm_pid =>
       /\ ~pr'[p].lrvm_pid
       /\ "EXECERROR" \in pr[p].state => "EXECERROR" \in pr'[p].state
  /\ lrvm' \in {lrvm, [lrvm EXCEPT ![p] = "dead"]} /\ (lrvm' # lrvm => lrvm[p] # "none")
  /\ task' \in [Procs -> TaskPC]
  /\ \A q \in Procs : task'[q] # "none" => task[q] # "none"
  /\ \/ Overviewed(p)
     \/ listener' = [listener EXCEPT !.pc = "kill", !.proc = p, !.signals = listener'.signals]

\* Every step of the overview is of this kind.
LEMMA StartsKill ==
  ASSUME Types, NEW p \in listener.todo, RunInv(p), NEW proc, NEW why,
         StartKill(p, proc, why), Alike(proc, pr[p]),
         ~pr[p].lrvm_pid =>
           /\ ~proc.lrvm_pid
           /\ "EXECERROR" \in pr[p].state => "EXECERROR" \in proc.state
  PROVE  Overviews(p)
<1> DEFINE new == [proc EXCEPT !.locked = TRUE, !.task_pid = NoPid]
<1>0. p \in Procs /\ task \in [Procs -> TaskPC] /\ lrvm \in [Procs -> LrvmPC]
      /\ pr = [q \in Procs |-> pr[q]] /\ \A q \in Procs : IsProc(pr[q])
  BY DEF Types
<1>1. /\ Alike(new, pr[p]) /\ new.lrvm_pid = proc.lrvm_pid /\ new.state = proc.state
  BY DEF Alike, IsProc, Fields
<1>2. pr' = [pr EXCEPT ![p] = new] /\ pr'[p] = new
  BY <1>0 DEF StartKill
<1>3. lrvm' \in {lrvm, [lrvm EXCEPT ![p] = "dead"]} /\ (lrvm' # lrvm => lrvm[p] # "none")
  BY <1>0 DEF StartKill, RunInv
<1>4. /\ task' \in [Procs -> TaskPC]
      /\ \A q \in Procs : task'[q] # "none" => task[q] # "none"
  BY <1>0 DEF StartKill, Owner, Running, Halted, TaskPC
<1> HIDE DEF new
<1> QED
  BY <1>0, <1>1, <1>2, <1>3, <1>4 DEF StartKill, Overviews

\* Every step of the overview is of this kind.
LEMMA OverviewSteps ==
  ASSUME Types, WorkInv, \A p \in Procs : RunInv(p),
         \/ \E p \in Procs : \/ OverviewSkips(p) \/ belts_check_lrvm_ans_timeout(p)
                             \/ belts_check_proc_zombie(p) \/ belts_check_limits(p)
         \/ run_kill_process
  PROVE  \E p \in Procs : Overviews(p)
<1>0. task \in [Procs -> TaskPC] /\ lrvm \in [Procs -> LrvmPC]
      /\ pr = [q \in Procs |-> pr[q]] /\ \A q \in Procs : IsProc(pr[q])
  BY DEF Types
<1>1. ASSUME NEW p \in Procs, OverviewSkips(p) PROVE Overviews(p)
  <2>1. pr' = [pr EXCEPT ![p] = pr'[p]] /\ Alike(pr'[p], pr[p])
    BY <1>0, <1>1 DEF OverviewSkips, Alike
  <2> QED
    BY <1>0, <1>1, <2>1 DEF OverviewSkips, Overviewing, Overviews, envVars
<1>2. ASSUME NEW p \in Procs, belts_check_lrvm_ans_timeout(p) PROVE Overviews(p)
  <2> DEFINE new == [ExecError(pr[p]) EXCEPT !.late = TRUE]
  <2>1. p \in listener.todo /\ RunInv(p) /\ StartKill(p, new, {})
    BY <1>2 DEF belts_check_lrvm_ans_timeout, Overviewing
  <2>2. /\ IsProc(ExecError(pr[p])) /\ ExecError(pr[p]).unique = pr[p].unique
        /\ ExecError(pr[p]).inbelts = pr[p].inbelts
        /\ ExecError(pr[p]).lrvm_pid = pr[p].lrvm_pid
        /\ ExecError(pr[p]).state = {"EXECERROR"}
    BY <1>0, ErrorIsProc DEF Alike
  <2>3. Alike(new, pr[p]) /\ new.lrvm_pid = pr[p].lrvm_pid /\ new.state = {"EXECERROR"}
    BY <2>2 DEF Alike, IsProc, Fields
  <2> HIDE DEF new
  <2> QED
    BY <2>1, <2>3, StartsKill
<1>3. ASSUME NEW p \in Procs, belts_check_proc_zombie(p) PROVE Overviews(p)
  <2>0. p \in listener.todo /\ RunInv(p) /\ pr[p].lrvm_pid
    BY <1>3 DEF belts_check_proc_zombie, Overviewing, Unanswered
  <2>1. CASE Overviewed(p) /\ pr' = [pr EXCEPT ![p].zombied = TRUE]
             /\ UNCHANGED <<caller, thread, envVars, upool, cell, pool, hv, applied>>
    <3>1. IsProc(pr[p])
      BY <1>0
    <3>2. Alike([pr[p] EXCEPT !.zombied = TRUE], pr[p])
      BY <3>1 DEF Alike, IsProc, Fields
    <3>3. pr' = [pr EXCEPT ![p] = pr'[p]] /\ Alike(pr'[p], pr[p])
      BY <1>0, <2>1, <3>2
    <3> QED
      BY <1>0, <2>0, <2>1, <3>3 DEF Overviews, envVars
  <2>2. CASE StartKill(p, ExecError(pr[p]), {})
    BY <1>0, <2>0, <2>2, ErrorIsProc, StartsKill
  <2> QED
    BY <1>3, <2>1, <2>2 DEF belts_check_proc_zombie
<1>4. ASSUME NEW p \in Procs, belts_check_limits(p) PROVE Overviews(p)
  <2>0. p \in listener.todo /\ RunInv(p) /\ pr[p].lrvm_pid
    BY <1>4 DEF belts_check_limits, Overviewing, Unanswered
  <2>1. PICK q \in Owner(pr[p].task_pid) :
          LET proc == [pr[p] EXCEPT !.zombied = FALSE, !.usage = over[q]] IN
          IF over[q] # {} THEN StartKill(p, proc, over[q])
          ELSE /\ pr' = [pr EXCEPT ![p] = proc] /\ Overviewed(p)
               /\ UNCHANGED <<caller, thread, envVars, upool, cell, pool, hv, applied>>
    BY <1>4 DEF belts_check_limits
  <2> DEFINE proc == [pr[p] EXCEPT !.zombied = FALSE, !.usage = over[q]]
  <2>6. IsProc(pr[p])
    BY <1>0
  <2>2. Alike(proc, pr[p])
    BY <2>6 DEF Alike, IsProc, Fields
  <2>3. \/ StartKill(p, proc, over[q])
        \/ /\ pr' = [pr EXCEPT ![p] = proc] /\ Overviewed(p)
           /\ UNCHANGED <<caller, thread, envVars, upool, cell, pool, hv, applied>>
    BY <2>1
  <2> HIDE DEF proc
  <2>4. CASE StartKill(p, proc, over[q])
    BY <2>0, <2>2, <2>4, StartsKill
  <2>5. CASE /\ pr' = [pr EXCEPT ![p] = proc] /\ Overviewed(p)
             /\ UNCHANGED <<caller, thread, envVars, upool, cell, pool, hv, applied>>
    <3>1. pr' = [pr EXCEPT ![p] = pr'[p]] /\ Alike(pr'[p], pr[p])
      BY <1>0, <2>2, <2>5
    <3> QED
      BY <1>0, <2>0, <2>5, <3>1 DEF Overviews, envVars
  <2> QED
    BY <2>3, <2>4, <2>5
<1>5. ASSUME run_kill_process PROVE \E p \in Procs : Overviews(p)
  <2> DEFINE p == listener.proc
  <2>1. p \in listener.todo /\ p \in Procs
    BY <1>5 DEF run_kill_process, At, WorkInv, Types
  <2>2. pr' = [pr EXCEPT ![p] = pr'[p]] /\ pr'[p] = Killed(pr[p], listener.signals)
    BY <1>0, <1>5, <2>1 DEF run_kill_process
  <2>3. /\ Alike(pr'[p], pr[p]) /\ ~pr'[p].lrvm_pid
        /\ "EXECERROR" \in pr[p].state => "EXECERROR" \in pr'[p].state
    BY <1>0, <2>1, <2>2, KilledIsProc
  <2>4. lrvm' \in {lrvm, [lrvm EXCEPT ![p] = "dead"]} /\ (lrvm' # lrvm => lrvm[p] # "none")
    BY <1>0, <1>5, <2>1 DEF run_kill_process, Alive
  <2>5. Overviewed(p) /\ UNCHANGED <<caller, thread, task, out, ans, conn, upool, cell, applied>>
    BY <1>5 DEF run_kill_process
  <2> HIDE DEF p
  <2> QED
    BY <1>0, <2>1, <2>2, <2>3, <2>4, <2>5 DEF Overviews
<1> QED
  BY <1>1, <1>2, <1>3, <1>4, <1>5

\* The first command of a client is done: it is taken out of the buffer, and
\* the client is answered.  The process it changed, if any, was run by an LRVM
\* and keeps an error.
Changed(k) ==
  /\ Alike(pr'[k], pr[k]) /\ pr'[k].lrvm_pid = pr[k].lrvm_pid /\ lrvm[k] # "none"
  /\ thread[k] = "ended" => pr'[k].state \cap {"EXECERROR", "FINISHED"} # {}

Learns(c) ==
  \/ ~Intro(Command) /\ cell'[c].key = cell[c].key /\ cell'[c].unique = cell[c].unique
  \/ /\ Command.name = "unique"
     /\ cell'[c].key = cell[c].key /\ cell'[c].unique = pr[Command.from].unique
  \/ /\ Command.name = "security"
     /\ cell'[c].key = Command.from /\ cell'[c].unique = cell[c].unique

CommandDone ==
  LET c == listener.at IN
  /\ listener.pc \in {"execute", "finalize"}
  /\ c \in Cells /\ cell[c].owner \in Procs /\ cell[c].cmd # <<>>
  /\ UNCHANGED <<caller, thread, lrvm, task, out, conn, upool>>
  /\ pr' = [k \in Procs |-> pr'[k]] /\ \A k \in Procs : pr'[k] = pr[k] \/ Changed(k)
  /\ cell' = [cell EXCEPT ![c] = cell'[c]] /\ cell'[c] \in Client
  /\ cell'[c].cmd = Tail(cell[c].cmd) /\ cell'[c].owner = cell[c].owner /\ Learns(c)
  /\ \E answer \in {"OK", "ERR"} : Reply(cell[c].owner, answer)
  /\ \E pc \in {"parse", "execute"}, proc \in Procs \cup {NoProc} :
       /\ pc = "execute" => Len(cell[c].cmd) # 1
       /\ listener' = [listener EXCEPT !.pc = pc, !.proc = proc, !.signals = listener'.signals]

\* What Done does when the command changes at most the client's record.
LEMMA DoneSteps ==
  ASSUME Types, ListenerInv, At("execute"), NEW answer \in {"OK", "ERR"},
         NEW new \in Client, LET c == listener.at IN
           /\ Done([cell EXCEPT ![c] = new], answer)
           /\ new.cmd = cell[c].cmd /\ new.owner = cell[c].owner
  PROVE  LET c == listener.at IN
         /\ c \in Cells /\ cell[c].owner \in Procs /\ cell[c].cmd # <<>>
         /\ cell' = [cell EXCEPT ![c] = cell'[c]] /\ cell'[c] \in Client
         /\ cell'[c].cmd = Tail(cell[c].cmd) /\ cell'[c].owner = cell[c].owner
         /\ cell'[c].key = new.key /\ cell'[c].unique = new.unique
         /\ Reply(cell[c].owner, answer)
         /\ \E pc \in {"parse", "execute"}, proc \in Procs \cup {NoProc} :
              /\ pc = "execute" => Len(cell[c].cmd) # 1
              /\ listener' = [listener EXCEPT !.pc = pc, !.proc = proc,
                                              !.signals = listener'.signals]
<1> DEFINE c == listener.at
           table == [cell EXCEPT ![c] = new]
<1>0. cell \in [Cells -> Client] /\ listener.proc \in Procs \cup {NoProc}
  BY DEF Types
<1>1. c \in Cells /\ cell[c].owner \in Procs /\ cell[c].cmd # <<>> /\ cell[c].cmd \in Seq(Msg)
  BY <1>0 DEF ListenerInv, At, Client
<1>2. table[c] = new
  BY <1>0, <1>1
<1>3. Tail(new.cmd) \in Seq(Msg)
  BY <1>1
<1>4. [new EXCEPT !.cmd = Tail(@)] \in Client
  BY <1>3 DEF Client
<1>5. [table EXCEPT ![c].cmd = Tail(@)] = [cell EXCEPT ![c] = [new EXCEPT !.cmd = Tail(@)]]
  BY <1>0, <1>1
<1>6. cell' = [cell EXCEPT ![c] = [new EXCEPT !.cmd = Tail(@)]]
  BY <1>5 DEF Done
<1>7. cell'[c] = [new EXCEPT !.cmd = Tail(@)] /\ cell' = [cell EXCEPT ![c] = cell'[c]]
  BY <1>0, <1>1, <1>6
<1>8. /\ cell'[c].cmd = Tail(cell[c].cmd) /\ cell'[c].owner = cell[c].owner
      /\ cell'[c].key = new.key /\ cell'[c].unique = new.unique
  BY <1>7 DEF Client
<1>9. Reply(cell[c].owner, answer)
  BY <1>2 DEF Done
<1>10. \E pc \in {"parse", "execute"}, proc \in Procs \cup {NoProc} :
         /\ pc = "execute" => Len(cell[c].cmd) # 1
         /\ listener' = [listener EXCEPT !.pc = pc, !.proc = proc,
                                         !.signals = listener'.signals]
  <2> DEFINE pc == IF Len(cell[c].cmd) = 1 THEN "parse" ELSE "execute"
  <2>1. listener' = [listener EXCEPT !.pc = pc]
    BY <1>2 DEF Done, Goto
  <2>2. pc \in {"parse", "execute"} /\ (pc = "execute" => Len(cell[c].cmd) # 1)
    OBVIOUS
  <2> HIDE DEF pc
  <2>3. listener' = [listener EXCEPT !.pc = pc, !.proc = listener.proc,
                                     !.signals = listener'.signals]
    BY <2>1 DEF Types, IsListener
  <2> QED
    BY <1>0, <2>2, <2>3
<1> QED
  BY <1>1, <1>4, <1>7, <1>8, <1>9, <1>10

\* Every command that is executed is done in this way.
LEMMA CommandSteps ==
  ASSUME Types, NumberInv, ListenerInv, WorkInv, \A p \in Procs : ErrorInv(p),
         \A c \in Cells : CellInv(c),
         \/ ExecuteIntroduction \/ ExecuteRefused \/ FinalizeEnds
         \/ \E q \in Procs : ExecuteCommand(q)
  PROVE  CommandDone
<1> DEFINE c == listener.at
<1>0. /\ cell \in [Cells -> Client] /\ pr = [k \in Procs |-> pr[k]]
      /\ \A k \in Procs : IsProc(pr[k])
  BY DEF Types
<1>1. c \in Cells /\ cell[c].owner \in Procs /\ cell[c].cmd # <<>> /\ cell[c] \in Client
  BY <1>0 DEF ExecuteIntroduction, ExecuteRefused, FinalizeEnds, ExecuteCommand,
              ListenerInv, At, Client
<1>9. listener.pc \in {"execute", "finalize"}
  BY DEF ExecuteIntroduction, ExecuteRefused, FinalizeEnds, ExecuteCommand, At
<1>2. Command \in Msg
  BY <1>1 DEF Command, Client
<1>3. cell = [cell EXCEPT ![c] = cell[c]]
  BY <1>0
<1>5. ASSUME NEW k \in Procs PROVE pr[k].unique \in Int
  <2>1. CASE k \in Holders
    <3>1. pr[k].unique \in Shorts
      BY <2>1 DEF NumberInv
    <3> QED
      BY <3>1 DEF Shorts
  <2>2. CASE k \notin Holders
    <3>1. pr[k].unique = -1
      BY <2>2 DEF NumberInv
    <3> QED
      BY <3>1
  <2> QED
    BY <2>1, <2>2
<1>4. CASE ExecuteIntroduction
  <2>0. /\ At("execute") /\ UNCHANGED <<caller, pr, thread, lrvm, task, out, conn, upool>>
    BY <1>4 DEF ExecuteIntroduction
  <2>1. CASE /\ Command.name = "unique"
             /\ Done([cell EXCEPT ![c].unique = pr[Command.from].unique], "OK")
    <3> DEFINE new == [cell[c] EXCEPT !.unique = pr[Command.from].unique]
    <3>1. new \in Client /\ new.cmd = cell[c].cmd /\ new.owner = cell[c].owner
          /\ new.key = cell[c].key /\ new.unique = pr[Command.from].unique
      BY <1>1, <1>2, <1>5 DEF Client, Msg
    <3>2. Done([cell EXCEPT ![c] = new], "OK")
      BY <2>1
    <3> HIDE DEF new
    <3> QED
      BY <1>0, <1>1, <1>9, <2>0, <2>1, <3>1, <3>2, DoneSteps DEF CommandDone, Learns
  <2>2. CASE Command.name = "security" /\ Done([cell EXCEPT ![c].key = Command.from], "OK")
    <3> DEFINE new == [cell[c] EXCEPT !.key = Command.from]
    <3>1. new \in Client /\ new.cmd = cell[c].cmd /\ new.owner = cell[c].owner
          /\ new.key = Command.from /\ new.unique = cell[c].unique
      BY <1>1, <1>2 DEF Client, Msg
    <3>2. Done([cell EXCEPT ![c] = new], "OK")
      BY <2>2
    <3> HIDE DEF new
    <3> QED
      BY <1>0, <1>1, <1>9, <2>0, <2>2, <3>1, <3>2, DoneSteps DEF CommandDone, Learns
  <2> QED
    BY <1>4, <2>1, <2>2 DEF ExecuteIntroduction
<1>6. CASE ExecuteRefused
  <2>1. /\ At("execute") /\ UNCHANGED <<caller, pr, thread, lrvm, task, out, conn, upool>>
        /\ ~Intro(Command) /\ Done([cell EXCEPT ![c] = cell[c]], "ERR")
    BY <1>3, <1>6 DEF ExecuteRefused, Intro
  <2> QED
    BY <1>0, <1>1, <1>9, <2>1, DoneSteps DEF CommandDone, Learns
<1>7. ASSUME NEW q \in Procs, ExecuteCommand(q) PROVE CommandDone
  <2>1. /\ At("execute") /\ UNCHANGED <<caller, thread, lrvm, task, out, conn, upool>>
        /\ ~Intro(Command) /\ Done([cell EXCEPT ![c] = cell[c]], "OK")
    BY <1>3, <1>7 DEF ExecuteCommand, Intro
  <2>2. pr[q].inbelts /\ cell[c].key = q
    BY <1>7 DEF ExecuteCommand, ValidProc, Target, InBelts
  <2>3. lrvm[q] # "none"
    BY <1>1, <2>2, LibrunAssumption DEF CellInv
  <2>4. thread[q] # "ended"
    BY <2>2, <2>3 DEF ErrorInv
  <2>5. pr' = [pr EXCEPT ![q] = Handled(pr[q], Command)]
    BY <1>7 DEF ExecuteCommand
  <2>6. Alike(Handled(pr[q], Command), pr[q]) /\ Handled(pr[q], Command).lrvm_pid = pr[q].lrvm_pid
    BY <1>0, <1>2, <1>7, HandledIsProc DEF ExecuteCommand
  <2>7. pr' = [k \in Procs |-> pr'[k]] /\ \A k \in Procs : pr'[k] = pr[k] \/ Changed(k)
    BY <1>0, <2>3, <2>4, <2>5, <2>6 DEF Changed
  <2> QED
    BY <1>1, <1>9, <2>1, <2>7, DoneSteps DEF CommandDone, Learns
<1>8. CASE FinalizeEnds
  <2> DEFINE q == listener.proc
             new == pr'[q]
  <2>1. q \in Procs /\ lrvm[q] # "none" /\ At("finalize") /\ Command.name = "finalize"
    BY <1>8 DEF FinalizeEnds, WorkInv, ListenerInv, At
  <2>2. \/ new = Finalized(pr[q], listener.signals, run_hvpool_stats_by_pid_iter(pool, pr[q].task_pid))
        \/ new = ExecError(pr[q])
    BY <1>0, <1>8, <2>1 DEF FinalizeEnds
  <2>3. pr' = [pr EXCEPT ![q] = new]
    BY <1>0, <1>8, <2>1 DEF FinalizeEnds
  <2>4. Changed(q)
    <3>1. IsProc(pr[q])
      BY <1>0, <2>1
    <3>2. /\ Alike(new, pr[q]) /\ new.lrvm_pid = pr[q].lrvm_pid
          /\ "FINISHED" \in new.state \/ "EXECERROR" \in new.state
      BY <2>2, <3>1, FinalizedIsProc, ErrorIsProc
    <3> QED
      BY <2>1, <3>2 DEF Changed
  <2>5. pr' = [k \in Procs |-> pr'[k]] /\ \A k \in Procs : pr'[k] = pr[k] \/ Changed(k)
    BY <1>0, <2>1, <2>3, <2>4
  <2>6. cell' = [cell EXCEPT ![c] = [cell[c] EXCEPT !.cmd = Tail(@)]]
    BY <1>8 DEF FinalizeEnds
  <2>7. Tail(cell[c].cmd) \in Seq(Msg)
    BY <1>1 DEF Client
  <2>8. /\ cell'[c] = [cell[c] EXCEPT !.cmd = Tail(@)] /\ cell' = [cell EXCEPT ![c] = cell'[c]]
        /\ cell'[c] \in Client /\ cell'[c].cmd = Tail(cell[c].cmd)
        /\ cell'[c].owner = cell[c].owner
        /\ cell'[c].key = cell[c].key /\ cell'[c].unique = cell[c].unique
    BY <1>0, <1>1, <2>6, <2>7 DEF Client
  <2>9. ~Intro(Command)
    BY <2>1 DEF Intro
  <2>10. \E pc \in {"parse", "execute"}, proc \in Procs \cup {NoProc} :
           /\ pc = "execute" => Len(cell[c].cmd) # 1
           /\ listener' = [listener EXCEPT !.pc = pc, !.proc = proc,
                                           !.signals = listener'.signals]
    <3> DEFINE pc == IF Len(cell[c].cmd) = 1 THEN "parse" ELSE "execute"
    <3>1. listener' = [listener EXCEPT !.proc = NoProc, !.signals = {}, !.pc = pc]
      BY <1>8 DEF FinalizeEnds
    <3>2. pc \in {"parse", "execute"} /\ (pc = "execute" => Len(cell[c].cmd) # 1)
      OBVIOUS
    <3> HIDE DEF pc
    <3>3. listener' = [listener EXCEPT !.pc = pc, !.proc = NoProc,
                                       !.signals = listener'.signals]
      BY <3>1 DEF Types, IsListener
    <3> QED
      BY <3>2, <3>3
  <2>11. Reply(cell[c].owner, "OK") /\ UNCHANGED <<caller, thread, lrvm, task, out, conn, upool>>
    BY <1>8 DEF FinalizeEnds
  <2> QED
    BY <1>1, <1>9, <2>5, <2>8, <2>9, <2>10, <2>11 DEF CommandDone, Learns
<1> QED
  BY <1>4, <1>6, <1>7, <1>8

\* A step of the task, the kernel or the end of the hypervisor that no thread
\* of the server notices.
Aside ==
  /\ UNCHANGED <<caller, pr, thread, lrvm, out, ans, conn, upool, cell, listener, applied>>
  /\ task' \in [Procs -> TaskPC]
  /\ \A q \in Procs : task'[q] # "none" => task[q] # "none"

Kinds ==
  \/ Aside
  \/ \E p \in Procs : \/ LrvmMoves(p) \/ ThreadStep(p) \/ Overviews(p)
                      \/ Accept(p) \/ run_finalize_executing(p)
  \/ Receive \/ ParseClient \/ ParseEnds \/ CommandDone \/ ListenerLeaves
  \/ (\E c \in Cells : KeepTimeout(c)) \/ run_hypervisor_done

\* The kinds of steps, once and for all.
LEMMA StepKinds ==
  ASSUME IInv, [Next]_vars
  PROVE  Kinds
<1>0. Types /\ task \in [Procs -> TaskPC]
  BY DEF IInv, Types
<1>1. ASSUME NEW p \in Procs, CallerNext(p) \/ ThreadNext(p) PROVE Kinds
  BY <1>0, <1>1, ThreadSteps DEF Kinds, IInv
<1>2. ASSUME NEW p \in Procs, LrvmNext(p) \/ LrvmTimeout(p) PROVE Kinds
  BY <1>0, <1>2, LrvmSteps DEF Kinds, IInv
<1>3. ASSUME NEW p \in Procs, TaskNext(p) PROVE Aside
  <2>1. ASSUME NEW how \in Ends, TaskEnds(p, how) PROVE Aside
    <3>1. how \in TaskPC /\ how # "none"
      BY LibrunAssumption DEF TaskPC
    <3> QED
      BY <1>0, <2>1, <3>1 DEF TaskEnds, Aside, serverVars
  <2>2. ASSUME NEW limit \in Exceeds, TaskUses(p, limit) PROVE Aside
    BY <1>0, <2>2 DEF TaskUses, Aside, serverVars
  <2>3. ASSUME TaskStops(p) PROVE Aside
    BY <1>0, <2>3 DEF TaskStops, Aside, serverVars, TaskPC
  <2>4. ASSUME TaskContinues(p) PROVE Aside
    BY <1>0, <2>4 DEF TaskContinues, Aside, serverVars, TaskPC
  <2>5. ASSUME ChildEnds(p) PROVE Aside
    BY <1>0, <2>5 DEF ChildEnds, Aside, serverVars, TaskPC
  <2> QED
    BY <1>3, <2>1, <2>2, <2>3, <2>4, <2>5 DEF TaskNext
<1>4. ASSUME NEW p \in Procs, AcctReceives(p) PROVE Aside
  BY <1>0, <1>4 DEF AcctReceives, Aside
<1>5. ASSUME PoolAges \/ run_done \/ AcctLeaves \/ UNCHANGED vars PROVE Aside
  BY <1>0, <1>5 DEF PoolAges, run_done, AcctLeaves, vars, envVars, Aside
<1>6. ASSUME ListenerNext PROVE Kinds
  <2>1. CASE \E p \in Procs : Accept(p) \/ run_finalize_executing(p)
    BY <2>1 DEF Kinds
  <2>2. CASE Receive \/ ParseClient \/ ParseEnds \/ ListenerLeaves
    BY <2>2 DEF Kinds
  <2>3. CASE \/ ExecuteIntroduction \/ ExecuteRefused \/ FinalizeEnds
             \/ \E q \in Procs : ExecuteCommand(q)
    BY <2>3, CommandSteps DEF IInv, Kinds
  <2>4. CASE \/ \E p \in Procs : \/ OverviewSkips(p) \/ belts_check_lrvm_ans_timeout(p)
                                 \/ belts_check_proc_zombie(p) \/ belts_check_limits(p)
             \/ run_kill_process
    <3>1. \E p \in Procs : Overviews(p)
      BY <2>4, OverviewSteps DEF IInv
    <3> QED
      BY <3>1 DEF Kinds
  <2> QED
    BY <1>6, <2>1, <2>2, <2>3, <2>4 DEF ListenerNext
<1> QED
  BY <1>1, <1>2, <1>3, <1>4, <1>5, <1>6 DEF Next, Kinds
-----------------------------------------------------------------------------
(* Types and the table of clients.                                         *)

\* A client is put into a cell of the table, ...
LEMMA NewCellIn ==
  ASSUME ~TableFull
  PROVE  NewCell \in Cells
<1> DEFINE S == {c \in Cells : cell[c].owner = NoProc \/ cell[c].stale}
<1>1. S \subseteq Nat /\ S \subseteq Cells
  BY DEF Cells
<1>2. S # {}
  BY DEF TableFull
<1> HIDE DEF S
<1>3. Min(S) \in S
  BY <1>1, <1>2, MinIn
<1> QED
  BY <1>1, <1>3 DEF NewCell, S

\* ... and the next client with commands is one that has them.
LEMMA NextClient ==
  ASSUME ToParse # {}
  PROVE  /\ Min(ToParse) \in Cells /\ cell[Min(ToParse)].owner # NoProc
         /\ cell[Min(ToParse)].cmd # <<>>
<1> DEFINE S == ToParse
<1>1. S \subseteq Nat
  BY DEF Cells, ToParse
<1> HIDE DEF S
<1>2. S # {}
  BY DEF S
<1>3. Min(S) \in S
  BY <1>1, <1>2, MinIn
<1> QED
  BY <1>3 DEF S, ToParse

\* Every kind of step keeps the types.
LEMMA TypesKept ==
  ASSUME IInv, Kinds
  PROVE  Types'
<1>0. Types
  BY DEF IInv
<1>c. /\ cell \in [Cells -> Client] /\ out \in [Procs -> Seq(Msg)]
      /\ NoProc \notin Procs
  BY <1>0, LibrunAssumption DEF Types
<1>d. ASSUME NEW c \in Cells PROVE Disconnected(c) \in Client
  <2>1. FreeCell \in Client /\ cell[c].cmd \in Seq(Msg)
    BY <1>c DEF FreeCell, Client
  <2> QED
    BY <2>1 DEF Disconnected, Client
<1>l. ASSUME \E s \in SUBSET Procs : Overview(s)
      PROVE  /\ IsListener(listener')
             /\ listener'.pc \in ListenerPC /\ listener'.at \in Cells \cup {0}
             /\ listener'.proc \in Procs \cup {NoProc} /\ listener'.todo \subseteq Procs
  <2>1. PICK s \in SUBSET Procs : Overview(s)
    BY <1>l
  <2>2. CASE s = {}
    BY <2>1, <2>2 DEF Overview, Listening, ListenerPC, IsListener
  <2>3. CASE s # {}
    <3>1. listener' = [Listening EXCEPT !.pc = "overview", !.todo = s]
      BY <2>1, <2>3 DEF Overview
    <3> QED
      BY <3>1 DEF Listening, ListenerPC, IsListener
  <2> QED
    BY <2>2, <2>3
<1>r. ASSUME NEW q \in Procs, NEW a \in {"OK", "ERR"}, Reply(q, a)
      PROVE  ans' \in [Procs -> {"none", "OK", "ERR"}]
  BY <1>0, <1>r DEF Reply, Types
<1>1. CASE Aside
  BY <1>0, <1>1 DEF Aside, Types
<1>2. ASSUME NEW p \in Procs, LrvmMoves(p) PROVE Types'
  <2>1. lrvm'[p] \in LrvmPC
    BY <1>2 DEF LrvmMoves, Connects, Speaks, Quiet, LrvmPC, Waiting
  <2>5. lrvm' \in [Procs -> LrvmPC]
    BY <1>0, <1>2, <2>1 DEF LrvmMoves, Types
  <2>2. ans' \in [Procs -> {"none", "OK", "ERR"}]
    BY <1>0, <1>2 DEF LrvmMoves, Types
  <2>3. out' \in [Procs -> Seq(Msg)]
    <3>1. CASE Speaks(p)
      <4>1. [from |-> p, name |-> lrvm'[p]] \in Msg
        BY <3>1 DEF Speaks, Msg
      <4>2. Append(out[p], [from |-> p, name |-> lrvm'[p]]) \in Seq(Msg)
        BY <1>c, <4>1
      <4> QED
        BY <1>c, <3>1, <4>2 DEF Speaks
    <3>2. CASE ~Speaks(p)
      BY <1>2, <1>c, <3>2 DEF LrvmMoves, Connects, Quiet
    <3> QED
      BY <3>1, <3>2
  <2>4. conn' \in [Procs -> {"none", "backlog", "open", "closed"}]
    BY <1>0, <1>2 DEF LrvmMoves, Connects, Speaks, Quiet, Types
  <2> QED
    BY <1>0, <1>2, <2>2, <2>3, <2>4, <2>5 DEF LrvmMoves, Types
<1>3. ASSUME NEW p \in Procs, ThreadStep(p) PROVE Types'
  <2>1. /\ caller'[p] \in {"none", "created", "waiting", "waited", "freed"}
        /\ thread'[p] \in {"none", "start", "unpack", "pid", "pipe", "close",
                           "remove", "leave", "ended"}
    BY <1>3 DEF ThreadStep, Goes
  <2>2. lrvm' \in [Procs -> LrvmPC]
    BY <1>0, <1>3 DEF ThreadStep, Types, LrvmPC
  <2>3. /\ caller' \in [Procs -> {"none", "created", "waiting", "waited", "freed"}]
        /\ thread' \in [Procs -> {"none", "start", "unpack", "pid", "pipe", "close",
                                  "remove", "leave", "ended"}]
    BY <1>0, <1>3, <2>1 DEF ThreadStep, Types
  <2>4. pr' = [k \in Procs |-> pr'[k]] /\ \A k \in Procs : IsProc(pr'[k])
    <3>1. pr = [k \in Procs |-> pr[k]] /\ \A k \in Procs : IsProc(pr[k])
      BY <1>0 DEF Types
    <3>2. pr' = [pr EXCEPT ![p] = pr'[p]] /\ IsProc(pr'[p])
      BY <1>3 DEF ThreadStep
    <3> QED
      BY <3>1, <3>2
  <2>5. UNCHANGED <<task, out, ans, conn, cell, listener>>
    BY <1>3 DEF ThreadStep
  <2> QED
    BY <1>0, <2>2, <2>3, <2>4, <2>5 DEF Types
<1>4. ASSUME NEW p \in Procs, Overviews(p) PROVE Types'
  <2>1. lrvm' \in [Procs -> LrvmPC] /\ task' \in [Procs -> TaskPC]
    BY <1>0, <1>4 DEF Overviews, Types, LrvmPC
  <2>2. pr' = [k \in Procs |-> pr'[k]] /\ \A k \in Procs : IsProc(pr'[k])
    <3>1. pr = [k \in Procs |-> pr[k]] /\ \A k \in Procs : IsProc(pr[k])
      BY <1>0 DEF Types
    <3>2. pr' = [pr EXCEPT ![p] = pr'[p]] /\ IsProc(pr'[p])
      BY <1>4 DEF Overviews, Alike
    <3> QED
      BY <3>1, <3>2
  <2>3. /\ IsListener(listener')
        /\ listener'.pc \in ListenerPC /\ listener'.at \in Cells \cup {0}
        /\ listener'.proc \in Procs \cup {NoProc} /\ listener'.todo \subseteq Procs
    <3>1. CASE Overviewed(p)
      <4>1. listener.todo \ {p} \in SUBSET Procs
        BY <1>0 DEF Types
      <4> QED
        BY <1>l, <3>1, <4>1 DEF Overviewed
    <3>2. CASE listener' = [listener EXCEPT !.pc = "kill", !.proc = p,
                                            !.signals = listener'.signals]
      BY <1>0, <3>2 DEF Types, ListenerPC, IsListener
    <3> QED
      BY <1>4, <3>1, <3>2 DEF Overviews
  <2>4. UNCHANGED <<caller, thread, out, ans, conn, cell>>
    BY <1>4 DEF Overviews
  <2> QED
    BY <1>0, <2>1, <2>2, <2>3, <2>4 DEF Types
<1>5. ASSUME NEW p \in Procs, Accept(p) PROVE Types'
  <2>1. conn' \in [Procs -> {"none", "backlog", "open", "closed"}] /\ out' \in [Procs -> Seq(Msg)]
    <3>0. conn \in [Procs -> {"none", "backlog", "open", "closed"}] /\ <<>> \in Seq(Msg)
      BY <1>0 DEF Types
    <3>1. CASE TableFull
      BY <1>c, <1>5, <3>0, <3>1 DEF Accept
    <3>2. CASE ~TableFull
      <4> DEFINE evicted == {q \in Procs : q = cell[NewCell].owner}
      <4>1. /\ conn' = [q \in Procs |-> IF q = p THEN "open"
                                        ELSE IF q \in evicted THEN "closed" ELSE conn[q]]
            /\ out' = [q \in Procs |-> IF q \in evicted THEN <<>> ELSE out[q]]
        BY <1>5, <3>2 DEF Accept
      <4> HIDE DEF evicted
      <4> QED
        BY <1>c, <3>0, <4>1
    <3> QED
      BY <3>1, <3>2
  <2>3. ans' \in [Procs -> {"none", "OK", "ERR"}]
    BY <1>r, <1>5 DEF Accept
  <2>4. cell' \in [Cells -> Client]
    <3>1. CASE TableFull
      BY <1>c, <1>5, <3>1 DEF Accept
    <3>2. CASE ~TableFull
      <4>1. NewCell \in Cells
        BY <3>2, NewCellIn
      <4>2. Registered(NewCell, p) \in Client
        BY <1>d, <4>1 DEF Registered, Client
      <4> QED
        BY <1>c, <1>5, <3>2, <4>2 DEF Accept
    <3> QED
      BY <3>1, <3>2
  <2>5. listener' = [listener EXCEPT !.pc = "recv"] /\ UNCHANGED <<caller, pr, thread, lrvm, task>>
    BY <1>5 DEF Accept, Goto
  <2> QED
    BY <1>0, <2>1, <2>3, <2>4, <2>5 DEF Types, ListenerPC, IsListener
<1>6. ASSUME NEW q \in Procs, run_finalize_executing(q) PROVE Types'
  <2>1. pr' = [k \in Procs |-> pr'[k]] /\ \A k \in Procs : IsProc(pr'[k])
    <3>1. pr = [k \in Procs |-> pr[k]] /\ \A k \in Procs : IsProc(pr[k])
      BY <1>0 DEF Types
    <3>2. IsProc([pr[q] EXCEPT !.locked = TRUE])
      BY <3>1 DEF IsProc
    <3>3. pr' = [pr EXCEPT ![q] = [pr[q] EXCEPT !.locked = TRUE]]
      BY <1>6 DEF run_finalize_executing
    <3> QED
      BY <3>1, <3>2, <3>3
  <2>2. /\ listener' = [listener EXCEPT !.pc = "finalize", !.proc = q, !.signals = Signals(pr[q])]
        /\ UNCHANGED <<caller, thread, lrvm, task, out, ans, conn, cell>>
    BY <1>6 DEF run_finalize_executing, envVars
  <2> QED
    BY <1>0, <2>1, <2>2 DEF Types, ListenerPC, IsListener
<1>7. ASSUME NEW c \in Cells, KeepTimeout(c) PROVE Types'
  <2>1. cell' \in [Cells -> Client]
    BY <1>c, <1>7 DEF KeepTimeout, Client
  <2> QED
    BY <1>0, <1>7, <2>1 DEF KeepTimeout, Types, envVars
<1>8. CASE Receive
  <2>1. out' \in [Procs -> Seq(Msg)] /\ conn' \in [Procs -> {"none", "backlog", "open", "closed"}]
    BY <1>0, <1>c, <1>8 DEF Receive, Types
  <2>2. ASSUME NEW c \in Cells, cell[c].owner # NoProc
        PROVE  [cell[c] EXCEPT !.cmd = @ \o out[cell[c].owner]] \in Client
    <3>1. cell[c].cmd \o out[cell[c].owner] \in Seq(Msg)
      BY <1>c, <2>2 DEF Client
    <3> QED
      BY <1>c, <3>1 DEF Client
  <2>3. cell' \in [Cells -> Client]
    BY <1>c, <1>d, <1>8, <2>2 DEF Receive
  <2>4. /\ listener' = [listener EXCEPT !.pc = "parse", !.at = 0]
        /\ UNCHANGED <<caller, pr, thread, lrvm, task, ans>>
    BY <1>8 DEF Receive
  <2> QED
    BY <1>0, <2>1, <2>3, <2>4 DEF Types, ListenerPC, IsListener
<1>9. CASE ParseClient
  <2> DEFINE c == Min(ToParse)
  <2>1. c \in Cells
    BY <1>9, NextClient DEF ParseClient
  <2>2. cell' = [cell EXCEPT ![c].stale = FALSE]
    BY <1>9 DEF ParseClient
  <2>3. \E pc \in {"parse", "execute"} : listener' = [listener EXCEPT !.at = c, !.pc = pc]
    BY <1>9 DEF ParseClient
  <2> HIDE DEF c
  <2>4. cell' \in [Cells -> Client]
    BY <1>c, <2>1, <2>2 DEF Client
  <2>5. UNCHANGED <<caller, pr, thread, lrvm, task, out, ans, conn>>
    BY <1>9 DEF ParseClient, envVars
  <2> QED
    BY <1>0, <2>1, <2>3, <2>4, <2>5 DEF Types, ListenerPC, IsListener
<1>10. CASE ParseEnds
  <2>1. {p \in Procs : InBelts(p)} \in SUBSET Procs
    OBVIOUS
  <2> QED
    BY <1>0, <1>l, <1>10, <2>1 DEF ParseEnds, Types, envVars
<1>11. CASE CommandDone
  <2>1. ans' \in [Procs -> {"none", "OK", "ERR"}]
    BY <1>r, <1>11 DEF CommandDone
  <2>2. pr' = [k \in Procs |-> pr'[k]] /\ \A k \in Procs : IsProc(pr'[k])
    BY <1>0, <1>11 DEF CommandDone, Types, Changed, Alike
  <2>3. cell' \in [Cells -> Client]
    BY <1>c, <1>11 DEF CommandDone
  <2>4. PICK pc \in {"parse", "execute"}, proc \in Procs \cup {NoProc} :
          listener' = [listener EXCEPT !.pc = pc, !.proc = proc, !.signals = listener'.signals]
    BY <1>11 DEF CommandDone
  <2>5. UNCHANGED <<caller, thread, lrvm, task, out, conn>>
    BY <1>11 DEF CommandDone
  <2> QED
    BY <1>0, <2>1, <2>2, <2>3, <2>4, <2>5 DEF Types, ListenerPC, IsListener
<1>12. CASE ListenerLeaves
  BY <1>0, <1>12 DEF ListenerLeaves, Goto, envVars, Types, ListenerPC, IsListener
<1>13. CASE run_hypervisor_done
  BY <1>0, <1>d, <1>13 DEF run_hypervisor_done, envVars, Types
<1> QED
  BY <1>1, <1>2, <1>3, <1>4, <1>5, <1>6, <1>7, <1>8, <1>9, <1>10, <1>11, <1>12, <1>13
  DEF Kinds
-----------------------------------------------------------------------------
(* Unique numbers.                                                         *)

\* Who changes neither the processes that run nor their numbers keeps the
\* numbers different.
LEMMA NumbersSame ==
  ASSUME NumberInv, Holders' = Holders, upool' = upool,
         \A k \in Procs : pr'[k].unique = pr[k].unique
  PROVE  NumberInv'
<1>1. Spare' = Spare
  BY DEF Spare
<1>2. Holders \subseteq Procs
  BY DEF Holders
<1> QED
  BY <1>1, <1>2 DEF NumberInv

\* A new process takes a number nobody has.
LEMMA NumberTaken ==
  ASSUME EnoughNumbers, Types, NumberInv, NEW p \in Procs, caller[p] = "none",
         caller' = [caller EXCEPT ![p] = "created"],
         pr' = [pr EXCEPT ![p] = pr'[p]], Cardinality(Holders) < MaxCallers,
         upool' = AfterAlloc(upool, MaxUnique),
         pr'[p].unique = unique_alloc_uid(upool, MaxUnique)
  PROVE  NumberInv'
<1> DEFINE H == Holders
           ptr == upool.ptr
           stack == upool.stack
           u == pr'[p].unique
<1>0. MaxUnique \in Nat /\ MaxCallers \in Nat /\ MaxCallers =< MaxUnique
  BY LibrunAssumption DEF EnoughNumbers
<1>1. /\ upool = [stack |-> stack, ptr |-> ptr] /\ stack \in [0..(MaxUnique - 1) -> Shorts]
      /\ ptr \in 0..MaxUnique /\ IsFiniteSet(H) /\ ptr = Cardinality(H)
  BY DEF NumberInv
<1>2. ptr < MaxUnique /\ ptr \in 0..(MaxUnique - 1) /\ ptr + 1 \in 0..MaxUnique
  BY <1>0, <1>1
<1>3. upool' = [stack |-> stack, ptr |-> ptr + 1] /\ u = stack[ptr]
  <2>1. ~UniquePoolEmpty(upool, MaxUnique)
    BY <1>0, <1>2 DEF UniquePoolEmpty
  <2> QED
    BY <1>1, <2>1 DEF AfterAlloc, unique_alloc_uid
<1>4. p \notin H /\ Holders' = H \cup {p} /\ H \subseteq Procs
  BY DEF Holders, Types
<1>5. IsFiniteSet(Holders') /\ Cardinality(Holders') = ptr + 1
  BY <1>1, <1>4, FS_AddElement
<1>6. /\ Spare' = (ptr + 1)..(MaxUnique - 1) /\ Spare' \subseteq Spare
      /\ ptr \in Spare /\ ptr \notin Spare'
  BY <1>0, <1>1, <1>2, <1>3 DEF Spare
<1>7. /\ \A i, j \in Spare : stack[i] = stack[j] => i = j
      /\ \A k \in H : /\ pr[k].unique \in Shorts
                      /\ \A i \in Spare : stack[i] # pr[k].unique
      /\ \A k, q \in H : pr[k].unique = pr[q].unique => k = q
      /\ \A k \in Procs \ H : pr[k].unique = -1
  BY DEF NumberInv
<1>8. \A k \in Procs \ {p} : pr'[k] = pr[k]
  BY DEF Types
<1>14. u \in Shorts
  BY <1>1, <1>2, <1>3
<1> HIDE DEF H, ptr, stack, u
<1>9. /\ upool' \in [stack : [0..(MaxUnique - 1) -> Shorts], ptr : 0..MaxUnique]
      /\ upool'.stack = stack /\ upool'.ptr = ptr + 1
  BY <1>1, <1>2, <1>3
<1>10. \A i, j \in Spare' : upool'.stack[i] = upool'.stack[j] => i = j
  BY <1>6, <1>7, <1>9
<1>11. ASSUME NEW k \in Holders'
       PROVE  /\ pr'[k].unique \in Shorts
              /\ \A i \in Spare' : upool'.stack[i] # pr'[k].unique
  <2>1. CASE k = p
    BY <1>3, <1>6, <1>7, <1>9, <1>14, <2>1 DEF u
  <2>2. CASE k # p
    BY <1>4, <1>6, <1>7, <1>8, <1>9, <2>2
  <2> QED
    BY <2>1, <2>2
<1>12. ASSUME NEW k \in Holders', NEW q \in Holders', pr'[k].unique = pr'[q].unique
       PROVE  k = q
  <2>1. ASSUME NEW x \in H PROVE pr'[x].unique # u
    BY <1>3, <1>4, <1>6, <1>7, <1>8, <2>1
  <2>2. CASE k = p \/ q = p
    BY <1>4, <1>12, <2>1, <2>2 DEF u
  <2>3. CASE k # p /\ q # p
    BY <1>4, <1>7, <1>8, <1>12, <2>3
  <2> QED
    BY <2>2, <2>3
<1>13. \A k \in Procs \ Holders' : pr'[k].unique = -1
  BY <1>4, <1>7, <1>8
<1> QED
  BY <1>5, <1>9, <1>10, <1>11, <1>12, <1>13 DEF NumberInv

\* A freed process gives its number back.
LEMMA NumberReturned ==
  ASSUME EnoughNumbers, Types, NumberInv, NEW p \in Procs, caller[p] = "waited",
         caller' = [caller EXCEPT ![p] = "freed"],
         pr' = [pr EXCEPT ![p] = pr'[p]], pr'[p].unique = -1,
         upool' = unique_release_uid(upool, pr[p].unique)
  PROVE  NumberInv'
<1> DEFINE H == Holders
           ptr == upool.ptr
           stack == upool.stack
           u == pr[p].unique
           new == [stack EXCEPT ![ptr - 1] = u]
<1>0. MaxUnique \in Nat
  BY LibrunAssumption
<1>1. /\ upool = [stack |-> stack, ptr |-> ptr] /\ stack \in [0..(MaxUnique - 1) -> Shorts]
      /\ ptr \in 0..MaxUnique /\ IsFiniteSet(H) /\ ptr = Cardinality(H)
  BY DEF NumberInv
<1>2. p \in H /\ Holders' = H \ {p} /\ H \subseteq Procs
  BY DEF Holders, Types
<1>3. IsFiniteSet(Holders') /\ Cardinality(Holders') = ptr - 1 /\ ptr - 1 \in Nat
  <2>1. IsFiniteSet(H \ {p}) /\ Cardinality(H \ {p}) = Cardinality(H) - 1
    BY <1>1, <1>2, FS_RemoveElement
  <2>2. Cardinality(H \ {p}) \in Nat
    BY <2>1, FS_CardinalityType
  <2> QED
    BY <1>1, <1>2, <2>1, <2>2
<1>4. ptr > 0 /\ ptr - 1 \in 0..(MaxUnique - 1) /\ ptr - 1 \in 0..MaxUnique
  BY <1>0, <1>1, <1>3
<1>5. u \in Shorts
  BY <1>2 DEF NumberInv
<1>6. upool' = [stack |-> new, ptr |-> ptr - 1]
  <2> DEFINE v == u % 65536
  <2>1. v = u
    BY <1>5 DEF Shorts
  <2>2. ~(ptr =< 0)
    BY <1>1, <1>4
  <2>3. upool' = [upool EXCEPT !.stack[ptr - 1] = v, !.ptr = @ - 1]
    BY <2>2 DEF unique_release_uid
  <2> HIDE DEF v
  <2> QED
    BY <1>1, <2>1, <2>3
<1>7. /\ \A i, j \in Spare : stack[i] = stack[j] => i = j
      /\ \A k \in H : /\ pr[k].unique \in Shorts
                      /\ \A i \in Spare : stack[i] # pr[k].unique
      /\ \A k, q \in H : pr[k].unique = pr[q].unique => k = q
      /\ \A k \in Procs \ H : pr[k].unique = -1
  BY DEF NumberInv
<1>8. \A k \in Procs \ {p} : pr'[k] = pr[k]
  BY DEF Types
<1>9. /\ Spare' = (ptr - 1)..(MaxUnique - 1) /\ Spare' = Spare \cup {ptr - 1}
      /\ ptr - 1 \notin Spare /\ Spare \subseteq 0..(MaxUnique - 1)
  BY <1>0, <1>1, <1>4, <1>6 DEF Spare
<1>10. /\ new \in [0..(MaxUnique - 1) -> Shorts] /\ new[ptr - 1] = u
       /\ \A i \in Spare : new[i] = stack[i]
  <2>1. \A i \in Spare : i \in 0..(MaxUnique - 1) /\ i # ptr - 1
    BY <1>9
  <2> QED
    BY <1>1, <1>4, <1>5, <2>1
<1> HIDE DEF H, ptr, stack, u, new
<1>11. /\ upool' \in [stack : [0..(MaxUnique - 1) -> Shorts], ptr : 0..MaxUnique]
       /\ upool'.stack = new /\ upool'.ptr = ptr - 1
  BY <1>4, <1>6, <1>10
<1>12. ASSUME NEW i \in Spare', NEW j \in Spare', new[i] = new[j] PROVE i = j
  BY <1>2, <1>7, <1>9, <1>10, <1>12 DEF u
<1>13. ASSUME NEW k \in Holders'
       PROVE  /\ pr'[k].unique \in Shorts
              /\ \A i \in Spare' : new[i] # pr'[k].unique
  BY <1>2, <1>7, <1>8, <1>9, <1>10 DEF u
<1>14. \A k, q \in Holders' : pr'[k].unique = pr'[q].unique => k = q
  BY <1>2, <1>7, <1>8
<1>15. \A k \in Procs \ Holders' : pr'[k].unique = -1
  BY <1>2, <1>7, <1>8
<1> QED
  BY <1>3, <1>11, <1>12, <1>13, <1>14, <1>15 DEF NumberInv

\* Numbers stay different whatever happens.
LEMMA NumbersKept ==
  ASSUME EnoughNumbers, IInv, Kinds
  PROVE  NumberInv'
<1>0. /\ Types /\ NumberInv /\ caller = [k \in Procs |-> caller[k]]
      /\ pr = [k \in Procs |-> pr[k]]
  BY DEF IInv, Types
<1>1. CASE UNCHANGED <<caller, upool, pr>>
  <2>1. Holders' = Holders
    BY <1>1 DEF Holders
  <2> QED
    BY <1>0, <1>1, <2>1, NumbersSame
<1>2. ASSUME NEW p \in Procs, ThreadStep(p) PROVE NumberInv'
  <2>0. /\ caller' = [caller EXCEPT ![p] = caller'[p]] /\ pr' = [pr EXCEPT ![p] = pr'[p]]
    BY <1>2 DEF ThreadStep
  <2>1. CASE Goes(p, "none", "created", "none", "none")
    BY <1>0, <1>2, <2>0, <2>1, NumberTaken DEF ThreadStep, Goes
  <2>2. CASE Goes(p, "waited", "freed", "ended", "ended")
    BY <1>0, <1>2, <2>0, <2>2, NumberReturned DEF ThreadStep, Goes
  <2>3. CASE /\ caller[p] \notin {"none", "freed"} /\ caller'[p] \notin {"none", "freed"}
             /\ upool' = upool /\ pr'[p].unique = pr[p].unique
    <3>1. Holders' = Holders
      BY <1>0, <2>0, <2>3 DEF Holders
    <3>2. \A k \in Procs : pr'[k].unique = pr[k].unique
      BY <1>0, <2>0, <2>3
    <3> QED
      BY <1>0, <2>3, <3>1, <3>2, NumbersSame
  <2> QED
    BY <1>2, <2>1, <2>2, <2>3 DEF ThreadStep, Goes, Same
<1>3. ASSUME NEW p \in Procs, Overviews(p) \/ run_finalize_executing(p) PROVE NumberInv'
  <2>1. IsProc(pr[p])
    BY <1>0 DEF Types
  <2>2. [pr[p] EXCEPT !.locked = TRUE].unique = pr[p].unique
    BY <2>1 DEF IsProc, Fields
  <2>3. /\ \A k \in Procs : pr'[k].unique = pr[k].unique
        /\ Holders' = Holders /\ UNCHANGED upool
    BY <1>0, <1>3, <2>2 DEF Overviews, Alike, run_finalize_executing, Holders
  <2> QED
    BY <1>0, <2>3, NumbersSame
<1>4. CASE CommandDone
  <2>1. /\ \A k \in Procs : pr'[k].unique = pr[k].unique
        /\ Holders' = Holders /\ UNCHANGED upool
    BY <1>4 DEF CommandDone, Changed, Alike, Holders
  <2> QED
    BY <1>0, <2>1, NumbersSame
<1> QED
  BY <1>1, <1>2, <1>3, <1>4
  DEF Kinds, Aside, LrvmMoves, Accept, Receive, ParseClient, ParseEnds,
      ListenerLeaves,
      KeepTimeout, run_hypervisor_done
-----------------------------------------------------------------------------
(* Callers, threads and LRVMs.                                             *)

\* run_finalize_executing changes one lock.
LEMMA FinalizeLocks ==
  ASSUME Types, NEW p \in Procs, run_finalize_executing(p)
  PROVE  \A k \in Procs : /\ Alike(pr'[k], pr[k]) /\ pr'[k].lrvm_pid = pr[k].lrvm_pid
                          /\ pr'[k].state = pr[k].state /\ pr'[k].err_desc = pr[k].err_desc
<1> DEFINE r == [pr[p] EXCEPT !.locked = TRUE]
<1>1. pr = [k \in Procs |-> pr[k]] /\ \A k \in Procs : IsProc(pr[k])
  BY DEF Types
<1>2. IsProc(pr[p])
  BY <1>1
<1>3. /\ Alike(r, pr[p]) /\ r.lrvm_pid = pr[p].lrvm_pid
      /\ r.state = pr[p].state /\ r.err_desc = pr[p].err_desc
  BY <1>2 DEF Alike, IsProc, Fields
<1>4. pr' = [pr EXCEPT ![p] = r]
  BY DEF run_finalize_executing
<1> HIDE DEF r
<1> QED
  BY <1>1, <1>3, <1>4 DEF Alike

\* Caller, thread and LRVM stay together.
LEMMA RunKept ==
  ASSUME IInv, Kinds, NEW q \in Procs
  PROVE  RunInv(q)'
<1>0. /\ Types /\ RunInv(q) /\ pr = [k \in Procs |-> pr[k]]
      /\ lrvm = [k \in Procs |-> lrvm[k]] /\ caller = [k \in Procs |-> caller[k]]
      /\ thread = [k \in Procs |-> thread[k]]
  BY DEF IInv, Types
<1>1. CASE Aside
  BY <1>0, <1>1 DEF Aside, RunInv
<1>2. ASSUME NEW p \in Procs, LrvmMoves(p) PROVE RunInv(q)'
  <2>1. lrvm'[p] # "none"
    BY <1>2 DEF LrvmMoves, Connects, Speaks, Quiet, Waiting
  <2> QED
    BY <1>0, <1>2, <2>1 DEF LrvmMoves, RunInv
<1>3. ASSUME NEW p \in Procs, ThreadStep(p) PROVE RunInv(q)'
  <2>1. CASE q # p
    BY <1>0, <1>3, <2>1 DEF ThreadStep, RunInv
  <2>2. CASE q = p
    <3>1. UNCHANGED task /\ lrvm'[p] = IF thread[p] = "unpack" /\ thread'[p] = "pid"
                                         THEN "boot" ELSE lrvm[p]
      BY <1>0, <1>3 DEF ThreadStep
    <3> QED
      BY <1>0, <1>3, <2>2, <3>1 DEF ThreadStep, RunInv, Goes, Blank, Same
  <2> QED
    BY <2>1, <2>2
<1>4. ASSUME NEW p \in Procs, Overviews(p) PROVE RunInv(q)'
  <2>1. /\ UNCHANGED <<caller, thread>> /\ pr'[q].inbelts = pr[q].inbelts
        /\ task'[q] # "none" => task[q] # "none"
    BY <1>0, <1>4 DEF Overviews, Alike
  <2>2. lrvm'[q] # "none" <=> lrvm[q] # "none"
    BY <1>0, <1>4 DEF Overviews
  <2>3. pr'[q].lrvm_pid => pr[q].lrvm_pid
    BY <1>0, <1>4 DEF Overviews
  <2> QED
    BY <1>0, <2>1, <2>2, <2>3 DEF RunInv
<1>5. ASSUME NEW p \in Procs, run_finalize_executing(p) PROVE RunInv(q)'
  <2>1. pr'[q].inbelts = pr[q].inbelts /\ pr'[q].lrvm_pid = pr[q].lrvm_pid
    BY <1>0, <1>5, FinalizeLocks DEF Alike
  <2> QED
    BY <1>0, <1>5, <2>1 DEF run_finalize_executing, envVars, RunInv
<1>6. CASE CommandDone
  <2>1. pr'[q].inbelts = pr[q].inbelts /\ pr'[q].lrvm_pid = pr[q].lrvm_pid
    BY <1>6 DEF CommandDone, Changed, Alike
  <2> QED
    BY <1>0, <1>6, <2>1 DEF CommandDone, RunInv
<1>7. CASE UNCHANGED <<caller, thread, pr, lrvm, task>>
  BY <1>0, <1>7 DEF RunInv
<1> QED
  BY <1>1, <1>2, <1>3, <1>4, <1>5, <1>6, <1>7
  DEF Kinds, Accept, Receive, ParseClient, ParseEnds, ListenerLeaves, KeepTimeout,
      run_hypervisor_done, envVars

\* An error stays in the state.
LEMMA ErrorsKept ==
  ASSUME IInv, Kinds, NEW q \in Procs
  PROVE  ErrorInv(q)'
<1>0. /\ Types /\ RunInv(q) /\ ErrorInv(q) /\ WorkInv /\ pr = [k \in Procs |-> pr[k]]
      /\ lrvm = [k \in Procs |-> lrvm[k]]
      /\ thread = [k \in Procs |-> thread[k]]
  BY DEF IInv, Types
<1>2. ASSUME NEW p \in Procs, LrvmMoves(p) PROVE ErrorInv(q)'
  <2>1. lrvm[q] = "none" => lrvm'[q] = "none"
    BY <1>0, <1>2 DEF LrvmMoves
  <2> QED
    BY <1>0, <1>2, <2>1 DEF LrvmMoves, ErrorInv
<1>3. ASSUME NEW p \in Procs, ThreadStep(p) PROVE ErrorInv(q)'
  <2>1. CASE q # p
    BY <1>0, <1>3, <2>1 DEF ThreadStep, ErrorInv
  <2>2. CASE q = p
    <3>1. lrvm'[p] = IF thread[p] = "unpack" /\ thread'[p] = "pid" THEN "boot" ELSE lrvm[p]
      BY <1>0, <1>3 DEF ThreadStep
    <3> QED
      BY <1>0, <1>3, <2>2, <3>1
      DEF ThreadStep, RunInv, ErrorInv, Goes, Blank, Same, ErrorKept
  <2> QED
    BY <2>1, <2>2
<1>4. ASSUME NEW p \in Procs, Overviews(p) PROVE ErrorInv(q)'
  <2>1. CASE q # p
    BY <1>0, <1>4, <2>1 DEF Overviews, ErrorInv
  <2>2. CASE q = p
    <3>1. pr[p].inbelts /\ pr'[p].inbelts /\ thread' = thread
      BY <1>0, <1>4 DEF Overviews, WorkInv, Alike
    <3>2. lrvm[p] = "none" => lrvm'[p] = "none"
      BY <1>0, <1>4 DEF Overviews
    <3> QED
      BY <1>0, <1>4, <2>2, <3>1, <3>2 DEF Overviews, ErrorInv
  <2> QED
    BY <2>1, <2>2
<1>5. ASSUME NEW p \in Procs, run_finalize_executing(p) PROVE ErrorInv(q)'
  <2>1. /\ pr'[q].inbelts = pr[q].inbelts /\ pr'[q].lrvm_pid = pr[q].lrvm_pid
        /\ pr'[q].state = pr[q].state /\ pr'[q].err_desc = pr[q].err_desc
    BY <1>0, <1>5, FinalizeLocks DEF Alike
  <2> QED
    BY <1>0, <1>5, <2>1 DEF run_finalize_executing, envVars, ErrorInv
<1>6. CASE CommandDone
  <2>1. UNCHANGED <<thread, lrvm>> /\ (pr'[q] = pr[q] \/ Changed(q))
    BY <1>6 DEF CommandDone
  <2> QED
    BY <1>0, <2>1 DEF Changed, Alike, ErrorInv
<1>7. CASE UNCHANGED <<thread, pr, lrvm>>
  BY <1>0, <1>7 DEF ErrorInv
<1> QED
  BY <1>2, <1>3, <1>4, <1>5, <1>6, <1>7
  DEF Kinds, Aside, Accept, Receive, ParseClient, ParseEnds, ListenerLeaves,
      KeepTimeout,
      run_hypervisor_done, envVars
-----------------------------------------------------------------------------
(* Sockets and clients.                                                    *)

\* An LRVM that was there once stays known.
LEMMA LrvmStays ==
  ASSUME IInv, Kinds, NEW k \in Procs, lrvm[k] # "none"
  PROVE  lrvm'[k] # "none"
<1>0. lrvm = [q \in Procs |-> lrvm[q]]
  BY DEF IInv, Types
<1>1. ASSUME NEW p \in Procs, LrvmMoves(p) PROVE lrvm'[k] # "none"
  <2>1. lrvm'[p] # "none"
    BY <1>1 DEF LrvmMoves, Connects, Speaks, Quiet, Waiting
  <2> QED
    BY <1>0, <1>1, <2>1 DEF LrvmMoves
<1>2. ASSUME NEW p \in Procs, ThreadStep(p) PROVE lrvm'[k] # "none"
  BY <1>0, <1>2 DEF ThreadStep
<1>3. ASSUME NEW p \in Procs, Overviews(p) PROVE lrvm'[k] # "none"
  BY <1>0, <1>3 DEF Overviews
<1> QED
  BY <1>1, <1>2, <1>3
  DEF Kinds, Aside, CommandDone, run_finalize_executing, Accept, Receive, ParseClient,
      ParseEnds, ListenerLeaves, KeepTimeout, run_hypervisor_done, envVars

\* What Accept does.
LEMMA Accepts ==
  ASSUME IInv, NEW p \in Procs, Accept(p)
  PROVE  /\ conn[p] = "backlog" /\ out[p] = <<>> /\ ans[p] = "none"
         /\ UNCHANGED <<caller, pr, thread, lrvm, task, upool, applied>>
         /\ \A q \in Procs \ {p} : ans'[q] = ans[q]
         /\ \/ /\ conn' = [conn EXCEPT ![p] = "closed"] /\ UNCHANGED <<cell, out>>
            \/ \E c \in Cells :
                 /\ cell' = [cell EXCEPT ![c] = Registered(c, p)]
                 /\ conn'[p] = "open" /\ (lrvm[p] = "hello" => ans'[p] = "OK")
                 /\ \A q \in Procs \ {p} :
                      IF q = cell[c].owner THEN conn'[q] = "closed" /\ out'[q] = <<>>
                      ELSE conn'[q] = conn[q] /\ out'[q] = out[q]
                 /\ out'[p] = <<>>
<1>0. /\ conn = [q \in Procs |-> conn[q]] /\ out = [q \in Procs |-> out[q]]
      /\ ans = [q \in Procs |-> ans[q]]
  BY DEF IInv, Types
<1>1. conn[p] = "backlog" /\ out[p] = <<>> /\ ans[p] = "none"
  BY DEF IInv, SocketInv, Accept
<1>2. /\ UNCHANGED <<caller, pr, thread, lrvm, task, upool, applied>>
      /\ \A q \in Procs \ {p} : ans'[q] = ans[q]
  BY <1>0 DEF Accept, Reply
<1>3. CASE TableFull
  BY <1>1, <1>2, <1>3 DEF Accept
<1>4. CASE ~TableFull
  <2> DEFINE c == NewCell
             evicted == {q \in Procs : q = cell[c].owner}
  <2>1. c \in Cells
    BY <1>4, NewCellIn
  <2>2. /\ cell' = [cell EXCEPT ![c] = Registered(c, p)]
        /\ conn' = [q \in Procs |-> IF q = p THEN "open"
                                    ELSE IF q \in evicted THEN "closed" ELSE conn[q]]
        /\ out' = [q \in Procs |-> IF q \in evicted THEN <<>> ELSE out[q]]
        /\ Reply(p, "OK")
    BY <1>4 DEF Accept
  <2>3. lrvm[p] = "hello" => ans'[p] = "OK"
    BY <1>0, <1>1, <2>2 DEF Reply, Alive
  <2>4. \A q \in Procs \ {p} : IF q = cell[c].owner THEN conn'[q] = "closed" /\ out'[q] = <<>>
                               ELSE conn'[q] = conn[q] /\ out'[q] = out[q]
    BY <2>2
  <2>5. conn'[p] = "open" /\ out'[p] = <<>>
    BY <1>1, <2>2
  <2> HIDE DEF c, evicted
  <2> QED
    BY <1>1, <1>2, <2>1, <2>2, <2>3, <2>4, <2>5
<1> QED
  BY <1>3, <1>4

\* LRVM is not accepted twice, and nothing is sent before.
LEMMA SocketsKept ==
  ASSUME IInv, Kinds, NEW q \in Procs
  PROVE  SocketInv(q)'
<1>0. /\ Types /\ SocketInv(q) /\ lrvm = [k \in Procs |-> lrvm[k]]
      /\ conn = [k \in Procs |-> conn[k]] /\ out = [k \in Procs |-> out[k]]
      /\ ans = [k \in Procs |-> ans[k]] /\ NoProc \notin Procs
  BY LibrunAssumption DEF IInv, Types
<1>1. CASE Aside
  BY <1>0, <1>1 DEF Aside, SocketInv
<1>2. ASSUME NEW p \in Procs, LrvmMoves(p) PROVE SocketInv(q)'
  <2>1. CASE q # p
    <3>1. /\ lrvm'[q] = lrvm[q] /\ conn'[q] = conn[q] /\ out'[q] = out[q] /\ ans'[q] = ans[q]
      BY <1>0, <1>2, <2>1 DEF LrvmMoves, Connects, Speaks, Quiet
    <3> QED
      BY <1>0, <3>1 DEF SocketInv
  <2>2. CASE q = p
    <3>1. CASE Connects(p)
      BY <1>0, <2>2, <3>1 DEF Connects, SocketInv
    <3>2. CASE Speaks(p)
      BY <1>0, <2>2, <3>2 DEF Speaks, SocketInv, Waiting
    <3>3. CASE Quiet(p)
      <4>1. ans'[p] \in {ans[p], "none"}
        BY <1>0, <1>2 DEF LrvmMoves
      <4> QED
        BY <1>0, <2>2, <3>3, <4>1 DEF Quiet, SocketInv, Introduced, Waiting
    <3> QED
      BY <1>2, <3>1, <3>2, <3>3 DEF LrvmMoves
  <2> QED
    BY <2>1, <2>2
<1>3. ASSUME NEW p \in Procs, ThreadStep(p) PROVE SocketInv(q)'
  <2>1. RunInv(p)
    BY DEF IInv
  <2>2. thread[p] = "unpack" => lrvm[p] = "none"
    BY <2>1 DEF RunInv
  <2> QED
    BY <1>0, <1>3, <2>2 DEF ThreadStep, SocketInv
<1>4. ASSUME NEW p \in Procs, Overviews(p) PROVE SocketInv(q)'
  BY <1>0, <1>4 DEF Overviews, SocketInv
<1>5. ASSUME NEW p \in Procs, Accept(p) PROVE SocketInv(q)'
  <2>1. /\ conn[p] = "backlog" /\ UNCHANGED lrvm
        /\ \A k \in Procs \ {p} : ans'[k] = ans[k]
    BY <1>5, Accepts
  <2>2. CASE conn' = [conn EXCEPT ![p] = "closed"] /\ UNCHANGED <<cell, out>>
    BY <1>0, <2>1, <2>2 DEF SocketInv
  <2>3. ASSUME NEW c \in Cells,
               conn'[p] = "open", lrvm[p] = "hello" => ans'[p] = "OK",
               \A k \in Procs \ {p} :
                  IF k = cell[c].owner THEN conn'[k] = "closed" /\ out'[k] = <<>>
                  ELSE conn'[k] = conn[k] /\ out'[k] = out[k]
        PROVE  SocketInv(q)'
    <3>1. CASE q = p
      BY <1>0, <2>1, <2>3, <3>1 DEF SocketInv
    <3>2. CASE q # p /\ q = cell[c].owner
      <4>1. conn[q] = "open"
        BY <1>0, <3>2 DEF IInv, CellInv
      <4> QED
        BY <1>0, <2>1, <2>3, <3>2, <4>1 DEF SocketInv
    <3>3. CASE q # p /\ q # cell[c].owner
      BY <1>0, <2>1, <2>3, <3>3 DEF SocketInv
    <3> QED
      BY <3>1, <3>2, <3>3
  <2> QED
    BY <1>5, <2>2, <2>3, Accepts
<1>6. CASE Receive
  <2>1. /\ UNCHANGED <<lrvm, ans>>
        /\ out'[q] = IF conn[q] = "open" THEN <<>> ELSE out[q]
        /\ conn'[q] = conn[q] \/ (conn'[q] = "closed" /\ \E c \in Cells : cell[c].owner = q)
    BY <1>6 DEF Receive
  <2>2. ASSUME NEW c \in Cells, cell[c].owner = q PROVE conn[q] = "open"
    BY <1>0, <2>2 DEF IInv, CellInv
  <2> QED
    BY <1>0, <2>1, <2>2 DEF SocketInv
<1>7. CASE CommandDone
  <2> DEFINE p == cell[listener.at].owner
  <2>1. /\ p \in Procs /\ conn[p] = "open" /\ UNCHANGED <<lrvm, out, conn>>
    BY <1>0, <1>7 DEF CommandDone, IInv, CellInv
  <2>2. ans'[q] = ans[q] \/ (q = p /\ ans[q] = "none")
    BY <1>0, <1>7, <2>1 DEF CommandDone, Reply
  <2> QED
    BY <1>0, <2>1, <2>2 DEF SocketInv
<1>8. CASE UNCHANGED <<lrvm, conn, out, ans>>
  BY <1>0, <1>8 DEF SocketInv
<1> QED
  BY <1>1, <1>2, <1>3, <1>4, <1>5, <1>6, <1>7, <1>8
  DEF Kinds, run_finalize_executing, ParseClient, ParseEnds, ListenerLeaves,
      KeepTimeout,
      run_hypervisor_done, envVars

\* What is in a socket was sent by its LRVM.
LEMMA OutsKept ==
  ASSUME IInv, Kinds, NEW q \in Procs
  PROVE  OutInv(q)'
<1>0. /\ Types /\ OutInv(q) /\ lrvm = [k \in Procs |-> lrvm[k]] /\ out \in [Procs -> Seq(Msg)]
  BY DEF IInv, Types
<1>1. lrvm[q] # "none" => lrvm'[q] # "none"
  BY LrvmStays
<1>2. CASE out'[q] = out[q] \/ out'[q] = <<>>
  BY <1>0, <1>1, <1>2 DEF OutInv
<1>3. ASSUME NEW p \in Procs, LrvmMoves(p) PROVE OutInv(q)'
  <2>1. CASE Speaks(p) /\ q = p
    <3> DEFINE m == [from |-> p, name |-> lrvm'[p]]
               s == out[p]
    <3>1. out'[p] = Append(s, m) /\ s \in Seq(Msg) /\ m \in Msg /\ m.from = p
      BY <1>0, <2>1 DEF Speaks, Msg
    <3> HIDE DEF m, s
    <3>2. /\ \A i \in 1..Len(out'[p]) : i \in 1..Len(s) \/ i = Len(s) + 1
          /\ \A i \in 1..Len(s) : out'[p][i] = s[i]
          /\ out'[p][Len(s) + 1] = m
      BY <3>1
    <3>3. \A i \in 1..Len(s) : s[i].from = p
      BY <1>0, <2>1 DEF OutInv, s
    <3>4. lrvm'[p] # "none"
      BY <1>1, <1>3, <2>1 DEF LrvmMoves
    <3> QED
      BY <2>1, <3>1, <3>2, <3>3, <3>4 DEF OutInv
  <2>2. CASE ~(Speaks(p) /\ q = p)
    BY <1>0, <1>2, <1>3, <2>2 DEF LrvmMoves, Connects, Speaks, Quiet
  <2> QED
    BY <2>1, <2>2
<1>4. ASSUME NEW p \in Procs, Accept(p) PROVE OutInv(q)'
  BY <1>2, <1>4, Accepts
<1>5. CASE Receive
  BY <1>2, <1>5 DEF Receive
<1> QED
  BY <1>2, <1>3, <1>4, <1>5
  DEF Kinds, Aside, ThreadStep, Overviews, CommandDone, run_finalize_executing,
      ParseClient,
      ParseEnds, ListenerLeaves, KeepTimeout, run_hypervisor_done, envVars

\* The listening thread works on a client that is there.
LEMMA ListenerKept ==
  ASSUME IInv, Kinds
  PROVE  ListenerInv'
<1>0. /\ Types /\ ListenerInv /\ cell \in [Cells -> Client] /\ IsListener(listener)
  BY DEF IInv, Types
<1>1. CASE UNCHANGED <<cell, listener>>
  BY <1>0, <1>1 DEF ListenerInv, Command
<1>2. CASE listener'.pc \notin {"execute", "finalize"}
  BY <1>2 DEF ListenerInv
<1>3. ASSUME NEW p \in Procs, Overviews(p) PROVE ListenerInv'
  <2>1. listener'.pc \in {"listen", "overview", "kill"}
    <3>1. CASE Overviewed(p)
      BY <3>1 DEF Overviewed, Overview, Listening
    <3>2. CASE listener' = [listener EXCEPT !.pc = "kill", !.proc = p,
                                            !.signals = listener'.signals]
      BY <1>0, <3>2 DEF IsListener
    <3> QED
      BY <1>3, <3>1, <3>2 DEF Overviews
  <2> QED
    BY <1>2, <2>1
<1>4. ASSUME NEW p \in Procs, Accept(p) PROVE ListenerInv'
  BY <1>0, <1>2, <1>4 DEF Accept, Goto, IsListener
<1>5. ASSUME NEW q \in Procs, run_finalize_executing(q) PROVE ListenerInv'
  <2>1. /\ listener'.pc = "finalize" /\ listener'.at = listener.at /\ cell' = cell
        /\ listener.pc = "execute" /\ Command.name = "finalize"
    BY <1>0, <1>5 DEF run_finalize_executing, At, IsListener
  <2> QED
    BY <1>0, <2>1 DEF ListenerInv, Command
<1>6. ASSUME NEW c \in Cells, KeepTimeout(c) PROVE ListenerInv'
  <2>1. /\ listener' = listener
        /\ \A d \in Cells : cell'[d].owner = cell[d].owner /\ cell'[d].cmd = cell[d].cmd
    BY <1>0, <1>6 DEF KeepTimeout, Client
  <2> QED
    BY <1>0, <2>1 DEF ListenerInv, Command
<1>7. CASE Receive \/ ListenerLeaves
  BY <1>0, <1>2, <1>7 DEF Receive, ListenerLeaves, Goto, IsListener
<1>8. CASE ParseClient
  <2> DEFINE c == Min(ToParse)
  <2>1. c \in Cells /\ cell[c].owner # NoProc /\ cell[c].cmd # <<>>
    BY <1>8, NextClient DEF ParseClient
  <2>2. cell' = [cell EXCEPT ![c].stale = FALSE]
    BY <1>8 DEF ParseClient
  <2>3. \E pc \in {"parse", "execute"} : listener' = [listener EXCEPT !.at = c, !.pc = pc]
    BY <1>8 DEF ParseClient
  <2> HIDE DEF c
  <2>4. /\ cell'[c].owner # NoProc /\ cell'[c].cmd # <<>>
        /\ listener'.at = c /\ listener'.pc # "finalize"
    BY <1>0, <2>1, <2>2, <2>3 DEF Client, IsListener
  <2> QED
    BY <2>1, <2>4 DEF ListenerInv
<1>9. CASE ParseEnds
  <2>1. listener'.pc \in {"listen", "overview"}
    BY <1>9 DEF ParseEnds, Overview, Listening
  <2> QED
    BY <1>2, <2>1
<1>10. CASE CommandDone
  <2> DEFINE c == listener.at
  <2>1. /\ c \in Cells /\ cell[c].owner \in Procs /\ cell[c].cmd # <<>> /\ cell[c].cmd \in Seq(Msg)
        /\ cell'[c].cmd = Tail(cell[c].cmd) /\ cell'[c].owner = cell[c].owner
    BY <1>0, <1>10 DEF CommandDone, Client
  <2>2. PICK pc \in {"parse", "execute"}, proc \in Procs \cup {NoProc} :
          /\ pc = "execute" => Len(cell[c].cmd) # 1
          /\ listener' = [listener EXCEPT !.pc = pc, !.proc = proc, !.signals = listener'.signals]
    BY <1>10 DEF CommandDone
  <2>3. listener'.pc = pc /\ listener'.at = c
    BY <1>0, <2>2 DEF IsListener
  <2>4. ASSUME NEW s \in Seq(Msg), s # <<>>, Len(s) # 1 PROVE Tail(s) # <<>>
    <3>1. Len(s) \in Nat /\ Len(s) # 0 /\ Len(Tail(s)) = Len(s) - 1
      BY <2>4
    <3>2. Len(Tail(s)) # 0
      BY <2>4, <3>1
    <3>3. Len(<<>>) = 0
      OBVIOUS
    <3> QED
      BY <3>2, <3>3, Zenon
  <2>5. pc = "execute" => cell'[c].cmd # <<>>
    BY <2>1, <2>2, <2>4
  <2> QED
    BY <2>1, <2>3, <2>5, LibrunAssumption DEF ListenerInv
<1>11. CASE run_hypervisor_done
  BY <1>2, <1>11 DEF run_hypervisor_done, At
<1> QED
  BY <1>1, <1>3, <1>4, <1>5, <1>6, <1>7, <1>8, <1>9, <1>10, <1>11
  DEF Kinds, Aside, LrvmMoves, ThreadStep

\* What the overview works on stays in the belts.
LEMMA WorkKept ==
  ASSUME IInv, Kinds
  PROVE  WorkInv'
<1>0. /\ Types /\ WorkInv /\ IsListener(listener) /\ pr = [k \in Procs |-> pr[k]]
      /\ listener.todo \subseteq Procs /\ listener.proc \in Procs \cup {NoProc}
  BY DEF IInv, Types
<1>1. \A k \in Procs : lrvm[k] # "none" => lrvm'[k] # "none"
  BY LrvmStays
<1>2. CASE listener' = listener /\ \A k \in Procs : pr'[k].inbelts = pr[k].inbelts
  BY <1>0, <1>1, <1>2 DEF WorkInv
<1>3. CASE listener'.pc \notin {"overview", "kill", "finalize"} /\ listener'.todo = {}
  BY <1>3 DEF WorkInv
<1>4. ASSUME NEW s \in SUBSET Procs, Overview(s), \A k \in s : pr'[k].inbelts
      PROVE  WorkInv'
  <2>1. CASE s = {}
    BY <1>3, <1>4, <2>1 DEF Overview, Listening
  <2>2. CASE s # {}
    <3>1. listener'.pc = "overview" /\ listener'.todo = s
      BY <1>4, <2>2 DEF Overview, Listening
    <3> QED
      BY <1>4, <2>2, <3>1 DEF WorkInv
  <2> QED
    BY <2>1, <2>2
<1>5. ASSUME NEW p \in Procs, ThreadStep(p) PROVE WorkInv'
  <2>1. CASE p \notin listener.todo
    BY <1>0, <1>1, <1>5, <2>1 DEF ThreadStep, WorkInv
  <2>2. CASE p \in listener.todo
    <3>1. pr[p].inbelts /\ RunInv(p) /\ ~BeltsFree
      BY <1>0, <2>2 DEF WorkInv, IInv, BeltsFree
    <3>2. pr'[p].inbelts
      BY <1>5, <3>1 DEF ThreadStep, RunInv, Goes, Same
    <3> QED
      BY <1>0, <1>1, <1>5, <3>2 DEF ThreadStep, WorkInv
  <2> QED
    BY <2>1, <2>2
<1>6. ASSUME NEW p \in Procs, Overviews(p) PROVE WorkInv'
  <2>1. p \in listener.todo /\ \A k \in Procs : pr'[k].inbelts = pr[k].inbelts
    BY <1>0, <1>6 DEF Overviews, Alike
  <2>2. CASE Overviewed(p)
    <3>1. listener.todo \ {p} \in SUBSET Procs
      BY <1>0
    <3>2. \A k \in listener.todo \ {p} : pr'[k].inbelts
      BY <1>0, <2>1 DEF WorkInv
    <3> QED
      BY <1>4, <2>2, <3>1, <3>2 DEF Overviewed
  <2>3. CASE listener' = [listener EXCEPT !.pc = "kill", !.proc = p,
                                          !.signals = listener'.signals]
    <3>1. listener'.pc = "kill" /\ listener'.proc = p /\ listener'.todo = listener.todo
      BY <1>0, <2>3 DEF IsListener
    <3> QED
      BY <1>0, <2>1, <3>1 DEF WorkInv
  <2> QED
    BY <1>6, <2>2, <2>3 DEF Overviews
<1>7. ASSUME NEW p \in Procs, Accept(p) PROVE WorkInv'
  BY <1>0, <1>3, <1>7 DEF Accept, At, Goto, IsListener, WorkInv
<1>8. ASSUME NEW q \in Procs, run_finalize_executing(q) PROVE WorkInv'
  <2>1. /\ listener'.pc = "finalize" /\ listener'.proc = q /\ listener'.todo = listener.todo
        /\ listener.pc = "execute" /\ cell[listener.at].key = q
    BY <1>0, <1>8 DEF run_finalize_executing, At, ValidProc, IsListener
  <2>2. listener.at \in Cells
    BY <2>1 DEF IInv, ListenerInv
  <2>3. lrvm[q] # "none"
    BY <2>1, <2>2, LibrunAssumption DEF IInv, CellInv
  <2> QED
    BY <1>0, <1>1, <2>1, <2>3 DEF WorkInv
<1>9. CASE Receive \/ ParseClient \/ ListenerLeaves
  BY <1>0, <1>3, <1>9 DEF Receive, ParseClient, ListenerLeaves, At, Goto,
     IsListener, WorkInv
<1>10. CASE ParseEnds
  <2> DEFINE s == {p \in Procs : InBelts(p)}
  <2>1. s \in SUBSET Procs /\ Overview(s) /\ \A k \in s : pr'[k].inbelts
    BY <1>10 DEF ParseEnds, InBelts
  <2> HIDE DEF s
  <2> QED
    BY <1>4, <2>1
<1>11. CASE CommandDone
  <2>1. PICK pc \in {"parse", "execute"}, proc \in Procs \cup {NoProc} :
          listener' = [listener EXCEPT !.pc = pc, !.proc = proc, !.signals = listener'.signals]
    BY <1>11 DEF CommandDone
  <2>2. listener'.pc = pc /\ listener'.todo = listener.todo
    BY <1>0, <2>1 DEF IsListener
  <2> QED
    BY <1>0, <1>3, <1>11, <2>2 DEF CommandDone, WorkInv
<1> QED
  BY <1>2, <1>5, <1>6, <1>7, <1>8, <1>9, <1>10, <1>11
  DEF Kinds, Aside, LrvmMoves, KeepTimeout, run_hypervisor_done

\* A connection has one cell; keys and commands are those of LRVMs.
LEMMA CellsKept ==
  ASSUME IInv, Kinds, NEW c \in Cells
  PROVE  CellInv(c)'
<1>0. /\ cell \in [Cells -> Client] /\ NoProc \notin Procs
      /\ conn = [k \in Procs |-> conn[k]] /\ out \in [Procs -> Seq(Msg)]
  BY LibrunAssumption DEF IInv, Types
<1>1. \A k \in Procs : lrvm[k] # "none" => lrvm'[k] # "none"
  BY LrvmStays
<1>2. \A d \in Cells :
        /\ cell[d].owner \in Procs \cup {NoProc} /\ cell[d].key \in Procs \cup {NoProc}
        /\ cell[d].cmd \in Seq(Msg) /\ \A i \in 1..Len(cell[d].cmd) : cell[d].cmd[i].from \in Procs
  <2>1. \A d \in Cells :
          /\ cell[d].owner \in Procs \cup {NoProc} /\ cell[d].key \in Procs \cup {NoProc}
          /\ cell[d].cmd \in Seq(Msg)
    BY <1>0 DEF Client
  <2>2. ASSUME NEW s \in Seq(Msg), NEW i \in 1..Len(s) PROVE s[i].from \in Procs
    <3>1. s[i] \in Msg
      OBVIOUS
    <3> QED
      BY <3>1 DEF Msg
  <2> QED
    BY <2>1, <2>2
<1>3. \A d \in Cells :
        /\ cell[d].owner # NoProc => conn[cell[d].owner] = "open"
        /\ \A e \in Cells : cell[d].owner = cell[e].owner /\ cell[d].owner # NoProc => d = e
        /\ cell[d].key # NoProc => lrvm[cell[d].key] # "none"
        /\ \A i \in 1..Len(cell[d].cmd) : lrvm[cell[d].cmd[i].from] # "none"
  BY DEF IInv, CellInv
<1>4. ASSUME \A d \in Cells : /\ cell'[d].owner = cell[d].owner /\ cell'[d].key = cell[d].key
                              /\ cell'[d].cmd = cell[d].cmd,
             \A k \in Procs : conn[k] = "open" => conn'[k] = "open"
      PROVE  CellInv(c)'
  BY <1>1, <1>2, <1>3, <1>4 DEF CellInv
<1>5. CASE UNCHANGED <<cell, conn>>
  BY <1>4, <1>5
<1>6. ASSUME NEW p \in Procs, LrvmMoves(p) PROVE CellInv(c)'
  <2>1. lrvm[p] = "connect" => conn[p] = "none"
    BY DEF IInv, SocketInv
  <2>2. \A k \in Procs : conn[k] = "open" => conn'[k] = "open"
    BY <1>0, <1>6, <2>1 DEF LrvmMoves, Connects, Speaks, Quiet
  <2> QED
    BY <1>4, <1>6, <2>2 DEF LrvmMoves
<1>7. ASSUME NEW d \in Cells, KeepTimeout(d) PROVE CellInv(c)'
  BY <1>0, <1>4, <1>7 DEF KeepTimeout, Client, envVars
<1>8. CASE ParseClient
  <2> DEFINE d == Min(ToParse)
  <2>1. cell' = [cell EXCEPT ![d].stale = FALSE] /\ UNCHANGED conn
    BY <1>8 DEF ParseClient, envVars
  <2> HIDE DEF d
  <2> QED
    BY <1>0, <1>4, <2>1 DEF Client
<1>9. ASSUME NEW p \in Procs, Accept(p) PROVE CellInv(c)'
  <2>1. conn[p] = "backlog" /\ UNCHANGED lrvm
    BY <1>9, Accepts
  <2>2. CASE conn' = [conn EXCEPT ![p] = "closed"] /\ UNCHANGED cell
    <3>1. \A k \in Procs : conn[k] = "open" => conn'[k] = "open"
      BY <1>0, <2>1, <2>2
    <3> QED
      BY <1>4, <2>2, <3>1
  <2>3. ASSUME NEW d \in Cells,
               cell' = [cell EXCEPT ![d] = Registered(d, p)], conn'[p] = "open",
               \A q \in Procs \ {p} :
                  IF q = cell[d].owner THEN conn'[q] = "closed" /\ out'[q] = <<>>
                  ELSE conn'[q] = conn[q] /\ out'[q] = out[q]
        PROVE  CellInv(c)'
    <3>1. /\ cell'[d].owner = p /\ cell'[d].key = NoProc /\ cell'[d].cmd = cell[d].cmd
          /\ \A e \in Cells \ {d} : cell'[e] = cell[e]
      BY <1>0, <2>3 DEF Registered, Disconnected, FreeCell
    <3>2. \A e \in Cells : cell[e].owner # p
      BY <1>3, <2>1, <1>0
    <3>3. \A e \in Cells \ {d} : cell[e].owner # NoProc => conn'[cell[e].owner] = "open"
      BY <1>2, <1>3, <2>3, <3>2
    <3> QED
      BY <1>1, <1>2, <1>3, <2>3, <3>1, <3>2, <3>3 DEF CellInv
  <2> QED
    BY <1>9, <2>2, <2>3, Accepts
<1>10. CASE Receive
  <2> DEFINE lost == {d \in Cells : /\ cell[d].owner # NoProc
                                    /\ out[cell[d].owner] = <<>> /\ lrvm[cell[d].owner] = "dead"}
  <2>1. /\ \A d \in Cells :
             cell'[d] = IF d \in lost THEN Disconnected(d)
                        ELSE IF cell[d].owner # NoProc
                          THEN [cell[d] EXCEPT !.cmd = @ \o out[cell[d].owner]]
                        ELSE cell[d]
        /\ \A k \in Procs : conn'[k] = IF \E d \in lost : cell[d].owner = k THEN "closed" ELSE conn[k]
        /\ UNCHANGED lrvm
    BY <1>10 DEF Receive
  <2>2. ASSUME NEW d \in Cells
        PROVE  \/ d \in lost /\ cell'[d].owner = NoProc /\ cell'[d].key = NoProc
                  /\ cell'[d].cmd = cell[d].cmd
               \/ d \notin lost /\ cell[d].owner # NoProc /\ cell'[d].owner = cell[d].owner
                  /\ cell'[d].key = cell[d].key
                  /\ cell'[d].cmd = cell[d].cmd \o out[cell[d].owner]
               \/ d \notin lost /\ cell'[d] = cell[d] /\ cell[d].owner = NoProc
    <3>0. cell[d] \in Client
      BY <1>0
    <3>1. CASE d \in lost
      BY <2>1, <3>1 DEF Disconnected, FreeCell
    <3>2. CASE d \notin lost /\ cell[d].owner # NoProc
      <4>1. cell'[d] = [cell[d] EXCEPT !.cmd = @ \o out[cell[d].owner]]
        BY <2>1, <3>2
      <4> QED
        BY <3>0, <3>2, <4>1 DEF Client
    <3>3. CASE d \notin lost /\ cell[d].owner = NoProc
      BY <2>1, <3>3
    <3> QED
      BY <3>1, <3>2, <3>3
  <2>3. lost \subseteq Cells
    OBVIOUS
  <2> HIDE DEF lost
  <2>8. \A d \in Cells : cell'[d].owner # NoProc => d \notin lost /\ cell'[d].owner = cell[d].owner
    BY <2>2
  <2>4. ASSUME cell'[c].owner # NoProc PROVE conn'[cell'[c].owner] = "open"
    <3>1. c \notin lost /\ cell'[c].owner = cell[c].owner /\ cell[c].owner \in Procs
      BY <1>2, <2>4, <2>8
    <3>2. \A d \in lost : cell[d].owner # cell[c].owner
      BY <1>3, <1>0, <2>3, <3>1
    <3> QED
      BY <1>0, <1>3, <2>1, <3>1, <3>2
  <2>5. \A e \in Cells : cell'[c].owner = cell'[e].owner /\ cell'[c].owner # NoProc => c = e
    BY <1>3, <2>8
  <2>6. cell'[c].key # NoProc => lrvm'[cell'[c].key] # "none"
    BY <1>3, <2>1, <2>2
  <2>7. \A i \in 1..Len(cell'[c].cmd) : lrvm'[cell'[c].cmd[i].from] # "none"
    <3>1. CASE cell'[c].cmd = cell[c].cmd
      BY <1>3, <2>1, <3>1
    <3>2. CASE cell[c].owner \in Procs /\ cell'[c].cmd = cell[c].cmd \o out[cell[c].owner]
      <4> DEFINE s == cell[c].cmd
                 q == cell[c].owner
                 t == out[q]
      <4>1. /\ s \in Seq(Msg) /\ t \in Seq(Msg) /\ \A i \in 1..Len(s) : lrvm[s[i].from] # "none"
        BY <1>0, <1>2, <1>3, <3>2
      <4>2. \A i \in 1..Len(t) : lrvm[t[i].from] # "none"
        BY <3>2 DEF IInv, OutInv
      <4>3. cell'[c].cmd = s \o t
        BY <3>2
      <4> HIDE DEF s, t, q
      <4>4. ASSUME NEW i \in 1..Len(s \o t) PROVE lrvm[(s \o t)[i].from] # "none"
        BY <4>1, <4>2, Joined
      <4> QED
        BY <2>1, <4>3, <4>4
    <3> QED
      BY <1>2, <2>2, <3>1, <3>2
  <2> QED
    BY <2>4, <2>5, <2>6, <2>7 DEF CellInv
<1>11. CASE CommandDone
  <2> DEFINE d == listener.at
  <2>1. /\ d \in Cells /\ cell[d].cmd # <<>> /\ cell'[d].cmd = Tail(cell[d].cmd)
        /\ cell'[d].owner = cell[d].owner /\ \A e \in Cells \ {d} : cell'[e] = cell[e]
        /\ UNCHANGED <<conn, lrvm>> /\ Learns(d)
    BY <1>0, <1>11 DEF CommandDone
  <2>2. ASSUME NEW s \in Seq(Msg), s # <<>>
        PROVE  /\ Head(s) = s[1] /\ 1 \in 1..Len(s)
               /\ \A i \in 1..Len(Tail(s)) : Tail(s)[i] = s[i + 1] /\ i + 1 \in 1..Len(s)
    BY <2>2
  <2>3. lrvm[Command.from] # "none"
    BY <1>2, <1>3, <2>1, <2>2 DEF Command
  <2>4. cell'[d].key # NoProc => lrvm[cell'[d].key] # "none"
    BY <1>3, <2>1, <2>3 DEF Learns
  <2>5. \A i \in 1..Len(cell'[d].cmd) : lrvm[cell'[d].cmd[i].from] # "none"
    BY <1>2, <1>3, <2>1, <2>2
  <2> HIDE DEF d
  <2>6. \A e \in Cells : cell'[e].owner = cell[e].owner
    BY <2>1
  <2>7. CASE c = d
    BY <1>3, <2>1, <2>4, <2>5, <2>6, <2>7 DEF CellInv
  <2>8. CASE c # d
    BY <1>3, <2>1, <2>6, <2>8 DEF CellInv
  <2> QED
    BY <2>7, <2>8
<1>12. CASE run_hypervisor_done
  <2>1. /\ \A d \in Cells : cell'[d].owner = NoProc /\ cell'[d].key = NoProc
                            /\ cell'[d].cmd = cell[d].cmd
    BY <1>0, <1>12 DEF run_hypervisor_done, Disconnected, FreeCell
  <2> QED
    BY <1>1, <1>2, <1>3, <2>1 DEF CellInv
<1> QED
  BY <1>5, <1>6, <1>7, <1>8, <1>9, <1>10, <1>11, <1>12
  DEF Kinds, Aside, ThreadStep, Overviews, run_finalize_executing, ParseEnds,
      ListenerLeaves, envVars
-----------------------------------------------------------------------------
(* The commands of a client.                                               *)

\* No process that has an LRVM is put into the belts again, and its number
\* stays as long as it is there.
LEMMA BeltsShrink ==
  ASSUME IInv, Kinds, NEW k \in Procs, lrvm[k] # "none", pr'[k].inbelts
  PROVE  pr[k].inbelts /\ pr'[k].unique = pr[k].unique
<1>0. Types /\ RunInv(k) /\ pr = [q \in Procs |-> pr[q]]
  BY DEF IInv, Types
<1>1. ASSUME NEW p \in Procs, ThreadStep(p)
      PROVE  pr[k].inbelts /\ pr'[k].unique = pr[k].unique
  <2>1. CASE k # p
    BY <1>0, <1>1, <2>1 DEF ThreadStep
  <2>2. CASE k = p
    BY <1>0, <1>1, <2>2 DEF ThreadStep, Goes, Blank, Same, RunInv
  <2> QED
    BY <2>1, <2>2
<1>2. ASSUME NEW p \in Procs, Overviews(p)
      PROVE  pr[k].inbelts /\ pr'[k].unique = pr[k].unique
  BY <1>0, <1>2 DEF Overviews, Alike
<1>3. ASSUME NEW p \in Procs, run_finalize_executing(p)
      PROVE  pr[k].inbelts /\ pr'[k].unique = pr[k].unique
  BY <1>0, <1>3, FinalizeLocks DEF Alike
<1>4. CASE CommandDone
  BY <1>4 DEF CommandDone, Changed, Alike
<1>5. CASE UNCHANGED pr
  BY <1>5
<1> QED
  BY <1>1, <1>2, <1>3, <1>4, <1>5
  DEF Kinds, Aside, LrvmMoves, Accept, Receive, ParseClient, ParseEnds,
      ListenerLeaves,
      KeepTimeout, run_hypervisor_done

\* What is known of a client stays true.
LEMMA OwnStays ==
  ASSUME IInv, Kinds, NEW c \in Cells, NEW p \in Procs, Own(c, p),
         cell'[c].key = cell[c].key, cell'[c].unique = cell[c].unique
  PROVE  Own(c, p)'
<1> DEFINE k == cell[c].key
<1>1. k \in Procs \cup {NoProc}
  BY DEF IInv, Types, Client
<1>2. CASE k \in {NoProc, p}
  BY <1>2 DEF Own
<1>3. CASE k \in Procs \ {p}
  <2>1. lrvm[k] # "none"
    BY <1>3, LibrunAssumption DEF IInv, CellInv
  <2>2. pr'[k].inbelts => pr[k].inbelts /\ pr'[k].unique = pr[k].unique
    BY <1>3, <2>1, BeltsShrink
  <2> QED
    BY <1>3, <2>2, LibrunAssumption DEF Own
<1> QED
  BY <1>1, <1>2, <1>3

\* The stream of a client, and who its commands are from.
LEMMA StreamType ==
  ASSUME IInv, NEW c \in Cells
  PROVE  /\ Stream(c) \in Seq(Msg) /\ Len(Stream(c)) \in Nat
         /\ \A i \in 1..Len(Stream(c)) : Stream(c)[i].from \in Procs
<1>1. /\ cell[c].cmd \in Seq(Msg) /\ cell[c].owner \in Procs \cup {NoProc}
      /\ out \in [Procs -> Seq(Msg)]
  BY DEF IInv, Types, Client
<1>2. Stream(c) \in Seq(Msg)
  BY <1>1 DEF Stream
<1>3. ASSUME NEW s \in Seq(Msg), NEW i \in 1..Len(s) PROVE s[i].from \in Procs
  <2>1. s[i] \in Msg
    OBVIOUS
  <2> QED
    BY <2>1 DEF Msg
<1> QED
  BY <1>2, <1>3

\* A step that changes neither the stream nor what is known of the client.
LEMMA StreamSame ==
  ASSUME IInv, Kinds, NEW c \in Cells, Stream(c)' = Stream(c),
         cell'[c].key = cell[c].key, cell'[c].unique = cell[c].unique,
         cell'[c].owner = cell[c].owner,
         \A p \in Procs : cell[c].owner = p /\ Introduced(p)' => Introduced(p)
  PROVE  StreamInv(c)'
<1> DEFINE s == Stream(c)
<1>1. s \in Seq(Msg) /\ Len(s) \in Nat
  BY StreamType
<1>2. SUFFICES ASSUME NEW p \in Procs
               PROVE  /\ \A j \in 1..Len(s) :
                           s[j].from = p /\ ~Intro(s[j]) => Fits(s, j, p, Own(c, p)')
                      /\ cell[c].owner = p /\ Introduced(p)' =>
                           Fits(s, Len(s) + 1, p, Own(c, p)')
  BY DEF StreamInv
<1>3. Own(c, p) => Own(c, p)'
  BY OwnStays
<1>4. /\ \A j \in 1..Len(s) : s[j].from = p /\ ~Intro(s[j]) => Fits(s, j, p, Own(c, p))
      /\ cell[c].owner = p /\ Introduced(p) => Fits(s, Len(s) + 1, p, Own(c, p))
  BY DEF IInv, StreamInv
<1> HIDE DEF s
<1>6. ASSUME NEW j \in Nat, Fits(s, j, p, Own(c, p)) PROVE Fits(s, j, p, Own(c, p)')
  BY <1>3, <1>6 DEF Fits
<1> QED
  BY <1>1, <1>4, <1>6

\* A new client in a cell, or none: of the stream only the unread commands of
\* the last one are left, and nothing is known.
LEMMA StreamCut ==
  ASSUME IInv, NEW c \in Cells, Stream(c)' = cell[c].cmd, cell'[c].key = NoProc,
         \A p \in Procs : cell'[c].owner = p => ~Introduced(p)'
  PROVE  StreamInv(c)'
<1> DEFINE s == Stream(c)
           t == cell[c].cmd
           rest == IF cell[c].owner = NoProc THEN <<>> ELSE out[cell[c].owner]
<1>1. s \in Seq(Msg) /\ Len(s) \in Nat
  BY StreamType
<1>2. t \in Seq(Msg) /\ rest \in Seq(Msg) /\ s = t \o rest
  BY DEF IInv, Types, Client, Stream
<1>3. SUFFICES ASSUME NEW p \in Procs
               PROVE  \A j \in 1..Len(t) :
                        t[j].from = p /\ ~Intro(t[j]) => Fits(t, j, p, Own(c, p)')
  BY DEF StreamInv
<1>4. Own(c, p)'
  BY DEF Own
<1>5. \A j \in 1..Len(s) : s[j].from = p /\ ~Intro(s[j]) => Fits(s, j, p, Own(c, p))
  BY DEF IInv, StreamInv
<1> HIDE DEF s, t, rest
<1>6. Len(t) =< Len(s) /\ Len(t) \in Nat /\ \A j \in 1..Len(t) : t[j] = s[j]
  BY <1>2
<1>7. ASSUME NEW j \in 1..Len(t), t[j].from = p, ~Intro(t[j])
      PROVE  Fits(t, j, p, Own(c, p)')
  <2>1. j \in Nat /\ j \in 1..Len(s) /\ t[j] = s[j] /\ \A i \in 1..(j - 1) : s[i] = t[i]
    BY <1>1, <1>6
  <2>2. Fits(s, j, p, Own(c, p))
    BY <1>5, <1>7, <2>1
  <2> QED
    BY <1>4, <2>1, <2>2, FitsPrefix
<1> QED
  BY <1>7

\* A command done with: what its client is known to be fits its next commands.
LEMMA OwnLearned ==
  ASSUME IInv, Kinds, CommandDone, NEW c \in Cells, c = listener.at, NEW p \in Procs
  PROVE  /\ ~Intro(Command) /\ Own(c, p) => Own(c, p)'
         /\ Intro(Command) /\ Command.from = p => Own(c, p)'
<1> DEFINE k == cell[c].key
<1>1. Learns(c) /\ k \in Procs \cup {NoProc}
  BY DEF CommandDone, IInv, Types, Client
<1>2. CASE ~Intro(Command)
  <2>1. cell'[c].key = cell[c].key /\ cell'[c].unique = cell[c].unique
    BY <1>1, <1>2 DEF Learns, Intro
  <2> QED
    BY <1>1, <1>2, <2>1, OwnStays
<1>3. CASE Command.from = p /\ Command.name = "security"
  <2>1. cell'[c].key = p
    BY <1>1, <1>3 DEF Learns, Intro
  <2> QED
    BY <1>3, <2>1 DEF Own, Intro
<1>4. CASE Command.from = p /\ Command.name = "unique"
  <2>1. cell'[c].key = k /\ cell'[c].unique = pr[p].unique
    BY <1>1, <1>4 DEF Learns, Intro
  <2>2. ASSUME k \in Procs \ {p}, pr'[k].inbelts, pr'[k].unique = pr[p].unique
        PROVE  FALSE
    <3>1. pr[k].inbelts /\ pr[k].unique = pr[p].unique
      BY <2>2 DEF CommandDone, Changed, Alike
    <3>2. k \in Holders
      BY <2>2, <3>1 DEF IInv, RunInv, Holders
    <3>3. pr[k].unique \in Shorts /\ \A q \in Procs \ Holders : pr[q].unique = -1
      BY <3>2 DEF IInv, NumberInv
    <3>4. \A u \in Shorts : u # -1
      BY DEF Shorts
    <3>5. p \in Holders
      BY <3>1, <3>3, <3>4
    <3> QED
      BY <2>2, <3>1, <3>2, <3>5 DEF IInv, NumberInv
  <2>3. k \in {NoProc, p} \/ ~(pr'[k].inbelts /\ pr'[k].unique = cell'[c].unique)
    BY <1>1, <2>1, <2>2
  <2> QED
    BY <1>4, <2>1, <2>3 DEF Own, Intro
<1> QED
  BY <1>2, <1>3, <1>4 DEF Intro

\* Places in a sequence of length n and in its tail.
LEMMA Places ==
  /\ \A n \in Nat : \A j \in Int : j >= 1 /\ j + 1 \in 1..n =>
                                    j + 1 \in 2..(n + 1) /\ (j + 1) - 1 = j
  /\ \A n \in Nat : n >= 1 => n + 1 \in 2..(n + 1) /\ (n + 1) - 1 = (n - 1) + 1
OBVIOUS

\* The stream without its first command.
LEMMA StreamTail ==
  ASSUME IInv, Kinds, CommandDone, NEW c \in Cells, c = listener.at
  PROVE  StreamInv(c)'
<1> DEFINE s == Stream(c)
           t == cell[c].cmd
           rest == out[cell[c].owner]
<1>1. s \in Seq(Msg) /\ Len(s) \in Nat
  BY StreamType
<1>2. /\ cell[c].owner \in Procs /\ t \in Seq(Msg) /\ t # <<>> /\ rest \in Seq(Msg)
      /\ s = t \o rest /\ cell'[c].owner = cell[c].owner /\ cell'[c].cmd = Tail(t)
      /\ UNCHANGED <<out, lrvm>>
  BY LibrunAssumption DEF CommandDone, IInv, Types, Client, Stream
<1>3. Stream(c)' = Tail(t) \o rest
  BY <1>2, LibrunAssumption DEF Stream
<1>4. Command = t[1]
  BY <1>2 DEF Command
<1>5. /\ \A p \in Procs : cell[c].owner = p /\ Introduced(p)' => Introduced(p)
  BY <1>2 DEF Introduced
<1>6. \A p \in Procs :
        /\ ~Intro(Command) /\ Own(c, p) => Own(c, p)'
        /\ Intro(Command) /\ Command.from = p => Own(c, p)'
  BY OwnLearned
<1>7. \A p \in Procs :
        /\ \A j \in 1..Len(s) : s[j].from = p /\ ~Intro(s[j]) => Fits(s, j, p, Own(c, p))
        /\ cell[c].owner = p /\ Introduced(p) => Fits(s, Len(s) + 1, p, Own(c, p))
  BY DEF IInv, StreamInv
<1> HIDE DEF s, t, rest
<1>8. /\ Tail(s) = Tail(t) \o rest /\ s[1] = t[1] /\ s # <<>> /\ Len(s) >= 1
      /\ Len(Tail(s)) = Len(s) - 1
      /\ \A j \in 1..Len(Tail(s)) : Tail(s)[j] = s[j + 1] /\ j + 1 \in 1..Len(s)
  BY <1>1, <1>2
<1>9. ASSUME NEW p \in Procs, NEW j \in 2..(Len(s) + 1), Fits(s, j, p, Own(c, p))
      PROVE  Fits(Tail(s), j - 1, p, Own(c, p)')
  <2>0. j - 1 \in Nat
    BY <1>1
  <2>1. CASE ~Intro(Command)
    <3>1. Fits(Tail(s), j - 1, p, Own(c, p))
      BY <1>1, <1>4, <1>8, <1>9, <2>1, FitsTail
    <3> QED
      BY <1>6, <2>1, <3>1 DEF Fits
  <2>2. CASE Intro(Command)
    <3>1. Fits(Tail(s), j - 1, p, s[1].from = p)
      BY <1>1, <1>4, <1>8, <1>9, <2>2, FitsTailIntro
    <3>2. s[1].from = p => Own(c, p)'
      BY <1>4, <1>6, <1>8, <2>2
    <3> QED
      BY <3>1, <3>2 DEF Fits
  <2> QED
    BY <2>1, <2>2
<1>10. ASSUME NEW p \in Procs, NEW j \in 1..Len(Tail(s)),
              Tail(s)[j].from = p, ~Intro(Tail(s)[j])
       PROVE  Fits(Tail(s), j, p, Own(c, p)')
  <2>0. /\ j + 1 \in 1..Len(s) /\ Tail(s)[j] = s[j + 1]
    BY <1>8
  <2>1. j + 1 \in 2..(Len(s) + 1) /\ (j + 1) - 1 = j
    BY <1>1, <2>0, Places
  <2>2. Fits(s, j + 1, p, Own(c, p))
    BY <1>7, <1>10, <2>0
  <2>3. Fits(Tail(s), (j + 1) - 1, p, Own(c, p)')
    BY <1>9, <2>1, <2>2
  <2> QED
    BY <2>1, <2>3
<1>11. ASSUME NEW p \in Procs, cell[c].owner = p, Introduced(p)'
       PROVE  Fits(Tail(s), Len(Tail(s)) + 1, p, Own(c, p)')
  <2>1. Fits(s, Len(s) + 1, p, Own(c, p))
    BY <1>5, <1>7, <1>11
  <2>2. Len(s) + 1 \in 2..(Len(s) + 1) /\ (Len(s) + 1) - 1 = Len(Tail(s)) + 1
    BY <1>1, <1>8, Places
  <2>3. Fits(Tail(s), (Len(s) + 1) - 1, p, Own(c, p)')
    BY <1>9, <2>1, <2>2
  <2> QED
    BY <2>2, <2>3
<1>12. Stream(c)' = Tail(s)
  BY <1>3, <1>8
<1> QED
  BY <1>2, <1>10, <1>11, <1>12 DEF StreamInv

\* A command added to the stream.
LEMMA StreamSpeaks ==
  ASSUME IInv, Kinds, NEW q \in Procs, LrvmMoves(q), Speaks(q), NEW c \in Cells,
         cell[c].owner = q
  PROVE  StreamInv(c)'
<1> DEFINE s == Stream(c)
           t == cell[c].cmd
           rest == out[q]
           m == [from |-> q, name |-> lrvm'[q]]
<1>0. q # NoProc /\ cell' = cell
  BY LibrunAssumption DEF LrvmMoves
<1>1. s \in Seq(Msg) /\ Len(s) \in Nat
  BY StreamType
<1>2. t \in Seq(Msg) /\ rest \in Seq(Msg) /\ s = t \o rest /\ m \in Msg /\ m.from = q
  BY <1>0 DEF IInv, Types, Client, Stream, Speaks, Msg
<1>3. out'[q] = Append(rest, m)
  BY DEF IInv, Types, Speaks
<1>4. Stream(c)' = t \o Append(rest, m)
  BY <1>0, <1>3 DEF Stream
<1>5. Intro(m) \/ Introduced(q)
  BY DEF Speaks, Intro
<1>6. \A p \in Procs : Own(c, p) => Own(c, p)'
  BY <1>0, OwnStays
<1>7. \A p \in Procs :
        /\ \A j \in 1..Len(s) : s[j].from = p /\ ~Intro(s[j]) => Fits(s, j, p, Own(c, p))
        /\ q = p /\ Introduced(p) => Fits(s, Len(s) + 1, p, Own(c, p))
  BY DEF IInv, StreamInv
<1> HIDE DEF s, t, rest, m
<1> DEFINE a == Append(s, m)
<1>8. t \o Append(rest, m) = a
  BY <1>2
<1>9. /\ Len(a) = Len(s) + 1 /\ a[Len(s) + 1] = m /\ \A i \in 1..Len(s) : a[i] = s[i]
  BY <1>1, <1>2
<1>10. Fits(a, Len(a) + 1, q, Own(c, q)')
  <2>1. Intro(m) \/ Fits(s, Len(s) + 1, m.from, Own(c, q))
    BY <1>2, <1>5, <1>7
  <2>2. Intro(m) \/ Fits(s, Len(s) + 1, m.from, Own(c, q)')
    BY <1>6, <2>1 DEF Fits
  <2> QED
    BY <1>1, <1>2, <2>2, FitsAppend
<1> HIDE DEF a
<1>11. ASSUME NEW p \in Procs, NEW j \in 1..(Len(s) + 1), Fits(s, j, p, Own(c, p))
       PROVE  Fits(a, j, p, Own(c, p)')
  <2>1. j \in Nat /\ \A i \in 1..(j - 1) : i \in 1..Len(s)
    BY <1>1
  <2> QED
    BY <1>6, <1>9, <1>11, <2>1, FitsPrefix
<1>12. ASSUME NEW p \in Procs, NEW j \in 1..Len(a), a[j].from = p, ~Intro(a[j])
       PROVE  Fits(a, j, p, Own(c, p)')
  <2>1. CASE j = Len(s) + 1
    <3>1. a[j] = m /\ p = q /\ ~Intro(m)
      BY <1>2, <1>9, <1>12, <2>1
    <3>2. Fits(s, j, p, Own(c, p))
      BY <1>5, <1>7, <2>1, <3>1
    <3>3. j \in 1..(Len(s) + 1)
      BY <1>1, <2>1
    <3> QED
      BY <1>11, <3>2, <3>3
  <2>2. CASE j # Len(s) + 1
    <3>1. j \in 1..Len(s) /\ j \in 1..(Len(s) + 1)
      BY <1>1, <1>9, <2>2
    <3>2. a[j] = s[j]
      BY <1>9, <3>1
    <3>3. Fits(s, j, p, Own(c, p))
      BY <1>7, <1>12, <3>1, <3>2
    <3> QED
      BY <1>11, <3>1, <3>3
  <2> QED
    BY <2>1, <2>2
<1>13. Stream(c)' = a
  BY <1>4, <1>8
<1>14. \A p \in Procs : cell'[c].owner = p => p = q
  BY <1>0
<1> QED
  BY <1>10, <1>12, <1>13, <1>14 DEF StreamInv

\* Every command in the stream of a client fits what the client will be known
\* to be when the command is executed.
LEMMA StreamsKept ==
  ASSUME IInv, Kinds, NEW c \in Cells
  PROVE  StreamInv(c)'
<1>0. /\ cell \in [Cells -> Client] /\ NoProc \notin Procs
      /\ conn = [k \in Procs |-> conn[k]] /\ out \in [Procs -> Seq(Msg)]
      /\ lrvm = [k \in Procs |-> lrvm[k]]
      /\ cell[c].owner \in Procs \cup {NoProc} /\ cell[c].cmd \in Seq(Msg)
  BY LibrunAssumption DEF IInv, Types, Client
<1>1. ASSUME cell'[c].owner = cell[c].owner, cell'[c].key = cell[c].key,
             cell'[c].unique = cell[c].unique, cell'[c].cmd = cell[c].cmd,
             cell[c].owner # NoProc => out'[cell[c].owner] = out[cell[c].owner],
             \A p \in Procs : cell[c].owner = p /\ Introduced(p)' => Introduced(p)
      PROVE  StreamInv(c)'
  <2>1. Stream(c)' = Stream(c)
    BY <1>1 DEF Stream
  <2> QED
    BY <1>1, <2>1, StreamSame
<1>2. ASSUME cell'[c].owner = cell[c].owner, cell'[c].key = cell[c].key,
             cell'[c].unique = cell[c].unique, cell'[c].cmd = cell[c].cmd,
             UNCHANGED <<out, lrvm>>
      PROVE  StreamInv(c)'
  <2>1. \A p \in Procs : Introduced(p)' => Introduced(p)
    BY <1>2 DEF Introduced
  <2> QED
    BY <1>1, <1>2, <2>1
<1>3. CASE UNCHANGED <<cell, out, lrvm>>
  BY <1>2, <1>3
<1>4. ASSUME NEW q \in Procs, LrvmMoves(q) PROVE StreamInv(c)'
  <2>1. CASE Speaks(q) /\ cell[c].owner = q
    BY <1>4, <2>1, StreamSpeaks
  <2>2. CASE Speaks(q) /\ cell[c].owner # q
    <3>1. /\ cell[c].owner # NoProc => out'[cell[c].owner] = out[cell[c].owner]
          /\ \A p \in Procs : cell[c].owner = p => lrvm'[p] = lrvm[p]
      BY <1>0, <1>4, <2>2 DEF LrvmMoves, Speaks
    <3> QED
      BY <1>1, <1>4, <3>1 DEF LrvmMoves, Introduced
  <2>3. CASE Connects(q) \/ Quiet(q)
    <3>1. UNCHANGED <<out, cell>>
      BY <1>4, <2>3 DEF LrvmMoves, Connects, Quiet
    <3>2. \A p \in Procs \ {q} : lrvm'[p] = lrvm[p]
      BY <1>0, <1>4 DEF LrvmMoves
    <3>3. Introduced(q)' => Introduced(q)
      BY <2>3 DEF Connects, Quiet, Introduced, Waiting
    <3>4. \A p \in Procs : Introduced(p)' => Introduced(p)
      BY <3>2, <3>3 DEF Introduced
    <3> QED
      BY <1>1, <3>1, <3>4
  <2> QED
    BY <1>4, <2>1, <2>2, <2>3 DEF LrvmMoves
<1>5. ASSUME NEW q \in Procs, ThreadStep(q) \/ Overviews(q) PROVE StreamInv(c)'
  <2>1. /\ UNCHANGED <<out, cell>>
        /\ \A p \in Procs : lrvm'[p] \in {lrvm[p], "boot", "dead"}
    BY <1>0, <1>5 DEF ThreadStep, Overviews
  <2>2. \A p \in Procs : Introduced(p)' => Introduced(p)
    BY <2>1 DEF Introduced, Waiting
  <2> QED
    BY <1>1, <2>1, <2>2
<1>6. ASSUME NEW p \in Procs, Accept(p) PROVE StreamInv(c)'
  <2>1. /\ conn[p] = "backlog" /\ out[p] = <<>> /\ UNCHANGED lrvm
    BY <1>6, Accepts
  <2>2. CASE UNCHANGED <<cell, out>>
    BY <1>3, <2>1, <2>2
  <2>3. ASSUME NEW d \in Cells,
               cell' = [cell EXCEPT ![d] = Registered(d, p)], out'[p] = <<>>,
               \A q \in Procs \ {p} :
                  IF q = cell[d].owner THEN conn'[q] = "closed" /\ out'[q] = <<>>
                  ELSE conn'[q] = conn[q] /\ out'[q] = out[q]
        PROVE  StreamInv(c)'
    <3>1. CASE c = d
      <4>1. cell'[c].owner = p /\ cell'[c].key = NoProc /\ cell'[c].cmd = cell[c].cmd
        BY <1>0, <2>3, <3>1 DEF Registered, Disconnected, FreeCell
      <4>2. Stream(c)' = cell[c].cmd
        <5>1. p # NoProc
          BY <1>0
        <5>2. Stream(c)' = cell[c].cmd \o <<>>
          BY <2>3, <4>1, <5>1 DEF Stream
        <5>3. ASSUME NEW s \in Seq(Msg) PROVE s \o <<>> = s
          OBVIOUS
        <5> QED
          BY <1>0, <5>2, <5>3
      <4>3. ~Introduced(p)'
        BY <2>1 DEF IInv, SocketInv, Introduced, Waiting
      <4>4. \A q \in Procs : cell'[c].owner = q => ~Introduced(q)'
        BY <4>1, <4>3
      <4> QED
        BY <4>1, <4>2, <4>4, StreamCut
    <3>2. CASE c # d
      <4>1. cell'[c] = cell[c]
        BY <1>0, <2>3, <3>2
      <4>2. cell[c].owner # NoProc => conn[cell[c].owner] = "open" /\ cell[c].owner # cell[d].owner
        BY <3>2 DEF IInv, CellInv
      <4>3. cell[c].owner # NoProc => out'[cell[c].owner] = out[cell[c].owner]
        BY <1>0, <2>1, <2>3, <4>2
      <4> QED
        BY <1>1, <2>1, <4>1, <4>3 DEF Introduced
    <3> QED
      BY <3>1, <3>2
  <2> QED
    BY <1>6, <2>2, <2>3, Accepts
<1>7. CASE Receive
  <2> DEFINE q == cell[c].owner
  <2>0. /\ UNCHANGED lrvm /\ \A k \in Procs : out'[k] = IF conn[k] = "open" THEN <<>> ELSE out[k]
        /\ cell'[c] = IF q # NoProc /\ out[q] = <<>> /\ lrvm[q] = "dead" THEN Disconnected(c)
                      ELSE IF q # NoProc THEN [cell[c] EXCEPT !.cmd = @ \o out[q]]
                      ELSE cell[c]
    BY <1>7 DEF Receive
  <2>1. CASE q # NoProc /\ out[q] = <<>> /\ lrvm[q] = "dead"
    <3>1. cell'[c].owner = NoProc /\ cell'[c].key = NoProc /\ cell'[c].cmd = cell[c].cmd
      BY <2>0, <2>1 DEF Disconnected, FreeCell
    <3>2. Stream(c)' = cell[c].cmd
      BY <1>0, <3>1 DEF Stream
    <3> QED
      BY <1>0, <3>1, <3>2, StreamCut
  <2>2. CASE q # NoProc /\ ~(out[q] = <<>> /\ lrvm[q] = "dead")
    <3>1. cell'[c] = [cell[c] EXCEPT !.cmd = @ \o out[q]] /\ cell[c] \in Client
      BY <1>0, <2>0, <2>2
    <3>2. /\ cell'[c].owner = cell[c].owner /\ cell'[c].key = cell[c].key
          /\ cell'[c].unique = cell[c].unique /\ cell'[c].cmd = cell[c].cmd \o out[q]
      BY <3>1 DEF Client
    <3>3. q \in Procs /\ conn[q] = "open"
      BY <1>0, <2>2 DEF IInv, CellInv
    <3>4. out'[q] = <<>> /\ out[q] \in Seq(Msg)
      BY <1>0, <2>0, <3>3
    <3>5. ASSUME NEW s \in Seq(Msg), NEW t \in Seq(Msg) PROVE (s \o t) \o <<>> = s \o t
      OBVIOUS
    <3>6. Stream(c)' = Stream(c)
      BY <1>0, <2>2, <3>2, <3>4, <3>5 DEF Stream
    <3> QED
      BY <2>0, <3>2, <3>6, StreamSame DEF Introduced
  <2>3. CASE q = NoProc
    <3>1. cell'[c] = cell[c]
      BY <2>0, <2>3
    <3> QED
      BY <1>1, <2>0, <2>3, <3>1 DEF Introduced
  <2> QED
    BY <2>1, <2>2, <2>3
<1>8. CASE CommandDone
  <2>1. CASE c = listener.at
    BY <1>8, <2>1, StreamTail
  <2>2. CASE c # listener.at
    <3>1. cell'[c] = cell[c] /\ UNCHANGED <<out, lrvm>>
      BY <1>0, <1>8, <2>2 DEF CommandDone
    <3> QED
      BY <1>2, <3>1
  <2> QED
    BY <2>1, <2>2
<1>9. CASE run_hypervisor_done
  <2>1. cell'[c].owner = NoProc /\ cell'[c].key = NoProc /\ cell'[c].cmd = cell[c].cmd
    BY <1>9 DEF run_hypervisor_done, Disconnected, FreeCell
  <2>2. Stream(c)' = cell[c].cmd
    BY <1>0, <2>1 DEF Stream
  <2> QED
    BY <1>0, <2>1, <2>2, StreamCut
<1>10. ASSUME NEW d \in Cells, KeepTimeout(d) PROVE StreamInv(c)'
  <2>1. /\ cell'[c].owner = cell[c].owner /\ cell'[c].key = cell[c].key
        /\ cell'[c].unique = cell[c].unique /\ cell'[c].cmd = cell[c].cmd
        /\ UNCHANGED <<out, lrvm>>
    BY <1>0, <1>10 DEF KeepTimeout, Client, envVars
  <2> QED
    BY <1>2, <2>1
<1>11. CASE ParseClient
  <2> DEFINE d == Min(ToParse)
  <2>1. cell' = [cell EXCEPT ![d].stale = FALSE] /\ UNCHANGED <<out, lrvm>>
    BY <1>11 DEF ParseClient, envVars
  <2> HIDE DEF d
  <2>2. /\ cell'[c].owner = cell[c].owner /\ cell'[c].key = cell[c].key
        /\ cell'[c].unique = cell[c].unique /\ cell'[c].cmd = cell[c].cmd
    BY <1>0, <2>1 DEF Client
  <2> QED
    BY <1>2, <2>1, <2>2
<1> QED
  BY <1>3, <1>4, <1>5, <1>6, <1>7, <1>8, <1>9, <1>10, <1>11
  DEF Kinds, Aside, run_finalize_executing, ParseEnds, ListenerLeaves, envVars
-----------------------------------------------------------------------------
(* Theorems.                                                               *)

\* A command that is valid for a process is from the LRVM of this process.
LEMMA ValidIsOwn ==
  ASSUME IInv, NEW q \in Procs, At("execute"), ValidProc(q), ~Intro(Command)
  PROVE  Command.from = q
<1> DEFINE c == listener.at
           s == Stream(c)
           t == cell[c].cmd
           rest == IF cell[c].owner = NoProc THEN <<>> ELSE out[cell[c].owner]
           p == Command.from
<1>1. c \in Cells /\ t # <<>> /\ t \in Seq(Msg) /\ rest \in Seq(Msg) /\ s = t \o rest
  BY DEF IInv, ListenerInv, At, Types, Client, Stream
<1>2. Command = t[1]
  BY <1>1 DEF Command
<1>3. StreamInv(c) /\ \A i \in 1..Len(s) : s[i].from \in Procs
  BY <1>1, StreamType DEF IInv
<1>4. /\ cell[c].key = q /\ pr[q].inbelts /\ pr[q].unique = cell[c].unique
  BY DEF ValidProc, Target, InBelts
<1>5. 1 \in 1..Len(s) /\ s[1] = t[1]
  <2> HIDE DEF s, t, rest
  <2> QED
    BY <1>1
<1>6. p \in Procs /\ s[1] = Command
  BY <1>2, <1>3, <1>5
<1>7. \A r \in Procs : \A j \in 1..Len(s) :
        s[j].from = r /\ ~Intro(s[j]) => Fits(s, j, r, Own(c, r))
  BY <1>3 DEF StreamInv
<1>8. Fits(s, 1, p, Own(c, p))
  <2> HIDE DEF s, c, p
  <2>1. s[1].from = p
    BY <1>6 DEF p
  <2> QED
    BY <1>5, <1>6, <1>7, <2>1
<1>9. Own(c, p)
  <2>1. \A i \in 1..(1 - 1) : FALSE
    OBVIOUS
  <2> QED
    BY <1>8, <2>1 DEF Fits
<1> QED
  BY <1>4, <1>9, LibrunAssumption DEF Own

\* Commands change their own process only.
LEMMA OwnKept ==
  ASSUME IInv, [Next]_vars
  PROVE  OwnCommands'
<1>0. OwnCommands
  BY DEF IInv
<1>1. CASE applied' = applied
  BY <1>0, <1>1 DEF OwnCommands
<1>2. ASSUME NEW q \in Procs, ExecuteCommand(q) \/ run_finalize_executing(q)
      PROVE  OwnCommands'
  <2>1. At("execute") /\ ValidProc(q) /\ ~Intro(Command)
    BY <1>2 DEF ExecuteCommand, run_finalize_executing, Intro
  <2>2. applied' = applied \cup {<<Command.from, q>>}
    BY <1>2 DEF ExecuteCommand, run_finalize_executing
  <2>3. Command.from = q
    BY <2>1, ValidIsOwn
  <2> QED
    BY <1>0, <2>2, <2>3 DEF OwnCommands
<1>3. ASSUME NEW p \in Procs, CallerNext(p) \/ ThreadNext(p) PROVE applied' = applied
  BY <1>3
  DEF CallerNext, ThreadNext, run_create_process, run_execute_process, run_pwait,
      run_free_process, belts_append, ExecuteFails, popen, proc_read_lrvm_pid,
      read_process_pipe, proc_close_pipe, belts_remove, ExecuteEnds
<1>4. ASSUME NEW p \in Procs, LrvmNext(p) \/ LrvmTimeout(p) PROVE applied' = applied
  <2>1. LrvmMoves(p)
    BY <1>4, LrvmSteps DEF IInv
  <2> QED
    BY <2>1 DEF LrvmMoves
<1>5. ASSUME NEW p \in Procs, TaskNext(p) \/ AcctReceives(p) PROVE applied' = applied
  BY <1>5
  DEF TaskNext, ChildEnds, TaskEnds, TaskUses, TaskStops, TaskContinues, AcctReceives, serverVars
<1>6. ASSUME ListenerNext,
             ~\E q \in Procs : ExecuteCommand(q) \/ run_finalize_executing(q)
      PROVE  applied' = applied
  BY <1>6
  DEF ListenerNext, Accept, Receive, ParseClient, ParseEnds, ExecuteIntroduction,
      ExecuteRefused, FinalizeEnds, OverviewSkips, belts_check_lrvm_ans_timeout,
      belts_check_proc_zombie, belts_check_limits, StartKill, run_kill_process,
      ListenerLeaves
<1>7. ASSUME NEW c \in Cells, KeepTimeout(c) PROVE applied' = applied
  BY <1>7 DEF KeepTimeout
<1>8. ASSUME \/ PoolAges \/ run_done \/ AcctLeaves \/ run_hypervisor_done
             \/ UNCHANGED vars
      PROVE  applied' = applied
  BY <1>8 DEF PoolAges, run_done, AcctLeaves, run_hypervisor_done, vars
<1> QED
  BY <1>1, <1>2, <1>3, <1>4, <1>5, <1>6, <1>7, <1>8 DEF Next

\* At the start all numbers are free and nobody runs.
LEMMA Initially ==
  ASSUME EnoughNumbers, Init
  PROVE  IInv
<1>1. Types
  <2>1. FreeCell \in Client
    BY DEF FreeCell, Client
  <2>2. IsProc(NewProcess(-1))
    BY NewIsProc
  <2>3. IsListener(Listening) /\ Listening.pc \in ListenerPC
    BY DEF IsListener, Listening, ListenerPC
  <2> QED
    BY <2>1, <2>2, <2>3 DEF Init, Types, LrvmPC, TaskPC, Listening
<1>2. /\ Holders = {} /\ \A p \in Procs : pr[p].unique = -1 /\ ~pr[p].inbelts /\ ~pr[p].lrvm_pid
  BY NewIsProc DEF Init, Holders, NewProcess
<1>3. NumberInv
  <2>1. upool = unique_pool_create(MaxUnique) /\ MaxUnique \in Nat
    BY LibrunAssumption DEF Init
  <2>2. upool.ptr = 0 /\ \A i \in 0..(MaxUnique - 1) : upool.stack[i] = i
    BY <2>1 DEF unique_pool_create
  <2>3. \A i \in 0..(MaxUnique - 1) : i \in Shorts
    BY <2>1, SmallNumbers DEF EnoughNumbers
  <2>4. upool \in [stack : [0..(MaxUnique - 1) -> Shorts], ptr : 0..MaxUnique]
    BY <2>1, <2>3 DEF unique_pool_create
  <2>5. IsFiniteSet({}) /\ Cardinality({}) = 0
    BY FS_EmptySet
  <2>6. \A i, j \in Spare : upool.stack[i] = upool.stack[j] => i = j
    BY <2>1, <2>2 DEF Spare
  <2> QED
    BY <1>2, <2>2, <2>4, <2>5, <2>6 DEF NumberInv
<1>4. ListenerInv /\ WorkInv /\ OwnCommands
  BY DEF Init, Listening, ListenerInv, WorkInv, OwnCommands
<1>5. ASSUME NEW p \in Procs PROVE RunInv(p) /\ SocketInv(p) /\ OutInv(p) /\ ErrorInv(p)
  BY <1>2 DEF Init, RunInv, SocketInv, OutInv, ErrorInv
<1>6. ASSUME NEW c \in Cells PROVE CellInv(c) /\ StreamInv(c)
  <2>1. cell[c] = FreeCell
    BY DEF Init
  <2>2. /\ cell[c].owner = NoProc /\ cell[c].key = NoProc /\ cell[c].cmd = <<>>
    BY <2>1 DEF FreeCell
  <2>3. Stream(c) = <<>>
    BY <2>2 DEF Stream
  <2> QED
    BY <2>2, <2>3, LibrunAssumption DEF CellInv, StreamInv
<1> QED
  BY <1>1, <1>3, <1>4, <1>5, <1>6 DEF IInv

\* IInv is inductive.
LEMMA Inductive ==
  ASSUME EnoughNumbers, IInv, [Next]_vars
  PROVE  IInv'
<1>1. Kinds
  BY StepKinds
<1>2. Types' /\ NumberInv' /\ ListenerInv' /\ WorkInv' /\ OwnCommands'
  BY <1>1, TypesKept, NumbersKept, ListenerKept, WorkKept, OwnKept
<1>3. ASSUME NEW p \in Procs PROVE RunInv(p)' /\ SocketInv(p)' /\ OutInv(p)' /\ ErrorInv(p)'
  BY <1>1, RunKept, SocketsKept, OutsKept, ErrorsKept
<1>4. ASSUME NEW c \in Cells PROVE CellInv(c)' /\ StreamInv(c)'
  BY <1>1, CellsKept, StreamsKept
<1> QED
  BY <1>2, <1>3, <1>4 DEF IInv

\* IInv holds in every state.
LEMMA Invariant == EnoughNumbers => (Spec => []IInv)
<1> SUFFICES ASSUME EnoughNumbers PROVE Spec => []IInv
  OBVIOUS
<1>1. Init => IInv
  BY Initially
<1>2. IInv /\ [Next]_vars => IInv'
  BY Inductive
<1> QED
  BY <1>1, <1>2, PTL DEF Spec

\* VALIDATE_PROC of ipc_builtin.c keeps the commands of the LRVMs apart: a
\* command only ever changes the process of the LRVM that sent it, although a
\* client inherits what the last client of its cell left in the buffer and
\* unique numbers are used again.  For any number of runs, clients and faults,
\* as long as the numbers suffice.
THEOREM CommandsAreOwn == EnoughNumbers => (Spec => []OwnCommands)
<1>1. IInv => OwnCommands
  BY DEF IInv
<1> QED
  BY <1>1, Invariant, PTL

\* An error of execution is in the state that the caller finds after run_pwait,
\* unless the process was finished, whoever overwrote the state meanwhile.
THEOREM ErrorsReported == EnoughNumbers => (Spec => []ErrorIsReported)
<1>1. IInv => ErrorIsReported
  BY DEF IInv, RunInv, ErrorInv, ErrorIsReported
<1> QED
  BY <1>1, Invariant, PTL
-----------------------------------------------------------------------------
(* What a finished process carries.                                        *)

EndStates == {"exit0", "exit1", "signaled"}

EnvTypes ==
  over \in [Procs -> SUBSET Limits] /\ stats \in [Procs -> {"none", "sent", "put", "lost"}]

\* LRVM and its task go along together, and the kernel reports a task once it
\* has ended.
TaskInv(p) ==
  /\ lrvm[p] \in {"none", "boot", "connect", "hello", "unique", "security", "validate"} =>
       task[p] = "none"
  /\ lrvm[p] \in {"taskpid", "base"} => task[p] = "forked"
  /\ lrvm[p] = "termsig" => task[p] = "signaled"
  /\ lrvm[p] \in {"exit_code", "finalize"} => Ended(p)
  /\ stats[p] = "sent" => Ended(p)

\* Every record of the pool is of a task that has ended, with what it used.
GoodRecs ==
  {r \in [pid : {Pid[q] : q \in Procs}, stats : SUBSET Limits, old : BOOLEAN] :
     \E q \in Procs : r.pid = Pid[q] /\ Ended(q) /\ r.stats = over[q]}

PoolInv == pool \in Seq(Seq(GoodRecs))

\* A termsig or a finalize on its way is true.
Honest(m, t) ==
  /\ m.name = "termsig" => t[m.from] = "signaled"
  /\ m.name = "finalize" => t[m.from] \in EndStates

Truth(s, t) == \A k \in 1..Len(s) : Honest(s[k], t)

SignalInv ==
  /\ \A p \in Procs : Truth(out[p], task)
  /\ \A c \in Cells : Truth(cell[c].cmd, task)

SignalBits == {"TERMINATED", "KILLED", "STOPPED", "CONTINUED"}

\* What the listening thread has read before it waits.
SavedInv ==
  /\ listener.pc = "finalize" =>
       /\ listener.signals \subseteq SignalBits /\ task[listener.proc] \in EndStates
       /\ "TERMINATED" \in listener.signals => task[listener.proc] = "signaled"
  /\ listener.pc = "kill" => listener.signals \subseteq Limits

\* These are the limits that a task with the PID of p's went over.
OfPid(p, limits) == \E q \in Procs : Pid[q] = Pid[p] /\ Ended(q) /\ limits = over[q]

ResultInv(p) ==
  /\ pr[p].task_pid \in {NoPid, Pid[p]}
  /\ "TERMINATED" \in pr[p].state => task[p] = "signaled"
  /\ "FINISHED" \in pr[p].state => Ended(p) /\ OfPid(p, pr[p].state \cap Limits)

FInv ==
  /\ EnvTypes /\ PoolInv /\ SignalInv /\ SavedInv
  /\ \A p \in Procs : TaskInv(p) /\ ResultInv(p)

\* A task that has ended stays as it is, ...
Settled(q) == Ended(q) => task'[q] = task[q] /\ over'[q] = over[q]

EnvKept(q) == TaskInv(q)' /\ Settled(q)

\* ... whatever the threads of the server, ...
LEMMA EnvSame ==
  ASSUME NEW q \in Procs, TaskInv(q), UNCHANGED <<lrvm, task, over, stats>>
  PROVE  EnvKept(q)
BY DEF EnvKept, TaskInv, Settled, Ended

\* ... LRVM, ...
LEMMA EnvLrvm ==
  ASSUME IInv, FInv, NEW p \in Procs, NEW q \in Procs, LrvmNext(p) \/ LrvmTimeout(p)
  PROVE  EnvTypes' /\ EnvKept(q)
<1>0. /\ lrvm = [k \in Procs |-> lrvm[k]] /\ task = [k \in Procs |-> task[k]]
      /\ stats \in [Procs -> {"none", "sent", "put", "lost"}]
      /\ over \in [Procs -> SUBSET Limits] /\ TaskInv(q) /\ TaskInv(p)
  BY DEF IInv, Types, FInv, EnvTypes
<1>1. UNCHANGED over /\ EnvTypes'
  BY <1>0
  DEF EnvTypes, LrvmNext, LrvmTimeout, LrvmBoots, lrvm_ipc_init,
      LrvmIntroduces, LrvmForks,
      LrvmReportsBase, LrvmExecutes, waitpid, LrvmWaitsAgain, LrvmFinalizes, LrvmExits,
      LrvmRefused
<1>2. \A k \in Procs \ {p} : /\ lrvm'[k] = lrvm[k] /\ task'[k] = task[k]
                             /\ stats'[k] = stats[k]
  BY <1>0
  DEF LrvmNext, LrvmTimeout, LrvmBoots, lrvm_ipc_init, LrvmIntroduces, LrvmForks,
      LrvmReportsBase, LrvmExecutes, waitpid, LrvmWaitsAgain, LrvmFinalizes, LrvmExits,
      LrvmRefused, Send, Term
<1>3. CASE q # p
  BY <1>0, <1>1, <1>2, <1>3 DEF EnvKept, TaskInv, Settled, Ended
<1>5. ASSUME NEW m, Send(p, m) PROVE lrvm'[p] \in {m, "dead"}
  BY <1>0, <1>5 DEF Send
<1>6. CASE q = p /\ (LrvmBoots(p) \/ lrvm_ipc_init(p))
  BY <1>0, <1>1, <1>6
  DEF LrvmBoots, lrvm_ipc_init, Term, EnvKept, TaskInv, Settled, Ended
<1>7. CASE q = p /\ LrvmIntroduces(p)
  <2>1. /\ lrvm[p] \in {"hello", "unique", "security"} /\ UNCHANGED <<task, stats>>
        /\ Introduction[lrvm[p]] \in {"unique", "security", "validate"}
    BY <1>7 DEF LrvmIntroduces, Introduction
  <2>2. lrvm'[p] \in {"unique", "security", "validate", "dead"}
    BY <1>5, <1>7, <2>1 DEF LrvmIntroduces
  <2> QED
    BY <1>0, <1>1, <1>7, <2>1, <2>2 DEF EnvKept, TaskInv, Settled, Ended
<1>8. CASE q = p /\ LrvmForks(p)
  <2>1. lrvm[p] = "validate" /\ UNCHANGED stats
    BY <1>8 DEF LrvmForks
  <2>2. task[p] = "none" /\ stats[p] # "sent"
    BY <1>0, <2>1 DEF TaskInv, Ended
  <2>3. \/ lrvm'[p] \in {"taskpid", "dead"} /\ task'[p] = "forked"
        \/ lrvm'[p] \in {"exec_error", "dead"} /\ task'[p] \in {"none", "forked"}
    BY <1>0, <1>5, <1>8, <2>2 DEF LrvmForks, Term
  <2> QED
    <3>1. Settled(p)
      BY <2>2 DEF Settled, Ended
    <3>2. stats'[p] # "sent"
      BY <2>1, <2>2
    <3>3. ASSUME lrvm'[p] \in {"taskpid", "dead"}, task'[p] = "forked" PROVE TaskInv(p)'
      BY <3>2, <3>3 DEF TaskInv
    <3>4. ASSUME lrvm'[p] \in {"exec_error", "dead"} PROVE TaskInv(p)'
      BY <3>2, <3>4 DEF TaskInv
    <3> QED
      BY <1>1, <1>8, <2>3, <3>1, <3>3, <3>4 DEF EnvKept
<1>9. CASE q = p /\ LrvmReportsBase(p)
  <2>1. lrvm[p] = "taskpid" /\ lrvm'[p] \in {"base", "dead"} /\ UNCHANGED <<task, stats>>
    BY <1>5, <1>9 DEF LrvmReportsBase
  <2> QED
    BY <1>0, <1>1, <1>9, <2>1 DEF EnvKept, TaskInv, Settled, Ended
<1>10. CASE q = p /\ LrvmExecutes(p)
  <2>1. /\ lrvm[p] = "base" /\ lrvm'[p] = "run"
        /\ \/ task'[p] = "running" /\ UNCHANGED stats
           \/ task'[p] = "exit1" /\ stats'[p] = "sent"
    BY <1>0, <1>10 DEF LrvmExecutes
  <2> QED
    BY <1>0, <1>1, <1>10, <2>1 DEF EnvKept, TaskInv, Settled, Ended
<1>11. CASE q = p /\ waitpid(p)
  <2>1. /\ lrvm[p] = "run" /\ UNCHANGED stats
        /\ \/ Ended(p) /\ lrvm'[p] \in {"exit_code", "dead"} /\ UNCHANGED task
           \/ task[p] = "signaled" /\ lrvm'[p] \in {"termsig", "dead"} /\ UNCHANGED task
           \/ task[p] = "stopped" /\ lrvm'[p] \in {"stopsig", "dead"} /\ task'[p] = "halted"
           \/ task[p] = "resumed" /\ lrvm'[p] \in {"continue", "dead"} /\ task'[p] = "running"
    BY <1>0, <1>5, <1>11 DEF waitpid, Ended
  <2> QED
    BY <1>0, <1>1, <1>11, <2>1 DEF EnvKept, TaskInv, Settled, Ended
<1>12. CASE q = p /\ (LrvmWaitsAgain(p) \/ LrvmFinalizes(p) \/ LrvmExits(p) \/ LrvmRefused(p)
                      \/ LrvmTimeout(p))
  <2>1. lrvm'[p] \in {"run", "bug_report", "dead"} \/ LrvmFinalizes(p)
    BY <1>0, <1>5, <1>12
    DEF LrvmWaitsAgain, LrvmExits, LrvmRefused, LrvmTimeout, Term
  <2>2. UNCHANGED <<task, stats>>
    BY <1>12 DEF LrvmWaitsAgain, LrvmFinalizes, LrvmExits, LrvmRefused, LrvmTimeout
  <2>3. CASE LrvmFinalizes(p)
    <3>1. lrvm[p] \in {"exit_code", "termsig"} /\ lrvm'[p] \in {"finalize", "dead"}
      BY <1>5, <2>3 DEF LrvmFinalizes
    <3> QED
      BY <1>0, <1>1, <1>12, <2>2, <3>1 DEF EnvKept, TaskInv, Settled, Ended
  <2>4. CASE lrvm'[p] \in {"run", "bug_report", "dead"}
    BY <1>0, <1>1, <1>12, <2>2, <2>4 DEF EnvKept, TaskInv, Settled, Ended
  <2> QED
    BY <2>1, <2>3, <2>4
<1> QED
  BY <1>1, <1>3, <1>6, <1>7, <1>8, <1>9, <1>10, <1>11, <1>12 DEF LrvmNext

\* ... the kernel ...
LEMMA EnvTask ==
  ASSUME IInv, FInv, NEW p \in Procs, NEW q \in Procs, TaskNext(p) \/ AcctReceives(p)
  PROVE  EnvTypes' /\ EnvKept(q)
<1>0. /\ lrvm = [k \in Procs |-> lrvm[k]] /\ task = [k \in Procs |-> task[k]]
      /\ stats \in [Procs -> {"none", "sent", "put", "lost"}]
      /\ over \in [Procs -> SUBSET Limits] /\ TaskInv(q) /\ TaskInv(p)
      /\ Ends \subseteq {"exit0", "exit1", "signaled"} /\ Exceeds \subseteq Limits
  BY LibrunAssumption DEF IInv, Types, FInv, EnvTypes
<1>1. ASSUME NEW how \in Ends, TaskEnds(p, how) PROVE EnvTypes' /\ EnvKept(q)
  BY <1>0, <1>1 DEF TaskEnds, EnvTypes, EnvKept, TaskInv, Settled, Ended
<1>2. ASSUME NEW limit \in Exceeds, TaskUses(p, limit) PROVE EnvTypes' /\ EnvKept(q)
  <2>1. /\ limit \in Limits /\ ~Ended(p) /\ over' = [over EXCEPT ![p] = @ \cup {limit}]
        /\ UNCHANGED <<lrvm, task, stats>>
    BY <1>0, <1>2 DEF TaskUses, Running, Halted, Ended
  <2>2. EnvTypes'
    BY <1>0, <2>1 DEF EnvTypes
  <2>3. q # p => over'[q] = over[q]
    BY <1>0, <2>1
  <2> QED
    BY <1>0, <2>1, <2>2, <2>3 DEF EnvKept, TaskInv, Settled, Ended
<1>3. CASE TaskStops(p)
  BY <1>0, <1>3 DEF TaskStops, EnvTypes, EnvKept, TaskInv, Settled, Ended
<1>4. CASE TaskContinues(p)
  BY <1>0, <1>4 DEF TaskContinues, EnvTypes, EnvKept, TaskInv, Settled, Ended
<1>5. CASE AcctReceives(p)
  BY <1>0, <1>5 DEF AcctReceives, EnvTypes, EnvKept, TaskInv, Settled, Ended
<1>6. CASE ChildEnds(p)
  BY <1>0, <1>6 DEF ChildEnds, EnvTypes, EnvKept, TaskInv, Settled, Ended
<1> QED
  BY <1>1, <1>2, <1>3, <1>4, <1>5, <1>6 DEF TaskNext

\* ... and run_kill_process do.
LEMMA EnvKill ==
  ASSUME IInv, FInv, NEW p \in Procs, NEW q \in Procs, NEW proc, NEW why,
         StartKill(p, proc, why)
  PROVE  EnvTypes' /\ EnvKept(q)
<1>0. /\ lrvm = [k \in Procs |-> lrvm[k]] /\ task \in [Procs -> TaskPC]
      /\ stats \in [Procs -> {"none", "sent", "put", "lost"}]
      /\ over \in [Procs -> SUBSET Limits] /\ TaskInv(q)
  BY DEF IInv, Types, FInv, EnvTypes
<1>1. PICK hit \in SUBSET Procs :
        /\ \A k \in hit : Running(k)
        /\ task' = [k \in Procs |-> IF k \notin hit THEN task[k]
                                 ELSE IF Halted(k) \/ task[k] = "doomed" THEN "doomed"
                                 ELSE "signaled"]
        /\ stats' = [k \in Procs |-> IF k \in hit /\ task'[k] = "signaled" THEN "sent"
                                  ELSE stats[k]]
        /\ UNCHANGED over
  BY DEF StartKill, Owner
<1>2. lrvm'[q] \in {lrvm[q], "dead"}
  BY <1>0 DEF StartKill
<1>3. EnvTypes'
  BY <1>0, <1>1 DEF EnvTypes
<1>4. CASE q \notin hit
  <2>1. task'[q] = task[q] /\ stats'[q] = stats[q] /\ over'[q] = over[q]
    BY <1>1, <1>4
  <2>2. TaskInv(q)
    BY <1>0
  <2> QED
    BY <1>2, <1>3, <2>1, <2>2 DEF EnvKept, TaskInv, Settled, Ended
<1>5. CASE q \in hit
  <2>1. /\ Running(q) /\ task'[q] \in {"doomed", "signaled"}
        /\ (stats'[q] = "sent" /\ task'[q] = "signaled") \/ stats'[q] = stats[q]
    BY <1>1, <1>5
  <2>2. task[q] \in {"stopped", "halted", "running", "resumed", "doomed"}
    BY <2>1 DEF Running, Halted
  <2>3. /\ lrvm[q] \notin {"none", "boot", "connect", "hello", "unique", "security",
                           "validate", "taskpid", "base", "termsig", "exit_code", "finalize"}
        /\ stats[q] # "sent"
    BY <1>0, <2>2 DEF TaskInv, Ended
  <2> QED
    <3>1. /\ lrvm'[q] \notin {"none", "boot", "connect", "hello", "unique", "security",
                              "validate", "taskpid", "base", "termsig", "exit_code", "finalize"}
      BY <1>2, <2>3
    <3>2. stats'[q] = "sent" => task'[q] = "signaled"
      BY <2>1, <2>3
    <3> QED
      BY <1>3, <2>2, <3>1, <3>2 DEF EnvKept, TaskInv, Settled, Ended
<1> QED
  BY <1>3, <1>4, <1>5

\* So LRVM and task go on together, and what has ended stays.
LEMMA EnvKeeps ==
  ASSUME IInv, FInv, [Next]_vars
  PROVE  EnvTypes' /\ \A q \in Procs : EnvKept(q)
<1>0. /\ lrvm = [k \in Procs |-> lrvm[k]] /\ EnvTypes
      /\ \A q \in Procs : TaskInv(q) /\ RunInv(q)
  BY DEF IInv, Types, FInv
<1>1. CASE UNCHANGED <<lrvm, task, over, stats>>
  BY <1>0, <1>1, EnvSame DEF EnvTypes
<1>2. ASSUME NEW p \in Procs, popen(p) PROVE EnvTypes' /\ \A q \in Procs : EnvKept(q)
  <2>1. /\ lrvm[p] = "none" /\ lrvm' = [lrvm EXCEPT ![p] = "boot"]
        /\ UNCHANGED <<task, over, stats>>
    BY <1>0, <1>2 DEF popen, ThreadAt, RunInv
  <2>2. ASSUME NEW q \in Procs PROVE EnvKept(q)
    <3>1. CASE q = p
      BY <1>0, <2>1, <3>1 DEF EnvKept, TaskInv, Settled, Ended
    <3>2. CASE q # p
      BY <1>0, <2>1, <3>2 DEF EnvKept, TaskInv, Settled, Ended
    <3> QED
      BY <3>1, <3>2
  <2> QED
    BY <1>0, <2>1, <2>2 DEF EnvTypes
<1>3. ASSUME NEW p \in Procs, CallerNext(p) \/ ThreadNext(p), ~popen(p)
      PROVE  UNCHANGED <<lrvm, task, over, stats>>
  BY <1>3
  DEF CallerNext, ThreadNext, run_create_process, run_execute_process, run_pwait,
      run_free_process, belts_append, ExecuteFails, proc_read_lrvm_pid, read_process_pipe,
      proc_close_pipe, belts_remove, ExecuteEnds, envVars
<1>4. ASSUME NEW p \in Procs, belts_check_lrvm_ans_timeout(p) \/ belts_check_proc_zombie(p)
                              \/ belts_check_limits(p)
      PROVE  \/ UNCHANGED <<lrvm, task, over, stats>>
             \/ \E proc, why : StartKill(p, proc, why)
  BY <1>4
  DEF belts_check_lrvm_ans_timeout, belts_check_proc_zombie,
      belts_check_limits, envVars
<1>5. ASSUME NEW p \in Procs, NEW proc, NEW why, StartKill(p, proc, why)
      PROVE  EnvTypes' /\ \A q \in Procs : EnvKept(q)
  BY <1>5, EnvKill
<1>6. CASE run_kill_process
  <2>1. /\ \A q \in Procs : lrvm'[q] \in {lrvm[q], "dead"}
        /\ UNCHANGED <<task, over, stats>>
    BY <1>0, <1>6 DEF run_kill_process
  <2> QED
    BY <1>0, <2>1 DEF EnvKept, EnvTypes, TaskInv, Settled, Ended
<1>7. ASSUME ListenerNext, ~run_kill_process,
             ~\E p \in Procs : \/ belts_check_lrvm_ans_timeout(p)
                               \/ belts_check_proc_zombie(p) \/ belts_check_limits(p)
      PROVE  UNCHANGED <<lrvm, task, over, stats>>
  BY <1>7
  DEF ListenerNext, Accept, Receive, ParseClient, ParseEnds, ExecuteIntroduction,
      ExecuteRefused, ExecuteCommand, run_finalize_executing, FinalizeEnds, OverviewSkips,
      ListenerLeaves, envVars
<1>8. ASSUME NEW c \in Cells, KeepTimeout(c) PROVE UNCHANGED <<lrvm, task, over, stats>>
  BY <1>8 DEF KeepTimeout, envVars
<1>9. ASSUME \/ PoolAges \/ run_done \/ AcctLeaves \/ run_hypervisor_done
             \/ UNCHANGED vars
      PROVE  UNCHANGED <<lrvm, task, over, stats>>
  BY <1>9 DEF PoolAges, run_done, AcctLeaves, run_hypervisor_done, vars, envVars
<1>10. ASSUME NEW p \in Procs, LrvmNext(p) \/ LrvmTimeout(p)
       PROVE  EnvTypes' /\ \A q \in Procs : EnvKept(q)
  BY <1>10, EnvLrvm
<1>11. ASSUME NEW p \in Procs, TaskNext(p) \/ AcctReceives(p)
       PROVE  EnvTypes' /\ \A q \in Procs : EnvKept(q)
  BY <1>11, EnvTask
<1> QED
  BY <1>1, <1>2, <1>3, <1>4, <1>5, <1>6, <1>7, <1>8, <1>9, <1>10, <1>11 DEF Next
-----------------------------------------------------------------------------
(* The pool of statistics.                                                 *)

\* A sequence over a set is one over a larger set.
LEMMA SeqOfMore ==
  ASSUME NEW S, NEW T, S \subseteq T
  PROVE  Seq(S) \subseteq Seq(T)
<1>1. ASSUME NEW s \in Seq(S) PROVE s \in Seq(T)
  <2>1. \A i \in 1..Len(s) : s[i] \in T
    OBVIOUS
  <2> QED
    BY <2>1
<1> QED
  BY <1>1

\* What pool_overview and run_hvpool_put leave in the pool was there or is new.
LEMMA PutKeeps ==
  ASSUME NEW S, NEW p \in Seq(Seq(S)), NEW size \in Nat, NEW pid, NEW used,
         [pid |-> pid, stats |-> used, old |-> FALSE] \in S
  PROVE  run_hvpool_put(p, size, pid, used) \in Seq(Seq(S))
<1> DEFINE item == [pid |-> pid, stats |-> used, old |-> FALSE]
           good == {k \in DOMAIN p : ~OutOfDate(p[k], size)}
           kept == pool_overview(p, size)
           n == Len(kept)
<1>0. Len(p) \in Nat /\ DOMAIN p = 1..Len(p)
  OBVIOUS
<1>1. kept \in Seq(Seq(S))
  <2>1. CASE good = {}
    BY <2>1 DEF pool_overview
  <2>2. CASE good # {}
    <3>1. good \in SUBSET Nat
      BY <1>0
    <3>2. Min(good) \in good
      BY <2>2, <3>1, MinIn
    <3>3. kept = SubSeq(p, Min(good), Len(p))
      BY <2>2 DEF pool_overview
    <3>4. Min(good) \in 1..Len(p)
      BY <1>0, <3>2
    <3>5. ASSUME NEW m \in 1..Len(p) PROVE SubSeq(p, m, Len(p)) \in Seq(Seq(S))
      BY <1>0
    <3> QED
      BY <3>3, <3>4, <3>5
  <2> QED
    BY <2>1, <2>2
<1>2. run_hvpool_put(p, size, pid, used) =
        IF n > 0 /\ Len(kept[n]) < size THEN [kept EXCEPT ![n] = Append(@, item)]
        ELSE Append(kept, <<item>>)
  BY DEF run_hvpool_put
<1> HIDE DEF kept
<1>3. item \in S
  OBVIOUS
<1> HIDE DEF item
<1>4. Append(kept, <<item>>) \in Seq(Seq(S))
  BY <1>1, <1>3
<1>5. ASSUME n > 0 PROVE [kept EXCEPT ![n] = Append(@, item)] \in Seq(Seq(S))
  <2>1. n \in 1..Len(kept) /\ kept[n] \in Seq(S)
    BY <1>1, <1>5
  <2>2. Append(kept[n], item) \in Seq(S)
    BY <1>3, <2>1
  <2> QED
    BY <1>1, <2>1, <2>2
<1> QED
  BY <1>2, <1>4, <1>5

\* A record that has grown old is still a record of its task.
LEMMA AgedKeeps ==
  ASSUME NEW S, NEW p \in Seq(Seq(S)), \A r \in S : [r EXCEPT !.old = TRUE] \in S
  PROVE  Aged(p) \in Seq(Seq(S))
<1> DEFINE old(r) == [r EXCEPT !.old = TRUE]
           row(k) == [i \in DOMAIN p[k] |-> old(p[k][i])]
<1>1. \A r \in S : old(r) \in S
  OBVIOUS
<1>2. Aged(p) = [k \in DOMAIN p |-> row(k)]
  BY DEF Aged
<1> HIDE DEF old
<1>3. ASSUME NEW k \in 1..Len(p) PROVE row(k) \in Seq(S)
  <2>1. p[k] \in Seq(S)
    OBVIOUS
  <2>2. Len(p[k]) \in Nat /\ DOMAIN p[k] = 1..Len(p[k])
    BY <2>1
  <2>3. \A i \in 1..Len(p[k]) : p[k][i] \in S
    BY <2>1
  <2> QED
    BY <1>1, <2>2, <2>3
<1> HIDE DEF row
<1>4. Len(p) \in Nat /\ DOMAIN p = 1..Len(p)
  OBVIOUS
<1> QED
  BY <1>2, <1>3, <1>4

\* The pool only has records of tasks that have ended.
LEMMA PoolKept ==
  ASSUME IInv, FInv, [Next]_vars
  PROVE  PoolInv'
<1>0. /\ PoolInv /\ EnvTypes' /\ EnvTypes /\ ArrSize \in Nat /\ \A q \in Procs : EnvKept(q) /\ TaskInv(q)
  BY EnvKeeps, LibrunAssumption DEF FInv
<1>1. GoodRecs \subseteq GoodRecs'
  BY <1>0 DEF GoodRecs, EnvKept, Settled, Ended
<1>2. pool \in Seq(Seq(GoodRecs'))
  BY <1>0, <1>1, SeqOfMore DEF PoolInv
<1>3. CASE UNCHANGED pool
  BY <1>2, <1>3 DEF PoolInv
<1>4. ASSUME NEW p \in Procs, AcctReceives(p) PROVE PoolInv'
  <2> DEFINE item == [pid |-> Pid[p], stats |-> over[p], old |-> FALSE]
  <2>1. Ended(p) /\ over[p] \in SUBSET Limits /\ UNCHANGED <<task, over>>
    BY <1>0, <1>4 DEF AcctReceives, TaskInv, EnvTypes
  <2>2. item \in GoodRecs'
    BY <2>1 DEF GoodRecs, Ended
  <2>3. CASE pool' = run_hvpool_put(pool, ArrSize, Pid[p], over[p])
    BY <1>0, <1>2, <2>2, <2>3, PutKeeps DEF PoolInv
  <2> QED
    BY <1>3, <1>4, <2>3 DEF AcctReceives
<1>5. CASE PoolAges
  <2>1. \A r \in GoodRecs' : [r EXCEPT !.old = TRUE] \in GoodRecs'
    BY DEF GoodRecs
  <2> QED
    BY <1>2, <1>5, <2>1, AgedKeeps DEF PoolInv, PoolAges
<1>6. CASE run_hypervisor_done
  BY <1>6 DEF run_hypervisor_done, PoolInv
<1>7. ASSUME NEW p \in Procs, CallerNext(p) \/ ThreadNext(p) PROVE UNCHANGED pool
  BY <1>7
  DEF CallerNext, ThreadNext, run_create_process, run_execute_process, run_pwait,
      run_free_process, belts_append, ExecuteFails, popen, proc_read_lrvm_pid,
      read_process_pipe, proc_close_pipe, belts_remove, ExecuteEnds
<1>8. ASSUME NEW p \in Procs, LrvmNext(p) \/ LrvmTimeout(p) PROVE UNCHANGED pool
  BY <1>8
  DEF LrvmNext, LrvmTimeout, LrvmBoots, lrvm_ipc_init, LrvmIntroduces, LrvmForks,
      LrvmReportsBase, LrvmExecutes, waitpid, LrvmWaitsAgain, LrvmFinalizes, LrvmExits,
      LrvmRefused, serverVars
<1>9. ASSUME NEW p \in Procs, TaskNext(p) PROVE UNCHANGED pool
  BY <1>9 DEF TaskNext, ChildEnds, TaskEnds, TaskUses, TaskStops, TaskContinues, serverVars
<1>10. ASSUME ListenerNext PROVE UNCHANGED pool
  BY <1>10
  DEF ListenerNext, Accept, Receive, ParseClient, ParseEnds, ExecuteIntroduction,
      ExecuteRefused, ExecuteCommand, run_finalize_executing, FinalizeEnds, OverviewSkips,
      belts_check_lrvm_ans_timeout, belts_check_proc_zombie, belts_check_limits, StartKill,
      run_kill_process, ListenerLeaves
<1>11. ASSUME NEW c \in Cells, KeepTimeout(c) PROVE UNCHANGED pool
  BY <1>11 DEF KeepTimeout
<1>12. ASSUME run_done \/ AcctLeaves \/ UNCHANGED vars PROVE UNCHANGED pool
  BY <1>12 DEF run_done, AcctLeaves, vars
<1> QED
  BY <1>3, <1>4, <1>5, <1>6, <1>7, <1>8, <1>9, <1>10, <1>11, <1>12 DEF Next
-----------------------------------------------------------------------------
(* Signals.                                                                *)

\* A signal stays, so does the truth of a command, ...
LEMMA TruthLater ==
  ASSUME NEW s \in Seq(Msg), NEW t, NEW t2, Truth(s, t),
         \A q \in Procs : t[q] \in EndStates => t2[q] = t[q]
  PROVE  Truth(s, t2)
<1>1. \A k \in 1..Len(s) : s[k] \in Msg
  OBVIOUS
<1>2. \A k \in 1..Len(s) : s[k].from \in Procs
  BY <1>1 DEF Msg
<1> QED
  BY <1>2 DEF Truth, Honest, EndStates

\* ... also when one is taken away ...
LEMMA TruthTail ==
  ASSUME NEW s \in Seq(Msg), s # <<>>, NEW t, Truth(s, t)
  PROVE  Truth(Tail(s), t)
<1>1. /\ Len(Tail(s)) = Len(s) - 1
      /\ \A k \in 1..Len(Tail(s)) : k + 1 \in 1..Len(s) /\ Tail(s)[k] = s[k + 1]
  OBVIOUS
<1> QED
  BY <1>1 DEF Truth

\* ... or others are added.
LEMMA TruthJoined ==
  ASSUME NEW s \in Seq(Msg), NEW u \in Seq(Msg), NEW t, Truth(s, t), Truth(u, t)
  PROVE  Truth(s \o u, t)
<1>1. ASSUME NEW k \in 1..Len(s \o u) PROVE Honest((s \o u)[k], t)
  BY <1>1, Joined DEF Truth
<1> QED
  BY <1>1 DEF Truth

\* A true command is added at the end.
LEMMA TruthAppended ==
  ASSUME NEW s \in Seq(Msg), NEW m \in Msg, NEW t, Truth(s, t), Honest(m, t)
  PROVE  Truth(Append(s, m), t)
<1> DEFINE a == Append(s, m)
<1>1. /\ Len(s) \in Nat /\ Len(a) = Len(s) + 1 /\ a[Len(s) + 1] = m
      /\ \A i \in 1..Len(s) : a[i] = s[i]
  OBVIOUS
<1> HIDE DEF a
<1>2. ASSUME NEW k \in 1..Len(a) PROVE k \in 1..Len(s) \/ k = Len(s) + 1
  BY <1>1
<1>3. ASSUME NEW k \in 1..Len(a) PROVE Honest(a[k], t)
  BY <1>1, <1>2, <1>3 DEF Truth
<1> QED
  BY <1>3 DEF Truth, a

\* LRVM says termsig after the task was signaled, and finalize after its end.
LEMMA SignalKept ==
  ASSUME IInv, FInv, [Next]_vars
  PROVE  SignalInv'
<1>0. /\ Kinds /\ SignalInv /\ \A q \in Procs : EnvKept(q)
      /\ out \in [Procs -> Seq(Msg)] /\ cell \in [Cells -> Client]
      /\ \A c \in Cells : /\ cell[c] \in Client /\ cell[c].cmd \in Seq(Msg)
                          /\ cell[c].owner \in Procs \cup {NoProc}
  BY StepKinds, EnvKeeps DEF IInv, Types, FInv, Client
<1>1. \A q \in Procs : task[q] \in EndStates => task'[q] = task[q]
  BY <1>0 DEF EnvKept, Settled, Ended, EndStates
<1>2. /\ \A q \in Procs : Truth(out[q], task')
      /\ \A c \in Cells : Truth(cell[c].cmd, task')
  <2>1. ASSUME NEW s \in Seq(Msg), Truth(s, task) PROVE Truth(s, task')
    BY <1>1, <2>1, TruthLater
  <2> QED
    BY <1>0, <2>1 DEF SignalInv
<1>3. CASE UNCHANGED out /\ \A c \in Cells : cell'[c].cmd = cell[c].cmd
  BY <1>2, <1>3 DEF SignalInv
<1>4. ASSUME NEW p \in Procs, LrvmMoves(p) PROVE SignalInv'
  <2>0. UNCHANGED cell
    BY <1>4 DEF LrvmMoves
  <2>1. CASE UNCHANGED out
    BY <1>3, <2>0, <2>1
  <2>2. CASE Speaks(p)
    <3>1. PICK m : m = [from |-> p, name |-> lrvm'[p]]
      OBVIOUS
    <3>2. m \in Msg /\ m.from = p /\ m.name = lrvm'[p] /\ out' = [out EXCEPT ![p] = Append(@, m)]
      BY <2>2, <3>1 DEF Speaks, Msg
    <3>3. Honest(m, task')
      BY <1>0, <3>2 DEF EnvKept, TaskInv, Honest, EndStates, Ended
    <3>4. Truth(Append(out[p], m), task')
      BY <1>0, <1>2, <3>2, <3>3, TruthAppended
    <3>5. \A q \in Procs : Truth(out'[q], task')
      BY <1>0, <1>2, <3>2, <3>4
    <3> QED
      BY <1>2, <2>0, <3>5 DEF SignalInv
  <2> QED
    BY <1>4, <2>1, <2>2 DEF LrvmMoves, Connects, Quiet
<1>5. ASSUME NEW p \in Procs, Accept(p) PROVE SignalInv'
  <2>1. CASE UNCHANGED <<cell, out>>
    BY <1>3, <2>1
  <2>2. ASSUME NEW d \in Cells, cell' = [cell EXCEPT ![d] = Registered(d, p)],
               \A q \in Procs : out'[q] \in {<<>>, out[q]}
        PROVE  SignalInv'
    <3>1. \A c \in Cells : cell'[c].cmd = cell[c].cmd
      BY <1>0, <2>2 DEF Registered, Disconnected, FreeCell
    <3>2. \A t : Truth(<<>>, t)
      BY DEF Truth
    <3> QED
      BY <1>2, <2>2, <3>1, <3>2 DEF SignalInv
  <2> QED
    <3>1. ASSUME NEW d \in Cells, cell' = [cell EXCEPT ![d] = Registered(d, p)],
                 \A q \in Procs \ {p} :
                      IF q = cell[d].owner THEN conn'[q] = "closed" /\ out'[q] = <<>>
                      ELSE conn'[q] = conn[q] /\ out'[q] = out[q],
                 out'[p] = <<>>
          PROVE  SignalInv'
      BY <2>2, <3>1
    <3> QED
      BY <1>5, <2>1, <3>1, Accepts
<1>6. CASE Receive
  <2>1. /\ \A k \in Procs : out'[k] \in {<<>>, out[k]}
        /\ \A c \in Cells :
             \/ cell'[c] = Disconnected(c)
             \/ cell'[c] = cell[c]
             \/ /\ cell[c].owner # NoProc
                /\ cell'[c] = [cell[c] EXCEPT !.cmd = @ \o out[cell[c].owner]]
    BY <1>6 DEF Receive
  <2>2. \A t : Truth(<<>>, t)
    BY DEF Truth
  <2>3. ASSUME NEW c \in Cells PROVE Truth(cell'[c].cmd, task')
    <3>1. CASE cell'[c] = Disconnected(c)
      BY <1>2, <3>1 DEF Disconnected, FreeCell
    <3>2. CASE cell'[c] = cell[c]
      BY <1>2, <3>2
    <3>3. CASE /\ cell[c].owner # NoProc
               /\ cell'[c] = [cell[c] EXCEPT !.cmd = @ \o out[cell[c].owner]]
      <4>1. cell'[c].cmd = cell[c].cmd \o out[cell[c].owner] /\ cell[c].owner \in Procs
        BY <1>0, <3>3 DEF Client
      <4> QED
        BY <1>0, <1>2, <4>1, TruthJoined
    <3> QED
      BY <2>1, <3>1, <3>2, <3>3
  <2>4. \A k \in Procs : Truth(out'[k], task')
    BY <1>2, <2>1, <2>2
  <2> QED
    BY <2>3, <2>4 DEF SignalInv
<1>7. CASE CommandDone
  <2>1. PICK d \in Cells : d = listener.at
    BY <1>7 DEF CommandDone
  <2>2. /\ UNCHANGED out /\ cell' = [cell EXCEPT ![d] = cell'[d]]
        /\ cell[d].cmd # <<>> /\ cell'[d].cmd = Tail(cell[d].cmd)
    BY <1>7, <2>1 DEF CommandDone
  <2>3. Truth(cell'[d].cmd, task')
    BY <1>0, <1>2, <2>2, TruthTail
  <2>4. \A c \in Cells : Truth(cell'[c].cmd, task')
    BY <1>0, <1>2, <2>2, <2>3
  <2> QED
    BY <1>2, <2>2, <2>4 DEF SignalInv
<1>8. CASE run_hypervisor_done
  <2>1. UNCHANGED out /\ \A c \in Cells : cell'[c].cmd = cell[c].cmd
    BY <1>8 DEF run_hypervisor_done, Disconnected, FreeCell, envVars
  <2> QED
    BY <1>3, <2>1
<1>9. ASSUME NEW d \in Cells, KeepTimeout(d) PROVE SignalInv'
  <2>1. UNCHANGED out /\ \A c \in Cells : cell'[c].cmd = cell[c].cmd
    BY <1>0, <1>9 DEF KeepTimeout, envVars, Client
  <2> QED
    BY <1>3, <2>1
<1>10. CASE ParseClient
  <2>1. PICK d : d = Min(ToParse)
    OBVIOUS
  <2>2. UNCHANGED out /\ cell' = [cell EXCEPT ![d].stale = FALSE]
    BY <1>10, <2>1 DEF ParseClient, envVars
  <2>3. \A c \in Cells : cell'[c].cmd = cell[c].cmd
    BY <1>0, <2>2 DEF Client
  <2> QED
    BY <1>3, <2>2, <2>3
<1>11. ASSUME NEW p \in Procs, ThreadStep(p) \/ Overviews(p) \/ run_finalize_executing(p)
       PROVE  SignalInv'
  BY <1>3, <1>11 DEF ThreadStep, Overviews, run_finalize_executing, envVars
<1>12. CASE Aside \/ ParseEnds \/ ListenerLeaves
  BY <1>3, <1>12 DEF Aside, ParseEnds, ListenerLeaves, envVars
<1> QED
  BY <1>0, <1>4, <1>5, <1>6, <1>7, <1>8, <1>9, <1>10, <1>11, <1>12 DEF Kinds
-----------------------------------------------------------------------------
(* What the listening thread has read.                                     *)

\* belts_check_*: nothing is started, or a kill for limits that were exceeded.
LEMMA OverviewKills ==
  ASSUME Types, EnvTypes, NEW p \in Procs,
         \/ belts_check_lrvm_ans_timeout(p) \/ belts_check_proc_zombie(p)
         \/ belts_check_limits(p)
  PROVE  \/ Overviewed(p) /\ pr' = [pr EXCEPT ![p] = pr'[p]]
            /\ pr'[p].state = pr[p].state /\ pr'[p].task_pid = pr[p].task_pid
         \/ \E proc, why : /\ StartKill(p, proc, why) /\ why \subseteq Limits /\ IsProc(proc)
                           /\ proc.state \in {pr[p].state, {"EXECERROR"}}
<1>0. IsProc(pr[p]) /\ pr = [k \in Procs |-> pr[k]] /\ over \in [Procs -> SUBSET Limits]
  BY DEF Types, EnvTypes
<1>1. IsProc(ExecError(pr[p])) /\ ExecError(pr[p]).state = {"EXECERROR"}
  BY <1>0, ErrorIsProc DEF Alike
<1>2. CASE belts_check_lrvm_ans_timeout(p)
  <2>1. PICK proc : proc = [ExecError(pr[p]) EXCEPT !.late = TRUE]
    OBVIOUS
  <2>2. IsProc(proc) /\ proc.state = {"EXECERROR"}
    BY <1>1, <2>1 DEF IsProc, Fields
  <2>3. StartKill(p, proc, {})
    BY <1>2, <2>1 DEF belts_check_lrvm_ans_timeout
  <2> QED
    BY <2>2, <2>3
<1>3. CASE belts_check_proc_zombie(p)
  <2>1. CASE StartKill(p, ExecError(pr[p]), {})
    BY <1>1, <2>1
  <2>2. CASE pr' = [pr EXCEPT ![p].zombied = TRUE] /\ Overviewed(p)
    <3>1. PICK r : r = [pr[p] EXCEPT !.zombied = TRUE]
      OBVIOUS
    <3>2. r.state = pr[p].state /\ r.task_pid = pr[p].task_pid
      BY <1>0, <3>1 DEF IsProc, Fields
    <3>3. pr' = [pr EXCEPT ![p] = r] /\ pr'[p] = r
      BY <1>0, <2>2, <3>1
    <3> QED
      BY <2>2, <3>2, <3>3
  <2> QED
    BY <1>3, <2>1, <2>2 DEF belts_check_proc_zombie
<1>4. CASE belts_check_limits(p)
  <2>1. PICK q \in Owner(pr[p].task_pid) :
          LET proc == [pr[p] EXCEPT !.zombied = FALSE, !.usage = over[q]] IN
          IF over[q] # {} THEN StartKill(p, proc, over[q])
          ELSE pr' = [pr EXCEPT ![p] = proc] /\ Overviewed(p)
    BY <1>4 DEF belts_check_limits
  <2>2. PICK proc : proc = [pr[p] EXCEPT !.zombied = FALSE, !.usage = over[q]]
    OBVIOUS
  <2>3. IsProc(proc) /\ proc.state = pr[p].state /\ proc.task_pid = pr[p].task_pid
    BY <1>0, <2>2 DEF IsProc, Fields
  <2>4. \/ StartKill(p, proc, over[q])
        \/ pr' = [pr EXCEPT ![p] = proc] /\ Overviewed(p)
    BY <2>1, <2>2
  <2>5. over[q] \subseteq Limits
    BY <1>0 DEF Owner
  <2>6. CASE StartKill(p, proc, over[q])
    BY <2>3, <2>5, <2>6
  <2>7. CASE pr' = [pr EXCEPT ![p] = proc] /\ Overviewed(p)
    <3>1. pr'[p] = proc
      BY <1>0, <2>7
    <3> QED
      BY <2>3, <2>7, <3>1
  <2> QED
    BY <2>4, <2>6, <2>7
<1> QED
  BY <1>2, <1>3, <1>4

\* The signals it has saved were there.
LEMMA SavedKept ==
  ASSUME IInv, FInv, [Next]_vars
  PROVE  SavedInv'
<1>0. /\ IsListener(listener) /\ Types /\ EnvTypes /\ SavedInv
      /\ \A q \in Procs : EnvKept(q) /\ ResultInv(q)
  BY EnvKeeps DEF IInv, Types, FInv
<1>1. \A q \in Procs : task[q] \in EndStates => task'[q] = task[q]
  BY <1>0 DEF EnvKept, Settled, Ended, EndStates
<1>2. CASE UNCHANGED listener
  <2>1. listener.pc = "finalize" => listener.proc \in Procs
    BY DEF IInv, WorkInv
  <2> QED
    BY <1>0, <1>1, <1>2, <2>1 DEF SavedInv, EndStates
<1>3. CASE listener'.pc \notin {"finalize", "kill"}
  BY <1>3 DEF SavedInv
<1>4. ASSUME NEW q \in Procs, run_finalize_executing(q) PROVE SavedInv'
  <2>1. /\ listener'.pc = "finalize" /\ listener'.proc = q /\ listener'.signals = Signals(pr[q])
    BY <1>0, <1>4 DEF run_finalize_executing, IsListener
  <2>2. Signals(pr[q]) \subseteq SignalBits /\ Signals(pr[q]) \subseteq pr[q].state
    BY DEF Signals, SignalBits
  <2>3. task[q] \in EndStates
    <3>1. At("execute") /\ ValidProc(q) /\ ~Intro(Command) /\ Command.name = "finalize"
      BY <1>4 DEF run_finalize_executing, Intro
    <3>2. Command.from = q
      BY <3>1, ValidIsOwn
    <3>3. /\ listener.at \in Cells /\ cell[listener.at].cmd # <<>>
          /\ cell[listener.at].cmd \in Seq(Msg)
      BY <3>1 DEF IInv, ListenerInv, At, Types, Client
    <3>4. Truth(cell[listener.at].cmd, task)
      BY <3>3 DEF FInv, SignalInv
    <3>5. Honest(Command, task)
      BY <3>3, <3>4 DEF Command, Truth
    <3> QED
      BY <3>1, <3>2, <3>5 DEF Honest
  <2> QED
    BY <1>0, <1>1, <2>1, <2>2, <2>3 DEF SavedInv, ResultInv, EndStates
<1>5. ASSUME NEW p \in Procs, NEW proc, NEW why, StartKill(p, proc, why), why \subseteq Limits
      PROVE  SavedInv'
  <2>1. listener'.pc = "kill" /\ listener'.signals = why
    BY <1>0, <1>5 DEF StartKill, IsListener
  <2> QED
    BY <1>5, <2>1 DEF SavedInv
<1>6. ASSUME NEW procs, Overview(procs) PROVE SavedInv'
  <2>1. listener'.pc \in {"listen", "overview"}
    BY <1>6 DEF Overview, Listening
  <2> QED
    BY <1>3, <2>1
<1>7. ASSUME NEW p \in Procs, OverviewSkips(p) \/ belts_check_lrvm_ans_timeout(p)
                              \/ belts_check_proc_zombie(p) \/ belts_check_limits(p)
      PROVE  SavedInv'
  <2>1. CASE Overviewed(p)
    BY <1>6, <2>1 DEF Overviewed
  <2> QED
    BY <1>0, <1>5, <1>7, <2>1, OverviewKills DEF OverviewSkips
<1>8. CASE run_kill_process \/ ParseEnds
  BY <1>6, <1>8 DEF run_kill_process, ParseEnds, Overviewed
<1>9. ASSUME NEW pc \in {"parse", "execute", "recv", "gone"}, Goto(pc) PROVE SavedInv'
  <2>1. listener'.pc = pc
    BY <1>0, <1>9 DEF Goto, IsListener
  <2> QED
    BY <1>3, <2>1
<1>10. ASSUME NEW table, NEW answer, Done(table, answer) PROVE SavedInv'
  BY <1>9, <1>10 DEF Done
<1>11. CASE ExecuteIntroduction \/ ExecuteRefused \/ \E q \in Procs : ExecuteCommand(q)
  BY <1>10, <1>11 DEF ExecuteIntroduction, ExecuteRefused, ExecuteCommand
<1>12. CASE ListenerLeaves \/ \E p \in Procs : Accept(p)
  BY <1>9, <1>12 DEF ListenerLeaves, Accept
<1>13. CASE Receive \/ ParseClient \/ FinalizeEnds
  <2>1. listener'.pc \in {"parse", "execute"}
    BY <1>0, <1>13 DEF Receive, ParseClient, FinalizeEnds, IsListener
  <2> QED
    BY <1>3, <2>1
<1>14. CASE ListenerNext
  BY <1>4, <1>7, <1>8, <1>11, <1>12, <1>13, <1>14 DEF ListenerNext
<1>15. ASSUME NEW p \in Procs, CallerNext(p) \/ ThreadNext(p) PROVE UNCHANGED listener
  BY <1>15
  DEF CallerNext, ThreadNext, run_create_process, run_execute_process, run_pwait,
      run_free_process, belts_append, ExecuteFails, popen, proc_read_lrvm_pid,
      read_process_pipe, proc_close_pipe, belts_remove, ExecuteEnds
<1>16. ASSUME NEW p \in Procs, LrvmNext(p) \/ LrvmTimeout(p) PROVE UNCHANGED listener
  BY <1>16, LrvmSteps DEF IInv, LrvmMoves
<1>17. ASSUME NEW p \in Procs, TaskNext(p) \/ AcctReceives(p) PROVE UNCHANGED listener
  BY <1>17
  DEF TaskNext, ChildEnds, TaskEnds, TaskUses, TaskStops, TaskContinues, AcctReceives, serverVars
<1>18. ASSUME NEW c \in Cells, KeepTimeout(c) PROVE UNCHANGED listener
  BY <1>18 DEF KeepTimeout
<1>19. ASSUME \/ PoolAges \/ run_done \/ AcctLeaves \/ run_hypervisor_done
              \/ UNCHANGED vars
       PROVE  UNCHANGED listener
  BY <1>19 DEF PoolAges, run_done, AcctLeaves, run_hypervisor_done, vars
<1> QED
  BY <1>2, <1>14, <1>15, <1>16, <1>17, <1>18, <1>19 DEF Next
-----------------------------------------------------------------------------
(* Results.                                                                *)

\* A change of a descriptor that adds no signal and no end.
Mild(r, s) ==
  /\ r.task_pid \in {s.task_pid, NoPid}
  /\ "TERMINATED" \in r.state => "TERMINATED" \in s.state
  /\ "FINISHED" \in r.state => /\ "FINISHED" \in s.state
                               /\ r.state \cap Limits = s.state \cap Limits

\* Such a change keeps what is known of a descriptor.
LEMMA MildResult ==
  ASSUME NEW k \in Procs, ResultInv(k), \A q \in Procs : EnvKept(q), Mild(pr'[k], pr[k])
  PROVE  ResultInv(k)'
<1>1. pr'[k].task_pid \in {NoPid, Pid[k]}
  BY DEF Mild, ResultInv
<1>2. "TERMINATED" \in pr'[k].state => task'[k] = "signaled"
  BY DEF Mild, ResultInv, EnvKept, Settled, Ended
<1>3. ASSUME "FINISHED" \in pr'[k].state
      PROVE  Ended(k)' /\ OfPid(k, pr[k].state \cap Limits)'
  <2>1. Ended(k) /\ OfPid(k, pr[k].state \cap Limits)
    BY <1>3 DEF Mild, ResultInv
  <2>2. PICK q \in Procs : Pid[q] = Pid[k] /\ Ended(q) /\ pr[k].state \cap Limits = over[q]
    BY <2>1 DEF OfPid
  <2>3. task'[k] = task[k] /\ task'[q] = task[q] /\ over'[q] = over[q]
    BY <2>1, <2>2 DEF EnvKept, Settled
  <2>4. pr'[k].state \cap Limits = over'[q]
    BY <1>3, <2>2, <2>3 DEF Mild
  <2> QED
    BY <2>1, <2>2, <2>3, <2>4 DEF OfPid, Ended
<1> QED
  BY <1>1, <1>2, <1>3 DEF ResultInv

\* The caller and its thread make such changes.
LEMMA ThreadIsMild ==
  ASSUME Types, NEW p \in Procs, CallerNext(p) \/ ThreadNext(p)
  PROVE  \A k \in Procs : Mild(pr'[k], pr[k])
<1>0. IsProc(pr[p]) /\ pr = [k \in Procs |-> pr[k]]
  BY DEF Types
<1>1. \A k \in Procs : Mild(pr[k], pr[k])
  BY DEF Mild
<1>2. ASSUME NEW r, pr' = [pr EXCEPT ![p] = r], r.task_pid \in {pr[p].task_pid, NoPid},
             r.state \in {pr[p].state, pr[p].state \cup {"EXECERROR"}, {}, {"STARTING"},
                         {"RUNNING"}, {"EXECERROR"}}
      PROVE  \A k \in Procs : Mild(pr'[k], pr[k])
  <2>1. Mild(r, pr[p])
    BY <1>2 DEF Mild, Limits
  <2> QED
    BY <1>0, <1>1, <1>2, <2>1
<1>3. CASE run_create_process(p) \/ run_free_process(p)
  <2>1. PICK u : pr' = [pr EXCEPT ![p] = NewProcess(u)]
    BY <1>3 DEF run_create_process, run_free_process
  <2>2. NewProcess(u).task_pid = NoPid /\ NewProcess(u).state = {}
    BY DEF NewProcess
  <2> QED
    BY <1>2, <2>1, <2>2
<1>4. ASSUME pr' = [pr EXCEPT ![p] = ExecError(@)]
      PROVE  \A k \in Procs : Mild(pr'[k], pr[k])
  <2>1. PICK r : r = ExecError(pr[p])
    OBVIOUS
  <2>2. r.state = {"EXECERROR"} /\ r.task_pid = pr[p].task_pid
    BY <1>0, <2>1 DEF ExecError, IsProc, Fields
  <2>3. pr' = [pr EXCEPT ![p] = r]
    BY <1>0, <1>4, <2>1
  <2> QED
    BY <1>2, <2>2, <2>3
<1>7. CASE run_execute_process(p)
  <2>1. CASE pr' = [pr EXCEPT ![p].state = {"STARTING"}]
    <3>1. PICK r : r = [pr[p] EXCEPT !.state = {"STARTING"}]
      OBVIOUS
    <3>2. r.state = {"STARTING"} /\ r.task_pid = pr[p].task_pid
      BY <1>0, <3>1 DEF IsProc, Fields
    <3>3. pr' = [pr EXCEPT ![p] = r]
      BY <1>0, <2>1, <3>1
    <3> QED
      BY <1>2, <3>2, <3>3
  <2> QED
    BY <1>4, <1>7, <2>1 DEF run_execute_process
<1>8. CASE belts_append(p)
  <2>1. PICK r : r = [pr[p] EXCEPT !.state = {"RUNNING"}, !.inbelts = TRUE]
    OBVIOUS
  <2>2. r.state = {"RUNNING"} /\ r.task_pid = pr[p].task_pid
    BY <1>0, <2>1 DEF IsProc, Fields
  <2>3. pr' = [pr EXCEPT ![p] = r]
    BY <1>0, <1>8, <2>1 DEF belts_append
  <2> QED
    BY <1>2, <2>2, <2>3
<1>9. CASE ExecuteFails(p)
  BY <1>4, <1>9 DEF ExecuteFails
<1>10. ASSUME NEW f \in {"inbelts", "locked", "lrvm_pid"}, NEW v,
              pr' = [pr EXCEPT ![p] = [@ EXCEPT ![f] = v]]
       PROVE  \A k \in Procs : Mild(pr'[k], pr[k])
  <2>1. PICK r : r = [pr[p] EXCEPT ![f] = v]
    OBVIOUS
  <2>2. r.state = pr[p].state /\ r.task_pid = pr[p].task_pid
    BY <1>0, <2>1 DEF IsProc, Fields
  <2>3. pr' = [pr EXCEPT ![p] = r]
    BY <1>0, <1>10, <2>1
  <2> QED
    BY <1>2, <2>2, <2>3
<1>11. CASE run_pwait(p) \/ belts_remove(p)
  <2>1. pr' = [pr EXCEPT ![p] = [@ EXCEPT !["inbelts"] = FALSE]]
    BY <1>11 DEF run_pwait, belts_remove
  <2> QED
    BY <1>10, <2>1
<1>12. CASE read_process_pipe(p) \/ proc_close_pipe(p)
  <2>1. \E v : pr' = [pr EXCEPT ![p] = [@ EXCEPT !["locked"] = v]]
    BY <1>12 DEF read_process_pipe, proc_close_pipe
  <2> QED
    BY <1>10, <2>1
<1>13. CASE proc_read_lrvm_pid(p)
  <2>1. pr' = [pr EXCEPT ![p] = [@ EXCEPT !["lrvm_pid"] = lrvm[p] # "dead" \/ conn[p] # "none"]]
    BY <1>13 DEF proc_read_lrvm_pid
  <2> QED
    BY <1>10, <2>1
<1>14. CASE popen(p)
  BY <1>1, <1>14 DEF popen
<1>15. CASE ExecuteEnds(p)
  <2>1. PICK r : r = ThreadLeaves(pr[p])
    OBVIOUS
  <2>2. /\ r.state \in {pr[p].state, pr[p].state \cup {"EXECERROR"}}
        /\ r.task_pid = pr[p].task_pid
    BY <1>0, <2>1 DEF ThreadLeaves, IsProc, Fields
  <2>3. pr' = [pr EXCEPT ![p] = r]
    BY <1>0, <1>15, <2>1 DEF ExecuteEnds
  <2> QED
    BY <1>2, <2>2, <2>3
<1> QED
  BY <1>3, <1>7, <1>8, <1>9, <1>11, <1>12, <1>13, <1>14, <1>15 DEF CallerNext,
     ThreadNext

\* So does the overview: a kill leaves no end, whatever it was for.
LEMMA OverviewIsMild ==
  ASSUME IInv, FInv, ListenerNext, NEW k \in Procs,
         \/ \E p \in Procs : \/ OverviewSkips(p) \/ belts_check_lrvm_ans_timeout(p)
                             \/ belts_check_proc_zombie(p) \/ belts_check_limits(p)
         \/ run_kill_process
  PROVE  Mild(pr'[k], pr[k])
<1>0. /\ Types /\ EnvTypes /\ pr = [q \in Procs |-> pr[q]]
      /\ \A q \in Procs : IsProc(pr[q]) /\ Mild(pr[q], pr[q])
  BY DEF IInv, Types, FInv, Mild
<1>1. ASSUME NEW p \in Procs, pr' = [pr EXCEPT ![p] = pr'[p]],
             Mild(pr'[p], pr[p])
      PROVE  Mild(pr'[k], pr[k])
  BY <1>0, <1>1
<1>2. ASSUME NEW p \in Procs, OverviewSkips(p) PROVE Mild(pr'[k], pr[k])
  BY <1>0, <1>2 DEF OverviewSkips
<1>3. ASSUME NEW p \in Procs, pr' = [pr EXCEPT ![p] = pr'[p]],
             pr'[p].state = pr[p].state, pr'[p].task_pid = pr[p].task_pid
      PROVE  Mild(pr'[k], pr[k])
  <2>1. Mild(pr'[p], pr[p])
    BY <1>3 DEF Mild
  <2> QED
    BY <1>1, <1>3, <2>1
<1>4. ASSUME NEW p \in Procs, NEW proc, NEW why, StartKill(p, proc, why), IsProc(proc),
             proc.state \in {pr[p].state, {"EXECERROR"}}
      PROVE  Mild(pr'[k], pr[k])
  <2>1. PICK r : r = [proc EXCEPT !.locked = TRUE, !.task_pid = NoPid]
    OBVIOUS
  <2>2. r.state = proc.state /\ r.task_pid = NoPid
    BY <1>4, <2>1 DEF IsProc, Fields
  <2>3. Mild(r, pr[p])
    BY <1>4, <2>2 DEF Mild
  <2>4. pr' = [pr EXCEPT ![p] = r]
    BY <1>4, <2>1 DEF StartKill
  <2> QED
    BY <1>0, <2>3, <2>4
<1>5. ASSUME NEW p \in Procs, belts_check_lrvm_ans_timeout(p) \/ belts_check_proc_zombie(p)
                              \/ belts_check_limits(p)
      PROVE  Mild(pr'[k], pr[k])
  BY <1>0, <1>3, <1>4, <1>5, OverviewKills
<1>6. CASE run_kill_process
  <2>1. listener.proc \in Procs /\ listener.signals \subseteq Limits
    BY <1>6 DEF IInv, WorkInv, Types, FInv, SavedInv, run_kill_process, At
  <2>2. PICK p \in Procs, why \in SUBSET Limits : p = listener.proc /\ why = listener.signals
    BY <2>1
  <2>3. PICK r : r = Killed(pr[p], why)
    OBVIOUS
  <2>4. /\ r.state = {"KILLED"} \cup why \cup (pr[p].state \cap {"EXECERROR"})
        /\ r.task_pid = pr[p].task_pid
    BY <1>0, <2>3 DEF Killed, IsProc, Fields
  <2>5. Mild(r, pr[p])
    BY <2>2, <2>4 DEF Mild, Limits
  <2>6. pr' = [pr EXCEPT ![p] = r]
    BY <1>0, <1>6, <2>2, <2>3 DEF run_kill_process
  <2> QED
    BY <1>0, <2>5, <2>6
<1> QED
  BY <1>2, <1>5, <1>6

\* A handler of ipc_builtin.c sets what is true of the task of its LRVM.
LEMMA CommandResult ==
  ASSUME IInv, FInv, NEW q \in Procs, ExecuteCommand(q), NEW k \in Procs,
         \A p \in Procs : EnvKept(p)
  PROVE  ResultInv(k)'
<1>0. /\ IsProc(pr[q]) /\ pr = [p \in Procs |-> pr[p]] /\ ResultInv(k)
  BY DEF IInv, Types, FInv
<1>1. CASE k # q
  <2>1. pr'[k] = pr[k]
    BY <1>0, <1>1 DEF ExecuteCommand
  <2> QED
    BY <1>0, <2>1, MildResult DEF Mild
<1>2. CASE k = q
  <2>1. /\ At("execute") /\ ValidProc(q) /\ ~Intro(Command)
        /\ Command.name \notin {"unique", "security", "finalize", "bug_report"}
        /\ pr' = [pr EXCEPT ![q] = Handled(@, Command)] /\ UNCHANGED <<task, over>>
    BY DEF ExecuteCommand, Intro
  <2>2. Command.from = q
    BY <2>1, ValidIsOwn
  <2>3. PICK s \in Seq(Msg) : s # <<>> /\ Command = s[1] /\ Truth(s, task)
    <3>1. /\ listener.at \in Cells /\ cell[listener.at].cmd # <<>>
          /\ cell[listener.at].cmd \in Seq(Msg)
      BY <2>1 DEF IInv, ListenerInv, At, Types, Client
    <3>2. Truth(cell[listener.at].cmd, task)
      BY <3>1 DEF FInv, SignalInv
    <3>3. Command = cell[listener.at].cmd[1]
      BY <3>1 DEF Command
    <3> QED
      BY <3>1, <3>2, <3>3
  <2>4. 1 \in 1..Len(s) /\ s[1] \in Msg
    BY <2>3
  <2>5. PICK m \in Msg : m = Command
    BY <2>3, <2>4
  <2>6. m.from = q /\ (m.name = "termsig" => task[q] = "signaled")
    BY <2>2, <2>3, <2>4, <2>5 DEF Truth, Honest
  <2>7. PICK r : r = Handled(pr[q], m)
    OBVIOUS
  <2>8. m.name \in {"validate", "base", "taskpid", "exit_code", "termsig",
                    "stopsig", "continue", "exec_error"}
    BY <2>1, <2>5 DEF Msg, Waiting
  <2>9. /\ r.task_pid \in {pr[q].task_pid, Pid[q]}
        /\ \/ r.state = pr[q].state
           \/ r.state = {"TERMINATED"} /\ m.name = "termsig"
           \/ r.state \in {{"STOPPED"}, {"CONTINUED"}, {"EXECERROR"}}
    <3>1. CASE m.name \in {"validate", "base"}
      BY <2>7, <3>1 DEF Handled
    <3>2. CASE m.name = "taskpid"
      BY <1>0, <2>6, <2>7, <3>2 DEF Handled, IsProc, Fields
    <3>3. CASE m.name = "exit_code"
      BY <1>0, <2>7, <3>3 DEF Handled, IsProc, Fields
    <3>4. CASE m.name = "termsig"
      BY <1>0, <2>7, <3>4 DEF Handled, IsProc, Fields, run_process_terminated
    <3>5. CASE m.name = "stopsig"
      BY <1>0, <2>7, <3>5 DEF Handled, IsProc, Fields, run_process_stopped
    <3>6. CASE m.name = "continue"
      BY <1>0, <2>7, <3>6 DEF Handled, IsProc, Fields, run_process_continued
    <3>7. CASE m.name = "exec_error"
      BY <1>0, <2>7, <3>7 DEF Handled, IsProc, Fields, ExecError
    <3> QED
      BY <2>8, <3>1, <3>2, <3>3, <3>4, <3>5, <3>6, <3>7
  <2>10. pr'[q] = r
    BY <1>0, <2>1, <2>5, <2>7
  <2>11. ResultInv(q)
    BY <1>0, <1>2
  <2>12. ResultInv(q)'
    BY <2>1, <2>6, <2>9, <2>10, <2>11 DEF ResultInv, Ended, OfPid
  <2> QED
    BY <1>2, <2>12
<1> QED
  BY <1>1, <1>2

\* run_hvpool_stats_by_pid finds the record of a task with that PID.
LEMMA StatsOfPid ==
  ASSUME FInv, NEW q \in Procs, NEW pid, pid \in {NoPid, Pid[q]},
         HasStats(pool, pid)
  PROVE  OfPid(q, run_hvpool_stats_by_pid_iter(pool, pid))
<1>0. pool \in Seq(Seq(GoodRecs)) /\ Len(pool) \in Nat /\ DOMAIN pool = 1..Len(pool)
  BY DEF FInv, PoolInv
<1>1. PICK H : H = Holding(pool, pid)
  OBVIOUS
<1>2. H # {} /\ H \in SUBSET Nat
  BY <1>0, <1>1 DEF HasStats, Holding
<1>3. PICK h : h = Min(H)
  OBVIOUS
<1>4. h \in H
  BY <1>2, <1>3, MinIn
<1>5. h \in 1..Len(pool) /\ \E i \in DOMAIN pool[h] : pool[h][i].pid = pid
  BY <1>0, <1>1, <1>4 DEF Holding
<1>6. PICK arr \in Seq(GoodRecs) : arr = pool[h]
  BY <1>0, <1>5
<1>7. PICK I : I = {i \in DOMAIN arr : arr[i].pid = pid}
  OBVIOUS
<1>8. I # {} /\ I \in SUBSET Nat
  BY <1>5, <1>6, <1>7
<1>9. PICK i : i = Min(I)
  OBVIOUS
<1>10. i \in I
  BY <1>8, <1>9, MinIn
<1>11. arr[i] \in GoodRecs /\ arr[i].pid = pid
  BY <1>6, <1>7, <1>10
<1>12. run_hvpool_stats_by_pid_iter(pool, pid) = arr[i].stats
  BY <1>1, <1>3, <1>6, <1>7, <1>9 DEF run_hvpool_stats_by_pid_iter
<1>13. PICK k \in Procs : arr[i].pid = Pid[k] /\ Ended(k) /\ arr[i].stats = over[k]
  BY <1>11 DEF GoodRecs
<1>14. Pid[k] = Pid[q]
  BY <1>11, <1>13, LibrunAssumption
<1> QED
  BY <1>12, <1>13, <1>14 DEF OfPid

\* So a finished process has the limits of such a task.
LEMMA FinalizeResult ==
  ASSUME IInv, FInv, FinalizeEnds, NEW k \in Procs, \A p \in Procs : EnvKept(p)
  PROVE  ResultInv(k)'
<1>0. /\ pr = [p \in Procs |-> pr[p]] /\ \A p \in Procs : IsProc(pr[p]) /\ ResultInv(p)
      /\ EnvTypes /\ SavedInv /\ UNCHANGED <<task, over>> /\ listener.pc = "finalize"
  BY DEF IInv, Types, FInv, FinalizeEnds, At
<1>1. PICK q \in Procs, sig \in SUBSET SignalBits :
        /\ q = listener.proc /\ sig = listener.signals /\ Ended(q)
        /\ "TERMINATED" \in sig => task[q] = "signaled"
  BY <1>0 DEF IInv, WorkInv, SavedInv, EndStates, Ended
<1>2. CASE k # q
  <2>1. pr'[k] = pr[k]
    BY <1>0, <1>1, <1>2 DEF FinalizeEnds
  <2> QED
    BY <1>0, <2>1, MildResult DEF Mild
<1>3. CASE k = q /\ ~HasStats(pool, pr[q].task_pid)
  <2>1. pr'[q] = ExecError(pr[q])
    BY <1>0, <1>1, <1>3 DEF FinalizeEnds
  <2>2. pr'[q].state = {"EXECERROR"} /\ pr'[q].task_pid = pr[q].task_pid
    BY <1>0, <2>1 DEF ExecError, IsProc, Fields
  <2> QED
    BY <1>0, <1>3, <2>2, MildResult DEF Mild
<1>4. CASE k = q /\ HasStats(pool, pr[q].task_pid)
  <2>1. PICK used : used = run_hvpool_stats_by_pid_iter(pool, pr[q].task_pid)
    OBVIOUS
  <2>2. OfPid(q, used)
    BY <1>0, <1>4, <2>1, StatsOfPid DEF ResultInv
  <2>3. pr'[q] = Finalized(pr[q], sig, used)
    BY <1>0, <1>1, <1>4, <2>1 DEF FinalizeEnds
  <2>4. /\ pr'[q].state = sig \cup used \cup {"FINISHED"}
        /\ pr'[q].task_pid = pr[q].task_pid
    BY <1>0, <2>3 DEF Finalized, IsProc, Fields
  <2>5. used \subseteq Limits
    BY <1>0, <2>2 DEF EnvTypes, OfPid
  <2>6. pr'[q].state \cap Limits = used
    BY <1>1, <2>4, <2>5 DEF SignalBits, Limits
  <2>7. "TERMINATED" \in pr'[q].state => task[q] = "signaled"
    BY <1>1, <2>4, <2>5 DEF Limits
  <2>8. ResultInv(q)'
    <3>1. OfPid(q, pr[q].state \cap Limits)'
      BY <1>0, <2>2, <2>6 DEF OfPid, Ended
    <3> QED
      BY <1>0, <1>1, <2>4, <2>7, <3>1 DEF ResultInv, Ended
  <2> QED
    BY <1>4, <2>8
<1> QED
  BY <1>2, <1>3, <1>4

\* Every step keeps what is known of a descriptor.
LEMMA ResultKept ==
  ASSUME IInv, FInv, [Next]_vars, NEW k \in Procs
  PROVE  ResultInv(k)'
<1>0. ResultInv(k) /\ (\A p \in Procs : EnvKept(p)) /\ Types /\ pr = [p \in Procs |-> pr[p]]
  BY EnvKeeps DEF IInv, Types, FInv
<1>1. CASE pr'[k] = pr[k]
  BY <1>0, <1>1, MildResult DEF Mild
<1>2. ASSUME NEW p \in Procs, CallerNext(p) \/ ThreadNext(p) PROVE ResultInv(k)'
  BY <1>0, <1>2, ThreadIsMild, MildResult
<1>3. ASSUME NEW p \in Procs, LrvmNext(p) \/ LrvmTimeout(p) PROVE pr'[k] = pr[k]
  BY <1>3, LrvmSteps DEF IInv, LrvmMoves
<1>4. ASSUME NEW p \in Procs, TaskNext(p) \/ AcctReceives(p) PROVE pr'[k] = pr[k]
  BY <1>4
  DEF TaskNext, ChildEnds, TaskEnds, TaskUses, TaskStops, TaskContinues, AcctReceives, serverVars
<1>5. CASE ListenerNext
  <2>1. ASSUME \/ \E p \in Procs : Accept(p)
               \/ Receive \/ ParseClient \/ ParseEnds \/ ExecuteIntroduction
               \/ ExecuteRefused \/ ListenerLeaves
        PROVE  pr'[k] = pr[k]
    BY <2>1
    DEF Accept, Receive, ParseClient, ParseEnds, ExecuteIntroduction, ExecuteRefused,
        ListenerLeaves
  <2>2. ASSUME NEW q \in Procs, ExecuteCommand(q) PROVE ResultInv(k)'
    BY <1>0, <2>2, CommandResult
  <2>3. CASE FinalizeEnds
    BY <1>0, <2>3, FinalizeResult
  <2>4. ASSUME NEW q \in Procs, run_finalize_executing(q) PROVE ResultInv(k)'
    <3>1. IsProc(pr[q])
      BY <1>0 DEF Types
    <3>2. PICK r : r = [pr[q] EXCEPT !.locked = TRUE]
      OBVIOUS
    <3>3. r.state = pr[q].state /\ r.task_pid = pr[q].task_pid
      BY <3>1, <3>2 DEF IsProc, Fields
    <3>4. pr' = [pr EXCEPT ![q] = r]
      BY <2>4, <3>2 DEF run_finalize_executing
    <3>5. pr'[k].state = pr[k].state /\ pr'[k].task_pid = pr[k].task_pid
      BY <1>0, <3>3, <3>4
    <3> QED
      BY <1>0, <3>5, MildResult DEF Mild
  <2>5. CASE \/ \E p \in Procs : \/ OverviewSkips(p) \/ belts_check_lrvm_ans_timeout(p)
                                 \/ belts_check_proc_zombie(p) \/ belts_check_limits(p)
             \/ run_kill_process
    BY <1>0, <1>5, <2>5, OverviewIsMild, MildResult
  <2> QED
    BY <1>1, <1>5, <2>1, <2>2, <2>3, <2>4, <2>5 DEF ListenerNext
<1>6. ASSUME NEW c \in Cells, KeepTimeout(c) PROVE pr'[k] = pr[k]
  BY <1>6 DEF KeepTimeout
<1>7. ASSUME \/ PoolAges \/ run_done \/ AcctLeaves \/ run_hypervisor_done
             \/ UNCHANGED vars
      PROVE  pr'[k] = pr[k]
  BY <1>7 DEF PoolAges, run_done, AcctLeaves, run_hypervisor_done, vars
<1> QED
  BY <1>1, <1>2, <1>3, <1>4, <1>5, <1>6, <1>7 DEF Next

\* At the start nothing has ended and the pool is empty.
LEMMA FInitially ==
  ASSUME Init
  PROVE  FInv
<1>1. EnvTypes /\ PoolInv /\ SignalInv /\ SavedInv
  BY DEF Init, EnvTypes, PoolInv, SignalInv, SavedInv, Truth, FreeCell, Listening
<1>2. ASSUME NEW p \in Procs PROVE TaskInv(p) /\ ResultInv(p)
  BY DEF Init, TaskInv, ResultInv, Ended, NewProcess
<1> QED
  BY <1>1, <1>2 DEF FInv

\* FInv is inductive, given IInv.
LEMMA FInductive ==
  ASSUME IInv, FInv, [Next]_vars
  PROVE  FInv'
<1>1. EnvTypes' /\ \A p \in Procs : TaskInv(p)'
  BY EnvKeeps DEF EnvKept
<1>2. PoolInv' /\ SignalInv' /\ SavedInv'
  BY PoolKept, SignalKept, SavedKept
<1>3. \A p \in Procs : ResultInv(p)'
  BY ResultKept
<1> QED
  BY <1>1, <1>2, <1>3 DEF FInv

\* A process that run_finalize_executing has finished has ended, with exactly
\* the limits that its task went over (or, when the kernel has given its PID
\* again while the pool holds an earlier record, a task with the same PID), and
\* a signal only if the task got one, whatever was lost, late, stopped or killed
\* on the way, for any number of runs, clients, PIDs and faults, as long as the
\* unique numbers suffice.
THEOREM FinishedExact == EnoughNumbers => (Spec => []FinishedIsExact)
<1> SUFFICES ASSUME EnoughNumbers PROVE Spec => []FinishedIsExact
  OBVIOUS
<1>1. Spec => []IInv
  BY Invariant
<1>2. Init => FInv
  BY FInitially
<1>3. IInv /\ FInv /\ [Next]_vars => FInv'
  BY FInductive
<1>4. FInv => FinishedIsExact
  BY DEF FInv, ResultInv, OfPid, FinishedIsExact
<1> QED
  BY <1>1, <1>2, <1>3, <1>4, PTL DEF Spec
=============================================================================
