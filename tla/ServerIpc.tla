----------------------------- MODULE ServerIpc ------------------------------
(***************************************************************************)
(* The command interface of the server: libwebtester/{ipc,ipc_proc,        *)
(* ipc-blacklist,cmd,sock}.c and webtester/{ipc,ipc_builtin}.c.  One       *)
(* thread accepts connections, receives what clients sent and executes it; *)
(* the main loop's scheduler strips old login stamps; the control thread   *)
(* stops both.  The server may crash and is started again with the         *)
(* blacklist of its file.                                                  *)
(*                                                                         *)
(* A client sends arbitrary lines at any time, so what it sent is chosen   *)
(* when it is received.  Only the first line of a received text is         *)
(* executed and the rest is dropped, a line received in parts is executed  *)
(* in parts: both are covered by the choice.  Time counts in units of the  *)
(* windows below.                                                          *)
(***************************************************************************)
EXTENDS Integers, Sequences, FiniteSets

CONSTANTS IPs,
          MaxClients,   \* ipc_max_client_count
          Tries,        \* tries_before_lock
          Window,       \* time_for_count_tries
          Freeze,       \* incorrect_login_delay
          OnTries,      \* blacklist_on_tries_expired
          ResetTimeout, \* reset_timeout of the blacklist
          Skews,        \* what reading the file may add to a timestamp
          MaxTime       \* bound: the clock stops

ASSUME IpcAssumption ==
  /\ MaxClients \in Nat \ {0} /\ Tries \in Nat /\ Window \in Int
  /\ Freeze \in Nat /\ OnTries \in BOOLEAN /\ ResetTimeout \in Int
  /\ MaxTime \in Nat /\ Skews \subseteq Int /\ 0 \in Skews

VARIABLES
  time,
  clients,    \* ipc_clients
  blacklist, file, flushing, \* the list, its file, and flush_blacklist at work
  login_info, \* of each address: the stamps, or none
  infoState,  \* login_info exists
  ipc, at     \* the IPC thread, and the cell it works on
VARIABLES
  main,       \* the main loop, which runs the scheduler, is running
  stop,       \* the control thread
  failedAt,   \* history: of a cell's client, when its login failed last
  fails,      \* history: of an address, when its last logins failed
  banned,     \* history: addresses put on the list, until they are taken off
  unsaved     \* history: the file could not be opened the last time

listVars == <<blacklist, file, flushing, banned, unsaved>>
netVars == <<clients, listVars>>
threadVars == <<ipc, at, main, stop>>
histVars == <<failedAt, fails>>
vars == <<time, netVars, login_info, infoState, threadVars, histVars>>

Cells == 1..MaxClients
None == "none"
Never == -1
Admin == 7
\* "ip" also stands for the other commands that need an administrator, and
\* for whatever has no effect when its sender is none.
Commands == {"login", "login wrong", "logout", "exit", "ip"}
Times == 0..MaxTime
Free == [open |-> FALSE, ip |-> None, auth |-> FALSE, access |-> 0,
         cmd |-> None, frozen |-> Never]
\* first and count are history: the first failure that was stamped, and how
\* many there were (up to one too many).
NoInfo == [times |-> [i \in 0..(Tries - 1) |-> Never], ptr |-> -1,
           first |-> Never, count |-> 0]

Init ==
  /\ time = 0 /\ clients = [c \in Cells |-> Free]
  /\ blacklist = {} /\ file = {} /\ flushing = FALSE
  /\ login_info = [a \in IPs |-> NoInfo] /\ infoState = "ready"
  /\ ipc = "probe" /\ at = 1 /\ main = TRUE /\ stop = "up"
  /\ failedAt = [c \in Cells |-> Never] /\ fails = [a \in IPs |-> <<>>]
  /\ banned = {} /\ unsaved = FALSE

Tick ==
  /\ time < MaxTime /\ time' = time + 1
  /\ UNCHANGED <<netVars, login_info, infoState, threadVars, histVars>>
-----------------------------------------------------------------------------
(* The blacklist.                                                          *)

Expired(e) == ResetTimeout > 0 /\ time - e.time >= ResetTimeout
Unexpired == {e \in blacklist : ~Expired(e)}
Listed(a) == \E e \in Unexpired : e.ip = a
Addresses(entries) == {e.ip : e \in entries}

\* fopen (blacklist_file, "w") empties the file, which FlushDone fills; when
\* it fails nothing is written and nobody is told.
flush_blacklist ==
  \/ file' = {} /\ flushing' = TRUE /\ unsaved' = FALSE
  \/ unsaved' = TRUE /\ UNCHANGED <<file, flushing>>

\* What ipc_blacklisted does beside its answer.
Overviewed ==
  /\ blacklist' = Unexpired
  /\ banned' = banned \ {a \in Addresses(blacklist) : ~Listed(a)}
  /\ IF Unexpired # blacklist THEN flush_blacklist
                              ELSE UNCHANGED <<file, flushing, unsaved>>

\* Mutant of ipc_blacklist_ip: the file is not written.
ipc_blacklist_ip_quiet(a) ==
  /\ blacklist' = blacklist \cup {[ip |-> a, time |-> time]}
  /\ banned' = banned \cup {a}
  /\ UNCHANGED <<file, flushing, unsaved>>

ipc_blacklist_ip(a) ==
  /\ blacklist' = blacklist \cup {[ip |-> a, time |-> time]}
  /\ banned' = banned \cup {a}
  /\ flush_blacklist

\* The file is not written.
ipc_unblacklist_ip(a) ==
  /\ blacklist' = {e \in blacklist : e.ip # a}
  /\ banned' = banned \ {a}
  /\ UNCHANGED <<file, flushing, unsaved>>

FlushDone ==
  /\ flushing /\ flushing' = FALSE /\ file' = blacklist
  /\ UNCHANGED <<time, clients, blacklist, banned, unsaved, login_info, infoState,
                 threadVars, histVars>>
-----------------------------------------------------------------------------
(* Login stamps, each operation under login_info_mutex.                    *)

\* Failures are counted.
Counting == Tries > 0 /\ Window >= 0

\* access_times has room for Tries bytes (`sizeof (time)`, a function): the
\* allocator's smallest piece holds three stamps.
Room == 3

Stale(info) == info.ptr > 0 /\ time - info.times[info.ptr] > Window

\* strip_unused_login_info.
Stripped == [a \in IPs |-> IF Stale(login_info[a]) THEN NoInfo
                                                   ELSE login_info[a]]

\* Mutant of login_allowed: one try too many.
login_allowed_late(a) ==
  LET info == Stripped[a] IN
  Counting => ~(info.ptr = Tries - 1 /\ time - info.times[0] < Window)

login_allowed(a) ==
  LET info == Stripped[a] IN
  Counting => ~(info.ptr = Tries - 1 /\ time - info.times[0] <= Window)

\* The loop that should move all stamps has an empty body: only the last but
\* one is overwritten.
Shifted(info) ==
  LET i == IF info.ptr > 1 THEN info.ptr - 1 ELSE 0 IN
  IF info.ptr < Tries - 1 THEN [info EXCEPT !.ptr = @ + 1]
  ELSE IF Tries = 1 THEN info
  ELSE [info EXCEPT !.times[i] = info.times[i + 1]]

\* A failure is stamped and counted.
Stamp(info, times) ==
  [times |-> times, ptr |-> info.ptr,
   first |-> IF info.count = 0 THEN time ELSE info.first,
   count |-> IF info.count =< Tries THEN info.count + 1 ELSE info.count]

\* The stamps, when there is something else beyond the room.
Spilt(times, there) == [i \in DOMAIN times |-> IF i < Room THEN times[i] ELSE there[i]]

\* Beyond the room the stamps hit other memory: they read back as anything,
\* and may hit the first stamp of other addresses.  (They may crash the server
\* too, as it may at any time.)
add_login_stamp(a) ==
  LET info == Shifted(login_info[a])
      times == [info.times EXCEPT ![info.ptr] = time]
      others == {b \in IPs \ {a} : login_info[b].ptr >= 0}
  IN
  IF ~Counting THEN UNCHANGED login_info
  ELSE IF info.ptr < Room
  THEN login_info' = [login_info EXCEPT ![a] = Stamp(info, times)]
  ELSE \E there \in [Room..(Tries - 1) -> Times \cup {Never}], hit \in SUBSET others :
         login_info' = [b \in IPs |->
           IF b = a THEN Stamp(info, Spilt(times, there))
           ELSE IF b \in hit THEN [login_info[b] EXCEPT !.times[0] = time]
           ELSE login_info[b]]
-----------------------------------------------------------------------------
(* Connections.                                                            *)

Disconnected(client) ==
  [client EXCEPT !.open = FALSE, !.auth = FALSE, !.access = 0]

\* The cell's frozen flag is not reset.
Connected(client, a) ==
  [client EXCEPT !.open = TRUE, !.ip = a, !.auth = FALSE, !.access = 0]

FreeCells == {c \in Cells : ~clients[c].open}

\* The lowest free cell.
FirstFree == CHOOSE c \in FreeCells : \A d \in FreeCells : c <= d

\* The client in cell c leaves, or is thrown out.
ipc_disconnect_client(c) ==
  /\ clients' = [clients EXCEPT ![c] = Disconnected(@)]
  /\ failedAt' = [failedAt EXCEPT ![c] = Never]

\* The IPC thread steps from one point to another.
Step(from, to) == ipc = from /\ ipc' = to /\ ~flushing

\* Head of wt_ipc_mainloop: the mutex is free once wt_ipc_stop unlocked it.
Probe ==
  /\ Step("probe", IF stop \in {"up", "main"} THEN "listen" ELSE "gone")
  /\ UNCHANGED <<time, netVars, login_info, infoState, at, main, stop,
                 histVars>>

\* ipc_listen: nobody waits.
ListenNobody ==
  /\ Step("listen", "receive") /\ at' = 1
  /\ UNCHANGED <<time, netVars, login_info, infoState, main, stop, histVars>>

\* A connection from a; when there is no free cell the socket is forgotten.
Accept(a) ==
  /\ Step("listen", "receive") /\ at' = 1 /\ Overviewed
  /\ IF Listed(a) \/ FreeCells = {} THEN UNCHANGED <<clients, failedAt>>
     ELSE /\ clients' = [clients EXCEPT ![FirstFree] = Connected(@, a)]
          /\ failedAt' = [failedAt EXCEPT ![FirstFree] = Never]
  /\ UNCHANGED <<time, login_info, infoState, main, stop, fails>>

\* The loop goes on with the next cell; after the last one comes `to`.
PassFrom(from, loop, to) ==
  /\ Step(from, IF at = MaxClients THEN to ELSE loop)
  /\ at' = IF at = MaxClients THEN 1 ELSE at + 1

Pass(loop, to) == PassFrom(loop, loop, to)

Me == clients[at]

\* Mutant of BlacklistedNow: a client that is connected is not looked at.
BlacklistedNowNever == Me.open /\ Listed(None)

\* ipc_interact checks each connected client before it receives.
BlacklistedNow == Me.open /\ Listed(Me.ip)

ReceiveSkips ==
  /\ Pass("receive", "parse") /\ ~Me.open
  /\ UNCHANGED <<time, netVars, login_info, infoState, main, stop, histVars>>

ReceiveThrowsOut ==
  /\ Pass("receive", "parse") /\ BlacklistedNow /\ Overviewed
  /\ ipc_disconnect_client(at)
  /\ UNCHANGED <<time, login_info, infoState, main, stop, fails>>

\* recv: nothing yet, or a text that begins with a command.
Receive(m) ==
  /\ Pass("receive", "parse") /\ Me.open /\ ~BlacklistedNow /\ Overviewed
  /\ clients' = [clients EXCEPT ![at].cmd = m]
  /\ UNCHANGED <<time, login_info, infoState, main, stop, histVars>>

\* recv: the connection is lost.
ReceiveLost ==
  /\ Pass("receive", "parse") /\ Me.open /\ ~BlacklistedNow /\ Overviewed
  /\ ipc_disconnect_client(at)
  /\ UNCHANGED <<time, login_info, infoState, main, stop, fails>>
-----------------------------------------------------------------------------
(* ipc_parse_client.  Every handler ends with an empty command buffer.     *)

\* Mutant of Frozen: the delay is over at once.
FrozenNever(client) == client.frozen > time

Frozen(client) == client.frozen # Never /\ time - client.frozen <= Freeze

\* The flag is cleared when a command finds it outdated.
Thawed(client) ==
  [client EXCEPT !.cmd = None, !.frozen = IF Frozen(client) THEN @ ELSE Never]

ParseNothing ==
  /\ Pass("parse", "probe") /\ (~Me.open \/ Me.cmd = None)
  /\ UNCHANGED <<time, netVars, login_info, infoState, main, stop, histVars>>

ParseFrozen ==
  /\ Pass("parse", "probe") /\ Me.open /\ Me.cmd # None /\ Frozen(Me)
  /\ clients' = [clients EXCEPT ![at].cmd = None]
  /\ UNCHANGED <<time, listVars, login_info, infoState, main,
                 stop, histVars>>

\* The command m of the current client is to be executed.
Executes(m) == ipc = "parse" /\ Me.open /\ Me.cmd = m /\ ~Frozen(Me)

Logins == {"login", "login wrong"}

\* Too many failures: the client is thrown out, also when it is authorised
\* already, and blacklisted if the configuration says so.
LoginRefused(m) ==
  /\ Pass("parse", "probe") /\ Executes(m) /\ ~login_allowed(Me.ip)
  /\ login_info' = Stripped
  /\ IF OnTries THEN ipc_blacklist_ip(Me.ip) ELSE UNCHANGED listVars
  /\ clients' = [clients EXCEPT ![at] = Disconnected(Thawed(@))]
  /\ failedAt' = [failedAt EXCEPT ![at] = Never]
  /\ UNCHANGED <<time, infoState, main, stop, fails>>

LoginAgain(m) ==
  /\ Pass("parse", "probe") /\ Executes(m) /\ login_allowed(Me.ip) /\ Me.auth
  /\ login_info' = Stripped /\ clients' = [clients EXCEPT ![at] = Thawed(@)]
  /\ UNCHANGED <<time, listVars, infoState, main, stop,
                 histVars>>

\* The users of the model are administrators.
LoginSucceeds ==
  /\ Pass("parse", "probe") /\ Executes("login") /\ login_allowed(Me.ip) /\ ~Me.auth
  /\ login_info' = [Stripped EXCEPT ![Me.ip] = NoInfo]
  /\ clients' = [clients EXCEPT ![at] =
                   [Thawed(@) EXCEPT !.auth = TRUE, !.access = Admin]]
  /\ fails' = [fails EXCEPT ![Me.ip] = <<>>]
  /\ UNCHANGED <<time, listVars, infoState, main, stop,
                 failedAt>>

\* The password is wrong; login_info is not locked while it is compared.
LoginWrong ==
  /\ Step("parse", "failed") /\ Executes("login wrong") /\ login_allowed(Me.ip)
  /\ ~Me.auth
  /\ login_info' = Stripped
  /\ UNCHANGED <<time, netVars, infoState, at, main, stop, histVars>>

\* The last Tries + 1 failures are remembered.
Remembered(s) ==
  LET t == Append(s, time) IN
  IF Len(t) > Tries + 1 THEN Tail(t) ELSE t

LoginFailed ==
  /\ PassFrom("failed", "parse", "probe") /\ add_login_stamp(Me.ip)
  /\ clients' = [clients EXCEPT ![at] = [Thawed(@) EXCEPT !.frozen = time]]
  /\ failedAt' = [failedAt EXCEPT ![at] = time]
  /\ fails' = [fails EXCEPT ![Me.ip] = Remembered(@)]
  /\ UNCHANGED <<time, listVars, infoState, main, stop>>

Logout ==
  /\ Pass("parse", "probe") /\ Executes("logout")
  /\ clients' = [clients EXCEPT ![at] =
                   [Thawed(@) EXCEPT !.auth = FALSE, !.access = 0]]
  /\ UNCHANGED <<time, listVars, login_info, infoState, main,
                 stop, histVars>>

Exit ==
  /\ Pass("parse", "probe") /\ Executes("exit")
  /\ clients' = [clients EXCEPT ![at] = Disconnected(Thawed(@))]
  /\ failedAt' = [failedAt EXCEPT ![at] = Never]
  /\ UNCHANGED <<time, listVars, login_info, infoState, main,
                 stop, fails>>

\* `ip blacklist a` and `ip unblacklist a` of an administrator.
IpBlacklist(a) ==
  /\ Pass("parse", "probe") /\ Executes("ip") /\ Me.access >= Admin
  /\ ipc_blacklist_ip(a) /\ clients' = [clients EXCEPT ![at] = Thawed(@)]
  /\ UNCHANGED <<time, login_info, infoState, main, stop, histVars>>

IpUnblacklist(a) ==
  /\ Pass("parse", "probe") /\ Executes("ip") /\ Me.access >= Admin
  /\ ipc_unblacklist_ip(a) /\ clients' = [clients EXCEPT ![at] = Thawed(@)]
  /\ UNCHANGED <<time, login_info, infoState, main, stop, histVars>>

\* A command that is unknown or not allowed.
Other ==
  /\ Pass("parse", "probe") /\ Executes("ip") /\ Me.access < Admin
  /\ clients' = [clients EXCEPT ![at] = Thawed(@)]
  /\ UNCHANGED <<time, listVars, login_info, infoState, main,
                 stop, histVars>>
-----------------------------------------------------------------------------
(* The other threads.                                                      *)

\* login_info_review, called by the scheduler on the main loop.
Review ==
  /\ main /\ login_info' = Stripped
  /\ UNCHANGED <<time, netVars, infoState, threadVars, histVars>>

\* CORE_DEACTIVATE reaches the main loop before the IPC thread.
StopMain ==
  /\ stop = "up" /\ stop' = "main" /\ main' = FALSE
  /\ UNCHANGED <<time, netVars, login_info, infoState, ipc, at, histVars>>

\* wt_ipc_stop: the mutex is unlocked and the thread joined.
StopUnlock ==
  /\ stop = "main" /\ stop' = "join"
  /\ UNCHANGED <<time, netVars, login_info, infoState, ipc, at, main, histVars>>

StopJoin ==
  /\ stop = "join" /\ ipc = "gone" /\ stop' = "done"
  /\ UNCHANGED <<time, netVars, login_info, infoState, ipc, at, main, histVars>>

\* wt_ipc_done: the stamps are destroyed, then all clients are told and
\* disconnected.
StopDone ==
  /\ stop = "done" /\ stop' = "down" /\ infoState' = "destroyed"
  /\ clients' = [c \in Cells |-> Free]
  /\ failedAt' = [c \in Cells |-> Never]
  /\ UNCHANGED <<time, listVars, login_info, ipc, at, main,
                 fails>>

\* The server crashed or was stopped, and is started: ipc_blacklist_init
\* reads the file.  The daylight saving flag of the time it makes of an entry
\* is not initialised.  What a crash while the file was written, or a file that
\* could not be opened, takes off the list is written off.
Restart ==
  /\ \E skew \in Skews :
       blacklist' = {[e EXCEPT !.time = @ + skew] : e \in file}
  /\ clients' = [c \in Cells |-> Free] /\ flushing' = FALSE
  /\ login_info' = [a \in IPs |-> NoInfo] /\ infoState' = "ready"
  /\ ipc' = "probe" /\ at' = 1 /\ main' = TRUE /\ stop' = "up"
  /\ failedAt' = [c \in Cells |-> Never] /\ fails' = [a \in IPs |-> <<>>]
  /\ banned' = IF flushing \/ unsaved THEN banned \cap Addresses(file) ELSE banned
  /\ unsaved' = FALSE
  /\ UNCHANGED <<time, file>>
-----------------------------------------------------------------------------
IpcNext ==
  \/ Probe \/ ListenNobody \/ \E a \in IPs : Accept(a)
  \/ ReceiveSkips \/ ReceiveThrowsOut \/ ReceiveLost
  \/ \E m \in Commands \cup {None} : Receive(m)
  \/ ParseNothing \/ ParseFrozen
  \/ \E m \in Logins : LoginRefused(m) \/ LoginAgain(m)
  \/ LoginSucceeds \/ LoginWrong \/ LoginFailed \/ Logout \/ Exit \/ Other
  \/ \E a \in IPs : IpBlacklist(a) \/ IpUnblacklist(a)
  \/ FlushDone

StopNext == StopMain \/ StopUnlock \/ StopJoin \/ StopDone

Next == IpcNext \/ StopNext \/ Review \/ Tick \/ Restart

Spec == Init /\ [][Next]_vars

\* The IPC thread passes its loop as long as the server runs, and a stop that
\* was begun goes on.  Crashes and the clock are left to chance.
Fairness ==
  WF_vars(IpcNext) /\ WF_vars(stop # "up" /\ StopNext)

LiveSpec == Spec /\ Fairness
-----------------------------------------------------------------------------
\* Every variable has the type the code gives it; a cell without a client has
\* no rights and no command of the client before.
TypeOK ==
  /\ time \in Times
  /\ clients \in [Cells -> [open : BOOLEAN, ip : IPs \cup {None},
                            auth : BOOLEAN, access : {0, Admin},
                            cmd : Commands \cup {None},
                            frozen : Times \cup {Never}]]
  /\ \A e \in blacklist \cup file : e.ip \in IPs /\ e.time \in Int
  /\ \A a \in IPs : /\ login_info[a].ptr \in -1..(Tries - 1)
                    /\ DOMAIN login_info[a].times = 0..(Tries - 1)
  /\ banned \subseteq IPs /\ flushing \in BOOLEAN /\ unsaved \in BOOLEAN
  /\ infoState \in {"ready", "destroyed"} /\ at \in Cells
  /\ ipc \in {"probe", "listen", "receive", "parse", "failed", "gone"}
  /\ stop \in {"up", "main", "join", "done", "down"} /\ main \in BOOLEAN
  /\ \A c \in Cells : ~clients[c].open =>
       clients[c].access = 0 /\ clients[c].cmd = None

\* More than Tries failed logins of one address within the window do not
\* happen: what tries_before_lock and time_for_count_tries promise.
GuessesAreLimited ==
  Counting => \A a \in IPs : Len(fails[a]) > Tries =>
    fails[a][Len(fails[a])] - fails[a][Len(fails[a]) - Tries] > Window

\* What they give.  Up to two tries, that.  With more the shift of
\* add_login_stamp, whose loop has an empty body, leaves the first stamp where
\* it is, and it is a matter of the first failure only: until the window after
\* it is over there are at most Tries, whatever the review strips in between
\* and wherever the stamps beyond the room go.
AttemptsAreBounded ==
  /\ Tries =< 2 => GuessesAreLimited
  /\ Counting => \A a \in IPs :
       time - login_info[a].first =< Window => login_info[a].count =< Tries

\* An address that was blacklisted is on the list until it is taken off or its
\* time is over, through stops, crashes and whatever clients do; and it is in
\* the file, from where the next start takes it.  The exceptions are a crash
\* while the file is written and a file that cannot be opened, of which
\* flush_blacklist does not tell: what they take off the list is gone.
BlacklistIsSaved ==
  /\ banned \subseteq Addresses(blacklist)
  /\ flushing \/ unsaved \/ Addresses(blacklist) \subseteq Addresses(file)

\* After a failed login the client executes nothing until the delay is over.
FailureDelays ==
  [][\A c \in Cells :
       /\ clients[c].open /\ failedAt[c] # Never /\ failedAt'[c] = failedAt[c]
       /\ <<clients'[c].auth, clients'[c].access>>
            # <<clients[c].auth, clients[c].access>>
       => time - failedAt[c] > Freeze]_vars

\* A client whose address is blacklisted does not stay: it is thrown out
\* unless its address is taken off the list or the entry expires.
BlacklistedLeave ==
  \A c \in Cells : \A a \in IPs :
    (clients[c].open /\ clients[c].ip = a /\ Listed(a))
      ~> (~clients[c].open \/ ~Listed(a))

=============================================================================
