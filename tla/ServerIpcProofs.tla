-------------------------- MODULE ServerIpcProofs ---------------------------
(***************************************************************************)
(* Proofs about ServerIpc, for any number of addresses and cells, any      *)
(* windows and any error of the clock that reading the file makes.         *)
(***************************************************************************)
EXTENDS ServerIpc, TLAPS, WellFoundedInduction, NaturalsInduction

Client == [open : BOOLEAN, ip : IPs \cup {None}, auth : BOOLEAN,
           access : {0, Admin}, cmd : Commands \cup {None},
           frozen : Times \cup {Never}]
Info == [times : [0..(Tries - 1) -> Int], ptr : -1..(Tries - 1),
         first : Int, count : 0..(Tries + 1)]
Entry == [ip : IPs, time : Int]
Points == {"probe", "listen", "receive", "parse", "failed", "gone"}

\* The types, stronger than TypeOK: stamps are numbers, entries are records.
Types ==
  /\ time \in Times /\ clients \in [Cells -> Client]
  /\ blacklist \subseteq Entry /\ file \subseteq Entry /\ flushing \in BOOLEAN
  /\ unsaved \in BOOLEAN
  /\ login_info \in [IPs -> Info] /\ infoState \in {"ready", "destroyed"}
  /\ ipc \in Points /\ at \in Cells /\ main \in BOOLEAN
  /\ stop \in {"up", "main", "join", "done", "down"}
  /\ failedAt \in [Cells -> Times \cup {Never}]
  /\ fails \in [IPs -> Seq(Times)]

\* The cells whose command is still to be executed.
Pending == CASE ipc = "receive" -> 1..(at - 1)
             [] ipc \in {"parse", "failed"} -> at..MaxClients
             [] OTHER -> {}

\* A client has an address.  A cell without one has no rights, and no cell
\* has a command but those the loop has yet to come to.
CellInv(c) ==
  /\ clients[c].open => clients[c].ip \in IPs
  /\ ~clients[c].open => clients[c].access = 0 /\ clients[c].cmd = None
  /\ clients[c].cmd # None => c \in Pending

\* A failed login is remembered in the flag, or the delay is over.
DelayInv(c) ==
  failedAt[c] # Never =>
    clients[c].frozen = failedAt[c] \/ time - failedAt[c] > Freeze

\* Between the check and the stamp the client is there, and is allowed.
Late(info) == info.ptr = Tries - 1 => time - info.times[0] > Window

FailedInv ==
  /\ ipc = "failed" => Me.open /\ (Counting => Late(login_info[Me.ip]))
  /\ stop \in {"done", "down"} => ipc = "gone"

\* The failures of an address, in order.
Ordered(s, t) == /\ Len(s) =< Tries + 1
                 /\ \A i \in 1..Len(s) : s[i] =< t
                 /\ \A i, j \in 1..Len(s) : i < j => s[i] =< s[j]

\* The stamps are the last failures; those without a stamp are long ago.
Stamped(info, s, t) ==
  LET n == Len(s) IN
  /\ info.ptr < n
  /\ \A i \in 0..info.ptr : info.times[i] = s[n - info.ptr + i]
  /\ n > info.ptr + 1 => t - s[n - info.ptr - 1] > Window
  /\ n > Tries => s[n] - s[n - Tries] > Window

\* The first stamp is not older than the first failure, and a failure too
\* many is long after it.
Streak(info, t) ==
  /\ info.ptr < Tries - 1 => info.count = info.ptr + 1
  /\ info.ptr >= 0 => /\ info.count > 0 /\ info.first =< t
                      /\ info.first =< info.times[0]
  /\ Tries = 2 /\ info.ptr = 1 => info.first =< info.times[1]
  /\ info.count > Tries => t - info.first > Window

LoginInv(a) ==
  /\ Ordered(fails[a], time)
  /\ Counting => /\ Streak(login_info[a], time)
                 /\ Tries =< 2 => Stamped(login_info[a], fails[a], time)

IInv == /\ Types /\ FailedInv /\ BlacklistIsSaved
        /\ \A c \in Cells : CellInv(c) /\ DelayInv(c)
        /\ \A a \in IPs : LoginInv(a)
-----------------------------------------------------------------------------
(* The operators of the model.                                             *)

\* What disconnecting, connecting and thawing leave of a client.
LEMMA ClientOps ==
  ASSUME NEW client \in Client, time \in Times
  PROVE  /\ Disconnected(client) \in Client /\ Thawed(client) \in Client
         /\ \A a \in IPs : Connected(client, a) \in Client
         /\ ~Disconnected(client).open /\ Disconnected(client).access = 0
         /\ Disconnected(client).cmd = client.cmd
         /\ Disconnected(client).frozen = client.frozen
         /\ Thawed(client).open = client.open /\ Thawed(client).ip = client.ip
         /\ Thawed(client).auth = client.auth
         /\ Thawed(client).access = client.access /\ Thawed(client).cmd = None
         /\ Frozen(client) => Thawed(client).frozen = client.frozen
         /\ \A a \in IPs : /\ Connected(client, a).open
                           /\ Connected(client, a).ip = a
                           /\ Connected(client, a).cmd = client.cmd
  BY DEF Client, Disconnected, Thawed, Connected

\* What the handlers write into the record of a client.
LEMMA ClientEdits ==
  ASSUME NEW client \in Client
  PROVE  /\ \A m \in Commands \cup {None} :
              [client EXCEPT !.cmd = m] \in Client
         /\ \A t \in Times : [client EXCEPT !.frozen = t] \in Client
         /\ [client EXCEPT !.auth = TRUE, !.access = Admin] \in Client
         /\ [client EXCEPT !.auth = FALSE, !.access = 0] \in Client
  BY DEF Client

\* The loop over the cells stays within them.
LEMMA PassTypes ==
  ASSUME Types, NEW from, NEW loop \in Points, NEW to \in Points,
         PassFrom(from, loop, to)
  PROVE  ipc' \in Points /\ at' \in Cells
  BY IpcAssumption DEF PassFrom, Step, Types, Cells

\* The cell a new client gets is free.
LEMMA FirstFreeIsFree ==
  ASSUME Types, FreeCells # {}
  PROVE  FirstFree \in FreeCells /\ FirstFree \in Cells
<1> USE IpcAssumption
<1>1. FreeCells \subseteq Cells
  BY DEF FreeCells
<1>2. \E c \in FreeCells : \A d \in FreeCells : c =< d
  <2>1. FreeCells \subseteq Nat
    BY <1>1 DEF Cells
  <2>2. IsWellFoundedOn(OpToRel(<, Nat), Nat)
    BY NatLessThanWellFounded
  <2>3. PICK c \in FreeCells : \A d \in FreeCells : <<d, c>> \notin OpToRel(<, Nat)
    BY <2>1, <2>2, WFMin
  <2>4. \A d \in FreeCells : ~(d < c)
    BY <2>1, <2>3 DEF OpToRel
  <2> QED
    BY <2>1, <2>4
<1> QED
  BY <1>1, <1>2 DEF FirstFree

\* A stamp array stays one when stamps are shifted, and has a last stamp.
LEMMA ShiftedIsInfo ==
  ASSUME NEW info \in Info, Counting
  PROVE  /\ Shifted(info) \in Info /\ Shifted(info).ptr \in 0..(Tries - 1)
         /\ Shifted(info).first = info.first /\ Shifted(info).count = info.count
         /\ Tries # 2 => Shifted(info).times[0] = info.times[0]
         /\ info.ptr < Tries - 1 => /\ Shifted(info).ptr = info.ptr + 1
                                    /\ Shifted(info).times = info.times
         /\ info.ptr = Tries - 1 => Shifted(info).ptr = info.ptr
         /\ info.ptr = Tries - 1 /\ Tries = 2 =>
              Shifted(info).times[0] = info.times[1]
<1> USE IpcAssumption DEF Counting
<1>1. CASE info.ptr < Tries - 1
  <2>1. Shifted(info) = [info EXCEPT !.ptr = info.ptr + 1]
    BY <1>1 DEF Shifted
  <2>2. info.ptr + 1 \in 0..(Tries - 1)
    BY <1>1 DEF Info
  <2>3. Shifted(info) = [times |-> info.times, ptr |-> info.ptr + 1,
                         first |-> info.first, count |-> info.count]
    BY <2>1 DEF Info
  <2>4. Shifted(info) \in Info
    BY <2>2, <2>3 DEF Info
  <2> QED
    BY <1>1, <2>2, <2>3, <2>4
<1>2. CASE info.ptr = Tries - 1 /\ Tries = 1
  BY <1>2 DEF Info, Shifted
<1>3. CASE info.ptr = Tries - 1 /\ Tries # 1
  <2> DEFINE i == IF info.ptr > 1 THEN info.ptr - 1 ELSE 0
  <2>1. i \in 0..(Tries - 1) /\ i + 1 \in 0..(Tries - 1)
    BY <1>3 DEF Info
  <2>2. Shifted(info) = [info EXCEPT !.times[i] = info.times[i + 1]]
    BY <1>3 DEF Shifted, Info
  <2> DEFINE new == [info.times EXCEPT ![i] = info.times[i + 1]]
  <2>5. new \in [0..(Tries - 1) -> Int]
    BY <2>1 DEF Info
  <2>6. Shifted(info) = [times |-> new, ptr |-> info.ptr, first |-> info.first,
                         count |-> info.count]
    BY <2>2 DEF Info
  <2>3. /\ Shifted(info) \in Info /\ Shifted(info).ptr = info.ptr
        /\ Shifted(info).first = info.first /\ Shifted(info).count = info.count
    BY <2>5, <2>6 DEF Info
  <2>7. Tries # 2 => Shifted(info).times[0] = info.times[0]
    BY <1>3, <2>1, <2>6 DEF Info
  <2>4. Tries = 2 => Shifted(info).times[0] = info.times[1]
    BY <1>3, <2>1, <2>2 DEF Info
  <2> QED
    BY <1>3, <2>3, <2>4, <2>7 DEF Info
<1> QED
  BY <1>1, <1>2, <1>3 DEF Info

\* No stamps at all, and stripping.
LEMMA NoInfoIsInfo == NoInfo \in Info /\ NoInfo.ptr = -1
BY IpcAssumption DEF NoInfo, Info, Never

\* What the review leaves of the login stamps are login stamps.
LEMMA StrippedIsInfo ==
  ASSUME Types
  PROVE  Stripped \in [IPs -> Info]
BY NoInfoIsInfo DEF Stripped, Types
\* A cell without a client is a record of a client.
LEMMA FreeIsClient == Free \in Client
BY DEF Free, Client

\* Writing the last stamp.
LEMMA StampIsInfo ==
  ASSUME NEW info \in Info, NEW times \in [0..(Tries - 1) -> Int], time \in Times
  PROVE  Stamp(info, times) \in Info
BY IpcAssumption DEF Stamp, Info, Times

\* What add_login_stamp writes for the address itself, and for others.
LEMMA StampSteps ==
  ASSUME Types, NEW a \in IPs, Counting, add_login_stamp(a)
  PROVE  LET info == Shifted(login_info[a]) IN
         /\ login_info' \in [IPs -> Info]
         /\ \E times \in [0..(Tries - 1) -> Int] :
              /\ login_info'[a] = Stamp(info, times)
              /\ \A i \in 0..(Tries - 1) : i < Room =>
                   times[i] = IF i = info.ptr THEN time ELSE info.times[i]
         /\ \A b \in IPs \ {a} :
              \/ login_info'[b] = login_info[b]
              \/ /\ Tries > Room /\ login_info[b].ptr >= 0
                 /\ login_info'[b] = [login_info[b] EXCEPT !.times[0] = time]
<1> USE IpcAssumption
<1> DEFINE info == Shifted(login_info[a])
           times == [info.times EXCEPT ![info.ptr] = time]
<1>1. info \in Info /\ info.ptr \in 0..(Tries - 1) /\ time \in Int
  BY ShiftedIsInfo DEF Types, Times
<1>2. times \in [0..(Tries - 1) -> Int] /\ DOMAIN times = 0..(Tries - 1)
  BY <1>1 DEF Info
<1>3. \A i \in 0..(Tries - 1) : times[i] = IF i = info.ptr THEN time ELSE info.times[i]
  BY <1>1 DEF Info
<1>4. CASE info.ptr < Room
  <2>1. login_info' = [login_info EXCEPT ![a] = Stamp(info, times)]
    BY <1>4 DEF add_login_stamp
  <2>2. Stamp(info, times) \in Info
    BY <1>1, <1>2, StampIsInfo DEF Types
  <2> HIDE DEF info, times
  <2>3. login_info' \in [IPs -> Info] /\ login_info'[a] = Stamp(info, times)
    BY <2>1, <2>2 DEF Types
  <2>4. \A b \in IPs \ {a} : login_info'[b] = login_info[b]
    BY <2>1 DEF Types
  <2> QED
    BY <1>2, <1>3, <2>3, <2>4 DEF info
<1>5. CASE info.ptr >= Room
  <2>1. PICK there \in [Room..(Tries - 1) -> Times \cup {Never}],
             hit \in SUBSET {b \in IPs \ {a} : login_info[b].ptr >= 0} :
          login_info' = [b \in IPs |->
            IF b = a THEN Stamp(info, Spilt(times, there))
            ELSE IF b \in hit THEN [login_info[b] EXCEPT !.times[0] = time]
            ELSE login_info[b]]
    <3>1. ~(info.ptr < Room)
      BY <1>1, <1>5 DEF Room
    <3> QED
      BY <3>1, Zenon DEF add_login_stamp
  <2> DEFINE new == Spilt(times, there)
  <2>2. Room = 3 /\ Tries > Room
    BY <1>1, <1>5 DEF Room
  <2>3. ASSUME NEW i \in 0..(Tries - 1), i >= Room PROVE there[i] \in Int
    BY <2>2, <2>3 DEF Times, Never
  <2>4. new \in [0..(Tries - 1) -> Int]
    BY <1>2, <2>2, <2>3 DEF Spilt
  <2>5. \A i \in 0..(Tries - 1) : i < Room => new[i] = times[i]
    BY <1>2 DEF Spilt
  <2>6. Stamp(info, new) \in Info
    BY <1>1, <2>4, StampIsInfo DEF Types
  <2>7. ASSUME NEW b \in IPs PROVE [login_info[b] EXCEPT !.times[0] = time] \in Info
    <3>1. login_info[b] \in Info /\ 0 \in 0..(Tries - 1)
      BY <2>2 DEF Types
    <3>2. [login_info[b].times EXCEPT ![0] = time] \in [0..(Tries - 1) -> Int]
      BY <1>1, <3>1 DEF Info
    <3> QED
      BY <3>1, <3>2 DEF Info
  <2> HIDE DEF info, times, new
  <2>8. login_info' \in [IPs -> Info] /\ login_info'[a] = Stamp(info, new)
    BY <2>1, <2>6, <2>7 DEF Types, new
  <2>9. \A b \in IPs \ {a} :
          \/ login_info'[b] = login_info[b]
          \/ /\ login_info[b].ptr >= 0
             /\ login_info'[b] = [login_info[b] EXCEPT !.times[0] = time]
    BY <2>1
  <2>10. \A i \in 0..(Tries - 1) : i < Room =>
           new[i] = IF i = info.ptr THEN time ELSE info.times[i]
    BY <1>3, <2>5
  <2> QED
    BY <2>2, <2>4, <2>8, <2>9, <2>10 DEF info
<1>6. info.ptr < Room \/ info.ptr >= Room
  BY <1>1 DEF Room
<1> QED
  BY <1>4, <1>5, <1>6

\* What is put on the blacklist is an entry.
LEMMA BlacklistTypes ==
  ASSUME Types, NEW a \in IPs, ipc_blacklist_ip(a)
  PROVE  /\ blacklist' \subseteq Entry /\ file' \subseteq Entry
         /\ flushing' \in BOOLEAN /\ unsaved' \in BOOLEAN
<1>1. [ip |-> a, time |-> time] \in Entry
  BY DEF Types, Times, Entry
<1>2. blacklist' \subseteq Entry
  BY <1>1 DEF ipc_blacklist_ip, Types
<1> QED
  BY <1>2 DEF ipc_blacklist_ip, flush_blacklist, Types

\* The history of an address is a sequence of times.
LEMMA RememberedIsSeq ==
  ASSUME NEW s \in Seq(Times), time \in Times
  PROVE  Remembered(s) \in Seq(Times)
<1>1. Append(s, time) \in Seq(Times) /\ Len(Append(s, time)) = Len(s) + 1
  OBVIOUS
<1>2. Append(s, time) # <<>> => Tail(Append(s, time)) \in Seq(Times)
  BY <1>1
<1>3. Append(s, time) # <<>>
  <2>1. Len(s) + 1 # 0 /\ Len(<<>>) = 0
    OBVIOUS
  <2> QED
    BY <1>1, <2>1
<1> QED
  BY <1>1, <1>2, <1>3 DEF Remembered
-----------------------------------------------------------------------------
(* The steps.                                                              *)

\* What a step does to the stamps.
LEMMA LoginSteps ==
  ASSUME [Next]_vars
  PROVE  \/ UNCHANGED <<time, login_info, fails>>
         \/ Tick
         \/ login_info' = Stripped /\ UNCHANGED <<time, fails>>
         \/ LoginSucceeds \/ LoginFailed \/ Restart
BY DEF Next, IpcNext, StopNext, Probe, ListenNobody, Accept, ReceiveSkips,
   ReceiveThrowsOut, ReceiveLost, Receive, ParseNothing, ParseFrozen,
   LoginRefused, LoginAgain, LoginWrong, Logout, Exit, Other, IpBlacklist,
   IpUnblacklist, FlushDone, StopMain, StopUnlock, StopJoin, StopDone, Review,
   vars, netVars, listVars, threadVars, histVars

\* What a step does to the blacklist and its file.
LEMMA ListSteps ==
  ASSUME [Next]_vars, \A c \in Cells : CellInv(c), Types
  PROVE  \/ UNCHANGED listVars
         \/ Overviewed
         \/ \E a \in IPs : ipc_blacklist_ip(a)
         \/ \E a \in IPs : ipc_unblacklist_ip(a) /\ ~flushing
         \/ FlushDone \/ Restart
<1>1. ASSUME NEW m \in Logins, LoginRefused(m)
      PROVE  UNCHANGED listVars \/ \E a \in IPs : ipc_blacklist_ip(a)
  BY <1>1 DEF LoginRefused, Executes, Me, CellInv, Types
<1> QED
  BY <1>1 DEF Next, IpcNext, StopNext, Pass, PassFrom, Step, Probe,
     ListenNobody, Accept, ReceiveSkips, ReceiveThrowsOut, ReceiveLost, Receive,
     ParseNothing, ParseFrozen, LoginAgain, LoginSucceeds, LoginWrong,
     LoginFailed, Logout, Exit, Other, IpBlacklist, IpUnblacklist, StopMain,
     StopUnlock, StopJoin, StopDone, Review, Tick, vars, netVars, listVars, threadVars,
     histVars

\* Every step keeps the types.
LEMMA TypesKept ==
  ASSUME Types, FailedInv, \A c \in Cells : CellInv(c), [Next]_vars
  PROVE  Types'
<1> USE IpcAssumption
<1>0. CASE UNCHANGED vars
  BY <1>0 DEF vars, netVars, listVars, threadVars, histVars, Types
<1>1. CASE Probe
  BY <1>1 DEF Probe, Types, Points, vars, netVars, listVars, threadVars, histVars, Step
<1>2. CASE ListenNobody
  BY <1>2 DEF ListenNobody, Step, Cells, Types, vars, netVars, listVars, threadVars,
     histVars, Points
<1>3. ASSUME NEW a \in IPs, Accept(a) PROVE Types'
  <2>1. /\ blacklist' \subseteq Entry /\ file' \subseteq Entry /\ flushing' \in BOOLEAN
        /\ unsaved' \in BOOLEAN
    BY <1>3 DEF Accept, Overviewed, Unexpired, flush_blacklist, Types
  <2>2. clients' \in [Cells -> Client] /\ failedAt' \in [Cells -> Times \cup {Never}]
    <3>1. CASE Listed(a) \/ FreeCells = {}
      BY <1>3, <3>1 DEF Accept, Types
    <3>2. CASE ~(Listed(a) \/ FreeCells = {})
      <4>1. FirstFree \in Cells
        BY <3>2, FirstFreeIsFree
      <4>2. Connected(clients[FirstFree], a) \in Client
        BY <4>1, ClientOps DEF Types
      <4> QED
        BY <1>3, <3>2, <4>1, <4>2 DEF Accept, Types
    <3> QED
      BY <3>1, <3>2
  <2> QED
    BY <1>3, <2>1, <2>2 DEF Accept, Step, Types, Cells, Points
<1>4. CASE ReceiveSkips
  BY <1>4, PassTypes DEF ReceiveSkips, Pass, Types, vars, netVars, listVars, threadVars,
     histVars, Points
<1>5. CASE ReceiveThrowsOut
  <2>1. ipc' \in Points /\ at' \in Cells
    BY <1>5, PassTypes DEF ReceiveThrowsOut, Pass, Points
  <2>2. clients' \in [Cells -> Client] /\ failedAt' \in [Cells -> Times \cup {Never}]
    BY <1>5, ClientOps DEF ReceiveThrowsOut, ipc_disconnect_client, Types
  <2>3. /\ blacklist' \subseteq Entry /\ file' \subseteq Entry /\ flushing' \in BOOLEAN
        /\ unsaved' \in BOOLEAN
    BY <1>5 DEF ReceiveThrowsOut, Overviewed, Unexpired, flush_blacklist, Types
  <2> QED
    BY <1>5, <2>1, <2>2, <2>3 DEF ReceiveThrowsOut, netVars, listVars, histVars, Types
<1>6. CASE ReceiveLost
  <2>1. ipc' \in Points /\ at' \in Cells
    BY <1>6, PassTypes DEF ReceiveLost, Pass, Points
  <2>2. clients' \in [Cells -> Client] /\ failedAt' \in [Cells -> Times \cup {Never}]
    BY <1>6, ClientOps DEF ReceiveLost, ipc_disconnect_client, Types
  <2>3. /\ blacklist' \subseteq Entry /\ file' \subseteq Entry /\ flushing' \in BOOLEAN
        /\ unsaved' \in BOOLEAN
    BY <1>6 DEF ReceiveLost, Overviewed, Unexpired, flush_blacklist, Types
  <2> QED
    BY <1>6, <2>1, <2>2, <2>3 DEF ReceiveLost, netVars, listVars, histVars, Types
<1>7. ASSUME NEW m \in Commands \cup {None}, Receive(m) PROVE Types'
  <2>1. ipc' \in Points /\ at' \in Cells
    BY <1>7, PassTypes DEF Receive, Pass, Points
  <2>6. [clients[at] EXCEPT !.cmd = m] \in Client
    BY ClientOps, ClientEdits DEF Types, Commands
  <2>2. clients' \in [Cells -> Client] /\ failedAt' \in [Cells -> Times \cup {Never}]
    BY <1>7, <2>6 DEF Receive, histVars, Types
  <2>3. /\ blacklist' \subseteq Entry /\ file' \subseteq Entry /\ flushing' \in BOOLEAN
        /\ unsaved' \in BOOLEAN
    BY <1>7 DEF Receive, Overviewed, Unexpired, flush_blacklist, Types
  <2> QED
    BY <1>7, <2>1, <2>2, <2>3 DEF Receive, netVars, listVars, histVars, Types
<1>8. CASE ParseNothing
  BY <1>8, PassTypes DEF ParseNothing, Pass, Types, vars, netVars, listVars, threadVars,
     histVars, Points
<1>9. CASE ParseFrozen
  <2>1. ipc' \in Points /\ at' \in Cells
    BY <1>9, PassTypes DEF ParseFrozen, Pass, Points
  <2>6. [clients[at] EXCEPT !.cmd = None] \in Client
    BY ClientOps, ClientEdits DEF Types, Commands
  <2>2. clients' \in [Cells -> Client] /\ failedAt' \in [Cells -> Times \cup {Never}]
    BY <1>9, <2>6 DEF ParseFrozen, histVars, Types
  <2> QED
    BY <1>9, <2>1, <2>2 DEF ParseFrozen, netVars, listVars, histVars, Types
<1>10. ASSUME NEW m \in Logins, LoginRefused(m) PROVE Types'
  <2>1. ipc' \in Points /\ at' \in Cells
    BY <1>10, PassTypes DEF LoginRefused, Pass, Points
  <2>5. Me.ip \in IPs
    BY <1>10 DEF LoginRefused, Executes, Me, CellInv, Types
  <2>6. Disconnected(Thawed(clients[at])) \in Client
    BY ClientOps, ClientEdits DEF Types, Commands
  <2>2. clients' \in [Cells -> Client] /\ failedAt' \in [Cells -> Times \cup {Never}]
    BY <1>10, <2>6 DEF LoginRefused, histVars, Types
  <2>3. /\ blacklist' \subseteq Entry /\ file' \subseteq Entry /\ flushing' \in BOOLEAN
        /\ unsaved' \in BOOLEAN
    <3>1. CASE OnTries
      BY <1>10, <2>5, <3>1, BlacklistTypes DEF LoginRefused
    <3>2. CASE ~OnTries
      BY <1>10, <3>2 DEF LoginRefused, listVars, Types
    <3> QED
      BY <3>1, <3>2
  <2>4. login_info' \in [IPs -> Info] /\ fails' \in [IPs -> Seq(Times)]
    BY <1>10, StrippedIsInfo DEF LoginRefused, histVars, Types
  <2> QED
    BY <1>10, <2>1, <2>2, <2>3, <2>4 DEF LoginRefused, netVars, listVars, histVars, Types
<1>11. ASSUME NEW m \in Logins, LoginAgain(m) PROVE Types'
  <2>1. ipc' \in Points /\ at' \in Cells
    BY <1>11, PassTypes DEF LoginAgain, Pass, Points
  <2>6. Thawed(clients[at]) \in Client
    BY ClientOps, ClientEdits DEF Types, Commands
  <2>2. clients' \in [Cells -> Client] /\ failedAt' \in [Cells -> Times \cup {Never}]
    BY <1>11, <2>6 DEF LoginAgain, histVars, Types
  <2>4. login_info' \in [IPs -> Info] /\ fails' \in [IPs -> Seq(Times)]
    BY <1>11, StrippedIsInfo DEF LoginAgain, histVars, Types
  <2> QED
    BY <1>11, <2>1, <2>2, <2>4 DEF LoginAgain, netVars, listVars, histVars, Types
<1>12. CASE LoginSucceeds
  <2>1. ipc' \in Points /\ at' \in Cells
    BY <1>12, PassTypes DEF LoginSucceeds, Pass, Points
  <2>5. Me.ip \in IPs
    BY <1>12 DEF LoginSucceeds, Executes, Me, CellInv, Types
  <2>6. [Thawed(clients[at]) EXCEPT !.auth = TRUE, !.access = Admin] \in Client
    BY ClientOps, ClientEdits DEF Types, Commands
  <2>2. clients' \in [Cells -> Client] /\ failedAt' \in [Cells -> Times \cup {Never}]
    BY <1>12, <2>6 DEF LoginSucceeds, histVars, Types
  <2>4. login_info' \in [IPs -> Info] /\ fails' \in [IPs -> Seq(Times)]
    BY <1>12, <2>5, StrippedIsInfo, NoInfoIsInfo DEF LoginSucceeds, histVars, Types
  <2> QED
    BY <1>12, <2>1, <2>2, <2>4 DEF LoginSucceeds, netVars, listVars, histVars, Types
<1>13. CASE LoginWrong
  BY <1>13, StrippedIsInfo DEF LoginWrong, Step, Points, vars, netVars, listVars,
     threadVars, histVars, Types
<1>14. CASE LoginFailed
  <2>1. ipc' \in Points /\ at' \in Cells
    BY <1>14, PassTypes DEF LoginFailed, Points
  <2>2. Me.ip \in IPs
    BY <1>14 DEF LoginFailed, PassFrom, Step, FailedInv, CellInv, Me, Types
  <2>3. [Thawed(clients[at]) EXCEPT !.frozen = time] \in Client
    BY ClientOps, ClientEdits DEF Types
  <2>6. login_info' \in [IPs -> Info]
    <3>1. CASE Counting
      BY <1>14, <2>2, <3>1, StampSteps DEF LoginFailed
    <3>2. CASE ~Counting
      BY <1>14, <3>2 DEF LoginFailed, add_login_stamp, Types
    <3> QED
      BY <3>1, <3>2
  <2>7. Remembered(fails[Me.ip]) \in Seq(Times)
    BY <2>2, RememberedIsSeq DEF Types
  <2>8. clients' \in [Cells -> Client] /\ failedAt' \in [Cells -> Times \cup {Never}]
    BY <1>14, <2>3 DEF LoginFailed, Types
  <2>9. fails' \in [IPs -> Seq(Times)]
    BY <1>14, <2>2, <2>7 DEF LoginFailed, Types
  <2> QED
    BY <1>14, <2>1, <2>6, <2>8, <2>9 DEF LoginFailed, listVars, Types
<1>15. CASE Logout
  <2>1. ipc' \in Points /\ at' \in Cells
    BY <1>15, PassTypes DEF Logout, Pass, Points
  <2>6. [Thawed(clients[at]) EXCEPT !.auth = FALSE, !.access = 0] \in Client
    BY ClientOps, ClientEdits DEF Types, Commands
  <2>2. clients' \in [Cells -> Client] /\ failedAt' \in [Cells -> Times \cup {Never}]
    BY <1>15, <2>6 DEF Logout, histVars, Types
  <2> QED
    BY <1>15, <2>1, <2>2 DEF Logout, netVars, listVars, histVars, Types
<1>16. CASE Exit
  <2>1. ipc' \in Points /\ at' \in Cells
    BY <1>16, PassTypes DEF Exit, Pass, Points
  <2>6. Disconnected(Thawed(clients[at])) \in Client
    BY ClientOps, ClientEdits DEF Types, Commands
  <2>2. clients' \in [Cells -> Client] /\ failedAt' \in [Cells -> Times \cup {Never}]
    BY <1>16, <2>6 DEF Exit, histVars, Types
  <2> QED
    BY <1>16, <2>1, <2>2 DEF Exit, netVars, listVars, histVars, Types
<1>17. CASE Other
  <2>1. ipc' \in Points /\ at' \in Cells
    BY <1>17, PassTypes DEF Other, Pass, Points
  <2>6. Thawed(clients[at]) \in Client
    BY ClientOps, ClientEdits DEF Types, Commands
  <2>2. clients' \in [Cells -> Client] /\ failedAt' \in [Cells -> Times \cup {Never}]
    BY <1>17, <2>6 DEF Other, histVars, Types
  <2> QED
    BY <1>17, <2>1, <2>2 DEF Other, netVars, listVars, histVars, Types
<1>18. ASSUME NEW a \in IPs, IpBlacklist(a) PROVE Types'
  <2>1. ipc' \in Points /\ at' \in Cells
    BY <1>18, PassTypes DEF IpBlacklist, Pass, Points
  <2>6. Thawed(clients[at]) \in Client
    BY ClientOps, ClientEdits DEF Types, Commands
  <2>2. clients' \in [Cells -> Client] /\ failedAt' \in [Cells -> Times \cup {Never}]
    BY <1>18, <2>6 DEF IpBlacklist, histVars, Types
  <2>3. /\ blacklist' \subseteq Entry /\ file' \subseteq Entry /\ flushing' \in BOOLEAN
        /\ unsaved' \in BOOLEAN
    BY <1>18, BlacklistTypes DEF IpBlacklist
  <2> QED
    BY <1>18, <2>1, <2>2, <2>3 DEF IpBlacklist, netVars, listVars, histVars, Types
<1>19. ASSUME NEW a \in IPs, IpUnblacklist(a) PROVE Types'
  <2>1. ipc' \in Points /\ at' \in Cells
    BY <1>19, PassTypes DEF IpUnblacklist, Pass, Points
  <2>6. Thawed(clients[at]) \in Client
    BY ClientOps, ClientEdits DEF Types, Commands
  <2>2. clients' \in [Cells -> Client] /\ failedAt' \in [Cells -> Times \cup {Never}]
    BY <1>19, <2>6 DEF IpUnblacklist, histVars, Types
  <2>3. /\ blacklist' \subseteq Entry /\ file' \subseteq Entry /\ flushing' \in BOOLEAN
        /\ unsaved' \in BOOLEAN
    BY <1>19 DEF IpUnblacklist, ipc_unblacklist_ip, Types
  <2> QED
    BY <1>19, <2>1, <2>2, <2>3 DEF IpUnblacklist, netVars, listVars, histVars, Types
<1>20. CASE FlushDone
  BY <1>20 DEF FlushDone, Types, Points, vars, netVars, listVars, threadVars, histVars, Step
<1>21. CASE StopMain
  BY <1>21 DEF StopMain, Types, Points, vars, netVars, listVars, threadVars, histVars, Step
<1>22. CASE StopUnlock
  BY <1>22 DEF StopUnlock, Types, Points, vars, netVars, listVars, threadVars, histVars, Step
<1>23. CASE StopJoin
  BY <1>23 DEF StopJoin, Types, Points, vars, netVars, listVars, threadVars, histVars, Step
<1>24. CASE StopDone
  BY <1>24, FreeIsClient DEF StopDone, listVars, Types, Points
<1>25. CASE Review
  BY <1>25, StrippedIsInfo DEF Review, vars, netVars, listVars, threadVars, histVars, Types
<1>26. CASE Tick
  BY <1>26 DEF Tick, Types, Times, vars, netVars, listVars, threadVars, histVars
<1>27. CASE Restart
  <2>1. PICK skew \in Skews : blacklist' = {[e EXCEPT !.time = @ + skew] : e \in file}
    BY <1>27 DEF Restart
  <2>2. \A e \in Entry : [e EXCEPT !.time = @ + skew] \in Entry
    BY DEF Entry
  <2>3. blacklist' \subseteq Entry
    BY <2>1, <2>2 DEF Types
  <2>4. fails' \in [IPs -> Seq(Times)] /\ login_info' \in [IPs -> Info]
    BY <1>27, NoInfoIsInfo DEF Restart
  <2>5. /\ clients' \in [Cells -> Client] /\ at' \in Cells
        /\ failedAt' \in [Cells -> Times \cup {Never}]
    BY <1>27, FreeIsClient DEF Restart, Cells
  <2> QED
    BY <1>27, <2>3, <2>4, <2>5 DEF Restart, Types, Points
<1> QED
  BY <1>1, <1>2, <1>3, <1>4, <1>5, <1>6, <1>7, <1>8, <1>9, <1>10, <1>11, <1>12,
     <1>13, <1>14, <1>15, <1>16, <1>17, <1>18, <1>19, <1>20, <1>21, <1>22,
     <1>23, <1>24, <1>25, <1>26, <1>27, <1>0 DEF Next, IpcNext, StopNext

\* Every step keeps the commands where the loop expects them.
LEMMA CellKept ==
  ASSUME Types, FailedInv, [Next]_vars, NEW c \in Cells, CellInv(c)
  PROVE  CellInv(c)'
<1> USE IpcAssumption
<1>0. CASE UNCHANGED vars
  BY <1>0 DEF vars, netVars, listVars, threadVars, CellInv, Pending
<1>1. CASE Probe
  BY <1>1 DEF Probe, Pass, PassFrom, Step, CellInv, Pending, Types, Cells, Me,
     vars, netVars, listVars, threadVars, histVars
<1>2. CASE ListenNobody
  BY <1>2 DEF ListenNobody, Pass, PassFrom, Step, CellInv, Pending, Types,
     Cells, Me, vars, netVars, listVars, threadVars, histVars
<1>3. ASSUME NEW a \in IPs, Accept(a) PROVE CellInv(c)'
  <2>1. CASE Listed(a) \/ FreeCells = {}
    BY <1>3, <2>1 DEF Accept, Step, CellInv, Pending
  <2>2. CASE ~(Listed(a) \/ FreeCells = {})
    <3>1. FirstFree \in Cells /\ ~clients[FirstFree].open
      BY <2>2, FirstFreeIsFree DEF FreeCells
    <3>2. clients[c] \in Client
      BY DEF Types
    <3>3. clients'[c] = IF c = FirstFree THEN Connected(clients[c], a) ELSE clients[c]
      BY <1>3, <2>2, <3>1 DEF Accept, Types
    <3>4. CASE c = FirstFree
      <4> DEFINE client == Connected(clients[c], a)
      <4>1. client.open /\ client.ip = a /\ client.cmd = clients[c].cmd
        BY <3>2 DEF Connected, Client
      <4>2. clients[c].cmd = None /\ clients'[c] = client
        BY <3>1, <3>3, <3>4 DEF CellInv
      <4> QED
        BY <4>1, <4>2 DEF CellInv
    <3>5. CASE c # FirstFree
      BY <1>3, <3>3, <3>5 DEF Accept, Step, CellInv, Pending
    <3> QED
      BY <3>4, <3>5
  <2> QED
    BY <2>1, <2>2
<1>4. CASE ReceiveSkips
  BY <1>4 DEF ReceiveSkips, Pass, PassFrom, Step, CellInv, Pending, Types,
     Cells, Me, vars, netVars, listVars, threadVars, histVars
<1>5. CASE ReceiveThrowsOut
  <2>1. clients'[c] = IF c = at THEN Disconnected(clients[c]) ELSE clients[c]
    BY <1>5 DEF ReceiveThrowsOut, ipc_disconnect_client, Types
  <2>2. clients[at] \in Client /\ Thawed(clients[at]) \in Client
    BY ClientOps DEF Types
  <2>3. CASE c = at
    BY <1>5, <2>1, <2>2, <2>3, ClientOps DEF ReceiveThrowsOut, Executes, Pass,
       PassFrom, Step, CellInv, Pending, Types, Cells, Me
  <2>4. CASE c # at
    BY <1>5, <2>1, <2>4 DEF ReceiveThrowsOut, Pass, PassFrom, Step, CellInv,
       Pending, Types, Cells
  <2> QED
    BY <2>3, <2>4
<1>6. CASE ReceiveLost
  <2>1. clients'[c] = IF c = at THEN Disconnected(clients[c]) ELSE clients[c]
    BY <1>6 DEF ReceiveLost, ipc_disconnect_client, Types
  <2>2. clients[at] \in Client /\ Thawed(clients[at]) \in Client
    BY ClientOps DEF Types
  <2>3. CASE c = at
    BY <1>6, <2>1, <2>2, <2>3, ClientOps DEF ReceiveLost, Executes, Pass,
       PassFrom, Step, CellInv, Pending, Types, Cells, Me
  <2>4. CASE c # at
    BY <1>6, <2>1, <2>4 DEF ReceiveLost, Pass, PassFrom, Step, CellInv,
       Pending, Types, Cells
  <2> QED
    BY <2>3, <2>4
<1>7. ASSUME NEW m \in Commands \cup {None}, Receive(m) PROVE CellInv(c)'
  <2>1. clients'[c] = IF c = at THEN [clients[c] EXCEPT !.cmd = m] ELSE clients[c]
    BY <1>7 DEF Receive, ipc_disconnect_client, Types
  <2>2. clients[at] \in Client /\ Thawed(clients[at]) \in Client
    BY ClientOps DEF Types
  <2>3. CASE c = at
    BY <1>7, <2>1, <2>2, <2>3, ClientOps DEF Receive, Executes, Pass, PassFrom,
       Step, CellInv, Pending, Types, Cells, Me, Client
  <2>4. CASE c # at
    BY <1>7, <2>1, <2>4 DEF Receive, Pass, PassFrom, Step, CellInv, Pending,
       Types, Cells
  <2> QED
    BY <2>3, <2>4
<1>8. CASE ParseNothing
  BY <1>8 DEF ParseNothing, Pass, PassFrom, Step, CellInv, Pending, Types,
     Cells, Me, vars, netVars, listVars, threadVars, histVars
<1>9. CASE ParseFrozen
  <2>1. clients'[c] = IF c = at
          THEN [clients[c] EXCEPT !.cmd = None]
          ELSE clients[c]
    BY <1>9 DEF ParseFrozen, ipc_disconnect_client, Types
  <2>2. clients[at] \in Client /\ Thawed(clients[at]) \in Client
    BY ClientOps DEF Types
  <2>3. CASE c = at
    BY <1>9, <2>1, <2>2, <2>3, ClientOps DEF ParseFrozen, Executes, Pass,
       PassFrom, Step, CellInv, Pending, Types, Cells, Me, Client
  <2>4. CASE c # at
    BY <1>9, <2>1, <2>4 DEF ParseFrozen, Pass, PassFrom, Step, CellInv,
       Pending, Types, Cells
  <2> QED
    BY <2>3, <2>4
<1>10. ASSUME NEW m \in Logins, LoginRefused(m) PROVE CellInv(c)'
  <2>1. clients'[c] = IF c = at THEN Disconnected(Thawed(clients[c])) ELSE clients[c]
    BY <1>10 DEF LoginRefused, ipc_disconnect_client, Types
  <2>2. clients[at] \in Client /\ Thawed(clients[at]) \in Client
    BY ClientOps DEF Types
  <2>3. CASE c = at
    BY <1>10, <2>1, <2>2, <2>3, ClientOps DEF LoginRefused, Executes, Pass,
       PassFrom, Step, CellInv, Pending, Types, Cells, Me
  <2>4. CASE c # at
    BY <1>10, <2>1, <2>4 DEF LoginRefused, Pass, PassFrom, Step, CellInv,
       Pending, Types, Cells
  <2> QED
    BY <2>3, <2>4
<1>11. ASSUME NEW m \in Logins, LoginAgain(m) PROVE CellInv(c)'
  <2>1. clients'[c] = IF c = at THEN Thawed(clients[c]) ELSE clients[c]
    BY <1>11 DEF LoginAgain, ipc_disconnect_client, Types
  <2>2. clients[at] \in Client /\ Thawed(clients[at]) \in Client
    BY ClientOps DEF Types
  <2>3. CASE c = at
    BY <1>11, <2>1, <2>2, <2>3, ClientOps DEF LoginAgain, Executes, Pass,
       PassFrom, Step, CellInv, Pending, Types, Cells, Me
  <2>4. CASE c # at
    BY <1>11, <2>1, <2>4 DEF LoginAgain, Pass, PassFrom, Step, CellInv,
       Pending, Types, Cells
  <2> QED
    BY <2>3, <2>4
<1>12. CASE LoginSucceeds
  <2>1. clients'[c] = IF c = at
          THEN [Thawed(clients[c]) EXCEPT !.auth = TRUE, !.access = Admin]
          ELSE clients[c]
    BY <1>12 DEF LoginSucceeds, ipc_disconnect_client, Types
  <2>2. clients[at] \in Client /\ Thawed(clients[at]) \in Client
    BY ClientOps DEF Types
  <2>3. CASE c = at
    BY <1>12, <2>1, <2>2, <2>3, ClientOps DEF LoginSucceeds, Executes, Pass,
       PassFrom, Step, CellInv, Pending, Types, Cells, Me, Client
  <2>4. CASE c # at
    BY <1>12, <2>1, <2>4 DEF LoginSucceeds, Pass, PassFrom, Step, CellInv,
       Pending, Types, Cells
  <2> QED
    BY <2>3, <2>4
<1>13. CASE LoginWrong
  BY <1>13 DEF LoginWrong, Pass, PassFrom, Step, CellInv, Pending, Types,
     Cells, Me, vars, netVars, listVars, threadVars, histVars
<1>14. CASE LoginFailed
  <2>1. clients'[c] = IF c = at
          THEN [Thawed(clients[c]) EXCEPT !.frozen = time]
          ELSE clients[c]
    BY <1>14 DEF LoginFailed, ipc_disconnect_client, Types
  <2>2. clients[at] \in Client /\ Thawed(clients[at]) \in Client
    BY ClientOps DEF Types
  <2>3. CASE c = at
    BY <1>14, <2>1, <2>2, <2>3, ClientOps DEF LoginFailed, Executes, Pass,
       PassFrom, Step, CellInv, Pending, Types, Cells, Me, Client
  <2>4. CASE c # at
    BY <1>14, <2>1, <2>4 DEF LoginFailed, Pass, PassFrom, Step, CellInv,
       Pending, Types, Cells
  <2> QED
    BY <2>3, <2>4
<1>15. CASE Logout
  <2>1. clients'[c] = IF c = at
          THEN [Thawed(clients[c]) EXCEPT !.auth = FALSE, !.access = 0]
          ELSE clients[c]
    BY <1>15 DEF Logout, ipc_disconnect_client, Types
  <2>2. clients[at] \in Client /\ Thawed(clients[at]) \in Client
    BY ClientOps DEF Types
  <2>3. CASE c = at
    BY <1>15, <2>1, <2>2, <2>3, ClientOps DEF Logout, Executes, Pass, PassFrom,
       Step, CellInv, Pending, Types, Cells, Me, Client
  <2>4. CASE c # at
    BY <1>15, <2>1, <2>4 DEF Logout, Pass, PassFrom, Step, CellInv, Pending,
       Types, Cells
  <2> QED
    BY <2>3, <2>4
<1>16. CASE Exit
  <2>1. clients'[c] = IF c = at THEN Disconnected(Thawed(clients[c])) ELSE clients[c]
    BY <1>16 DEF Exit, ipc_disconnect_client, Types
  <2>2. clients[at] \in Client /\ Thawed(clients[at]) \in Client
    BY ClientOps DEF Types
  <2>3. CASE c = at
    <3>1. /\ ~clients'[c].open /\ clients'[c].access = 0
          /\ clients'[c].cmd = None
      BY <2>1, <2>2, <2>3, ClientOps DEF Types
    <3> QED
      BY <3>1 DEF CellInv
  <2>4. CASE c # at
    BY <1>16, <2>1, <2>4 DEF Exit, Pass, PassFrom, Step, CellInv, Pending,
       Types, Cells
  <2> QED
    BY <2>3, <2>4
<1>17. CASE Other
  <2>1. clients'[c] = IF c = at THEN Thawed(clients[c]) ELSE clients[c]
    BY <1>17 DEF Other, ipc_disconnect_client, Types
  <2>2. clients[at] \in Client /\ Thawed(clients[at]) \in Client
    BY ClientOps DEF Types
  <2>3. CASE c = at
    BY <1>17, <2>1, <2>2, <2>3, ClientOps DEF Other, Executes, Pass, PassFrom,
       Step, CellInv, Pending, Types, Cells, Me
  <2>4. CASE c # at
    BY <1>17, <2>1, <2>4 DEF Other, Pass, PassFrom, Step, CellInv, Pending,
       Types, Cells
  <2> QED
    BY <2>3, <2>4
<1>18. ASSUME NEW a \in IPs, IpBlacklist(a) PROVE CellInv(c)'
  <2>1. clients'[c] = IF c = at THEN Thawed(clients[c]) ELSE clients[c]
    BY <1>18 DEF IpBlacklist, ipc_disconnect_client, Types
  <2>2. clients[at] \in Client /\ Thawed(clients[at]) \in Client
    BY ClientOps DEF Types
  <2>3. CASE c = at
    BY <1>18, <2>1, <2>2, <2>3, ClientOps DEF IpBlacklist, Executes, Pass,
       PassFrom, Step, CellInv, Pending, Types, Cells, Me
  <2>4. CASE c # at
    BY <1>18, <2>1, <2>4 DEF IpBlacklist, Pass, PassFrom, Step, CellInv,
       Pending, Types, Cells
  <2> QED
    BY <2>3, <2>4
<1>19. ASSUME NEW a \in IPs, IpUnblacklist(a) PROVE CellInv(c)'
  <2>1. clients'[c] = IF c = at THEN Thawed(clients[c]) ELSE clients[c]
    BY <1>19 DEF IpUnblacklist, ipc_disconnect_client, Types
  <2>2. clients[at] \in Client /\ Thawed(clients[at]) \in Client
    BY ClientOps DEF Types
  <2>3. CASE c = at
    BY <1>19, <2>1, <2>2, <2>3, ClientOps DEF IpUnblacklist, Executes, Pass,
       PassFrom, Step, CellInv, Pending, Types, Cells, Me
  <2>4. CASE c # at
    BY <1>19, <2>1, <2>4 DEF IpUnblacklist, Pass, PassFrom, Step, CellInv,
       Pending, Types, Cells
  <2> QED
    BY <2>3, <2>4
<1>20. CASE FlushDone
  BY <1>20 DEF FlushDone, Pass, PassFrom, Step, CellInv, Pending, Types, Cells,
     Me, vars, netVars, listVars, threadVars, histVars
<1>21. CASE StopMain
  BY <1>21 DEF StopMain, Pass, PassFrom, Step, CellInv, Pending, Types, Cells,
     Me, vars, netVars, listVars, threadVars, histVars
<1>22. CASE StopUnlock
  BY <1>22 DEF StopUnlock, Pass, PassFrom, Step, CellInv, Pending, Types,
     Cells, Me, vars, netVars, listVars, threadVars, histVars
<1>23. CASE StopJoin
  BY <1>23 DEF StopJoin, Pass, PassFrom, Step, CellInv, Pending, Types, Cells,
     Me, vars, netVars, listVars, threadVars, histVars
<1>24. CASE StopDone
  BY <1>24 DEF StopDone, CellInv, Free
<1>25. CASE Review
  BY <1>25 DEF Review, Pass, PassFrom, Step, CellInv, Pending, Types, Cells,
     Me, vars, netVars, listVars, threadVars, histVars
<1>26. CASE Tick
  BY <1>26 DEF Tick, Pass, PassFrom, Step, CellInv, Pending, Types, Cells, Me,
     vars, netVars, listVars, threadVars, histVars
<1>27. CASE Restart
  BY <1>27 DEF Restart, CellInv, Free
<1> QED
  BY <1>1, <1>2, <1>3, <1>4, <1>5, <1>6, <1>7, <1>8, <1>9, <1>10, <1>11, <1>12,
     <1>13, <1>14, <1>15, <1>16, <1>17, <1>18, <1>19, <1>20, <1>21, <1>22,
     <1>23, <1>24, <1>25, <1>26, <1>27, <1>0 DEF Next, IpcNext, StopNext

\* A failed login is not forgotten before its delay is over.
LEMMA DelayKept ==
  ASSUME Types, [Next]_vars, NEW c \in Cells, DelayInv(c)
  PROVE  DelayInv(c)'
<1> USE IpcAssumption
<1>0. CASE UNCHANGED <<time, clients, failedAt>>
  BY <1>0 DEF DelayInv
<1>3. ASSUME NEW a \in IPs, Accept(a) PROVE DelayInv(c)'
  <2>1. CASE Listed(a) \/ FreeCells = {}
    BY <1>3, <2>1 DEF Accept, DelayInv
  <2>2. CASE ~(Listed(a) \/ FreeCells = {})
    <3>1. FirstFree \in Cells
      BY <2>2, FirstFreeIsFree
    <3> QED
      BY <1>3, <2>2, <3>1 DEF Accept, DelayInv, Types
  <2> QED
    BY <2>1, <2>2
<1>5. CASE ReceiveThrowsOut
  BY <1>5 DEF ReceiveThrowsOut, ipc_disconnect_client, DelayInv, Types
<1>6. CASE ReceiveLost
  BY <1>6 DEF ReceiveLost, ipc_disconnect_client, DelayInv, Types
<1>7. ASSUME NEW m \in Commands \cup {None}, Receive(m) PROVE DelayInv(c)'
  BY <1>7 DEF Receive, histVars, DelayInv, Types, Client
<1>9. CASE ParseFrozen
  BY <1>9 DEF ParseFrozen, histVars, DelayInv, Types, Client
<1>10. ASSUME NEW m \in Logins, LoginRefused(m) PROVE DelayInv(c)'
  BY <1>10 DEF LoginRefused, DelayInv, Types
<1>11. ASSUME NEW m \in Logins, LoginAgain(m) PROVE DelayInv(c)'
  <2>1. clients'[c] = IF c = at THEN Thawed(clients[c]) ELSE clients[c]
    BY <1>11 DEF LoginAgain, Types
  <2>2. c = at => ~Frozen(clients[c])
    BY <1>11 DEF LoginAgain, Executes, Me
  <2>3. UNCHANGED <<time, failedAt>>
    BY <1>11 DEF LoginAgain, histVars
  <2> QED
    BY <2>1, <2>2, <2>3 DEF DelayInv, Types, Frozen, Times, Never
<1>12. CASE LoginSucceeds
  <2>1. clients'[c] = IF c = at
          THEN [Thawed(clients[c]) EXCEPT !.auth = TRUE, !.access = Admin]
          ELSE clients[c]
    BY <1>12 DEF LoginSucceeds, Types
  <2>2. c = at => ~Frozen(clients[c])
    BY <1>12 DEF LoginSucceeds, Executes, Me
  <2>3. UNCHANGED <<time, failedAt>>
    BY <1>12 DEF LoginSucceeds, histVars
  <2> QED
    BY <2>1, <2>2, <2>3 DEF DelayInv, Types, Frozen, Times, Never
<1>14. CASE LoginFailed
  <2>1. c = at => clients'[c].frozen = time
    BY <1>14, ClientOps DEF LoginFailed, Types, Client
  <2> QED
    BY <1>14, <2>1 DEF LoginFailed, DelayInv, Types
<1>15. CASE Logout
  <2>1. clients'[c] = IF c = at
          THEN [Thawed(clients[c]) EXCEPT !.auth = FALSE, !.access = 0]
          ELSE clients[c]
    BY <1>15 DEF Logout, Types
  <2>2. c = at => ~Frozen(clients[c])
    BY <1>15 DEF Logout, Executes, Me
  <2>3. UNCHANGED <<time, failedAt>>
    BY <1>15 DEF Logout, histVars
  <2> QED
    BY <2>1, <2>2, <2>3 DEF DelayInv, Types, Frozen, Times, Never
<1>16. CASE Exit
  BY <1>16 DEF Exit, DelayInv, Types
<1>17. CASE Other
  <2>1. clients'[c] = IF c = at THEN Thawed(clients[c]) ELSE clients[c]
    BY <1>17 DEF Other, Types
  <2>2. c = at => ~Frozen(clients[c])
    BY <1>17 DEF Other, Executes, Me
  <2>3. UNCHANGED <<time, failedAt>>
    BY <1>17 DEF Other, histVars
  <2> QED
    BY <2>1, <2>2, <2>3 DEF DelayInv, Types, Frozen, Times, Never
<1>18. ASSUME NEW a \in IPs, IpBlacklist(a) PROVE DelayInv(c)'
  <2>1. clients'[c] = IF c = at THEN Thawed(clients[c]) ELSE clients[c]
    BY <1>18 DEF IpBlacklist, Types
  <2>2. c = at => ~Frozen(clients[c])
    BY <1>18 DEF IpBlacklist, Executes, Me
  <2>3. UNCHANGED <<time, failedAt>>
    BY <1>18 DEF IpBlacklist, histVars
  <2> QED
    BY <2>1, <2>2, <2>3 DEF DelayInv, Types, Frozen, Times, Never
<1>19. ASSUME NEW a \in IPs, IpUnblacklist(a) PROVE DelayInv(c)'
  <2>1. clients'[c] = IF c = at THEN Thawed(clients[c]) ELSE clients[c]
    BY <1>19 DEF IpUnblacklist, Types
  <2>2. c = at => ~Frozen(clients[c])
    BY <1>19 DEF IpUnblacklist, Executes, Me
  <2>3. UNCHANGED <<time, failedAt>>
    BY <1>19 DEF IpUnblacklist, histVars
  <2> QED
    BY <2>1, <2>2, <2>3 DEF DelayInv, Types, Frozen, Times, Never
<1>24. CASE StopDone
  BY <1>24 DEF StopDone, DelayInv
<1>26. CASE Tick
  BY <1>26 DEF Tick, vars, netVars, listVars, threadVars, histVars, DelayInv, Types,
     Times, Never
<1>27. CASE Restart
  BY <1>27 DEF Restart, DelayInv
<1> QED
  BY <1>3, <1>5, <1>6, <1>7, <1>9, <1>10, <1>11, <1>12, <1>14, <1>15, <1>16,
     <1>17, <1>18, <1>19, <1>24, <1>26, <1>27, <1>0 DEF Next, IpcNext, StopNext,
     Probe, ListenNobody, ReceiveSkips, ParseNothing, LoginWrong, FlushDone,
     StopMain, StopUnlock, StopJoin, Review, vars, netVars, listVars, threadVars, histVars

\* The list is in its file, or the file is being written, or could not be.
LEMMA SavedKept ==
  ASSUME Types, \A c \in Cells : CellInv(c), BlacklistIsSaved, [Next]_vars
  PROVE  BlacklistIsSaved'
<1>1. CASE UNCHANGED listVars
  BY <1>1 DEF BlacklistIsSaved, listVars
<1>2. CASE Overviewed
  <2>1. banned' \subseteq Addresses(blacklist')
    BY <1>2 DEF Overviewed, BlacklistIsSaved, Listed, Addresses
  <2>2. CASE Unexpired = blacklist
    BY <1>2, <2>1, <2>2 DEF Overviewed, BlacklistIsSaved
  <2>3. CASE Unexpired # blacklist
    BY <1>2, <2>1, <2>3 DEF Overviewed, flush_blacklist, BlacklistIsSaved
  <2> QED
    BY <2>2, <2>3
<1>3. ASSUME NEW a \in IPs, ipc_blacklist_ip(a) PROVE BlacklistIsSaved'
  <2>1. banned' \subseteq Addresses(blacklist')
    BY <1>3 DEF ipc_blacklist_ip, BlacklistIsSaved, Addresses
  <2> QED
    BY <1>3, <2>1 DEF ipc_blacklist_ip, flush_blacklist, BlacklistIsSaved
<1>4. ASSUME NEW a \in IPs, ipc_unblacklist_ip(a), ~flushing PROVE BlacklistIsSaved'
  BY <1>4 DEF ipc_unblacklist_ip, BlacklistIsSaved, Addresses
<1>5. CASE FlushDone
  BY <1>5 DEF FlushDone, BlacklistIsSaved
<1>6. CASE Restart
  <2>1. PICK skew \in Skews :
          blacklist' = {[e EXCEPT !.time = @ + skew] : e \in file}
    BY <1>6 DEF Restart
  <2>2. \A e \in Entry : [e EXCEPT !.time = @ + skew].ip = e.ip
    BY DEF Entry
  <2>3. Addresses(blacklist') = Addresses(file)
    <3>1. \A e \in file : [e EXCEPT !.time = @ + skew].ip = e.ip
      BY <2>2 DEF Types
    <3> QED
      BY <2>1, <3>1, Zenon DEF Addresses
  <2>4. banned' \subseteq Addresses(file) /\ UNCHANGED file
    BY <1>6 DEF Restart, BlacklistIsSaved
  <2> QED
    BY <2>3, <2>4 DEF BlacklistIsSaved
<1> QED
  BY <1>1, <1>2, <1>3, <1>4, <1>5, <1>6, ListSteps

\* What the failures of an address are when its last one is added.
LEMMA RememberedElements ==
  ASSUME NEW s \in Seq(Times), Len(s) =< Tries + 1, time \in Times
  PROVE  LET r == Remembered(s)
             d == IF Len(s) = Tries + 1 THEN 1 ELSE 0
         IN  /\ Len(r) = Len(s) + 1 - d
             /\ r[Len(r)] = time
             /\ \A i \in 1..(Len(r) - 1) : r[i] = s[i + d]
<1> USE IpcAssumption
<1> DEFINE t == Append(s, time)
<1>1. /\ t \in Seq(Times) /\ Len(t) = Len(s) + 1 /\ t[Len(s) + 1] = time
      /\ \A i \in 1..Len(s) : t[i] = s[i]
  OBVIOUS
<1>2. CASE Len(s) = Tries + 1
  <2>1. t # <<>>
    <3>1. Len(s) + 1 # 0 /\ Len(<<>>) = 0
      OBVIOUS
    <3> QED
      BY <1>1, <3>1
  <2>2. /\ Tail(t) \in Seq(Times) /\ Len(Tail(t)) = Len(t) - 1
        /\ \A i \in 1..(Len(t) - 1) : Tail(t)[i] = t[i + 1]
    BY <1>1, <2>1
  <2>3. Remembered(s) = Tail(t)
    BY <1>1, <1>2 DEF Remembered
  <2> HIDE DEF t
  <2>4. Len(s) \in Nat
    OBVIOUS
  <2> QED
    BY <1>1, <1>2, <2>2, <2>3, <2>4
<1>3. CASE Len(s) # Tries + 1
  <2>1. Remembered(s) = t
    BY <1>1, <1>3 DEF Remembered
  <2> HIDE DEF t
  <2>2. Len(s) \in Nat
    OBVIOUS
  <2> QED
    BY <1>1, <1>3, <2>1, <2>2
<1> QED
  BY <1>2, <1>3

\* Adding a failure keeps the history in order.
LEMMA RememberedOrdered ==
  ASSUME NEW s \in Seq(Times), time \in Times, Ordered(s, time)
  PROVE  Ordered(Remembered(s), time)
<1> USE IpcAssumption
<1> DEFINE r == Remembered(s)
           d == IF Len(s) = Tries + 1 THEN 1 ELSE 0
<1>1. /\ Len(r) = Len(s) + 1 - d /\ r[Len(r)] = time
      /\ \A i \in 1..(Len(r) - 1) : r[i] = s[i + d]
  BY RememberedElements DEF Ordered
<1>2. Len(s) \in Nat /\ Len(s) =< Tries + 1
  BY DEF Ordered
<1>3. Len(r) \in Nat /\ d \in 0..1 /\ Len(r) =< Tries + 1 /\ Len(r) >= 1
  BY <1>1, <1>2
<1> HIDE DEF r, d
<1>4. \A i \in 1..(Len(r) - 1) : i + d \in 1..Len(s)
  BY <1>1, <1>2, <1>3
<1>5. ASSUME NEW i \in 1..Len(r) PROVE r[i] =< time
  <2>1. CASE i = Len(r)
    BY <1>1, <2>1 DEF Times
  <2>2. CASE i # Len(r)
    <3>1. i \in 1..(Len(r) - 1)
      BY <1>3, <2>2
    <3> QED
      BY <1>1, <1>4, <3>1 DEF Ordered
  <2> QED
    BY <2>1, <2>2
<1>6. ASSUME NEW i \in 1..Len(r), NEW j \in 1..Len(r), i < j PROVE r[i] =< r[j]
  <2>1. CASE j = Len(r)
    BY <1>1, <1>5, <2>1
  <2>2. CASE j # Len(r)
    <3>1. i \in 1..(Len(r) - 1) /\ j \in 1..(Len(r) - 1) /\ i + d < j + d
      BY <1>3, <1>6, <2>2
    <3> QED
      BY <1>1, <1>4, <3>1 DEF Ordered
  <2> QED
    BY <2>1, <2>2
<1> QED
  BY <1>3, <1>5, <1>6 DEF Ordered, r

\* Adding a stamp: the stamps are the last failures again, and the failure
\* that falls out of the array is longer ago than the window, because the
\* client was allowed to try.
LEMMA StampAdded ==
  ASSUME NEW info \in Info, NEW s \in Seq(Times), time \in Times, Tries =< 2,
         NEW new \in Info, Counting, new.ptr = Shifted(info).ptr,
         \A i \in 0..(Tries - 1) :
           new.times[i] = IF i = new.ptr THEN time ELSE Shifted(info).times[i],
         Ordered(s, time), Stamped(info, s, time), Late(info)
  PROVE  Stamped(new, Remembered(s), time)
<1> USE IpcAssumption DEF Counting
<1> DEFINE old == Shifted(info)
           r == Remembered(s)
           d == IF Len(s) = Tries + 1 THEN 1 ELSE 0
           n == Len(s)
<1>1. /\ Len(r) = n + 1 - d /\ r[Len(r)] = time
      /\ \A i \in 1..(Len(r) - 1) : r[i] = s[i + d]
  BY RememberedElements DEF Ordered
<1>2. n \in Nat /\ n =< Tries + 1 /\ d \in 0..1 /\ (d = 1 <=> n = Tries + 1)
  BY DEF Ordered
<1>3. /\ old \in Info /\ old.ptr \in 0..(Tries - 1)
      /\ info.ptr < Tries - 1 => old.ptr = info.ptr + 1 /\ old.times = info.times
      /\ info.ptr = Tries - 1 => old.ptr = info.ptr
      /\ info.ptr = Tries - 1 /\ Tries = 2 => old.times[0] = info.times[1]
  BY ShiftedIsInfo
<1>4. /\ new \in Info /\ new.ptr = old.ptr /\ new.times[new.ptr] = time
      /\ \A i \in 0..(Tries - 1) : i # new.ptr => new.times[i] = old.times[i]
  BY <1>3
<1>5. info.ptr \in -1..(Tries - 1) /\ info.times \in [0..(Tries - 1) -> Int]
  BY DEF Info
<1>6. \A i \in 1..n : s[i] \in Int /\ s[i] =< time
  BY DEF Ordered, Times
<1>7. Len(r) \in Nat /\ Len(r) >= 1
  BY <1>1, <1>2
<1>8. /\ info.ptr < n
      /\ \A i \in 0..info.ptr : info.times[i] = s[n - info.ptr + i]
      /\ n > info.ptr + 1 => time - s[n - info.ptr - 1] > Window
  BY DEF Stamped
<1>9. info.ptr = Tries - 1 => time - info.times[0] > Window
  BY DEF Late
<1>10. \A i, j \in 1..n : i < j => s[i] =< s[j]
  BY DEF Ordered
<1>11. time \in Int /\ Window \in Nat
  BY DEF Times
<1> HIDE DEF old, r, d, n
<1>12. new.ptr < Len(r)
  BY <1>1, <1>2, <1>3, <1>4, <1>5, <1>8
<1>13. ASSUME NEW i \in 0..new.ptr PROVE new.times[i] = r[Len(r) - new.ptr + i]
  <2>1. CASE i = new.ptr
    BY <1>1, <1>3, <1>4, <1>7, <2>1
  <2>2. CASE i # new.ptr
    <3>1. Tries = 2 /\ i = 0 /\ new.ptr = 1 /\ old.ptr = 1
      BY <1>3, <1>4, <2>2
    <3>2. new.times[0] = old.times[0] /\ r[Len(r) - 1] = s[n]
      BY <1>1, <1>2, <1>4, <1>7, <1>12, <3>1
    <3>3. CASE info.ptr = 0
      BY <1>3, <1>7, <1>8, <3>1, <3>2, <3>3, <1>2
    <3>4. CASE info.ptr = 1
      BY <1>3, <1>7, <1>8, <3>1, <3>2, <3>4, <1>2
    <3> QED
      BY <1>3, <1>5, <3>1, <3>3, <3>4
  <2> QED
    BY <2>1, <2>2
<1>14. Len(r) > new.ptr + 1 => time - r[Len(r) - new.ptr - 1] > Window
  <2> SUFFICES ASSUME Len(r) > new.ptr + 1
               PROVE  time - r[Len(r) - new.ptr - 1] > Window
    OBVIOUS
  <2>1. r[Len(r) - new.ptr - 1] = s[n - new.ptr]
    <3>1. new.ptr \in Nat
      BY <1>3, <1>4
    <3>2. /\ Len(r) - new.ptr - 1 \in 1..(Len(r) - 1)
          /\ (Len(r) - new.ptr - 1) + d = n - new.ptr
      BY <1>1, <1>2, <1>7, <3>1
    <3> QED
      BY <1>1, <3>2
  <2>2. CASE info.ptr < Tries - 1
    <3>1. new.ptr = info.ptr + 1 /\ n > info.ptr + 1
      BY <1>1, <1>2, <1>3, <1>4, <1>5, <2>2
    <3>2. n - new.ptr = n - info.ptr - 1
      BY <1>2, <1>5, <3>1
    <3> QED
      BY <1>8, <2>1, <3>1, <3>2
  <2>3. CASE info.ptr = Tries - 1
    <3>1. n - new.ptr = n - info.ptr + 0 /\ 0 \in 0..info.ptr
      BY <1>2, <1>3, <1>4, <1>5, <2>3
    <3>2. s[n - new.ptr] = info.times[0]
      BY <1>8, <3>1
    <3> QED
      BY <1>9, <2>1, <2>3, <3>2
  <2> QED
    BY <1>5, <2>2, <2>3
<1>15. Len(r) > Tries => r[Len(r)] - r[Len(r) - Tries] > Window
  <2> SUFFICES ASSUME Len(r) > Tries PROVE time - r[Len(r) - Tries] > Window
    BY <1>1
  <2>1. CASE new.ptr = Tries - 1
    <3>1. Len(r) - new.ptr - 1 = Len(r) - Tries /\ Len(r) > new.ptr + 1
      BY <1>7, <2>1
    <3> QED
      BY <1>14, <3>1
  <2>2. CASE new.ptr # Tries - 1
    <3>1. Tries = 2 /\ new.ptr = 0 /\ info.ptr = -1
      BY <1>3, <1>4, <1>5, <2>2
    <3>2. r[Len(r) - 2] = s[n - 1] /\ n - 1 \in 1..n /\ n \in 1..n
      <4>1. Len(r) - 2 \in 1..(Len(r) - 1) /\ (Len(r) - 2) + d = n - 1
        BY <1>1, <1>2, <1>7, <3>1
      <4>2. n - 1 \in 1..n /\ n \in 1..n
        BY <1>1, <1>2, <1>7, <3>1
      <4> QED
        BY <1>1, <4>1, <4>2
    <3>3. time - s[n] > Window /\ s[n - 1] =< s[n]
      BY <1>2, <1>8, <1>10, <3>1, <3>2
    <3> QED
      BY <1>6, <1>11, <3>1, <3>2, <3>3
  <2> QED
    BY <2>1, <2>2
<1> QED
  BY <1>12, <1>13, <1>14, <1>15 DEF Stamped, r

\* Adding a stamp: the failure that is one too many is allowed only when the
\* first stamp, and so the first failure, is longer ago than the window.
LEMMA StreakAdded ==
  ASSUME NEW info \in Info, time \in Times, Counting, Streak(info, time), Late(info),
         NEW times \in [0..(Tries - 1) -> Int],
         \A i \in 0..(Tries - 1) : i < Room =>
           times[i] = IF i = Shifted(info).ptr THEN time ELSE Shifted(info).times[i]
  PROVE  Streak(Stamp(Shifted(info), times), time)
<1> USE IpcAssumption DEF Counting
<1> DEFINE old == Shifted(info)
           new == Stamp(old, times)
<1>1. /\ old \in Info /\ old.ptr \in 0..(Tries - 1)
      /\ old.first = info.first /\ old.count = info.count
      /\ info.ptr < Tries - 1 => old.ptr = info.ptr + 1 /\ old.times = info.times
      /\ info.ptr = Tries - 1 => old.ptr = info.ptr
      /\ info.ptr = Tries - 1 /\ Tries = 2 => old.times[0] = info.times[1]
      /\ Tries # 2 => old.times[0] = info.times[0]
  BY ShiftedIsInfo
<1>2. /\ new.times = times /\ new.ptr = old.ptr
      /\ new.first = IF info.count = 0 THEN time ELSE info.first
      /\ new.count = IF info.count =< Tries THEN info.count + 1 ELSE info.count
  BY <1>1 DEF Stamp
<1>3. /\ info.ptr \in -1..(Tries - 1) /\ info.count \in 0..(Tries + 1)
      /\ info.first \in Int /\ info.times \in [0..(Tries - 1) -> Int] /\ time \in Int
  BY DEF Info, Times
<1>4. /\ info.ptr < Tries - 1 => info.count = info.ptr + 1
      /\ info.ptr >= 0 => /\ info.count > 0 /\ info.first =< time
                          /\ info.first =< info.times[0]
      /\ Tries = 2 /\ info.ptr = 1 => info.first =< info.times[1]
      /\ info.count > Tries => time - info.first > Window
      /\ info.ptr = Tries - 1 => time - info.times[0] > Window
  BY DEF Streak, Late
<1>5. /\ times[0] = IF 0 = old.ptr THEN time ELSE old.times[0]
      /\ Tries = 2 => times[1] = IF 1 = old.ptr THEN time ELSE old.times[1]
      /\ 0 \in 0..(Tries - 1)
  BY DEF Room
<1> HIDE DEF old, new
<1>6. new.ptr < Tries - 1 => new.count = new.ptr + 1
  BY <1>1, <1>2, <1>3, <1>4
<1>7. new.count > 0 /\ new.first =< time
  BY <1>1, <1>2, <1>3, <1>4
<1>8. info.count = 0 <=> info.ptr = -1
  BY <1>3, <1>4
<1>9. new.first =< new.times[0]
  <2>1. CASE old.ptr = 0
    BY <1>2, <1>5, <1>7, <2>1
  <2>2. CASE old.ptr # 0
    <3>1. info.ptr >= 0 /\ new.times[0] = old.times[0] /\ new.first = info.first
      BY <1>1, <1>2, <1>3, <1>5, <1>8, <2>2
    <3>2. old.times[0] = info.times[0] \/ (Tries = 2 /\ info.ptr = 1 /\ old.times[0] = info.times[1])
      BY <1>1, <1>3
    <3> QED
      BY <1>4, <3>1, <3>2
  <2> QED
    BY <2>1, <2>2
<1>10. Tries = 2 /\ new.ptr = 1 => new.first =< new.times[1]
  BY <1>2, <1>5, <1>7
<1>11. new.count > Tries => time - new.first > Window
  <2> SUFFICES ASSUME new.count > Tries PROVE time - new.first > Window
    OBVIOUS
  <2>1. info.count >= Tries /\ info.ptr = Tries - 1
    BY <1>2, <1>3, <1>4
  <2>2. new.first = info.first /\ info.first =< info.times[0] /\ info.times[0] \in Int
    BY <1>2, <1>3, <1>4, <1>5, <2>1
  <2> QED
    BY <1>3, <1>4, <2>1, <2>2
<1> QED
  BY <1>6, <1>7, <1>9, <1>10, <1>11 DEF Streak, old, new

\* Stripping an address: all its failures are longer ago than the window.
LEMMA StrippedStamps ==
  ASSUME Types, Tries =< 2, Counting, NEW a \in IPs, LoginInv(a)
  PROVE  Stamped(Stripped[a], fails[a], time)
<1> USE IpcAssumption
<1> DEFINE info == login_info[a]
           s == fails[a]
<1>1. Stamped(info, s, time) /\ info \in Info /\ s \in Seq(Times)
  BY DEF LoginInv, Types
<1>2. CASE ~Stale(info)
  BY <1>1, <1>2 DEF Stripped
<1>3. CASE Stale(info)
  <2>1. Stripped[a] = NoInfo /\ NoInfo.ptr = -1
    BY <1>3, NoInfoIsInfo DEF Stripped
  <2>2. info.ptr \in 0..(Tries - 1) /\ time - info.times[info.ptr] > Window
    BY <1>1, <1>3 DEF Stale, Info
  <2>3. Len(s) \in Nat /\ info.ptr < Len(s)
    BY <1>1 DEF Stamped
  <2>4. info.times[info.ptr] = s[Len(s)]
    <3>0. info.ptr \in 0..info.ptr
      BY <2>2
    <3>1. info.times[info.ptr] = s[Len(s) - info.ptr + info.ptr]
      BY <1>1, <3>0 DEF Stamped
    <3> QED
      BY <2>2, <2>3, <3>1
  <2>5. Len(s) > Tries => s[Len(s)] - s[Len(s) - Tries] > Window
    BY <1>1 DEF Stamped
  <2> HIDE DEF info, s
  <2>6. Len(s) - (-1) - 1 = Len(s)
    BY <2>3
  <2>7. (-1) < Len(s) /\ (\A i \in 0..(-1) : FALSE)
    BY <2>3
  <2> QED
    BY <2>1, <2>2, <2>4, <2>5, <2>6, <2>7 DEF Stamped, s
<1> QED
  BY <1>2, <1>3

\* No stamps and no failures.
LEMMA NothingStamped ==
  ASSUME time \in Times
  PROVE  /\ Ordered(<<>>, time) /\ Stamped(NoInfo, <<>>, time)
         /\ Streak(NoInfo, time)
<1> USE IpcAssumption
<1>1. Len(<<>>) = 0 /\ NoInfo.ptr = -1
  BY NoInfoIsInfo
<1>2. Ordered(<<>>, time)
  BY <1>1 DEF Ordered
<1>3. /\ -1 < 0 /\ ~(0 > -1 + 1) /\ ~(0 > Tries)
      /\ \A i \in 0..(-1) : FALSE
  OBVIOUS
<1>4. Stamped(NoInfo, <<>>, time)
  BY <1>1, <1>3 DEF Stamped
<1>5. Streak(NoInfo, time)
  BY DEF Streak, NoInfo
<1> QED
  BY <1>2, <1>4, <1>5

\* Stripping an address starts a new count.
LEMMA StrippedStreak ==
  ASSUME Types, Counting, NEW a \in IPs, LoginInv(a)
  PROVE  Streak(Stripped[a], time)
BY NothingStamped DEF Stripped, LoginInv, Types

\* Every step keeps the stamps of an address in line with its failures.
LEMMA LoginKept ==
  ASSUME Types, FailedInv, \A c \in Cells : CellInv(c), [Next]_vars,
         NEW a \in IPs, LoginInv(a)
  PROVE  LoginInv(a)'
<1> USE IpcAssumption
<1>1. CASE UNCHANGED <<time, login_info, fails>>
  BY <1>1 DEF LoginInv
<1>2. CASE Tick
  <2>1. /\ time \in Nat /\ time' = time + 1 /\ fails[a] \in Seq(Times)
        /\ UNCHANGED <<login_info, fails>>
    BY <1>2 DEF Tick, histVars, Types, Times
  <2>4. Len(fails[a]) \in Nat /\ \A i \in 1..Len(fails[a]) : fails[a][i] \in Int
    BY <2>1 DEF Times
  <2>2. Ordered(fails[a], time')
    <3>1. Ordered(fails[a], time)
      BY DEF LoginInv
    <3>2. \A i \in 1..Len(fails[a]) : fails[a][i] =< time'
      BY <2>1, <2>4, <3>1 DEF Ordered
    <3> QED
      BY <3>1, <3>2 DEF Ordered
  <2>5. Counting => Streak(login_info[a], time')
    <3> SUFFICES ASSUME Streak(login_info[a], time) PROVE Streak(login_info[a], time')
      BY DEF LoginInv
    <3>1. login_info[a].first \in Int
      BY DEF Types, Info
    <3> QED
      BY <2>1, <3>1 DEF Streak
  <2>3. Counting /\ Tries =< 2 => Stamped(login_info[a], fails[a], time')
    <3> SUFFICES ASSUME Tries =< 2, Stamped(login_info[a], fails[a], time)
                 PROVE  Stamped(login_info[a], fails[a], time')
      BY DEF LoginInv
    <3> DEFINE s == fails[a]
               q == login_info[a].ptr
    <3>1. q \in Int /\ q >= -1 /\ Len(s) \in Nat
      BY <2>1 DEF Types, Info
    <3>2. Len(s) > q + 1 => s[Len(s) - q - 1] \in Int
      BY <2>4, <3>1
    <3>3. Len(s) > q + 1 => time' - s[Len(s) - q - 1] > Window
      BY <2>1, <3>2 DEF Stamped
    <3> QED
      BY <3>3 DEF Stamped
  <2> QED
    BY <2>1, <2>2, <2>3, <2>5 DEF LoginInv, Counting
<1>3. CASE login_info' = Stripped /\ UNCHANGED <<time, fails>>
  BY <1>3, StrippedStamps, StrippedStreak DEF LoginInv, Counting
<1>4. CASE LoginSucceeds
  <2>1. Me.ip \in IPs
    BY <1>4 DEF LoginSucceeds, Executes, Me, CellInv, Types
  <2>2. CASE a = Me.ip
    BY <1>4, <2>1, <2>2, NothingStamped, StrippedIsInfo
    DEF LoginSucceeds, LoginInv, Types, Counting
  <2>3. CASE a # Me.ip
    BY <1>4, <2>1, <2>3, StrippedStamps, StrippedStreak, StrippedIsInfo
    DEF LoginSucceeds, LoginInv, Types, Counting
  <2> QED
    BY <2>2, <2>3
<1>5. CASE LoginFailed
  <2>1. Me.ip \in IPs /\ (Counting => Late(login_info[Me.ip]))
    BY <1>5 DEF LoginFailed, PassFrom, Step, FailedInv, Me, CellInv, Types
  <2>2. /\ add_login_stamp(Me.ip) /\ UNCHANGED time
        /\ fails' = [fails EXCEPT ![Me.ip] = Remembered(@)]
    BY <1>5 DEF LoginFailed
  <2>3. Ordered(fails'[a], time)
    <3>1. CASE a = Me.ip
      BY <2>1, <2>2, <3>1, RememberedOrdered DEF LoginInv, Types
    <3>2. CASE a # Me.ip
      BY <2>1, <2>2, <3>2 DEF LoginInv, Types
    <3> QED
      BY <3>1, <3>2
  <2>4. ASSUME Counting
        PROVE  /\ Streak(login_info'[a], time)
               /\ Tries =< 2 => Stamped(login_info'[a], fails'[a], time)
    <3>1. login_info[a] \in Info /\ login_info'[a] \in Info /\ fails[a] \in Seq(Times)
      BY <2>1, <2>2, <2>4, StampSteps DEF Types
    <3>2. /\ Streak(login_info[a], time) /\ time \in Times
          /\ Tries =< 2 => Stamped(login_info[a], fails[a], time)
          /\ Ordered(fails[a], time)
      BY <2>4 DEF LoginInv, Types
    <3>3. CASE a = Me.ip
      <4> DEFINE old == Shifted(login_info[a])
      <4>1. PICK times \in [0..(Tries - 1) -> Int] :
              /\ login_info'[a] = Stamp(old, times)
              /\ \A i \in 0..(Tries - 1) : i < Room =>
                   times[i] = IF i = old.ptr THEN time ELSE old.times[i]
        BY <2>1, <2>2, <2>4, <3>3, StampSteps
      <4>2. Streak(Stamp(old, times), time)
        BY <2>1, <2>4, <3>1, <3>2, <3>3, <4>1, StreakAdded
      <4>3. Stamp(old, times).ptr = old.ptr /\ Stamp(old, times).times = times
        BY DEF Stamp
      <4> HIDE DEF old
      <4>4. ASSUME Tries =< 2
            PROVE  Stamped(login_info'[a], Remembered(fails[a]), time)
        <5>1. \A i \in 0..(Tries - 1) :
                login_info'[a].times[i] = IF i = old.ptr THEN time ELSE old.times[i]
          BY <4>1, <4>3, <4>4 DEF Room
        <5> QED
          BY <2>1, <2>4, <3>1, <3>2, <3>3, <4>1, <4>3, <4>4, <5>1, StampAdded DEF old
      <4> QED
        BY <2>1, <2>2, <3>3, <4>1, <4>2, <4>4 DEF Types
    <3>4. CASE a # Me.ip
      <4>1. fails'[a] = fails[a]
        BY <2>1, <2>2, <3>4 DEF Types
      <4>2. CASE login_info'[a] = login_info[a]
        BY <3>2, <4>1, <4>2
      <4>3. CASE /\ Tries > Room /\ login_info[a].ptr >= 0
                 /\ login_info'[a] = [login_info[a] EXCEPT !.times[0] = time]
        <5>1. /\ login_info'[a].ptr = login_info[a].ptr
              /\ login_info'[a].first = login_info[a].first
              /\ login_info'[a].count = login_info[a].count
              /\ login_info'[a].times[0] = time /\ Tries > 3
          BY <3>1, <4>3 DEF Info, Room
        <5> QED
          BY <3>2, <4>3, <5>1 DEF Streak
      <4> QED
        <5>1. \/ login_info'[a] = login_info[a]
              \/ /\ Tries > Room /\ login_info[a].ptr >= 0
                 /\ login_info'[a] = [login_info[a] EXCEPT !.times[0] = time]
          BY <2>1, <2>2, <2>4, <3>4, StampSteps
        <5> QED
          BY <4>2, <4>3, <5>1
    <3> QED
      BY <3>3, <3>4
  <2> QED
    BY <2>2, <2>3, <2>4 DEF LoginInv, Counting
<1>6. CASE Restart
  BY <1>6, NothingStamped DEF Restart, LoginInv, Types, Counting
<1> QED
  BY <1>1, <1>2, <1>3, <1>4, <1>5, <1>6, LoginSteps

\* A client that tries a password is there until its stamp is written, and
\* was allowed to try.
LEMMA FailedKept ==
  ASSUME Types, FailedInv, [Next]_vars, \A c \in Cells : CellInv(c)
  PROVE  FailedInv'
<1> USE IpcAssumption
<1>1. stop' \in {"done", "down"} => ipc' = "gone"
  BY DEF FailedInv, Next, IpcNext, StopNext, Probe, ListenNobody, Accept,
     ReceiveSkips, ReceiveThrowsOut, ReceiveLost, Receive, ParseNothing,
     ParseFrozen, LoginRefused, LoginAgain, LoginSucceeds, LoginWrong,
     LoginFailed, Logout, Exit, Other, IpBlacklist, IpUnblacklist, FlushDone,
     StopMain, StopUnlock, StopJoin, StopDone, Review, Tick, Restart, Pass,
     PassFrom, Step, vars, netVars, listVars, threadVars, histVars
<1> SUFFICES ASSUME ipc' = "failed"
             PROVE  Me'.open /\ (Counting => Late(login_info[Me.ip])')
  BY <1>1 DEF FailedInv, Counting
<1>2. CASE LoginWrong
  <2>1. Me.open /\ Me.ip \in IPs /\ login_allowed(Me.ip)
    BY <1>2 DEF LoginWrong, Executes, Me, CellInv, Types
  <2>2. Stripped[Me.ip] \in Info
    BY <2>1, StrippedIsInfo
  <2>3. ASSUME Counting PROVE Late(Stripped[Me.ip])
    <3>1. 0 \in 0..(Tries - 1) /\ time \in Int /\ Window \in Int
      BY <2>3 DEF Types, Times, Counting
    <3>2. Stripped[Me.ip].times[0] \in Int
      BY <2>2, <3>1 DEF Info
    <3> QED
      BY <2>1, <2>3, <3>1, <3>2 DEF login_allowed, Late
  <2> QED
    BY <1>2, <2>1, <2>3 DEF LoginWrong, netVars, listVars, Me, Late
<1>3. CASE ~LoginWrong
  <2>1. ipc = "failed" /\ UNCHANGED <<clients, at>>
    BY <1>3 DEF FailedInv, Next, IpcNext, StopNext, Probe, ListenNobody,
       Accept, ReceiveSkips, ReceiveThrowsOut, ReceiveLost, Receive,
       ParseNothing, ParseFrozen, LoginRefused, LoginAgain, LoginSucceeds,
       LoginFailed, Logout, Exit, Other, IpBlacklist, IpUnblacklist, FlushDone,
       StopMain, StopUnlock, StopJoin, StopDone, Review, Tick, Restart, Pass,
       PassFrom, Step, vars, netVars, listVars, threadVars, histVars
  <2>2. Me.open /\ Me.ip \in IPs /\ (Counting => Late(login_info[Me.ip])) /\ Me' = Me
    BY <2>1 DEF FailedInv, CellInv, Me, Types
  <2>3. login_info[Me.ip] \in Info /\ time \in Nat
    BY <2>2 DEF Types, Times
  <2>4. CASE Tick
    <3> SUFFICES ASSUME Counting PROVE Late(login_info[Me.ip])'
      BY <2>2
    <3>1. login_info[Me.ip].times[0] \in Int
      BY <2>3 DEF Info, Counting
    <3> QED
      BY <2>2, <2>3, <2>4, <3>1 DEF Tick, Late
  <2>5. CASE Review
    <3>1. CASE Stale(login_info[Me.ip])
      BY <2>2, <2>5, <3>1, NoInfoIsInfo DEF Review, Stripped, Late, Counting
    <3>2. CASE ~Stale(login_info[Me.ip])
      BY <2>2, <2>5, <3>2 DEF Review, Stripped, Late
    <3> QED
      BY <3>1, <3>2
  <2>6. CASE UNCHANGED <<time, login_info>>
    BY <2>2, <2>6 DEF Late
  <2> QED
    BY <1>3, <2>1, <2>4, <2>5, <2>6 DEF Next, IpcNext, StopNext, Probe,
       ListenNobody, Accept, ReceiveSkips, ReceiveThrowsOut, ReceiveLost,
       Receive, ParseNothing, ParseFrozen, LoginRefused, LoginAgain,
       LoginSucceeds, LoginFailed, Logout, Exit, Other, IpBlacklist,
       IpUnblacklist, FlushDone, StopMain, StopUnlock, StopJoin, StopDone,
       Restart, Pass, PassFrom, Step, vars, netVars, listVars, threadVars, histVars
<1> QED
  BY <1>2, <1>3
-----------------------------------------------------------------------------
\* The server starts with empty cells, an empty list and no stamps.
LEMMA InitIInv == Init => IInv
<1> SUFFICES ASSUME Init PROVE IInv
  OBVIOUS
<1> USE IpcAssumption
<1>1. Types
  <2>1. clients \in [Cells -> Client] /\ at \in Cells
    BY FreeIsClient DEF Init, Cells
  <2>2. login_info \in [IPs -> Info] /\ fails \in [IPs -> Seq(Times)]
    BY NoInfoIsInfo DEF Init
  <2>3. time \in Times /\ failedAt \in [Cells -> Times \cup {Never}]
    BY DEF Init, Times
  <2>4. blacklist \subseteq Entry /\ file \subseteq Entry
    BY DEF Init
  <2> QED
    BY <2>1, <2>2, <2>3, <2>4 DEF Init, Types, Points
<1>2. FailedInv /\ BlacklistIsSaved
  BY DEF Init, FailedInv, BlacklistIsSaved, Addresses
<1>3. \A c \in Cells : CellInv(c) /\ DelayInv(c)
  BY DEF Init, CellInv, DelayInv, Free
<1>4. \A a \in IPs : LoginInv(a)
  BY <1>1, NothingStamped DEF Init, LoginInv, Types, Counting
<1> QED
  BY <1>1, <1>2, <1>3, <1>4 DEF IInv

\* The parts together are inductive.
LEMMA Inductive == IInv /\ [Next]_vars => IInv'
<1> SUFFICES ASSUME IInv, [Next]_vars PROVE IInv'
  OBVIOUS
<1>1. Types'
  BY TypesKept DEF IInv
<1>2. FailedInv' /\ BlacklistIsSaved'
  BY FailedKept, SavedKept DEF IInv
<1>3. \A c \in Cells : CellInv(c)' /\ DelayInv(c)'
  BY CellKept, DelayKept DEF IInv
<1>4. \A a \in IPs : LoginInv(a)'
  BY LoginKept DEF IInv
<1> QED
  BY <1>1, <1>2, <1>3, <1>4 DEF IInv

\* The invariant holds in every state of every behaviour.
LEMMA IInvHolds == Spec => []IInv
BY InitIInv, Inductive, PTL DEF Spec

\* The variables have their types, and a cell whose client has left keeps
\* neither its rights nor its unread command for the next one
\* (ipc_disconnect_client does not clear the buffer).
THEOREM TypeCorrect == Spec => []TypeOK
<1>1. IInv => TypeOK
  <2>1. IInv => banned \subseteq IPs
    BY DEF IInv, Types, BlacklistIsSaved, Addresses, Entry
  <2> QED
    BY <2>1 DEF IInv, Types, TypeOK, CellInv, Client, Entry, Info, Points
<1> QED
  BY <1>1, IInvHolds, PTL

\* Whatever the clients send and whenever the server crashes, an address that
\* was blacklisted stays so until it is taken off or expires, and is in the file
\* the next start reads, except for what a crash of flush_blacklist, or a file
\* it could not open, has lost.
THEOREM BlacklistSaved == Spec => []BlacklistIsSaved
<1>1. IInv => BlacklistIsSaved
  BY DEF IInv
<1> QED
  BY <1>1, IInvHolds, PTL

\* For every tries_before_lock and time_for_count_tries: no address fails more
\* than Tries times before the window after its first stamped failure is over,
\* and with one or two tries not within any window, from however many
\* connections it tries and whatever login_info_review strips meanwhile.
THEOREM AttemptsBounded == Spec => []AttemptsAreBounded
<1>1. IInv => AttemptsAreBounded
  <2> SUFFICES ASSUME IInv, Counting
               PROVE  /\ Tries =< 2 => GuessesAreLimited
                      /\ \A a \in IPs : time - login_info[a].first =< Window =>
                                          login_info[a].count =< Tries
    BY DEF AttemptsAreBounded, GuessesAreLimited
  <2>1. Tries =< 2 => GuessesAreLimited
    BY DEF IInv, LoginInv, Stamped, GuessesAreLimited
  <2>2. ASSUME NEW a \in IPs, time - login_info[a].first =< Window
        PROVE  login_info[a].count =< Tries
    <3>1. /\ login_info[a].count \in Int /\ login_info[a].first \in Int
          /\ time \in Int /\ Streak(login_info[a], time)
      BY DEF IInv, LoginInv, Types, Info, Times
    <3> QED
      BY <2>2, <3>1, IpcAssumption DEF Streak
  <2> QED
    BY <2>1, <2>2
<1> QED
  BY <1>1, IInvHolds, PTL

\* What FailureDelays says of one cell.
Unfrozen(c) ==
  /\ clients[c].open /\ failedAt[c] # Never /\ failedAt'[c] = failedAt[c]
  /\ <<clients'[c].auth, clients'[c].access>>
       # <<clients[c].auth, clients[c].access>>
  => time - failedAt[c] > Freeze

\* Rights change by a login or a logout, which find the flag set until the
\* delay is over, or with the client itself.
LEMMA StepDelays ==
  ASSUME Types, [Next]_vars, NEW c \in Cells, DelayInv(c)
  PROVE  Unfrozen(c)
<1> USE IpcAssumption
<1>0. CASE UNCHANGED clients
  BY <1>0 DEF Unfrozen
<1>3. ASSUME NEW a \in IPs, Accept(a) PROVE Unfrozen(c)
  <2>1. CASE Listed(a) \/ FreeCells = {}
    BY <1>3, <2>1 DEF Accept, Unfrozen
  <2>2. CASE ~(Listed(a) \/ FreeCells = {})
    <3>1. FirstFree \in Cells
      BY <2>2, FirstFreeIsFree
    <3> QED
      BY <1>3, <2>2, <3>1 DEF Accept, Unfrozen, Types
  <2> QED
    BY <2>1, <2>2
<1>5. CASE ReceiveThrowsOut
  BY <1>5 DEF ReceiveThrowsOut, ipc_disconnect_client, Unfrozen, Types
<1>6. CASE ReceiveLost
  BY <1>6 DEF ReceiveLost, ipc_disconnect_client, Unfrozen, Types
<1>7. ASSUME NEW m \in Commands \cup {None}, Receive(m) PROVE Unfrozen(c)
  BY <1>7 DEF Receive, Unfrozen, Types, Client
<1>9. CASE ParseFrozen
  BY <1>9 DEF ParseFrozen, Unfrozen, Types, Client
<1>10. ASSUME NEW m \in Logins, LoginRefused(m) PROVE Unfrozen(c)
  BY <1>10 DEF LoginRefused, Unfrozen, Types
<1>11. ASSUME NEW m \in Logins, LoginAgain(m) PROVE Unfrozen(c)
  BY <1>11, ClientOps DEF LoginAgain, Unfrozen, Types
<1>12. CASE LoginSucceeds
  <2>1. c = at => ~Frozen(clients[c])
    BY <1>12 DEF LoginSucceeds, Executes, Me
  <2>2. c # at => clients'[c] = clients[c]
    BY <1>12 DEF LoginSucceeds, Types
  <2> QED
    BY <2>1, <2>2 DEF Unfrozen, DelayInv, Frozen, Types, Times, Never
<1>14. CASE LoginFailed
  BY <1>14, ClientOps DEF LoginFailed, Unfrozen, Types, Client
<1>15. CASE Logout
  <2>1. c = at => ~Frozen(clients[c])
    BY <1>15 DEF Logout, Executes, Me
  <2>2. c # at => clients'[c] = clients[c]
    BY <1>15 DEF Logout, Types
  <2> QED
    BY <2>1, <2>2 DEF Unfrozen, DelayInv, Frozen, Types, Times, Never
<1>16. CASE Exit
  BY <1>16 DEF Exit, Unfrozen, Types
<1>17. CASE Other
  BY <1>17, ClientOps DEF Other, Unfrozen, Types
<1>18. ASSUME NEW a \in IPs, IpBlacklist(a) PROVE Unfrozen(c)
  BY <1>18, ClientOps DEF IpBlacklist, Unfrozen, Types
<1>19. ASSUME NEW a \in IPs, IpUnblacklist(a) PROVE Unfrozen(c)
  BY <1>19, ClientOps DEF IpUnblacklist, Unfrozen, Types
<1>24. CASE StopDone
  BY <1>24 DEF StopDone, Unfrozen
<1>27. CASE Restart
  BY <1>27 DEF Restart, Unfrozen
<1> QED
  BY <1>3, <1>5, <1>6, <1>7, <1>9, <1>10, <1>11, <1>12, <1>14, <1>15, <1>16,
     <1>17, <1>18, <1>19, <1>24, <1>27, <1>0 DEF Next, IpcNext, StopNext, Probe,
     ListenNobody, ReceiveSkips, ParseNothing, LoginWrong, FlushDone, StopMain,
     StopUnlock, StopJoin, Review, Tick, vars, netVars, listVars, threadVars, histVars

\* After a failed login nothing changes the rights of the client until
\* incorrect_login_delay is over: the flag of ipc_parse_client is cleared only
\* by a command that finds it outdated.
THEOREM FailuresDelay == Spec => FailureDelays
<1>1. IInv /\ [Next]_vars => [\A c \in Cells : Unfrozen(c)]_vars
  BY StepDelays DEF IInv
<1>2. Spec => [][\A c \in Cells : Unfrozen(c)]_vars
  BY <1>1, IInvHolds, PTL DEF Spec
<1> QED
  BY <1>2 DEF FailureDelays, Unfrozen
=============================================================================
