---------------------------- MODULE StatClients -----------------------------
(***************************************************************************)
(* Subscriptions of IPC clients to statistics and to the messages of the   *)
(* core (webtester/stat.c, webtester/plugins/pipe/pipe.c).  Both keep a    *)
(* table parallel to the cells of ServerIpc and recognise a new client of  *)
(* a cell by its uid.  The IPC thread serves clients; the main loop        *)
(* changes statistics and sends the changes to the subscribers, with no    *)
(* lock between the two.                                                   *)
(*                                                                         *)
(* A connection is named by a number; a uid is that number, or NoUid for   *)
(* the empty string.  The uid the tables store is never assigned.          *)
(***************************************************************************)
EXTENDS Naturals

CONSTANTS Cells,
          MaxConnections \* bound: the connections there are

VARIABLES
  sock, uid, access,  \* of each cell: the connection, its uid, its rights
  stat, pipe,         \* of each cell: registered for statistics, messages
  connections,        \* how many connections there were
  main, at, left,     \* the main loop, its cell, and the cells to go
  asked               \* history: the connections that asked for statistics

sessionVars == <<sock, uid, access, connections>>
tableVars == <<stat, pipe>>
mainVars == <<main, at, left>>
vars == <<sessionVars, tableVars, mainVars, asked>>

NoSock == 0
NoUid == 0
Admin == 7
Stored == NoUid

Init ==
  /\ sock = [c \in Cells |-> NoSock] /\ uid = [c \in Cells |-> NoUid]
  /\ access = [c \in Cells |-> 0] /\ connections = 0
  /\ stat = [c \in Cells |-> FALSE] /\ pipe = [c \in Cells |-> FALSE]
  /\ main = "idle" /\ left = {} /\ at \in Cells
  /\ asked = {}
-----------------------------------------------------------------------------
(* The IPC thread (module ServerIpc).                                      *)

\* ipc_init_client.
Connect(c) ==
  /\ sock[c] = NoSock /\ connections < MaxConnections
  /\ connections' = connections + 1
  /\ sock' = [sock EXCEPT ![c] = connections']
  /\ uid' = [uid EXCEPT ![c] = connections']
  /\ access' = [access EXCEPT ![c] = 0]
  /\ UNCHANGED <<tableVars, mainVars, asked>>

\* ipc_disconnect_client.
Disconnect(c) ==
  /\ sock[c] # NoSock
  /\ sock' = [sock EXCEPT ![c] = NoSock] /\ uid' = [uid EXCEPT ![c] = NoUid]
  /\ access' = [access EXCEPT ![c] = 0]
  /\ UNCHANGED <<connections, tableVars, mainVars, asked>>

Login(c) ==
  /\ sock[c] # NoSock /\ access[c] = 0
  /\ access' = [access EXCEPT ![c] = Admin]
  /\ UNCHANGED <<sock, uid, connections, tableVars, mainVars, asked>>

\* review_clients of either table: a cell whose uid differs from the stored one
\* has a new client.  The stored uid is copied over the client's own, which
\* the other table's review looks at too.
Changed(c) == uid[c] # Stored
Reviewed(table) == [c \in Cells |-> table[c] /\ ~Changed(c)]
UidsCopied == uid' = [c \in Cells |-> Stored]

\* `stat register` and `stat unregister`; without rights only the review.
StatCommand(c, register) ==
  /\ sock[c] # NoSock /\ UidsCopied
  /\ stat' = IF access[c] < Admin THEN Reviewed(stat)
                                  ELSE [Reviewed(stat) EXCEPT ![c] = register]
  /\ asked' = IF access[c] >= Admin /\ register THEN asked \cup {sock[c]}
                                                ELSE asked
  /\ UNCHANGED <<sock, access, connections, pipe, mainVars>>

PipeCommand(c, register) ==
  /\ sock[c] # NoSock /\ UidsCopied
  /\ pipe' = IF access[c] < Admin THEN Reviewed(pipe)
                                  ELSE [Reviewed(pipe) EXCEPT ![c] = register]
  /\ UNCHANGED <<sock, access, connections, stat, mainVars, asked>>
-----------------------------------------------------------------------------
(* wt_stat_set_*: stat_changed_callback on the main loop.                  *)

Main(from, to) == main = from /\ main' = to

StatSet ==
  /\ Main("idle", "review") /\ left' = Cells
  /\ UNCHANGED <<sessionVars, tableVars, at, asked>>

\* review_clients, cell by cell.
ReviewCell(c) ==
  /\ Main("review", IF Changed(c) THEN "unset" ELSE "review")
  /\ c \in left /\ left' = left \ {c} /\ at' = c
  /\ UNCHANGED <<sessionVars, tableVars, asked>>

ReviewUnset ==
  /\ Main("unset", "copy") /\ stat' = [stat EXCEPT ![at] = FALSE]
  /\ UNCHANGED <<sessionVars, pipe, at, left, asked>>

ReviewCopy ==
  /\ Main("copy", "review") /\ uid' = [uid EXCEPT ![at] = Stored]
  /\ UNCHANGED <<sock, access, connections, tableVars, at, left, asked>>

ReviewDone ==
  /\ Main("review", "send") /\ left = {} /\ left' = Cells
  /\ UNCHANGED <<sessionVars, tableVars, at, asked>>

\* clients[i].registered, then send_stat_changes' check of the rights.
SendCell(c) ==
  /\ Main("send", IF stat[c] /\ access[c] >= Admin THEN "answer" ELSE "send")
  /\ c \in left /\ left' = left \ {c} /\ at' = c
  /\ UNCHANGED <<sessionVars, tableVars, asked>>

\* sock_answer to whoever is in the cell by now.
SendAnswer ==
  /\ Main("answer", "send")
  /\ UNCHANGED <<sessionVars, tableVars, at, left, asked>>

SendDone ==
  /\ Main("send", "idle") /\ left = {}
  /\ UNCHANGED <<sessionVars, tableVars, at, left, asked>>
-----------------------------------------------------------------------------
MainNext ==
  \/ StatSet \/ ReviewUnset \/ ReviewCopy \/ ReviewDone \/ SendAnswer \/ SendDone
  \/ \E c \in Cells : ReviewCell(c) \/ SendCell(c)

Next ==
  \/ MainNext
  \/ \E c \in Cells : \/ Connect(c) \/ Disconnect(c) \/ Login(c)
                      \/ \E r \in BOOLEAN : StatCommand(c, r) \/ PipeCommand(c, r)

\* The main loop runs.
Spec == Init /\ [][Next]_vars /\ WF_vars(MainNext)
-----------------------------------------------------------------------------
\* review_clients finds every cell that changed hands: a registration it lets
\* stand, and that statistics are sent to because its client has the rights,
\* was asked for by that client.
ReviewFindsNewClients ==
  [][/\ main = "review" /\ main' = "review" /\ left' # left
     /\ stat[at'] /\ access[at'] >= Admin
     => sock[at'] \in asked]_vars
=============================================================================
