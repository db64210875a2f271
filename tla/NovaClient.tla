----------------------------- MODULE NovaClient -----------------------------
(***************************************************************************)
(* The MySQL client of the HOST: handler1 and ExecQuery1, through which    *)
(* SelectAllVMStatus reads the VM table of the Nova database.              *)
(*                                                                         *)
(* Only CheckVmStatusTask uses handler1, so no lock covers it; what makes  *)
(* the client hard is the server, which may stop, start or drop the        *)
(* connection between any two calls of the library.  The library is        *)
(* modelled by what the code can see of it: mysql_real_connect succeeds    *)
(* when the server runs, a query on a connection the server has dropped    *)
(* fails with CR_SERVER_GONE_ERROR or CR_SERVER_LOST, and a call with a    *)
(* NULL handler dereferences it.                                           *)
(***************************************************************************)
EXTENDS Integers

CONSTANT MaxRefused  \* bound of the history variable refused

VARIABLES
  server,    \* "up" or "down"
  handler1,  \* "NULL", "open", or "dead": the server has dropped it
  nova,      \* where SelectAllVMStatus is; "fault" once the process died in it
  refused,   \* history: connection attempts refused one after the other
  missed,    \* history: checks lost since the server last made trouble
  emptied    \* history: one of them read a table whose rows were lost

lost   == <<missed, emptied>>
client == <<server, handler1, nova, refused, lost>>

\* DatabaseInit and the first query have succeeded, or the HOST had ended.
ClientInit ==
  /\ server = "up"
  /\ handler1 = "open"
  /\ nova = "idle"
  /\ refused = 0
  /\ missed = 0
  /\ emptied = FALSE

\* New trouble, or a check that was answered.
Afresh == missed' = 0 /\ emptied' = FALSE

-----------------------------------------------------------------------------
(***************************************************************************)
(* The server and the network                                              *)
(***************************************************************************)
ServerStops ==
  /\ server = "up"
  /\ server' = "down"
  /\ handler1' = IF handler1 = "open" THEN "dead" ELSE handler1
  /\ Afresh
  /\ UNCHANGED <<nova, refused>>

ServerStarts ==
  /\ server = "down"
  /\ server' = "up"
  /\ Afresh
  /\ UNCHANGED <<handler1, nova, refused>>

\* An idle connection is dropped, or killed, or cut by the network.
ConnectionLost ==
  /\ handler1 = "open"
  /\ handler1' = "dead"
  /\ Afresh
  /\ UNCHANGED <<server, nova, refused>>

-----------------------------------------------------------------------------
(***************************************************************************)
(* ExecQuery1                                                              *)
(***************************************************************************)
\* OpenDatabase1: the handler is closed again when the server refuses.
OpenDatabase1 ==
  /\ handler1' = IF server = "up" THEN "open" ELSE "NULL"
  /\ refused' = IF server = "up" THEN 0
                ELSE IF refused < MaxRefused THEN refused + 1 ELSE refused
  /\ UNCHANGED server

Begin ==
  /\ nova = "idle"
  /\ nova' = "exec"
  /\ UNCHANGED <<server, handler1, refused, lost>>

\* Slip: one attempt is made, not two.
FirstOpenOnly ==
  /\ nova = "exec" /\ handler1 = "NULL"
  /\ OpenDatabase1
  /\ nova' = "query"
  /\ UNCHANGED lost

\* There is no handler since an earlier check: two attempts to open one.
FirstOpen ==
  /\ nova = "exec" /\ handler1 = "NULL"
  /\ OpenDatabase1
  /\ nova' = IF server = "up" THEN "query" ELSE "again"
  /\ UNCHANGED lost

SecondOpen ==
  /\ nova = "again"
  /\ OpenDatabase1
  /\ nova' = "query"
  /\ UNCHANGED lost

Ready == nova = "query" \/ (nova = "exec" /\ handler1 # "NULL")

\* Both attempts failed and the query is made all the same.
QueryWithoutHandler ==
  /\ Ready /\ handler1 = "NULL"
  /\ nova' = "fault"
  /\ UNCHANGED <<server, handler1, refused, lost>>

QueryAnswered ==
  /\ Ready /\ handler1 = "open"
  /\ nova' = "store"
  /\ UNCHANGED <<server, handler1, refused, lost>>

\* The server has dropped the connection: CloseDatabase1.
QueryFindsDead ==
  /\ Ready /\ handler1 = "dead"
  /\ handler1' = "NULL"
  /\ nova' = "reopen"
  /\ UNCHANGED <<server, refused, lost>>

-----------------------------------------------------------------------------
(***************************************************************************)
(* How SelectAllVMStatus returns                                           *)
(***************************************************************************)
\* Slip: the error is none of those after which the handler is opened again.
FailKeepingDead ==
  /\ nova = "reopen"
  /\ handler1' = "dead"
  /\ nova' = "idle"
  /\ missed' = missed + 1
  /\ UNCHANGED <<server, refused, emptied>>

\* The handler is opened again, and the error of the query is returned whether
\* or not that succeeds: the query is not repeated.
FailAfterReopen ==
  /\ nova = "reopen"
  /\ OpenDatabase1
  /\ nova' = "idle"
  /\ missed' = missed + 1
  /\ UNCHANGED emptied

\* The query fails for a reason that is not the connection's: no new handler.
FailAtServer ==
  /\ Ready /\ handler1 = "open"
  /\ nova' = "idle"
  /\ Afresh
  /\ UNCHANGED <<server, handler1, refused>>

\* mysql_store_result: the rows are there.
ReturnRows ==
  /\ nova = "store" /\ handler1 = "open"
  /\ nova' = "idle"
  /\ Afresh
  /\ UNCHANGED <<server, handler1, refused>>

\* The connection is lost before the rows are: mysql_store_result returns NULL,
\* mysql_fetch_row finds no row in it, and the table is returned as empty.  The
\* handler is left as it is: the next query finds it dead.
ReturnNoRows ==
  /\ nova = "store" /\ handler1 = "dead"
  /\ nova' = "idle"
  /\ missed' = missed + 1
  /\ emptied' = TRUE
  /\ UNCHANGED <<server, handler1, refused>>

-----------------------------------------------------------------------------
Exec == \/ FirstOpen
        \/ SecondOpen
        \/ QueryWithoutHandler
        \/ QueryAnswered
        \/ QueryFindsDead

Server == ServerStops \/ ServerStarts \/ ConnectionLost

\* The process is there.
Alive == nova # "fault"

ClientTypeOK ==
  /\ server \in {"up", "down"}
  /\ handler1 \in {"NULL", "open", "dead"}
  /\ nova \in {"idle", "exec", "again", "query", "store", "reopen", "fault"}
  /\ refused \in 0 .. MaxRefused
  /\ missed \in Nat
  /\ emptied \in BOOLEAN
=============================================================================
