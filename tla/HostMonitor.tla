---------------------------- MODULE HostMonitor -----------------------------
(***************************************************************************)
(* The bypass decision with the database client it depends on:             *)
(* BypassControl, whose SelectAllVMStatus runs as NovaClient says, against *)
(* a server that stops, starts and drops connections at any moment.        *)
(*                                                                         *)
(* Here the answers of the database are no longer an assumption: a check   *)
(* that fails, a table that is read as empty because its connection was    *)
(* lost, and a HOST that dies of a NULL handler follow from the client.    *)
(***************************************************************************)
EXTENDS BypassControl, NovaClient

ASSUME MonitorAssumption ==
  /\ CloudMode
  /\ MaxRefused \in Nat \ {0, 1, 2}

all == <<vars, client>>

MonitorInit == Init /\ ClientInit

-----------------------------------------------------------------------------
(***************************************************************************)
(* CheckVmStatusTask in ExecQuery1                                         *)
(***************************************************************************)
Check == VmWake /\ Begin

Query == vm_pc = "select" /\ Exec /\ UNCHANGED vars

Answer == VmSelect /\ ReturnRows

\* The table whose rows were lost is taken for an empty one.
LostAnswer == VmSelect /\ rows' = NoRows /\ ReturnNoRows

Failure == VmSelectFails /\ (FailAfterReopen \/ FailAtServer)

Update == VmUpdate /\ UNCHANGED client

VmThread == Alive /\ (Check \/ Query \/ Answer \/ LostAnswer \/ Failure \/ Update)

\* The other threads live and die with the process.
TcpThread == Alive /\ (TcpBegin \/ TcpStep) /\ UNCHANGED client
Other == Alive /\ (Report \/ Session) /\ UNCHANGED client

Environment == Alive /\ Server /\ UNCHANGED vars

MonitorNext == VmThread \/ TcpThread \/ Other \/ Environment

\* No thread is cancelled while the process runs, and both loops sleep 100 ms
\* and look at the clock again.  Nothing is assumed of the server or the VMs.
Fairness == WF_all(VmThread) /\ WF_all(TcpThread)

MonitorSafety == MonitorInit /\ [][MonitorNext]_all
Monitor == MonitorSafety /\ Fairness

-----------------------------------------------------------------------------
(***************************************************************************)
(* Properties                                                              *)
(***************************************************************************)
\* A restart of the server or a dropped connection costs one check, for the
\* query that meets it is not repeated (ExecQuery1 returns its error even after
\* the handler was opened again).  When the connection is lost between a query
\* and its rows it costs two: the first reads an empty table and leaves the dead
\* handler to the second.  Never more, and an answered check ends the count.
LosesFewChecks == missed <= IF emptied THEN 2 ELSE 1

\* The HOST dies of a NULL handler only when three connection attempts in a
\* row, spread over two checks, met a server that was down.
DiesOnlyInOutage == ~Alive => refused >= 3

\* The process survives, and from some time on the server runs, keeps its
\* connections and refuses no query.
Served ==
  /\ []Alive
  /\ <>[](server = "up")
  /\ <>[][~ConnectionLost /\ ~FailAtServer]_all

\* However often the server failed before: when it serves again and every
\* table calls for bypass, the relay ends in bypass.
FaultIsShown == Served => FaultShown

\* Whatever the server does, a connected VM that reports no more is found
\* hung, as long as the process lives.
HangIsShown == []Alive => HangShown

\* Bypass is not for ever: after the last trouble with the server a healthy
\* table and VMs that report release the relay, even when a lost table put it
\* in bypass.
Released == Served => Recovers
=============================================================================
