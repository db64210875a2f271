--------------------------- MODULE BypassControl ----------------------------
(***************************************************************************)
(* How the HOST process decides to switch the bypass relay.                *)
(*                                                                         *)
(* Three threads share hostConf:                                           *)
(*   - CheckVmStatusTask reads the status of every VM from the Nova        *)
(*     database and votes with vmc_mode;                                   *)
(*   - CheckTcpStatusTask counts, once a minute, how long every connected  *)
(*     VM has been silent and votes with tcp_mode;                         *)
(*   - fifo_getTask and tcp_rcvTask change vmc_system[], the table of the  *)
(*     connected VMs, when a VM reports, appears or goes away.             *)
(*                                                                         *)
(* BypassMutex covers the relay, the votes and the list of VMs, so a       *)
(* section under it is one action.  Nothing covers vmc_system[]: the       *)
(* minute check and the report of a VM walk through it slot by slot, one   *)
(* step for each, and what a slot held when it was looked at may be gone   *)
(* when its counter is read, when it is stored or when it is cleared.      *)
(*                                                                         *)
(* How a session comes to be in vmc_system[] is HostSessions' subject;     *)
(* here a session may appear, report or vanish at any moment.              *)
(***************************************************************************)
EXTENDS Integers

CONSTANTS
  VM,                   \* virtual machines, named by their address
  NoAddr,               \* systemaddr 0: the slot belongs to no VM
  Absent,               \* the database has no row for the VM
  Conditions,           \* the rows the database can hold for a VM
  MAX_SYSTEM_NUM,       \* slots of vmc_system[]
  CHECK_TCPSTATUS_MIN,  \* silent minutes a VM is allowed
  CloudMode             \* cloud_mode of the configuration file

VmStatus == {"ACTIVE", "BUILD", "DELETED", "STOPPED", "PAUSED", "SUSPENDED",
             "UNKNOWN"}
PowerStatus == {"NOSTATUS", "RUNNING", "BLOCKED", "PAUSED", "SHUTDOWN"}
Row == [vm_status : VmStatus, vm_power_status : PowerStatus]

ASSUME ControlAssumption ==
  /\ NoAddr \notin VM
  /\ Conditions \subseteq Row
  /\ Absent \notin Conditions
  /\ MAX_SYSTEM_NUM \in Nat \ {0}
  /\ CHECK_TCPSTATUS_MIN \in Nat
  /\ CloudMode \in BOOLEAN

Mode  == {"ON", "OFF"}
Slot  == 0 .. MAX_SYSTEM_NUM - 1
Table == [VM -> Conditions \union {Absent}]

VARIABLES
  bp_mode,      \* hostConf.bp_mode: what the relay was last told
  vmc_mode,     \* hostConf.vmc_mode: the vote of the database check
  tcp_mode,     \* hostConf.tcp_mode: the vote of the minute check
  vm_list,      \* the VMs of hostConf.vmc_status[0 .. vm_count-1]
  systemaddr,   \* vmc_system[].systemaddr
  link_status,  \* vmc_system[].link_status: silent minutes
  vm_pc, rows,  \* CheckVmStatusTask: where it is, the table it selected
  tcp_pc,       \* CheckTcpStatusTask: where it is,
  todo,         \*   the VMs of its snapshot it has still to look for,
  bpmode,       \*   the vote it is forming,
  cur,          \*   the VM and the slot it looks at, the counter it loaded
  got,          \* fifo_getTask in SendVmProcStateRsp: where, for whom, which slot
  quiet,        \* history: minute checks of a slot since it was last cleared
  raced         \* history: that was between a load and its store, and shows

modes   == <<bp_mode, vmc_mode, tcp_mode>>
session == <<systemaddr, link_status>>
vmTask  == <<vm_pc, rows>>
tcpTask == <<tcp_pc, todo, bpmode, cur>>
history == <<quiet, raced>>
vars    == <<modes, vm_list, session, vmTask, tcpTask, got, history>>

\* No VM is being looked for.
NoScan == [vm |-> NoAddr, slot |-> 0, loaded |-> 0]
NoTurn == [at |-> "idle", vm |-> NoAddr, slot |-> 0]

-----------------------------------------------------------------------------
(***************************************************************************)
(* The two votes and the relay                                             *)
(***************************************************************************)
NoRows == [v \in VM |-> Absent]

Listed(table) == {v \in VM : table[v] # Absent}

\* A row that calls for bypass: out of service, and not because somebody
\* shut the VM down.
Faulty(row) ==
  /\ \/ row.vm_status \notin {"ACTIVE", "BUILD"}
     \/ row.vm_power_status \notin {"RUNNING", "NOSTATUS"}
  /\ row.vm_power_status # "SHUTDOWN"

TableVote(table) ==
  IF Listed(table) = {} \/ \E v \in Listed(table) : Faulty(table[v])
  THEN "ON" ELSE "OFF"

\* Slip: the relay is released without a look at the other vote.
ArbitrateAlone(vote, other) == vote

\* Slip: both monitors must agree before traffic is moved.
ArbitrateBoth(vote, other) == IF vote = "ON" THEN other ELSE "OFF"

\* The relay after one monitor votes, given the last vote of the other one.
Arbitrate(vote, other) ==
  CASE vote = bp_mode -> bp_mode
    [] vote # bp_mode /\ vote = "ON" -> "ON"
    [] vote # bp_mode /\ vote = "OFF" -> IF other = "OFF" THEN "OFF" ELSE bp_mode

Init ==
  \E table \in IF CloudMode THEN Table ELSE {NoRows} :
    /\ bp_mode = TableVote(table)
    /\ vmc_mode = TableVote(table)
    /\ tcp_mode = "OFF"
    /\ vm_list = Listed(table)
    /\ systemaddr = [s \in Slot |-> NoAddr]
    /\ link_status = [s \in Slot |-> 0]
    /\ vm_pc = "wait"
    /\ rows = NoRows
    /\ tcp_pc = "wait"
    /\ todo = {}
    /\ bpmode = "OFF"
    /\ cur = NoScan
    /\ got = NoTurn
    /\ quiet = [s \in Slot |-> 0]
    /\ raced = [s \in Slot |-> FALSE]

-----------------------------------------------------------------------------
(***************************************************************************)
(* CheckVmStatusTask                                                       *)
(***************************************************************************)
\* The second is a multiple of CHECK_VMCSTATUS_SEC again.
VmWake ==
  /\ vm_pc = "wait"
  /\ vm_pc' = "select"
  /\ UNCHANGED <<modes, vm_list, session, rows, tcpTask, got, history>>

VmSelect ==
  /\ vm_pc = "select"
  /\ vm_pc' = "update"
  /\ rows' \in IF CloudMode THEN Table ELSE {NoRows}
  /\ UNCHANGED <<modes, vm_list, session, tcpTask, got, history>>

\* SelectAllVMStatus fails: the check returns and changes nothing.
VmSelectFails ==
  /\ CloudMode
  /\ vm_pc = "select"
  /\ vm_pc' = "wait"
  /\ UNCHANGED <<modes, vm_list, session, rows, tcpTask, got, history>>

VmUpdate ==
  /\ vm_pc = "update"
  /\ vm_pc' = "wait"
  /\ rows' = NoRows
  /\ vm_list' = Listed(rows)
  /\ bp_mode' = Arbitrate(TableVote(rows), tcp_mode)
  /\ vmc_mode' = TableVote(rows)
  /\ UNCHANGED <<tcp_mode, session, tcpTask, got, history>>

-----------------------------------------------------------------------------
(***************************************************************************)
(* CheckTcpStatusTask                                                      *)
(***************************************************************************)
TcpBegin ==
  /\ tcp_pc = "wait"
  /\ tcp_pc' = "check"
  /\ todo' = vm_list
  /\ bpmode' = "OFF"
  /\ UNCHANGED <<modes, vm_list, session, vmTask, cur, got, history>>

\* One round of the inner loop: slot s is looked at for the VM v.  Past the
\* last slot the VM has no session and is passed over: the branch that would
\* have voted for bypass is compiled out.
LookAt(s, v) ==
  \/ /\ systemaddr[s] = v
     /\ tcp_pc' = "match"
     /\ cur' = [vm |-> v, slot |-> s, loaded |-> 0]
  \/ /\ systemaddr[s] # v
     /\ s + 1 \in Slot
     /\ tcp_pc' = "scan"
     /\ cur' = [vm |-> v, slot |-> s + 1, loaded |-> 0]
  \/ /\ systemaddr[s] # v
     /\ s + 1 \notin Slot
     /\ tcp_pc' = "check"
     /\ cur' = NoScan

TcpPick(v) ==
  /\ tcp_pc = "check"
  /\ v \in todo
  /\ LookAt(0, v)
  /\ todo' = todo \ {v}
  /\ UNCHANGED <<modes, vm_list, session, vmTask, bpmode, got, history>>

TcpScan ==
  /\ tcp_pc = "scan"
  /\ LookAt(cur.slot, cur.vm)
  /\ UNCHANGED <<modes, vm_list, session, vmTask, todo, bpmode, got, history>>

\* Slip: one minute more than the limit is counted.
TcpLoadLate ==
  /\ tcp_pc = "match"
  /\ link_status[cur.slot] <= CHECK_TCPSTATUS_MIN
  /\ tcp_pc' = "store"
  /\ cur' = [cur EXCEPT !.loaded = link_status[cur.slot]]
  /\ UNCHANGED <<modes, vm_list, session, vmTask, todo, bpmode, got, history>>

\* The slot was found; its counter is read now, whoever holds it by now.
TcpLoad ==
  /\ tcp_pc = "match"
  /\ link_status[cur.slot] < CHECK_TCPSTATUS_MIN
  /\ tcp_pc' = "store"
  /\ cur' = [cur EXCEPT !.loaded = link_status[cur.slot]]
  /\ UNCHANGED <<modes, vm_list, session, vmTask, todo, bpmode, got, history>>

\* link_status++ without a lock: the compiler may keep the value it compared
\* or load the counter again, and whatever happened to it since is lost or kept.
TcpStore ==
  /\ tcp_pc = "store"
  /\ tcp_pc' = "check"
  /\ \E old \in {cur.loaded, link_status[cur.slot]} :
       link_status' = [link_status EXCEPT ![cur.slot] = old + 1]
  /\ quiet' = [quiet EXCEPT ![cur.slot] = @ + 1]
  /\ raced' = [raced EXCEPT ![cur.slot] =
                  @ /\ link_status'[cur.slot] # quiet'[cur.slot]]
  /\ cur' = NoScan
  /\ UNCHANGED <<modes, vm_list, systemaddr, vmTask, todo, bpmode, got>>

\* Slip: the limit is reached one minute early.
TcpHangEarly ==
  /\ tcp_pc = "match"
  /\ link_status[cur.slot] + 1 >= CHECK_TCPSTATUS_MIN
  /\ tcp_pc' = "check"
  /\ bpmode' = "ON"
  /\ cur' = NoScan
  /\ UNCHANGED <<modes, vm_list, session, vmTask, todo, got, history>>

\* Slip: the counter starts again once the VM was found hung.
TcpHangRestarts ==
  /\ tcp_pc = "match"
  /\ link_status[cur.slot] >= CHECK_TCPSTATUS_MIN
  /\ tcp_pc' = "check"
  /\ bpmode' = "ON"
  /\ link_status' = [link_status EXCEPT ![cur.slot] = 0]
  /\ quiet' = [quiet EXCEPT ![cur.slot] = 0]
  /\ cur' = NoScan
  /\ UNCHANGED <<modes, vm_list, systemaddr, vmTask, todo, got, raced>>

TcpHang ==
  /\ tcp_pc = "match"
  /\ link_status[cur.slot] >= CHECK_TCPSTATUS_MIN
  /\ tcp_pc' = "check"
  /\ bpmode' = "ON"
  /\ cur' = NoScan
  /\ UNCHANGED <<modes, vm_list, session, vmTask, todo, got, history>>

\* Slip: the vote of the database check is not consulted.
TcpDecideAlone ==
  /\ tcp_pc = "check"
  /\ todo = {}
  /\ tcp_pc' = "wait"
  /\ bp_mode' = Arbitrate(bpmode, "OFF")
  /\ tcp_mode' = bpmode
  /\ bpmode' = "OFF"
  /\ UNCHANGED <<vmc_mode, vm_list, session, vmTask, todo, cur, got, history>>

TcpDecide ==
  /\ tcp_pc = "check"
  /\ todo = {}
  /\ tcp_pc' = "wait"
  /\ bp_mode' = Arbitrate(bpmode, vmc_mode)
  /\ tcp_mode' = bpmode
  /\ bpmode' = "OFF"
  /\ UNCHANGED <<vmc_mode, vm_list, session, vmTask, todo, cur, got, history>>

-----------------------------------------------------------------------------
(***************************************************************************)
(* The reports of the VMs                                                  *)
(***************************************************************************)
\* The history of a slot whose counter becomes 0.
Forgive(s) ==
  /\ quiet' = [quiet EXCEPT ![s] = 0]
  /\ raced' = [raced EXCEPT ![s] = (tcp_pc = "store" /\ cur.slot = s)]

\* One round of the loop of SendVmProcStateRsp.
Seek(s, v) ==
  \/ systemaddr[s] = v /\ got' = [at |-> "clear", vm |-> v, slot |-> s]
  \/ /\ systemaddr[s] # v
     /\ s + 1 \in Slot
     /\ got' = [at |-> "seek", vm |-> v, slot |-> s + 1]
  \/ systemaddr[s] # v /\ s + 1 \notin Slot /\ got' = NoTurn

\* fifo_getTask took a report of v and looks for the slot of v.  (A report whose
\* connection is gone by then looks for the address 0: HostSessions has that.)
ReportTaken(v) ==
  /\ got.at = "idle"
  /\ Seek(0, v)
  /\ UNCHANGED <<modes, vm_list, session, vmTask, tcpTask, history>>

ReportSeeks ==
  /\ got.at = "seek"
  /\ Seek(got.slot, got.vm)
  /\ UNCHANGED <<modes, vm_list, session, vmTask, tcpTask, history>>

\* Slip: a report marks the slot and leaves its counter.
ReportKeepsCount ==
  /\ got.at = "clear"
  /\ Forgive(got.slot)
  /\ got' = NoTurn
  /\ UNCHANGED <<modes, vm_list, session, vmTask, tcpTask>>

\* The counter of the slot that was found is cleared, whatever became of the
\* slot since it was looked at.
ReportClears ==
  /\ got.at = "clear"
  /\ link_status' = [link_status EXCEPT ![got.slot] = 0]
  /\ Forgive(got.slot)
  /\ got' = NoTurn
  /\ UNCHANGED <<modes, vm_list, systemaddr, vmTask, tcpTask>>

-----------------------------------------------------------------------------
(***************************************************************************)
(* The sessions                                                            *)
(***************************************************************************)
\* tcp_rcvTask: the first report of a connection names the VM of its slot.
Register(s, v) ==
  /\ systemaddr[s] = NoAddr
  /\ systemaddr' = [systemaddr EXCEPT ![s] = v]
  /\ UNCHANGED <<modes, vm_list, link_status, vmTask, tcpTask, got, history>>

\* Slip: the address is cleared, the rest of the slot is not.
LostKeepsCount(s) ==
  /\ systemaddr' = [systemaddr EXCEPT ![s] = NoAddr]
  /\ Forgive(s)
  /\ UNCHANGED <<modes, vm_list, link_status, vmTask, tcpTask, got>>

\* The connection of a slot fails, before or after it registered: the slot
\* of vmc_system[] is zeroed.
Lost(s) ==
  /\ systemaddr' = [systemaddr EXCEPT ![s] = NoAddr]
  /\ link_status' = [link_status EXCEPT ![s] = 0]
  /\ Forgive(s)
  /\ UNCHANGED <<modes, vm_list, vmTask, tcpTask, got>>

-----------------------------------------------------------------------------
VmTask  == VmWake \/ VmSelect \/ VmSelectFails \/ VmUpdate
TcpStep == TcpScan \/ TcpLoad \/ TcpStore \/ TcpHang \/ TcpDecide
           \/ \E v \in VM : TcpPick(v)
Report == ReportSeeks \/ ReportClears \/ \E v \in VM : ReportTaken(v)
Session == \E s \in Slot : Lost(s) \/ \E v \in VM : Register(s, v)

Next == VmTask \/ TcpBegin \/ TcpStep \/ Report \/ Session

Safety == Init /\ [][Next]_vars

-----------------------------------------------------------------------------
(***************************************************************************)
(* Safety                                                                  *)
(***************************************************************************)
\* Every variable of hostConf and of the threads' stacks keeps its type.  The
\* counters stay at most one above what a load may see, so the unsigned short
\* of link_status cannot wrap.
TypeOK ==
  /\ bp_mode \in Mode /\ vmc_mode \in Mode /\ tcp_mode \in Mode
  /\ vm_list \subseteq VM
  /\ systemaddr \in [Slot -> VM \union {NoAddr}]
  /\ link_status \in [Slot -> 0 .. CHECK_TCPSTATUS_MIN]
  /\ vm_pc \in {"wait", "select", "update"}
  /\ rows \in Table
  /\ tcp_pc \in {"wait", "check", "scan", "match", "store"}
  /\ todo \subseteq VM
  /\ bpmode \in Mode
  /\ cur \in [vm : VM \union {NoAddr}, slot : Slot, loaded : 0 .. CHECK_TCPSTATUS_MIN]
  /\ got \in [at : {"idle", "seek", "clear"}, vm : VM \union {NoAddr}, slot : Slot]
  /\ quiet \in [Slot -> 0 .. CHECK_TCPSTATUS_MIN]
  /\ raced \in [Slot -> BOOLEAN]

\* Two threads write bp_mode and each looks at the other's last vote only when
\* it releases the relay; the relay still never contradicts the votes: it is
\* in bypass exactly when the database check or the minute check wants it.
BypassAgrees ==
  bp_mode = "ON" <=> vmc_mode = "ON" \/ tcp_mode = "ON"

\* link_status is the number of minute checks since a report last cleared the
\* slot or the slot was zeroed, even though the check walks through the slots,
\* compares and increments without a lock; only a report that came between a
\* load and its store can leave it too high, and nothing can leave it too low.
CountsSilence ==
  \A s \in Slot :
    /\ quiet[s] <= link_status[s]
    /\ ~raced[s] => link_status[s] = quiet[s]

\* The minute check votes for bypass at a slot exactly when the slot was silent
\* during CHECK_TCPSTATUS_MIN earlier checks: a silent slot it finds is never
\* let off, and a vote for bypass has a silent slot (or a raced report) behind
\* it, even when the slot changed hands after it was found.
HangIsSilence ==
  [][tcp_pc = "match" /\ tcp_pc' # "match" =>
       /\ quiet[cur.slot] >= CHECK_TCPSTATUS_MIN => bpmode' = "ON"
       /\ bpmode' = "ON" => \/ bpmode = "ON"
                            \/ quiet[cur.slot] >= CHECK_TCPSTATUS_MIN
                            \/ raced[cur.slot]]_vars

\* The three fields of hostConf behave as the abstract relay with two votes:
\* no step shows a relay that has not followed a vote yet.
Switch == INSTANCE BypassSwitch WITH
  Monitor <- {"vmc", "tcp"},
  First   <- "vmc",
  relay   <- bp_mode,
  vote    <- [m \in {"vmc", "tcp"} |-> IF m = "vmc" THEN vmc_mode ELSE tcp_mode]

ImplementsSwitch == Switch!Spec

-----------------------------------------------------------------------------
(***************************************************************************)
(* Liveness                                                                *)
(***************************************************************************)
\* The slot a search of vmc_system[] for the address v stops at.
IsFirst(s, v) ==
  /\ systemaddr[s] = v
  /\ \A t \in Slot : t < s => systemaddr[t] # v

\* If from some time on every table the database shows calls for bypass, the
\* relay ends in bypass for good, whatever the sessions do.
FaultShown ==
  <>[](vm_pc = "update" => TableVote(rows) = "ON") => <>[](bp_mode = "ON")

\* A VM that stays listed and connected but reports no more is found hung: the
\* relay ends in bypass for good, however healthy the database says it is.
HangShown ==
  \A v \in VM, s \in Slot :
    <>[](v \in vm_list /\ IsFirst(s, v)) /\ <>[][~ReportTaken(v)]_vars
      => <>[](bp_mode = "ON")

\* The listed VMs have reported since the last minute check ended.
AllHeard == \A v \in vm_list, s \in Slot : IsFirst(s, v) => quiet[s] = 0

\* Bypass is not for ever: when the tables are healthy, the sessions stay as
\* they are and each listed VM reports between two minute checks, the relay
\* ends released for good.
Recovers ==
  /\ <>[](vm_pc = "update" => TableVote(rows) = "OFF")
  /\ <>[][UNCHANGED systemaddr]_vars
  /\ <>[][TcpBegin => AllHeard]_vars
  => <>[](bp_mode = "OFF")
=============================================================================
