---------------------------- MODULE HostSessions ----------------------------
(***************************************************************************)
(* The TCP sessions of the HOST process: alist[], vmc_system[] and the     *)
(* watched descriptors, as tcp_rcvTask and fifo_getTask use them.          *)
(*                                                                         *)
(* tcp_rcvTask selects on the watched descriptors, accepts at most one     *)
(* connection a round and receives from the connections that were ready.   *)
(* fifo_getTask answers a report on the slot it came from, long after that *)
(* slot may have changed hands.  TcpMutex covers one accept, one addition  *)
(* to the watched descriptors, one pass over the slots and one TcpSend;    *)
(* what runs under it in one piece is one action.  A pass over the slots   *)
(* can wait inside recv(), with TcpMutex held, so it has a step per slot.  *)
(*                                                                         *)
(* Descriptors are reused: peer[f] is the VM behind an open descriptor,    *)
(* and rset may name a descriptor that was closed since the select.  The   *)
(* sockets linger for no time on either side (SO_LINGER), so a closed      *)
(* connection resets the other end: link[f] is "broken" from then on.      *)
(*                                                                         *)
(* port = 0 and AcceptFD = -1 always come together and are one value here; *)
(* so do systemport = 0 and systemaddr = 0 of vmc_system[].                *)
(***************************************************************************)
EXTENDS Integers, Sequences, FiniteSets

CONSTANTS
  VM,           \* virtual machines, named by their address
  NoAddr,       \* address 0
  Fd,           \* descriptors the kernel gives to connections
  NoFd,         \* AcceptFD -1
  MAX_LISTENQ,  \* slots of alist[] and vmc_system[]
  MaxReports,   \* bound: unhandled reports of one connection
  MaxOld        \* bound: unhandled reports of closed connections

ASSUME SessionAssumption ==
  /\ NoAddr \notin VM
  /\ NoFd \notin Fd
  /\ MAX_LISTENQ \in Nat \ {0}
  /\ MaxReports \in Nat \ {0}
  /\ MaxOld \in Nat

Slot == 0 .. MAX_LISTENQ - 1
NoSlot == -1

VARIABLES
  backlog,     \* the VMs whose connection waits to be accepted
  refused,     \* the VMs that wait to connect again
  peer,        \* the VM behind every open descriptor
  link,        \* whether its other end is still there
  unread,      \* what recv() has to give: nothing, part of a report, all of it
  AcceptFD,    \* alist[].AcceptFD
  addr,        \* alist[].sysinfo.systemaddr, which outlives the connection
  systemaddr,  \* vmc_system[].systemaddr
  allset,      \* the watched connections
  rset,        \* those select() found ready, and not yet visited
  rx,          \* where tcp_rcvTask is
  new,         \* the slot it accepted a connection for in this round
  fifo,        \* TcpFifo: the reports received and not yet handled
  getter,      \* where fifo_getTask is
  msg          \* the report it handles

net      == <<backlog, refused>>
conns    == <<peer, link, unread>>
sessions == <<AcceptFD, addr, systemaddr, allset>>
rxTask   == <<rx, rset, new>>
getTask  == <<getter, msg>>
vars     == <<net, conns, sessions, rxTask, fifo, getTask>>

\* A report in the queue: the slot it came from and, as history, the
\* descriptor it came on, NoFd from the moment that connection is closed.
Report == [slot : Slot, from : Fd \union {NoFd}]
NoReport == [slot |-> 0, from |-> NoFd]

Init ==
  /\ backlog = {} /\ refused = {}
  /\ peer = [f \in Fd |-> NoAddr]
  /\ link = [f \in Fd |-> "up"]
  /\ unread = [f \in Fd |-> "none"]
  /\ AcceptFD = [s \in Slot |-> NoFd]
  /\ addr = [s \in Slot |-> NoAddr]
  /\ systemaddr = [s \in Slot |-> NoAddr]
  /\ allset = {} /\ rset = {}
  /\ rx = "select" /\ new = NoSlot
  /\ fifo = <<>>
  /\ getter = "idle" /\ msg = NoReport

-----------------------------------------------------------------------------
(***************************************************************************)
(* The VMs and the network                                                 *)
(***************************************************************************)
Open == {f \in Fd : peer[f] # NoAddr}

\* select() reports a descriptor with data, and one whose other end is gone.
Readable(f) == unread[f] # "none" \/ link[f] = "broken"

\* The reports of descriptor f (or, for NoFd, of closed connections) that
\* fifo_getTask has still to handle.
Waiting(f) == {k \in DOMAIN fifo : fifo[k].from = f}

Connect(v) ==
  /\ v \notin backlog \union refused
  /\ Cardinality(Waiting(NoFd)) <= MaxOld
  /\ backlog' = backlog \union {v}
  /\ UNCHANGED <<refused, conns, sessions, rxTask, fifo, getTask>>

\* A VM sends a report: some of its bytes arrive, then the others.
BeginReport(f) ==
  /\ f \in Open /\ link[f] = "up" /\ unread[f] = "none"
  /\ Cardinality(Waiting(f)) < MaxReports
  /\ unread' = [unread EXCEPT ![f] = "part"]
  /\ UNCHANGED <<net, peer, link, sessions, rxTask, fifo, getTask>>

EndReport(f) ==
  /\ f \in Open /\ link[f] = "up" /\ unread[f] = "part"
  /\ unread' = [unread EXCEPT ![f] = "all"]
  /\ UNCHANGED <<net, peer, link, sessions, rxTask, fifo, getTask>>

\* The VM closes the connection, or dies, or the network gives it up.
Break(f) ==
  /\ f \in Open /\ link[f] = "up"
  /\ link' = [link EXCEPT ![f] = "broken"]
  /\ UNCHANGED <<net, peer, unread, sessions, rxTask, fifo, getTask>>

-----------------------------------------------------------------------------
(***************************************************************************)
(* Closing a session                                                       *)
(***************************************************************************)
Orphan(m, f) == IF m.from = f THEN [m EXCEPT !.from = NoFd] ELSE m

\* close(): the kernel forgets the connection of f.
Close(f) ==
  /\ peer' = [peer EXCEPT ![f] = NoAddr]
  /\ link' = [link EXCEPT ![f] = "up"]
  /\ unread' = [unread EXCEPT ![f] = "none"]

\* Slip: the descriptor stays among the watched ones.
DropSessionWatched(s) ==
  LET f == AcceptFD[s] IN
  /\ Close(f)
  /\ AcceptFD' = [AcceptFD EXCEPT ![s] = NoFd]
  /\ systemaddr' = [systemaddr EXCEPT ![s] = NoAddr]
  /\ UNCHANGED <<allset, addr>>

\* Slip: the slot is freed and vmc_system[] keeps its VM.
DropSessionRegistered(s) ==
  LET f == AcceptFD[s] IN
  /\ Close(f)
  /\ allset' = allset \ {f}
  /\ AcceptFD' = [AcceptFD EXCEPT ![s] = NoFd]
  /\ UNCHANGED <<systemaddr, addr>>

\* What TcpSend and TcpRecv both do about a connection that failed: it is no
\* longer watched, it is closed, its slot is free and vmc_system[] forgets it.
DropSession(s) ==
  LET f == AcceptFD[s] IN
  /\ Close(f)
  /\ allset' = allset \ {f}
  /\ AcceptFD' = [AcceptFD EXCEPT ![s] = NoFd]
  /\ systemaddr' = [systemaddr EXCEPT ![s] = NoAddr]
  /\ UNCHANGED addr

-----------------------------------------------------------------------------
(***************************************************************************)
(* tcp_rcvTask                                                             *)
(***************************************************************************)
\* Slip: the descriptors given to select() are used, not those it returns.
ReadyAll == allset

\* The watched connections select() finds ready.
Ready == {f \in allset : Readable(f)}

\* Slip: accept() is called in every round.
AfterSelectAccept == "accept"

AfterSelect == IF backlog # {} THEN "accept" ELSE "lock"

\* recv_extendedPoll finds something ready.  A descriptor in allset that is not
\* open would make select() fail, every time.
Select ==
  /\ rx = "select"
  /\ allset \subseteq Open
  /\ backlog # {} \/ Ready # {}
  /\ rset' = Ready
  /\ rx' = AfterSelect
  /\ refused' = IF backlog # {} THEN refused ELSE {}
  /\ new' = NoSlot
  /\ UNCHANGED <<backlog, conns, sessions, fifo, getTask>>

\* Nothing is ready for 200 ms.  A VM that was refused connects again after a
\* second, so the listening socket has been found quiet once before it does.
SelectTimesOut ==
  /\ rx = "select"
  /\ allset \subseteq Open
  /\ backlog = {} /\ Ready = {}
  /\ refused' = {}
  /\ UNCHANGED <<backlog, conns, sessions, rxTask, fifo, getTask>>

Free == {s \in Slot : AcceptFD[s] = NoFd}

\* The first slot for which nothing was accepted.
FirstFree(s) == s \in Free /\ \A t \in Free : s <= t

\* TcpAccept takes one connection.
Accept(v, f, s) ==
  /\ rx = "accept"
  /\ v \in backlog /\ f \notin Open /\ FirstFree(s)
  /\ backlog' = backlog \ {v}
  /\ peer' = [peer EXCEPT ![f] = v]
  /\ AcceptFD' = [AcceptFD EXCEPT ![s] = f]
  /\ rx' = "watch" /\ new' = s
  /\ UNCHANGED <<refused, link, unread, addr, systemaddr, allset, rset, fifo, getTask>>

\* accept() fails, for want of descriptors or memory: the connection stays in
\* the backlog, where the next select() finds it at once.  (TcpAccept returns -1,
\* and what is read as alist[-1].AcceptFD is no descriptor.)  The round ends
\* without a look at the sessions.
AcceptFails ==
  /\ rx = "accept"
  /\ rx' = "select" /\ rset' = {}
  /\ UNCHANGED <<net, conns, sessions, new, fifo, getTask>>

\* accept() succeeds, no slot is free and the connection is closed at once.
\* This round, too, ends without a look at the sessions.
Refuse(v) ==
  /\ rx = "accept"
  /\ v \in backlog /\ Free = {}
  /\ backlog' = backlog \ {v}
  /\ refused' = refused \union {v}
  /\ rx' = "select" /\ rset' = {}
  /\ UNCHANGED <<conns, sessions, new, fifo, getTask>>

\* Slip: the new connection is not watched.
WatchNot ==
  /\ rx = "watch"
  /\ rx' = "lock"
  /\ UNCHANGED <<net, conns, sessions, rset, new, fifo, getTask>>

\* The mutex was free since the accept: a late answer on this slot may have
\* closed the new connection.
Watch ==
  /\ rx = "watch"
  /\ IF AcceptFD[new] # NoFd
     THEN /\ allset' = allset \union {AcceptFD[new]}
          /\ rx' = "lock"
          /\ UNCHANGED rset
     ELSE /\ rx' = "select" /\ rset' = {}
          /\ UNCHANGED allset
  /\ UNCHANGED <<net, conns, AcceptFD, addr, systemaddr, new, fifo, getTask>>

\* The pass over the slots begins: TcpMutex is taken.
Lock ==
  /\ rx = "lock"
  /\ rx' = "scan"
  /\ UNCHANGED <<net, conns, sessions, rset, new, fifo, getTask>>

ToVisit == {s \in Slot : AcceptFD[s] \in rset}

\* The slot the pass is at.
Current(s) == s \in ToVisit /\ \A t \in ToVisit : s <= t

\* The first report of a connection names the VM; every report is queued.
Receive(s) ==
  LET f == AcceptFD[s] IN
  /\ rx = "scan" /\ Current(s)
  /\ unread[f] = "all"
  /\ unread' = [unread EXCEPT ![f] = "none"]
  /\ IF systemaddr[s] = NoAddr
     THEN /\ addr' = [addr EXCEPT ![s] = peer[f]]
          /\ systemaddr' = [systemaddr EXCEPT ![s] = peer[f]]
     ELSE UNCHANGED <<addr, systemaddr>>
  /\ fifo' = Append(fifo, [slot |-> s, from |-> f])
  /\ rset' = rset \ {f}
  /\ UNCHANGED <<net, peer, link, AcceptFD, allset, rx, new, getTask>>

\* TcpRecv fails.  (It also clears the entry of the VM in stateinfo[], which is
\* not part of this module.)
ReceiveFails(s) ==
  LET f == AcceptFD[s] IN
  /\ rx = "scan" /\ Current(s)
  /\ unread[f] # "all" /\ link[f] = "broken"
  /\ DropSession(s)
  /\ fifo' = [k \in DOMAIN fifo |-> Orphan(fifo[k], f)]
  /\ msg' = Orphan(msg, f)
  /\ rset' = rset \ {f}
  /\ UNCHANGED <<net, rx, new, getter>>

EndScan ==
  /\ rx = "scan" /\ ToVisit = {}
  /\ rx' = "select" /\ rset' = {}
  /\ UNCHANGED <<net, conns, sessions, new, fifo, getTask>>

-----------------------------------------------------------------------------
(***************************************************************************)
(* fifo_getTask                                                            *)
(***************************************************************************)
Get ==
  /\ getter = "idle" /\ fifo # <<>>
  /\ msg' = Head(fifo) /\ fifo' = Tail(fifo)
  /\ getter' = "lookup"
  /\ UNCHANGED <<net, conns, sessions, rxTask>>

\* Without a lock: is the VM of the slot, as it reads now, connected at all?
Lookup ==
  /\ getter = "lookup"
  /\ IF \E s \in Slot : systemaddr[s] = addr[msg.slot]
     THEN getter' = "send" /\ UNCHANGED msg
     ELSE getter' = "idle" /\ msg' = NoReport
  /\ UNCHANGED <<net, conns, sessions, rxTask, fifo>>

\* Slip: a send that timed out frees the slot and leaves the connection open.
AnswerGivesUp ==
  LET f == AcceptFD[msg.slot] IN
  /\ getter = "send" /\ rx # "scan"
  /\ f # NoFd => link[f] = "up"
  /\ AcceptFD' = [AcceptFD EXCEPT ![msg.slot] = NoFd]
  /\ systemaddr' = [systemaddr EXCEPT ![msg.slot] = NoAddr]
  /\ getter' = "idle" /\ msg' = NoReport
  /\ UNCHANGED <<net, conns, addr, allset, rxTask, fifo>>

\* The answer leaves, or the descriptor is lost, or the send times out: nothing
\* of the session changes.
Answer ==
  LET f == AcceptFD[msg.slot] IN
  /\ getter = "send" /\ rx # "scan"
  /\ f # NoFd => link[f] = "up"
  /\ getter' = "idle" /\ msg' = NoReport
  /\ UNCHANGED <<net, conns, sessions, rxTask, fifo>>

AnswerFails ==
  LET f == AcceptFD[msg.slot] IN
  /\ getter = "send" /\ rx # "scan"
  /\ f # NoFd /\ link[f] = "broken"
  /\ DropSession(msg.slot)
  /\ fifo' = [k \in DOMAIN fifo |-> Orphan(fifo[k], f)]
  /\ getter' = "idle" /\ msg' = NoReport
  /\ UNCHANGED <<net, rxTask>>

-----------------------------------------------------------------------------
RcvTask ==
  \/ Select \/ SelectTimesOut \/ AcceptFails \/ Watch \/ Lock \/ EndScan
  \/ \E v \in VM, f \in Fd, s \in Slot : Accept(v, f, s)
  \/ \E v \in VM : Refuse(v)
  \/ \E s \in Slot : Receive(s) \/ ReceiveFails(s)

GetTask == Get \/ Lookup \/ Answer \/ AnswerFails

Vm(f) == BeginReport(f) \/ EndReport(f) \/ Break(f)

Network == \E v \in VM : Connect(v)

Next ==
  \/ RcvTask
  \/ GetTask
  \/ Network
  \/ \E f \in Fd : Vm(f)

Spec == Init /\ [][Next]_vars

\* The two threads run.  Nothing is assumed of the VMs: one that has sent half
\* of a report may never send the rest.
Fairness ==
  /\ WF_vars(RcvTask)
  /\ WF_vars(GetTask)

LiveSpec == Spec /\ Fairness

-----------------------------------------------------------------------------
(***************************************************************************)
(* Properties                                                              *)
(***************************************************************************)
\* The tables, the queue and the places of the two threads keep their types; a
\* round that accepts has a connection to accept, one that watches has a slot.
TypeOK ==
  /\ backlog \subseteq VM /\ refused \subseteq VM
  /\ peer \in [Fd -> VM \union {NoAddr}]
  /\ link \in [Fd -> {"up", "broken"}]
  /\ unread \in [Fd -> {"none", "part", "all"}]
  /\ AcceptFD \in [Slot -> Fd \union {NoFd}]
  /\ addr \in [Slot -> VM \union {NoAddr}]
  /\ systemaddr \in [Slot -> VM \union {NoAddr}]
  /\ allset \subseteq Fd /\ rset \subseteq Fd
  /\ rx \in {"select", "accept", "watch", "lock", "scan"}
  /\ new \in Slot \union {NoSlot}
  /\ fifo \in Seq(Report)
  /\ getter \in {"idle", "lookup", "send"}
  /\ msg \in Report
  /\ rx = "watch" => new # NoSlot
  /\ rx = "accept" => backlog # {}

Held == {AcceptFD[s] : s \in Slot} \ {NoFd}

\* The connection that was accepted and is not watched yet.
InGap == IF rx = "watch" THEN {AcceptFD[new]} ELSE {}

\* Every open connection has one slot, every slot an open connection, and all
\* of them are watched but the one just accepted: no connection is leaked, none
\* is closed under another slot, and select() never meets a closed descriptor,
\* although two threads close sessions and one of them adds new ones in two
\* separate sections (tcp_rcvTask, TcpAccept, TcpSend, TcpRecv).
WatchesSessions ==
  /\ \A s, t \in Slot : AcceptFD[s] = AcceptFD[t] /\ AcceptFD[s] # NoFd => s = t
  /\ Held = Open
  /\ allset = Held \ InGap

\* A VM that vmc_system[] names is the one at the other end of that slot's
\* connection: the monitors never judge a VM by the silence of another one.
RegisteredByOwner ==
  \A s \in Slot : systemaddr[s] # NoAddr =>
    AcceptFD[s] # NoFd /\ peer[AcceptFD[s]] = systemaddr[s] /\ addr[s] = systemaddr[s]

\* A report waiting for its answer still has its connection in its slot, unless
\* that connection was closed: no VM gets the answer to a live VM's report
\* (alist_idx in the queue, used by SendVmProcStateRsp much later).
AnswersReporter ==
  /\ \A k \in DOMAIN fifo : fifo[k].from # NoFd => AcceptFD[fifo[k].slot] = fifo[k].from
  /\ msg.from # NoFd => AcceptFD[msg.slot] = msg.from

\* recv() under TcpMutex can wait for a VM that has sent nothing only on the
\* connection accepted in the same round, on a descriptor that was ready when
\* it belonged to another one (rset of tcp_rcvTask).
WaitsOnlyForNew ==
  rx = "scan" =>
    \A s \in Slot : AcceptFD[s] \in rset /\ ~Readable(AcceptFD[s]) => s = new

\* tcp_rcvTask is in recv() for a VM that sends nothing.
InRecv == rx = "scan" /\ \E s \in Slot : Current(s) /\ unread[AcceptFD[s]] # "all"
                                         /\ link[AcceptFD[s]] = "up"

\* A connection that broke is closed in the end, whatever late answers, new and
\* refused connections come in between.  Two things only keep its slot taken
\* for good: recv() waits for ever for a VM that went silent in the middle of a
\* report, or from some time on a connection always waits to be accepted, which
\* ends every round before the sessions are looked at.
SlotsComeBack ==
  \/ \A f \in Fd : link[f] = "broken" ~> link[f] = "up"
  \/ <>[]InRecv
  \/ <>[](backlog # {})
=============================================================================
