---------------------------- MODULE VmStateTable ----------------------------
(***************************************************************************)
(* stateinfo[] of the HOST process: what every VM last reported of its     *)
(* processes, one entry per VM, found by the address in the entry.         *)
(*                                                                         *)
(* fifo_getTask stores reports: it copies the table, searches the copy and *)
(* stores the whole copy back, in two sections under StateMutex.           *)
(* tcp_rcvTask empties the entry of a VM whose connection broke, and       *)
(* CheckTcpStatusTask one entry for each VM that went silent; both look    *)
(* for the entry without the mutex and empty it with the mutex.  A section *)
(* under StateMutex is one action, and so is each look without it.         *)
(*                                                                         *)
(* Of the sessions only what the table depends on is here: which slots     *)
(* have a connection, and the address its first report left in             *)
(* vmc_system[] (HostSessions has the rest).  tcp_rcvTask closes a slot    *)
(* and looks for the entry with TcpMutex held, so TcpSend waits for it.    *)
(* Any free slot is taken, where the code takes the first: the table does  *)
(* not know slots.  A VM reports under one address, its configured one.    *)
(***************************************************************************)
EXTENDS StateInfo, Sequences, FiniteSets

CONSTANTS
  VM,              \* virtual machines, named by their address
  State,           \* what a report can say of the processes of a VM
  NoState,         \* basePState: nothing reported
  Slot,            \* slots of alist[] and vmc_system[]
  NoSlot,
  MaxPlace,        \* bound: the last place of a VM in the VM list
  MaxReports       \* bound: reports in TcpFifo

ASSUME TableAssumption ==
  /\ NoAddr \notin VM
  /\ NoState \notin State
  /\ NoSlot \notin Slot
  /\ MaxPlace \in Nat
  /\ MaxReports \in Nat \ {0}

\* alist[] and vmc_system[] have MAX_SYSTEM_NUM slots, as many as the table
\* has entries; a small instance may have fewer.
ASSUME SlotAssumption ==
  IsFiniteSet(Slot) /\ Cardinality(Slot) <= MAX_SYSTEM_NUM

Entry == [vm_ip : VM \union {NoAddr}, pstate : State \union {NoState}]
Empty == [vm_ip |-> NoAddr, pstate |-> NoState]
Table == [Index -> Entry]
Report == [vm : VM, pstate : State, slot : Slot]

VARIABLES
  stateinfo,   \* the table
  open,        \* slots with a connection
  systemaddr,  \* vmc_system[].systemaddr
  fifo,        \* TcpFifo
  getter,      \* where fifo_getTask is: idle, answer, copy, store
  msg,         \* the report it handles: a sequence of at most one
  vmstate,     \* its copy of the table
  rx,          \* where tcp_rcvTask is: idle, look, empty, forget
  closing,     \* the slot whose connection it closed
  rxAt,        \* the entry it looks at
  checker,     \* where CheckTcpStatusTask is: idle, look, empty
  hung,        \* the VM it found silent, while it looks for its entry
  checkAt,     \* the entry it looks at
  last,        \* history: the last report stored of each VM
  late         \* history: VMs whose last connection was closed while a
               \*   report was on its way into the table, or by TcpSend

getTask  == <<getter, msg, vmstate>>
rxTask   == <<rx, closing, rxAt>>
tcpTask  == <<checker, hung, checkAt>>
sessions == <<open, systemaddr>>
vars     == <<stateinfo, sessions, fifo, getTask, rxTask, tcpTask, last, late>>

Init ==
  /\ stateinfo = [i \in Index |-> Empty]
  /\ open = {} /\ systemaddr = [s \in Slot |-> NoAddr]
  /\ fifo = <<>>
  /\ getter = "idle" /\ msg = <<>> /\ vmstate = stateinfo
  /\ rx = "idle" /\ closing = NoSlot /\ rxAt = 0
  /\ checker = "idle" /\ hung = NoAddr /\ checkAt = 0
  /\ last = [v \in VM |-> NoState] /\ late = {}

-----------------------------------------------------------------------------
(***************************************************************************)
(* The table                                                               *)
(***************************************************************************)
\* The entries of a table that carry an address.
With(t, addr) == {i \in Index : t[i].vm_ip = addr}

First(S) == CHOOSE i \in S : \A j \in S : i <= j

\* Slip: a report is put into the first empty entry without a search.
TargetFirstEmpty(t, v) ==
  IF With(t, NoAddr) # {} THEN First(With(t, NoAddr)) ELSE MAX_SYSTEM_NUM

\* Slip: an empty entry ends the search, as if the table had no gaps.
TargetBeforeGap(t, v) ==
  LET S == With(t, v) \union With(t, NoAddr) IN
  IF S # {} THEN First(S) ELSE MAX_SYSTEM_NUM

\* Slip: the search for an empty entry leaves the last one out.
TargetLeavesOne(t, v) ==
  LET S == With(t, NoAddr) \ {MAX_SYSTEM_NUM - 1} IN
  IF With(t, v) # {} THEN First(With(t, v))
  ELSE IF S # {} THEN First(S)
  ELSE MAX_SYSTEM_NUM

\* Where SetVmProcessStateInfo puts a report: the entry of the VM, or else
\* the first empty one, or else none, which is MAX_SYSTEM_NUM.
Target(t, v) ==
  IF With(t, v) # {} THEN First(With(t, v))
  ELSE IF With(t, NoAddr) # {} THEN First(With(t, NoAddr))
  ELSE MAX_SYSTEM_NUM

\* The reports of a VM that are not in the table yet.
Pending == {fifo[k].vm : k \in DOMAIN fifo} \union {msg[k].vm : k \in DOMAIN msg}

Registered == {systemaddr[s] : s \in Slot} \ {NoAddr}

-----------------------------------------------------------------------------
(***************************************************************************)
(* tcp_rcvTask                                                             *)
(***************************************************************************)
Accept(s) ==
  /\ rx = "idle" /\ s \notin open
  /\ open' = open \union {s}
  /\ UNCHANGED <<stateinfo, systemaddr, fifo, getTask, rxTask, tcpTask, last, late>>

PutReport(r) == Len(fifo) < MaxReports /\ fifo' = Append(fifo, r)

\* The first report of a connection registers its VM.
Receive(s, v, p) ==
  /\ rx = "idle" /\ s \in open
  /\ systemaddr[s] \in {NoAddr, v}
  /\ systemaddr' = [systemaddr EXCEPT ![s] = v]
  /\ PutReport([vm |-> v, pstate |-> p, slot |-> s])
  /\ late' = IF systemaddr[s] = NoAddr THEN late \ {v} ELSE late
  /\ UNCHANGED <<stateinfo, open, getTask, rxTask, tcpTask, last>>

\* Slip: the session is forgotten before its entry was looked for.
ReceiveFailsForgetting(s) ==
  /\ rx = "idle" /\ s \in open
  /\ open' = open \ {s}
  /\ systemaddr' = [systemaddr EXCEPT ![s] = NoAddr]
  /\ rx' = "look" /\ closing' = s /\ rxAt' = 0
  /\ late' = IF systemaddr[s] \in Pending \/ getter = "store"
             THEN late \union ({systemaddr[s]} \ {NoAddr}) ELSE late
  /\ UNCHANGED <<stateinfo, fifo, getTask, tcpTask, last>>

\* A connection broke.
ReceiveFails(s) ==
  /\ rx = "idle" /\ s \in open
  /\ open' = open \ {s}
  /\ rx' = "look" /\ closing' = s /\ rxAt' = 0
  /\ late' = IF systemaddr[s] \in Pending \/ getter = "store"
             THEN late \union ({systemaddr[s]} \ {NoAddr}) ELSE late
  /\ UNCHANGED <<stateinfo, systemaddr, fifo, getTask, tcpTask, last>>

\* The address of a connection that never reported is 0, which an empty
\* entry has.
Matches(i) == stateinfo[i].vm_ip = systemaddr[closing]

\* Slip: the search goes one entry too far.
LookPastEnd ==
  /\ rx = "look"
  /\ IF rxAt \in Index /\ Matches(rxAt) THEN rx' = "empty" /\ rxAt' = rxAt
     ELSE IF rxAt < MAX_SYSTEM_NUM THEN rx' = "look" /\ rxAt' = rxAt + 1
     ELSE rx' = "forget" /\ rxAt' = 0
  /\ UNCHANGED <<stateinfo, sessions, fifo, getTask, closing, tcpTask, last, late>>

Look ==
  /\ rx = "look"
  /\ \/ /\ Matches(rxAt)
        /\ rx' = "empty" /\ rxAt' = rxAt
     \/ /\ ~Matches(rxAt) /\ rxAt < MAX_SYSTEM_NUM - 1
        /\ rx' = "look" /\ rxAt' = rxAt + 1
     \/ /\ ~Matches(rxAt) /\ rxAt = MAX_SYSTEM_NUM - 1
        /\ rx' = "forget" /\ rxAt' = 0
  /\ UNCHANGED <<stateinfo, sessions, fifo, getTask, closing, tcpTask, last, late>>

EmptyBroken ==
  /\ rx = "empty"
  /\ stateinfo' = [stateinfo EXCEPT ![rxAt] = Empty]
  /\ rx' = "forget" /\ rxAt' = 0
  /\ UNCHANGED <<sessions, fifo, getTask, closing, tcpTask, last, late>>

Forget ==
  /\ rx = "forget"
  /\ systemaddr' = [systemaddr EXCEPT ![closing] = NoAddr]
  /\ rx' = "idle" /\ closing' = NoSlot
  /\ UNCHANGED <<stateinfo, open, fifo, getTask, rxAt, tcpTask, last, late>>

-----------------------------------------------------------------------------
(***************************************************************************)
(* fifo_getTask                                                            *)
(***************************************************************************)
Get ==
  /\ getter = "idle" /\ fifo # <<>>
  /\ getter' = "answer" /\ msg' = <<Head(fifo)>> /\ fifo' = Tail(fifo)
  /\ UNCHANGED <<stateinfo, sessions, vmstate, rxTask, tcpTask, last, late>>

\* TcpSend closes the connection, and leaves the table alone.
AnswerFails ==
  LET s == Head(msg).slot IN
  /\ getter = "answer" /\ rx = "idle" /\ s \in open
  /\ getter' = "copy"
  /\ open' = open \ {s}
  /\ systemaddr' = [systemaddr EXCEPT ![s] = NoAddr]
  /\ late' = late \union ({systemaddr[s]} \ {NoAddr})
  /\ UNCHANGED <<stateinfo, fifo, msg, vmstate, rxTask, tcpTask, last>>

\* An answer that is sent, and one that has nobody to go to, change nothing
\* here: the copy is the next step.
Copy ==
  /\ getter \in {"answer", "copy"}
  /\ getter' = "store" /\ vmstate' = stateinfo
  /\ late' = IF rx = "idle" THEN late
             ELSE late \union ({systemaddr[closing]} \ {NoAddr})
  /\ UNCHANGED <<stateinfo, sessions, fifo, msg, rxTask, tcpTask, last>>

\* The copy is searched, completed and stored.  A report without a place
\* is dropped.
Store ==
  LET m == Head(msg)
      at == Target(vmstate, m.vm) IN
  /\ getter = "store"
  /\ \/ /\ at \in Index
        /\ stateinfo' = [vmstate EXCEPT ![at] = [vm_ip |-> m.vm, pstate |-> m.pstate]]
        /\ last' = [last EXCEPT ![m.vm] = m.pstate]
     \/ /\ at \notin Index
        /\ UNCHANGED <<stateinfo, last>>
  /\ getter' = "idle" /\ msg' = <<>>
  /\ vmstate' = [i \in Index |-> Empty]
  /\ UNCHANGED <<sessions, fifo, rxTask, tcpTask, late>>

-----------------------------------------------------------------------------
(***************************************************************************)
(* CheckTcpStatusTask                                                      *)
(***************************************************************************)
\* A VM with a session was silent for too long.
FindsHung(v) ==
  /\ checker = "idle" /\ v \in Registered
  /\ checker' = "look" /\ hung' = v /\ checkAt' = 0
  /\ UNCHANGED <<stateinfo, sessions, fifo, getTask, rxTask, last, late>>

CheckOn(pc) == checker' = pc /\ hung' = NoAddr /\ checkAt' = 0

LookForHung ==
  LET found == stateinfo[checkAt].vm_ip = hung
      end == checkAt = MAX_SYSTEM_NUM - 1 IN
  /\ checker = "look"
  /\ \/ found /\ CheckOn("empty")
     \/ ~found /\ ~end /\ checkAt' = checkAt + 1 /\ UNCHANGED <<checker, hung>>
     \/ ~found /\ end /\ CheckOn("idle")
  /\ UNCHANGED <<stateinfo, sessions, fifo, getTask, rxTask, last, late>>

\* The bytes of vmc_stateinfo_t: what comes before pstate[], a process, and
\* pstate[] with its MAX_VM_PROC_NUM processes.
HeadSize == 120
ProcSize == 68
StatesSize == 12 * ProcSize
EntrySize == HeadSize + StatesSize

\* The entry at a place, which is that of the silent VM in the VM list and not
\* that of its entry, is cleared and gets the processes of basePState[] from
\* the place on: StatesSize bytes from pstate[place] on, which run into the
\* entries behind it.  Position(place, j, byte) is where they have a byte of
\* entry j.
Position(place, j, byte) ==
  (j - place) * EntrySize + byte - (HeadSize + place * ProcSize)

AddrHit(place, j) == Position(place, j, 0) \in 0 .. StatesSize - 1

StatesHit(place, j) ==
  /\ Position(place, j, HeadSize) < StatesSize
  /\ Position(place, j, EntrySize) > 0

\* The address of the next entry comes from right behind basePState[], where
\* the build has padding, and nobody looks at the states of an entry without an
\* address: both entries are empty.
Emptied(place) == {j \in Index : j = place \/ (j = place + 1 /\ AddrHit(place, j))}

\* What is written further behind may be any other variable.
Spoilt(place) ==
  {j \in Index \ Emptied(place) : AddrHit(place, j) \/ StatesHit(place, j)}

\* Nova gives the VM list in any order, so the place is any.  What the copy
\* writes behind the table is left out.
EmptyHung(place) ==
  /\ checker = "empty"
  /\ \E bytes \in [Spoilt(place) -> Entry] :
       stateinfo' = [j \in Index |->
         IF j \in Emptied(place) THEN Empty
         ELSE [vm_ip  |-> IF AddrHit(place, j) THEN bytes[j].vm_ip
                          ELSE stateinfo[j].vm_ip,
               pstate |-> IF StatesHit(place, j) THEN bytes[j].pstate
                          ELSE stateinfo[j].pstate]]
  /\ CheckOn("idle")
  /\ UNCHANGED <<sessions, fifo, getTask, rxTask, last, late>>

-----------------------------------------------------------------------------
Receiver ==
  \/ \E s \in Slot : Accept(s) \/ ReceiveFails(s)
  \/ \E s \in Slot, v \in VM, p \in State : Receive(s, v, p)
  \/ Look \/ EmptyBroken \/ Forget

Getter == Get \/ AnswerFails \/ Copy \/ Store

Checker ==
  \/ \E v \in VM : FindsHung(v)
  \/ LookForHung
  \/ \E place \in Index : place <= MaxPlace /\ EmptyHung(place)

Next == Receiver \/ Getter \/ Checker

Spec == Init /\ [][Next]_vars

-----------------------------------------------------------------------------
(***************************************************************************)
(* Properties                                                              *)
(***************************************************************************)
\* Every variable of the table and of its three threads has its type.
TypeOK ==
  /\ stateinfo \in Table /\ vmstate \in Table
  /\ open \subseteq Slot /\ systemaddr \in [Slot -> VM \union {NoAddr}]
  /\ fifo \in Seq(Report)
  /\ getter \in {"idle", "answer", "copy", "store"}
  /\ msg \in Seq(Report) /\ (getter # "idle" => Len(msg) = 1)
  /\ rx \in {"idle", "look", "empty", "forget"}
  /\ closing \in Slot \union {NoSlot} /\ (rx # "idle" => closing \in Slot)
  /\ rxAt \in Index
  /\ checker \in {"idle", "look", "empty"}
  /\ hung \in VM \union {NoAddr} /\ checkAt \in Index
  /\ last \in [VM -> State \union {NoState}] /\ late \subseteq VM

\* A VM never has two entries, though the search and the store are two
\* sections and two other threads empty entries between them.
OneEntryPerVM ==
  \A i, j \in Index :
    stateinfo[i].vm_ip = stateinfo[j].vm_ip /\ i # j => stateinfo[i].vm_ip = NoAddr

\* An entry, also one that a stale copy brought back, shows the last report
\* handled of its VM and never an older one or that of another VM.
EntryIsLastReport ==
  \A i \in Index : stateinfo[i].vm_ip # NoAddr =>
    stateinfo[i].pstate = last[stateinfo[i].vm_ip]

\* The only VMs with an entry and without a session are those whose session
\* ended while a report was on its way into the table, or was closed by
\* TcpSend: in every other order of events tcp_rcvTask empties the entry.
OrphansAreLate ==
  \A i \in Index :
    stateinfo[i].vm_ip \in Registered \union late \union {NoAddr}

\* A VM with a session is crowded out of the table only by entries that were
\* left behind: if SetVmProcessStateInfo finds no place for its report, more
\* entries of the copy are those of VMs without a session than there would be
\* if every slot had a VM with an entry, and each of these VMs is one whose
\* session ended as OrphansAreLate says.
OnlyOrphansCrowdOut ==
  LET v == Head(msg).vm
      orphans == {i \in Index : vmstate[i].vm_ip \notin Registered} IN
  getter = "store" /\ v \in Registered /\ Target(vmstate, v) \notin Index =>
    /\ Cardinality(orphans) > MAX_SYSTEM_NUM - Cardinality(Slot)
    /\ \A i \in orphans : vmstate[i].vm_ip \in late
=============================================================================
