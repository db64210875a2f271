------------------------- MODULE HostReports_proofs -------------------------
(***************************************************************************)
(* From the reports of the VMs to the rows of the orchestrator: the table  *)
(* of VM states has one entry per VM, with its last report, and no VM with *)
(* a session is refused an entry but for those left behind; the passes     *)
(* that read it bring a report into the row of its VM and do not take it   *)
(* back.  For any number of VMs, slots, entries, HOSTs and lists.          *)
(*                                                                         *)
(* What is said of the table itself, other than its types, is said of VM   *)
(* lists in which no VM that falls silent has a place behind SafePlace:    *)
(* beyond it the code copies other variables into entries of other VMs.    *)
(***************************************************************************)
EXTENDS VmStateTable, OrcheRows, TLAPS, FiniteSetTheorems, WellFoundedInduction

-----------------------------------------------------------------------------
(***************************************************************************)
(* The table                                                               *)
(***************************************************************************)
\* The last place from which the copy of CheckTcpStatus spoils no entry.
SafePlace == 12

\* What holds of the table and of every copy of it.
GoodTable(t) ==
  /\ \A i, j \in Index : t[i].vm_ip = t[j].vm_ip /\ i # j => t[i].vm_ip = NoAddr
  /\ \A i \in Index : t[i].vm_ip # NoAddr => t[i].pstate = last[t[i].vm_ip]

\* What the search of tcp_rcvTask has found out so far of the VM whose
\* connection broke, unless a report of it is on its way into the table.
SearchedFor(v) ==
  /\ v \notin Pending
  /\ getter # "store"
  /\ rx = "look" => \A j \in 0 .. rxAt - 1 : stateinfo[j].vm_ip # v
  /\ rx = "empty" => \A j \in Index \ {rxAt} : stateinfo[j].vm_ip # v
  /\ rx = "forget" => \A j \in Index : stateinfo[j].vm_ip # v

\* The VMs that may have an entry.
Known == Registered \union late \union {NoAddr}

OrphanInv ==
  /\ OrphansAreLate
  /\ \A i \in Index : vmstate[i].vm_ip \in Known
  /\ getter # "store" => \A i \in Index : vmstate[i].vm_ip = NoAddr
  /\ Pending \subseteq Known
  /\ rx # "idle" => \A v \in VM \ late : v = systemaddr[closing] => SearchedFor(v)

TableInv ==
  /\ TypeOK
  /\ GoodTable(stateinfo)
  /\ GoodTable(vmstate)
  /\ OrphanInv

-----------------------------------------------------------------------------
(***************************************************************************)
(* Searching a table                                                       *)
(***************************************************************************)
LEMMA IndexFacts == Index \subseteq Nat /\ 0 \in Index /\ MAX_SYSTEM_NUM \notin Index
BY SizeAssumption DEF Index

\* First finds an element of its argument, and so does every search.
LEMMA FirstFacts ==
  ASSUME NEW S \in SUBSET Index, S # {}
  PROVE  First(S) \in S
<1>1. PICK i \in S : \A j \in S : ~(<<j, i>> \in OpToRel(<, Nat))
  <2>1. S \subseteq Nat
    BY IndexFacts
  <2> QED
    BY <2>1, NatLessThanWellFounded, WFMin
<1>2. ASSUME NEW j \in S PROVE i <= j
  <2>1. i \in Nat /\ j \in Nat
    BY IndexFacts
  <2>2. ~(<<j, i>> \in OpToRel(<, Nat))
    BY <1>1
  <2>3. <<j, i>> \in {ss \in Nat \X Nat : ss[1] < ss[2]} <=> j < i
    BY <2>1
  <2>4. ~(j < i)
    BY <2>2, <2>3, Zenon DEF OpToRel
  <2> QED
    BY <2>1, <2>4
<1> QED
  BY <1>2 DEF First

LEMMA TargetFacts ==
  ASSUME NEW t \in Table, NEW v \in VM, Target(t, v) \in Index
  PROVE  \/ t[Target(t, v)].vm_ip = v
         \/ t[Target(t, v)].vm_ip = NoAddr /\ \A i \in Index : t[i].vm_ip # v
<1>1. CASE With(t, v) # {}
  <2>1. First(With(t, v)) \in With(t, v)
    BY <1>1, FirstFacts DEF With
  <2> QED
    BY <1>1, <2>1 DEF Target, With
<1>2. CASE With(t, v) = {} /\ With(t, NoAddr) # {}
  <2>1. First(With(t, NoAddr)) \in With(t, NoAddr)
    BY <1>2, FirstFacts DEF With
  <2> QED
    BY <1>2, <2>1 DEF Target, With
<1>3. CASE With(t, v) = {} /\ With(t, NoAddr) = {}
  BY <1>3, IndexFacts DEF Target
<1> QED
  BY <1>1, <1>2, <1>3

\* A report has no place only if every entry is another VM's.
LEMMA NoTarget ==
  ASSUME NEW t \in Table, NEW v \in VM, Target(t, v) \notin Index, NEW i \in Index
  PROVE  t[i].vm_ip \in VM \ {v}
<1>1. CASE With(t, v) # {}
  BY <1>1, FirstFacts DEF Target, With
<1>2. CASE With(t, v) = {} /\ With(t, NoAddr) # {}
  BY <1>2, FirstFacts DEF Target, With
<1>3. CASE With(t, v) = {} /\ With(t, NoAddr) = {}
  BY <1>3 DEF With, Table, Entry
<1> QED
  BY <1>1, <1>2, <1>3

\* The copy of basePState[] reaches no entry but the next one, and of that one
\* the address or nothing that is looked at.
LEMMA SafePlaces ==
  ASSUME NEW place \in Index, place <= SafePlace
  PROVE  Spoilt(place) = {}
<1> SUFFICES ASSUME NEW j \in Index, j # place, ~(j = place + 1 /\ AddrHit(place, j)),
                    AddrHit(place, j) \/ StatesHit(place, j)
             PROVE  FALSE
  BY DEF Spoilt, Emptied
<1>1. place \in 0 .. 12 /\ j \in Nat
  BY IndexFacts DEF SafePlace
<1>2. Position(place, j, 0) = (j - place) * 936 - 120 - place * 68
  BY <1>1 DEF Position, EntrySize, StatesSize, HeadSize, ProcSize
<1>3. Position(place, j, 120) = (j - place) * 936 - place * 68
  BY <1>1 DEF Position, EntrySize, StatesSize, HeadSize, ProcSize
<1>4. Position(place, j, 936) = (j - place) * 936 + 816 - place * 68
  BY <1>1 DEF Position, EntrySize, StatesSize, HeadSize, ProcSize
<1>5. AddrHit(place, j) <=> 0 <= Position(place, j, 0) /\ Position(place, j, 0) < 816
  BY <1>1, <1>2 DEF AddrHit, StatesSize, ProcSize
<1>6. StatesHit(place, j) <=> Position(place, j, 120) < 816 /\ Position(place, j, 936) > 0
  BY DEF StatesHit, StatesSize, ProcSize, HeadSize, EntrySize
<1>7. CASE j < place
  BY <1>1, <1>2, <1>3, <1>4, <1>5, <1>6, <1>7
<1>8. CASE j = place + 1
  BY <1>1, <1>2, <1>3, <1>4, <1>5, <1>6, <1>8
<1>9. CASE j > place + 1
  BY <1>1, <1>2, <1>3, <1>4, <1>5, <1>6, <1>9
<1> QED
  BY <1>1, <1>7, <1>8, <1>9

LEMMA HungIsEmptied ==
  ASSUME MaxPlace <= SafePlace, stateinfo \in Table,
         NEW place \in Index, place <= MaxPlace, EmptyHung(place)
  PROVE  \A i \in Index : stateinfo'[i] = stateinfo[i] \/ stateinfo'[i] = Empty
<1>1. Spoilt(place) = {}
  BY SafePlaces, IndexFacts, TableAssumption DEF SafePlace
<1>2. \A j \in Index : j \in Emptied(place) \/ ~(AddrHit(place, j) \/ StatesHit(place, j))
  BY <1>1 DEF Spoilt
<1>3. \A j \in Index : stateinfo[j] = [vm_ip |-> stateinfo[j].vm_ip,
                                       pstate |-> stateinfo[j].pstate]
  BY DEF Table, Entry
<1> QED
  BY <1>2, <1>3 DEF EmptyHung

-----------------------------------------------------------------------------
LEMMA InitInv == Init => TableInv
<1> SUFFICES ASSUME Init PROVE TableInv
  OBVIOUS
<1> USE TableAssumption, IndexFacts DEF Init
<1>1. TypeOK
  BY DEF TypeOK, Table, Entry, Empty
<1>2. GoodTable(stateinfo) /\ GoodTable(vmstate)
  BY DEF GoodTable, Empty
<1>3. OrphanInv
  BY DEF OrphanInv, OrphansAreLate, Known, Pending, Registered, Empty
<1> QED
  BY <1>1, <1>2, <1>3 DEF TableInv

-----------------------------------------------------------------------------
(***************************************************************************)
(* Every step keeps the types                                              *)
(***************************************************************************)
LEMMA EmptyIsEntry == Empty \in Entry
BY DEF Empty, Entry

LEMMA ReceiverTypes == TypeOK /\ Receiver => TypeOK'
<1> SUFFICES ASSUME TypeOK, Receiver PROVE TypeOK'
  OBVIOUS
<1> USE EmptyIsEntry, IndexFacts, TableAssumption
        DEF TypeOK, Table, sessions, getTask, tcpTask, rxTask
<1>1. ASSUME NEW s \in Slot, Accept(s) PROVE TypeOK'
  BY <1>1 DEF Accept
<1>2. ASSUME NEW s \in Slot, ReceiveFails(s) PROVE TypeOK'
  BY <1>2 DEF ReceiveFails
<1>3. ASSUME NEW s \in Slot, NEW v \in VM, NEW p \in State, Receive(s, v, p)
      PROVE  TypeOK'
  <2>1. [vm |-> v, pstate |-> p, slot |-> s] \in Report
    BY DEF Report
  <2> QED
    BY <1>3, <2>1 DEF Receive, PutReport
<1>4. CASE Look
  <2>1. rxAt < MAX_SYSTEM_NUM - 1 => rxAt + 1 \in Index
    BY SizeAssumption DEF Index
  <2> QED
    BY <1>4, <2>1 DEF Look
<1>5. CASE EmptyBroken
  BY <1>5 DEF EmptyBroken
<1>6. CASE Forget
  BY <1>6 DEF Forget
<1> QED
  BY <1>1, <1>2, <1>3, <1>4, <1>5, <1>6 DEF Receiver

LEMMA HeadOfMsg ==
  ASSUME TypeOK, getter # "idle"
  PROVE  /\ Head(msg) \in Report
         /\ Head(msg).vm \in VM /\ Head(msg).pstate \in State /\ Head(msg).slot \in Slot
         /\ 1 \in DOMAIN msg /\ Head(msg) = msg[1]
<1>1. msg \in Seq(Report) /\ Len(msg) = 1
  BY DEF TypeOK
<1>2. msg[1] \in Report /\ 1 \in DOMAIN msg /\ Head(msg) = msg[1]
  BY <1>1
<1> QED
  BY <1>2 DEF Report

LEMMA GetterTypes == TypeOK /\ Getter => TypeOK'
<1> SUFFICES ASSUME TypeOK, Getter PROVE TypeOK'
  OBVIOUS
<1> USE EmptyIsEntry, IndexFacts
        DEF TypeOK, Table, sessions, getTask, tcpTask, rxTask
<1>1. CASE Get
  <2>1. Head(fifo) \in Report /\ Tail(fifo) \in Seq(Report)
    BY <1>1 DEF Get
  <2>2. <<Head(fifo)>> \in Seq(Report) /\ Len(<<Head(fifo)>>) = 1
    BY <2>1
  <2> QED
    BY <1>1, <2>1, <2>2 DEF Get
<1>2. CASE AnswerFails
  BY <1>2, HeadOfMsg DEF AnswerFails
<1>3. CASE Copy
  BY <1>3 DEF Copy
<1>4. CASE Store
  <2> DEFINE m == Head(msg)
             target == Target(vmstate, m.vm)
  <2>1. m.vm \in VM /\ m.pstate \in State
    BY <1>4, HeadOfMsg DEF Store
  <2>2. [vm_ip |-> m.vm, pstate |-> m.pstate] \in Entry
    BY <2>1 DEF Entry
  <2>3. stateinfo' \in Table /\ last' \in [VM -> State \union {NoState}]
    BY <1>4, <2>1, <2>2 DEF Store
  <2>4. msg' \in Seq(Report) /\ getter' = "idle"
    BY <1>4 DEF Store
  <2> QED
    BY <1>4, <2>3, <2>4 DEF Store
<1> QED
  BY <1>1, <1>2, <1>3, <1>4 DEF Getter

LEMMA CheckerTypes == TypeOK /\ Checker => TypeOK'
<1> SUFFICES ASSUME TypeOK, Checker PROVE TypeOK'
  OBVIOUS
<1> USE EmptyIsEntry, IndexFacts, TableAssumption
        DEF TypeOK, Table, sessions, getTask, tcpTask, rxTask
<1>1. ASSUME NEW v \in VM, FindsHung(v) PROVE TypeOK'
  BY <1>1 DEF FindsHung
<1>2. CASE LookForHung
  <2>1. checkAt # MAX_SYSTEM_NUM - 1 => checkAt + 1 \in Index
    BY SizeAssumption DEF Index
  <2> QED
    BY <1>2, <2>1 DEF LookForHung, CheckOn
<1>3. ASSUME NEW place \in Index, EmptyHung(place) PROVE TypeOK'
  <2>1. PICK bytes \in [Spoilt(place) -> Entry] :
          stateinfo' = [j \in Index |->
            IF j \in Emptied(place) THEN Empty
            ELSE [vm_ip  |-> IF AddrHit(place, j) THEN bytes[j].vm_ip
                             ELSE stateinfo[j].vm_ip,
                  pstate |-> IF StatesHit(place, j) THEN bytes[j].pstate
                             ELSE stateinfo[j].pstate]]
    BY <1>3 DEF EmptyHung
  <2>2. ASSUME NEW j \in Index, j \notin Emptied(place), AddrHit(place, j) \/ StatesHit(place, j)
        PROVE  bytes[j] \in Entry
    BY <2>2 DEF Spoilt
  <2>3. ASSUME NEW j \in Index PROVE stateinfo'[j] \in Entry
    BY <2>1, <2>2 DEF Entry
  <2>4. stateinfo' \in [Index -> Entry]
    BY <2>1, <2>3
  <2> QED
    BY <1>3, <2>4 DEF EmptyHung, CheckOn
<1> QED
  BY <1>1, <1>2, <1>3 DEF Checker

LEMMA StepTypes == TypeOK /\ [Next]_vars => TypeOK'
<1>1. TypeOK /\ UNCHANGED vars => TypeOK'
  BY DEF TypeOK, vars, sessions, getTask, tcpTask, rxTask
<1> QED
  BY <1>1, ReceiverTypes, GetterTypes, CheckerTypes DEF Next

-----------------------------------------------------------------------------
(***************************************************************************)
(* Every step keeps the table and the copy good                            *)
(***************************************************************************)
\* Emptying entries of a good table leaves it good.
LEMMA EmptiedIsGood ==
  ASSUME NEW t \in Table, NEW u \in Table, GoodTable(t), UNCHANGED last,
         \A i \in Index : u[i] = t[i] \/ u[i] = Empty
  PROVE  GoodTable(u)'
BY DEF GoodTable, Empty

LEMMA StepGood ==
  ASSUME MaxPlace <= SafePlace, TableInv, [Next]_vars
  PROVE  GoodTable(stateinfo)' /\ GoodTable(vmstate)'
<1>0. stateinfo \in Table /\ vmstate \in Table /\ stateinfo' \in Table
  BY StepTypes DEF TableInv, TypeOK
<1>1. CASE UNCHANGED <<stateinfo, vmstate, last>>
  BY <1>1 DEF TableInv, GoodTable
<1>2. CASE EmptyBroken
  <2>1. \A i \in Index : stateinfo'[i] = stateinfo[i] \/ stateinfo'[i] = Empty
    BY <1>0, <1>2 DEF EmptyBroken, Table
  <2> QED
    BY <1>0, <1>2, <2>1 DEF EmptyBroken, getTask, GoodTable, TableInv, Empty
<1>3. ASSUME NEW place \in Index, place <= MaxPlace, EmptyHung(place)
      PROVE  GoodTable(stateinfo)' /\ GoodTable(vmstate)'
  <2>1. \A i \in Index : stateinfo'[i] = stateinfo[i] \/ stateinfo'[i] = Empty
    BY <1>0, <1>3, HungIsEmptied
  <2>2. UNCHANGED <<vmstate, last>>
    BY <1>3 DEF EmptyHung, getTask
  <2> QED
    BY <1>0, <2>1, <2>2 DEF GoodTable, TableInv, Empty
<1>4. CASE Copy
  BY <1>4 DEF Copy, TableInv, GoodTable
<1>5. CASE Store
  <2> DEFINE m == Head(msg)
             target == Target(vmstate, m.vm)
  <2>1. m.vm \in VM /\ m.pstate \in State
    BY <1>5, HeadOfMsg DEF Store, TableInv
  <2>2. GoodTable(vmstate)'
    BY <1>5 DEF Store, GoodTable, Empty
  <2>3. CASE target \notin Index
    BY <1>5, <2>2, <2>3 DEF Store, TableInv, GoodTable
  <2> SUFFICES ASSUME target \in Index PROVE GoodTable(stateinfo)'
    BY <2>2, <2>3
  <2>4. /\ stateinfo' = [vmstate EXCEPT ![target] = [vm_ip |-> m.vm, pstate |-> m.pstate]]
        /\ last' = [last EXCEPT ![m.vm] = m.pstate]
    BY <1>5 DEF Store
  <2>5. \A i \in Index \ {target} : vmstate[i].vm_ip # m.vm
    BY <1>0, <2>1, TargetFacts, TableAssumption DEF TableInv, GoodTable
  <2>6. stateinfo'[target].vm_ip = m.vm /\ stateinfo'[target].pstate = m.pstate
    BY <1>0, <2>4 DEF Table
  <2>7. \A i \in Index \ {target} : stateinfo'[i] = vmstate[i]
    BY <1>0, <2>4 DEF Table
  <2>8. last' \in [VM -> State \union {NoState}] /\ last'[m.vm] = m.pstate
    BY <2>1, <2>4 DEF TableInv, TypeOK
  <2>9. \A v \in VM \ {m.vm} : last'[v] = last[v]
    BY <2>1, <2>4 DEF TableInv, TypeOK
  <2>10. \A i \in Index : vmstate[i].vm_ip \in VM \union {NoAddr}
    BY <1>0 DEF Table, Entry
  <2> HIDE DEF m, target
  <2>11. GoodTable(stateinfo)'
    BY <2>1, <2>5, <2>6, <2>7, <2>8, <2>9, <2>10 DEF TableInv, GoodTable
  <2> QED
    BY <2>2, <2>11
<1>6. \/ UNCHANGED <<stateinfo, vmstate, last>> \/ EmptyBroken \/ Copy \/ Store
      \/ \E place \in Index : place <= MaxPlace /\ EmptyHung(place)
  BY DEF Next, Receiver, Getter, Checker, Accept, ReceiveFails, Receive, Look, Forget,
         Get, AnswerFails, FindsHung, LookForHung, vars, getTask
<1> QED
  BY <1>1, <1>2, <1>3, <1>4, <1>5, <1>6

-----------------------------------------------------------------------------
(***************************************************************************)
(* Every step keeps account of the VMs that may have an entry              *)
(***************************************************************************)
\* What a step may do to the reports on their way.
LEMMA PendingOfReceive ==
  ASSUME TypeOK, NEW s \in Slot, NEW v \in VM, NEW p \in State, Receive(s, v, p)
  PROVE  Pending' \subseteq Pending \union {v}
<1> DEFINE r == [vm |-> v, pstate |-> p, slot |-> s]
<1>1. fifo' = Append(fifo, r) /\ msg' = msg /\ r.vm = v
  BY DEF Receive, PutReport, getTask
<1>2. fifo \in Seq(Report) /\ r \in Report
  BY DEF TypeOK, Report
<1>3. \A k \in DOMAIN fifo' : fifo'[k] = r \/ (k \in DOMAIN fifo /\ fifo'[k] = fifo[k])
  BY <1>1, <1>2
<1> HIDE DEF r
<1> QED
  BY <1>1, <1>3 DEF Pending

LEMMA PendingOfGet == TypeOK /\ Get => Pending' \subseteq Pending
<1> SUFFICES ASSUME TypeOK, Get PROVE Pending' \subseteq Pending
  OBVIOUS
<1>1. fifo \in Seq(Report) /\ fifo # <<>> /\ fifo' = Tail(fifo) /\ msg' = <<Head(fifo)>>
  BY DEF Get, TypeOK
<1>2. \A k \in DOMAIN fifo' : k + 1 \in DOMAIN fifo /\ fifo'[k] = fifo[k + 1]
  BY <1>1
<1>3. \A k \in DOMAIN msg' : msg'[k] = fifo[1] /\ 1 \in DOMAIN fifo
  BY <1>1
<1> QED
  BY <1>2, <1>3 DEF Pending

LEMMA PendingOfStore ==
  TypeOK /\ Store => Pending' \subseteq Pending /\ Head(msg).vm \in Pending
<1> SUFFICES ASSUME TypeOK, Store
             PROVE  Pending' \subseteq Pending /\ Head(msg).vm \in Pending
  OBVIOUS
<1>1. fifo' = fifo /\ DOMAIN msg' = {} /\ getter = "store"
  BY DEF Store
<1>2. 1 \in DOMAIN msg /\ Head(msg) = msg[1]
  BY <1>1, HeadOfMsg
<1> QED
  BY <1>1, <1>2 DEF Pending

\* Steps that leave the sessions, the reports and the copy alone.
LEMMA QuietSteps ==
  ASSUME TableInv,
         UNCHANGED <<systemaddr, fifo, msg, vmstate, rx, closing, rxAt, late>>,
         getter' = "store" <=> getter = "store",
         \A i \in Index : stateinfo'[i] = stateinfo[i] \/ stateinfo'[i] = Empty
  PROVE  OrphanInv'
<1>1. UNCHANGED <<Known, Pending>>
  BY DEF Known, Pending, Registered
<1>2. OrphansAreLate' /\ \A i \in Index : vmstate'[i].vm_ip \in Known'
  BY <1>1 DEF TableInv, OrphanInv, OrphansAreLate, Known, Empty
<1>3. ASSUME rx # "idle", NEW v \in VM \ late, v = systemaddr[closing]
      PROVE  SearchedFor(v)'
  <2>1. SearchedFor(v) /\ v # NoAddr
    BY <1>3, TableAssumption DEF TableInv, OrphanInv
  <2>2. \A j \in 0 .. rxAt - 1 : j \in Index
    <3>1. rxAt \in Index
      BY DEF TableInv, TypeOK
    <3> QED
      BY <3>1, SizeAssumption DEF Index
  <2> QED
    BY <1>1, <2>1, <2>2 DEF SearchedFor, Empty
<1> QED
  BY <1>1, <1>2, <1>3 DEF TableInv, OrphanInv

LEMMA CheckerOrphans ==
  ASSUME MaxPlace <= SafePlace, TableInv, Checker
  PROVE  OrphanInv'
<1>1. UNCHANGED <<systemaddr, fifo, msg, vmstate, rx, closing, rxAt, late, getter>>
  BY DEF Checker, FindsHung, LookForHung, EmptyHung, sessions, getTask, rxTask
<1>2. \A i \in Index : stateinfo'[i] = stateinfo[i] \/ stateinfo'[i] = Empty
  <2>1. ASSUME NEW place \in Index, place <= MaxPlace, EmptyHung(place)
        PROVE  \A i \in Index : stateinfo'[i] = stateinfo[i] \/ stateinfo'[i] = Empty
    BY <2>1, HungIsEmptied DEF TableInv, TypeOK
  <2> QED
    BY <2>1 DEF Checker, FindsHung, LookForHung
<1> QED
  BY <1>1, <1>2, QuietSteps

LEMMA GetterOrphans == TableInv /\ Getter => OrphanInv'
<1> SUFFICES ASSUME TableInv, Getter PROVE OrphanInv'
  OBVIOUS
<1> USE DEF getTask, rxTask, tcpTask, sessions
<1>0. stateinfo \in Table /\ vmstate \in Table
  BY DEF TableInv, TypeOK
<1>1. CASE Get
  <2>1. Pending' \subseteq Pending
    BY <1>1, PendingOfGet DEF TableInv
  <2>2. UNCHANGED Known
    BY <1>1 DEF Get, Known, Registered
  <2> QED
    BY <1>1, <2>1, <2>2
    DEF Get, TableInv, OrphanInv, OrphansAreLate, Known, SearchedFor
<1>2. CASE AnswerFails
  <2>1. /\ UNCHANGED <<stateinfo, vmstate, fifo, msg, rx>> /\ rx = "idle"
        /\ getter # "store" /\ getter' # "store"
    BY <1>2 DEF AnswerFails
  <2>2. Known \subseteq Known'
    <3> DEFINE s == Head(msg).slot
    <3>1. /\ systemaddr' = [systemaddr EXCEPT ![s] = NoAddr]
          /\ late' = late \union ({systemaddr[s]} \ {NoAddr})
      BY <1>2 DEF AnswerFails
    <3>2. \A r \in Slot : systemaddr[r] = systemaddr'[r] \/ r = s
      BY <3>1 DEF TableInv, TypeOK
    <3> QED
      BY <3>1, <3>2 DEF Known, Registered
  <2>3. UNCHANGED Pending
    BY <2>1 DEF Pending
  <2> QED
    BY <2>1, <2>2, <2>3 DEF TableInv, OrphanInv, OrphansAreLate, Known
<1>3. CASE Copy
  <2>1. /\ vmstate' = stateinfo /\ getter' = "store"
        /\ UNCHANGED <<stateinfo, systemaddr, fifo, msg, rx, closing, rxAt>>
    BY <1>3 DEF Copy
  <2>2. late \subseteq late'
    BY <1>3 DEF Copy
  <2>3. Known \subseteq Known' /\ UNCHANGED Pending
    BY <2>1, <2>2 DEF Known, Registered, Pending
  <2>4. ASSUME rx # "idle", NEW v \in VM \ late', v = systemaddr[closing]
        PROVE  FALSE
    BY <1>3, <2>4, TableAssumption DEF Copy
  <2> QED
    BY <2>1, <2>3, <2>4 DEF TableInv, OrphanInv, OrphansAreLate, Known
<1>4. CASE Store
  <2>1. Pending' \subseteq Pending /\ Head(msg).vm \in Pending
    BY <1>4, PendingOfStore DEF TableInv
  <2>2. UNCHANGED <<systemaddr, late, rx, closing>> /\ UNCHANGED Known /\ getter = "store"
    BY <1>4 DEF Store, Known, Registered
  <2>3. \A i \in Index :
          \/ stateinfo'[i] = vmstate[i] \/ stateinfo'[i] = stateinfo[i]
          \/ stateinfo'[i].vm_ip = Head(msg).vm
    BY <1>0, <1>4 DEF Store, Table
  <2>4. \A i \in Index : vmstate'[i].vm_ip = NoAddr
    BY <1>4 DEF Store, Empty
  <2>5. OrphansAreLate'
    BY <2>1, <2>2, <2>3 DEF TableInv, OrphanInv, OrphansAreLate, Known
  <2>6. rx # "idle" => \A v \in VM \ late : v # systemaddr[closing]
    BY <2>2 DEF TableInv, OrphanInv, SearchedFor
  <2>7. \A i \in Index : vmstate'[i].vm_ip \in Known'
    BY <2>4 DEF Known
  <2>8. Pending' \subseteq Known'
    BY <2>1, <2>2 DEF TableInv, OrphanInv
  <2> QED
    BY <2>2, <2>4, <2>5, <2>6, <2>7, <2>8 DEF OrphanInv
<1> QED
  BY <1>1, <1>2, <1>3, <1>4 DEF Getter

LEMMA ReceiverOrphans == TableInv /\ Receiver => OrphanInv'
<1> SUFFICES ASSUME TableInv, Receiver PROVE OrphanInv'
  OBVIOUS
<1> USE DEF getTask, rxTask, tcpTask, sessions
<1>0. stateinfo \in Table /\ systemaddr \in [Slot -> VM \union {NoAddr}] /\ rxAt \in Index
  BY DEF TableInv, TypeOK
<1>1. ASSUME NEW s \in Slot, Accept(s) PROVE OrphanInv'
  BY <1>1, QuietSteps DEF Accept
<1>2. ASSUME NEW s \in Slot, ReceiveFails(s) PROVE OrphanInv'
  <2>1. UNCHANGED <<stateinfo, systemaddr, fifo, getter, msg, vmstate>>
    BY <1>2 DEF ReceiveFails
  <2>2. late \subseteq late'
    BY <1>2 DEF ReceiveFails
  <2>3. Known \subseteq Known' /\ UNCHANGED Pending
    BY <2>1, <2>2 DEF Known, Registered, Pending
  <2>4. ASSUME NEW v \in VM \ late', v = systemaddr'[closing']
        PROVE  SearchedFor(v)'
    <3>1. v = systemaddr[s] /\ rx' = "look" /\ rxAt' = 0
      BY <1>2, <2>1, <2>4 DEF ReceiveFails
    <3>2. v \notin Pending /\ getter # "store"
      BY <1>2, <2>4, <3>1, TableAssumption DEF ReceiveFails
    <3> QED
      BY <2>1, <2>3, <3>1, <3>2 DEF SearchedFor
  <2> QED
    BY <2>1, <2>3, <2>4 DEF TableInv, OrphanInv, OrphansAreLate, Known
<1>3. ASSUME NEW s \in Slot, NEW v \in VM, NEW p \in State, Receive(s, v, p)
      PROVE  OrphanInv'
  <2>1. UNCHANGED <<stateinfo, vmstate, rx, getter>> /\ rx = "idle"
    BY <1>3 DEF Receive
  <2>2. Pending' \subseteq Pending \union {v}
    BY <1>3, PendingOfReceive DEF TableInv
  <2>3. systemaddr' = [systemaddr EXCEPT ![s] = v] /\ systemaddr[s] \in {NoAddr, v}
    BY <1>3 DEF Receive
  <2>4. v \in Registered'
    BY <1>0, <2>3, TableAssumption DEF Registered
  <2>5. Registered \subseteq Registered'
    <3>1. \A r \in Slot : systemaddr'[r] = systemaddr[r] \/ systemaddr[r] \in {NoAddr, v}
      BY <1>0, <2>3
    <3> QED
      BY <2>4, <3>1 DEF Registered
  <2>6. late \subseteq late' \union {v}
    BY <1>3 DEF Receive
  <2>7. Known \subseteq Known'
    BY <2>4, <2>5, <2>6 DEF Known
  <2> QED
    BY <2>1, <2>2, <2>4, <2>7 DEF TableInv, OrphanInv, OrphansAreLate, Known
<1>4. CASE Look
  <2>1. UNCHANGED <<stateinfo, systemaddr, fifo, getter, msg, vmstate, closing, late>>
        /\ rx = "look"
    BY <1>4 DEF Look
  <2>2. UNCHANGED <<Known, Pending>>
    BY <2>1 DEF Known, Registered, Pending
  <2>3. ASSUME NEW v \in VM \ late, v = systemaddr[closing] PROVE SearchedFor(v)'
    <3>1. SearchedFor(v) /\ v # NoAddr
      BY <2>1, <2>3, TableAssumption DEF TableInv, OrphanInv
    <3>2. \A j \in 0 .. rxAt - 1 : stateinfo[j].vm_ip # v
      BY <2>1, <3>1 DEF SearchedFor
    <3>3. CASE Matches(rxAt)
      <4>1. rx' = "empty" /\ rxAt' = rxAt
        BY <1>4, <3>3 DEF Look
      <4>2. \A j \in Index \ {rxAt} : stateinfo[j].vm_ip # v
        BY <1>0, <2>3, <3>1, <3>3 DEF Matches, TableInv, GoodTable
      <4> QED
        BY <2>1, <2>2, <3>1, <4>1, <4>2 DEF SearchedFor
    <3>4. CASE ~Matches(rxAt) /\ rxAt < MAX_SYSTEM_NUM - 1
      <4>1. rx' = "look" /\ rxAt' = rxAt + 1
        BY <1>0, <1>4, <3>4, TableAssumption DEF Look, Index
      <4>2. \A j \in 0 .. rxAt' - 1 : stateinfo[j].vm_ip # v
        BY <1>0, <2>3, <3>2, <3>4, <4>1, TableAssumption DEF Matches, Index
      <4> QED
        BY <2>1, <2>2, <3>1, <4>1, <4>2 DEF SearchedFor
    <3>5. CASE ~Matches(rxAt) /\ rxAt = MAX_SYSTEM_NUM - 1
      <4>1. rx' = "forget"
        BY <1>4, <3>5 DEF Look
      <4>2. \A j \in Index : stateinfo[j].vm_ip # v
        BY <1>0, <2>3, <3>2, <3>5, TableAssumption DEF Matches, Index
      <4> QED
        BY <2>1, <2>2, <3>1, <4>1, <4>2 DEF SearchedFor
    <3> QED
      BY <1>4, <3>3, <3>4, <3>5 DEF Look
  <2> QED
    BY <2>1, <2>2, <2>3 DEF TableInv, OrphanInv, OrphansAreLate, Known
<1>5. CASE EmptyBroken
  <2>1. UNCHANGED <<systemaddr, fifo, getter, msg, vmstate, closing, late>>
        /\ rx = "empty" /\ rx' = "forget"
        /\ stateinfo' = [stateinfo EXCEPT ![rxAt] = Empty]
    BY <1>5 DEF EmptyBroken
  <2>2. UNCHANGED <<Known, Pending>>
    BY <2>1 DEF Known, Registered, Pending
  <2>3. \A i \in Index : stateinfo'[i] = IF i = rxAt THEN Empty ELSE stateinfo[i]
    BY <1>0, <2>1 DEF Table
  <2>4. ASSUME NEW v \in VM \ late, v = systemaddr[closing] PROVE SearchedFor(v)'
    <3>1. SearchedFor(v) /\ v # NoAddr
      BY <2>1, <2>4, TableAssumption DEF TableInv, OrphanInv
    <3> QED
      BY <2>1, <2>2, <2>3, <3>1 DEF SearchedFor, Empty
  <2>5. OrphansAreLate'
    BY <2>2, <2>3 DEF TableInv, OrphanInv, OrphansAreLate, Known, Empty
  <2> QED
    BY <2>1, <2>2, <2>4, <2>5 DEF TableInv, OrphanInv
<1>6. CASE Forget
  <2>1. UNCHANGED <<stateinfo, fifo, getter, msg, vmstate, late>> /\ rx = "forget"
        /\ rx' = "idle" /\ systemaddr' = [systemaddr EXCEPT ![closing] = NoAddr]
    BY <1>6 DEF Forget
  <2> DEFINE v == systemaddr[closing]
  <2>2. closing \in Slot /\ v \in VM \union {NoAddr}
    BY <1>0, <2>1 DEF TableInv, TypeOK
  <2>3. Known \ {v} \subseteq Known'
    <3>1. \A r \in Slot : systemaddr'[r] = systemaddr[r] \/ systemaddr[r] = v
      BY <1>0, <2>1
    <3> QED
      BY <2>1, <3>1 DEF Known, Registered
  <2>4. CASE v \in late \union {NoAddr}
    <3>1. Known \subseteq Known'
      BY <2>1, <2>3, <2>4 DEF Known
    <3> QED
      BY <2>1, <3>1 DEF TableInv, OrphanInv, OrphansAreLate, Known, Pending
  <2>5. CASE v \in VM \ late
    <3>1. SearchedFor(v)
      BY <2>1, <2>5 DEF TableInv, OrphanInv
    <3>2. /\ v \notin Pending /\ getter # "store"
          /\ \A i \in Index : stateinfo[i].vm_ip # v
      BY <2>1, <3>1 DEF SearchedFor
    <3>3. Pending' = Pending
      BY <2>1 DEF Pending
    <3>4. \A i \in Index : vmstate[i].vm_ip # v
      BY <2>5, <3>2, TableAssumption DEF TableInv, OrphanInv
    <3> QED
      BY <2>1, <2>3, <3>2, <3>3, <3>4 DEF TableInv, OrphanInv, OrphansAreLate, Known
  <2> QED
    BY <2>2, <2>4, <2>5
<1> QED
  BY <1>1, <1>2, <1>3, <1>4, <1>5, <1>6 DEF Receiver

LEMMA StepInv ==
  ASSUME MaxPlace <= SafePlace, TableInv, [Next]_vars
  PROVE  TableInv'
<1>1. ASSUME UNCHANGED vars PROVE OrphanInv'
  <2>1. UNCHANGED <<systemaddr, fifo, msg, vmstate, rx, closing, rxAt, late, getter, stateinfo>>
    BY <1>1 DEF vars, sessions, getTask, rxTask
  <2>2. \A i \in Index : stateinfo'[i] = stateinfo[i]
    BY <2>1
  <2> QED
    BY <2>1, <2>2, QuietSteps
<1>2. OrphanInv'
  BY <1>1, ReceiverOrphans, GetterOrphans, CheckerOrphans DEF Next
<1> QED
  BY <1>2, StepTypes, StepGood DEF TableInv

LEMMA Invariant ==
  ASSUME MaxPlace <= SafePlace
  PROVE  Spec => []TableInv
<1>1. TableInv /\ [Next]_vars => TableInv'
  BY StepInv
<1> QED
  BY <1>1, InitInv, PTL DEF Spec

-----------------------------------------------------------------------------
(***************************************************************************)
(* The theorems                                                            *)
(***************************************************************************)
\* The table, the copy and the three threads keep their types, whatever the
\* copy of CheckTcpStatus spoils: neither search leaves the table.
THEOREM TypeCorrect == Spec => []TypeOK
<1>1. Init => TypeOK
  BY InitInv DEF TableInv
<1> QED
  BY <1>1, StepTypes, PTL DEF Spec

\* SetVmProcessStateInfo never gives a VM a second entry, whatever is emptied
\* between its two sections, if no VM behind SafePlace falls silent.
THEOREM EntriesAreUnique ==
  ASSUME MaxPlace <= SafePlace
  PROVE  Spec => []OneEntryPerVM
<1>1. TableInv => OneEntryPerVM
  BY DEF TableInv, GoodTable, OneEntryPerVM
<1> QED
  BY <1>1, Invariant, PTL

\* What ProcessVmStateTask copies of a VM is the last report stored of it, if
\* no VM behind SafePlace falls silent.
THEOREM EntriesAreCurrent ==
  ASSUME MaxPlace <= SafePlace
  PROVE  Spec => []EntryIsLastReport
<1>1. TableInv => EntryIsLastReport
  BY DEF TableInv, GoodTable, EntryIsLastReport
<1> QED
  BY <1>1, Invariant, PTL

\* TcpRecv leaves an entry behind only when a report overtook it, if no VM
\* behind SafePlace falls silent.
THEOREM OrphansExplained ==
  ASSUME MaxPlace <= SafePlace
  PROVE  Spec => []OrphansAreLate
<1>1. TableInv => OrphansAreLate
  BY DEF TableInv, OrphanInv
<1> QED
  BY <1>1, Invariant, PTL

\* Fewer entries than there are slots belong to other VMs with a session when
\* a VM with a session reports.
LEMMA OthersWithSession ==
  ASSUME TypeOK, NEW v \in Registered,
         NEW A \in SUBSET Index, NEW f \in [A -> Registered \ {v}],
         \A i, j \in A : f[i] = f[j] => i = j
  PROVE  IsFiniteSet(A) /\ Cardinality(A) \in Nat /\ Cardinality(A) < Cardinality(Slot)
<1> DEFINE r == [s \in Slot |-> systemaddr[s]]
<1>1. IsFiniteSet(Slot) /\ Cardinality(Slot) \in Nat
  BY SlotAssumption, FS_CardinalityType
<1>2. r \in Surjection(Slot, {systemaddr[s] : s \in Slot})
  BY DEF Surjection
<1>3. /\ IsFiniteSet({systemaddr[s] : s \in Slot})
      /\ Cardinality({systemaddr[s] : s \in Slot}) <= Cardinality(Slot)
  BY <1>1, <1>2, FS_Surjection
<1>4. Registered \subseteq {systemaddr[s] : s \in Slot}
  BY DEF Registered
<1>5. IsFiniteSet(Registered) /\ Cardinality(Registered) <= Cardinality(Slot)
      /\ Cardinality(Registered) \in Nat
  BY <1>1, <1>3, <1>4, FS_Subset, FS_CardinalityType
<1>6. IsFiniteSet(Registered \ {v}) /\ Cardinality(Registered \ {v}) = Cardinality(Registered) - 1
  BY <1>5, FS_RemoveElement
<1>7. IsFiniteSet(A)
  <2>1. IsFiniteSet(Index)
    BY SizeAssumption, FS_Interval DEF Index
  <2> QED
    BY <2>1, FS_Subset
<1>8. Cardinality(A) <= Cardinality(Registered \ {v})
  BY <1>6, <1>7, FS_PigeonHole, FS_CardinalityType
<1> QED
  BY <1>1, <1>5, <1>6, <1>7, <1>8, FS_CardinalityType

\* A VM with a session is refused an entry only for those left behind, if no VM
\* behind SafePlace falls silent: this is how far the table may fill up.
THEOREM CrowdingExplained ==
  ASSUME MaxPlace <= SafePlace
  PROVE  Spec => []OnlyOrphansCrowdOut
<1>1. TableInv => OnlyOrphansCrowdOut
  <2> DEFINE v == Head(msg).vm
             orphans == {i \in Index : vmstate[i].vm_ip \notin Registered}
             A == Index \ orphans
             f == [i \in A |-> vmstate[i].vm_ip]
  <2> SUFFICES ASSUME TableInv, getter = "store", v \in Registered,
                      Target(vmstate, v) \notin Index
               PROVE  /\ Cardinality(orphans) > MAX_SYSTEM_NUM - Cardinality(Slot)
                      /\ \A i \in orphans : vmstate[i].vm_ip \in late
    BY DEF OnlyOrphansCrowdOut
  <2>1. v \in VM /\ vmstate \in Table /\ TypeOK
    BY HeadOfMsg DEF TableInv, TypeOK
  <2>2. \A i \in Index : vmstate[i].vm_ip \in VM \ {v}
    BY <2>1, NoTarget
  <2>3. \A i \in orphans : vmstate[i].vm_ip \in late
    BY <2>2, TableAssumption DEF TableInv, OrphanInv, Known
  <2>4. f \in [A -> Registered \ {v}]
    BY <2>2
  <2>5. \A i, j \in A : f[i] = f[j] => i = j
    BY <2>2, TableAssumption DEF TableInv, GoodTable
  <2>6. IsFiniteSet(Index) /\ Cardinality(Index) = MAX_SYSTEM_NUM
    BY SizeAssumption, FS_Interval DEF Index
  <2> HIDE DEF f
  <2>7. Cardinality(A) \in Nat /\ Cardinality(A) < Cardinality(Slot)
    BY <2>1, <2>4, <2>5, OthersWithSession
  <2>8. Cardinality(Index \ A) = Cardinality(Index) - Cardinality(Index \cap A)
    BY <2>6, FS_Difference
  <2>9. Index \cap A = A /\ Index \ A = orphans
    OBVIOUS
  <2>10. Cardinality(Slot) \in Nat
    BY SlotAssumption, FS_CardinalityType
  <2> HIDE DEF A, orphans
  <2>11. Cardinality(orphans) > MAX_SYSTEM_NUM - Cardinality(Slot)
    BY <2>6, <2>7, <2>8, <2>9, <2>10, SizeAssumption
  <2> QED
    BY <2>3, <2>11 DEF orphans
<1> QED
  BY <1>1, Invariant, PTL

-----------------------------------------------------------------------------
Registry == INSTANCE SessionTable

\* The sessions that the table of VM states is about come and go as SessionTable
\* says, also while tcp_rcvTask searches the table between close and forget.
THEOREM RefinesTable == Spec => Registry!Spec
<1>1. Init => Registry!Init
  BY DEF Init, Registry!Init
<1>2. TypeOK /\ [Next]_vars => [Registry!Next]_systemaddr
  <2> SUFFICES ASSUME TypeOK, Next, systemaddr' # systemaddr PROVE Registry!Next
    BY DEF vars, sessions
  <2>1. ASSUME NEW s \in Slot, NEW v \in VM, NEW p \in State, Receive(s, v, p)
        PROVE  Registry!Next
    <3>1. systemaddr[s] = NoAddr
      BY <2>1 DEF Receive, TypeOK
    <3> QED
      BY <2>1, <3>1 DEF Receive, Registry!Next, Registry!Register
  <2>2. ASSUME NEW s \in Slot, systemaddr' = [systemaddr EXCEPT ![s] = NoAddr]
        PROVE  Registry!Next
    BY <2>2 DEF Registry!Next, Registry!Vanish
  <2>3. CASE Forget
    BY <2>2, <2>3 DEF Forget, TypeOK
  <2>4. CASE AnswerFails
    BY <2>2, <2>4, HeadOfMsg DEF AnswerFails
  <2> QED
    BY <2>1, <2>3, <2>4 DEF Next, Receiver, Getter, Checker, Accept, ReceiveFails, Look,
         EmptyBroken, Get, Copy, Store, FindsHung, LookForHung, EmptyHung, CheckOn, sessions
<1> QED
  BY <1>1, <1>2, TypeCorrect, PTL DEF Spec, Registry!Spec

-----------------------------------------------------------------------------
(***************************************************************************)
(* The rows                                                                *)
(***************************************************************************)
\* A pass starts with the first VM of its list.
StartOfPass ==
  \A h \in Host : /\ pc[h] = "sleep" => at[h] = 1
                  /\ pc[h] = "count" => at[h] # 0

\* The VMs of its list a pass has behind it.
Behind(h) == {k \in DOMAIN vstatus[h] : pc[h] \in {"metal", "done"} \/ k < at[h]}

Reported(id) == \E r \in RowsOf(id) : r.shown # NoAddr

\* The report on the k-th VM of the list is in a row, or was lost.
Brought(h, k) ==
  LET id == vstatus[h][k].id IN
  ShownOf(h, vstatus[h][k].ip) # NoAddr /\ id \notin failed[h] \union overwritten => Reported(id)

BroughtInv == \A h \in Host : \A k \in Behind(h) : Brought(h, k)

\* A HOST about to update rows saw one of them show nothing; it is still there
\* if a row of the HOST itself is, since an update takes all rows of the VM.
CheckedInv ==
  \A h \in Host : pc[h] = "update" =>
    \A r \in RowsOf(Current(h).id) : r.by = h /\ r.shown # NoAddr =>
      \E q \in RowsOf(Current(h).id) : q.shown = NoAddr

RowsInv == RowsTypeOK /\ StartOfPass /\ BroughtInv /\ CheckedInv

\* A VM list is a sequence of items.
LEMMA ListFacts ==
  ASSUME NEW list \in Lists \union {<<>>}
  PROVE  /\ Len(list) \in Nat /\ DOMAIN list = 1 .. Len(list)
         /\ \A k \in DOMAIN list : list[k] \in Item
<1>1. list \in Seq(Item)
  <2>1. <<>> \in Seq(Item)
    OBVIOUS
  <2> QED
    BY <2>1, OrcheAssumption
<1> QED
  BY <1>1

\* A query is made for a VM of Nova, and writes a row.
LEMMA RowFacts ==
  ASSUME RowsTypeOK, NEW h \in Host, at[h] \in DOMAIN vstatus[h]
  PROVE  /\ Current(h).id \in Id
         /\ NewRow(h) \in Row /\ NewRow(h).id = Current(h).id /\ NewRow(h).by = h
         /\ NewRow(h).shown = ShownOf(h, Current(h).ip)
<1>1. vstatus[h] \in Lists \union {<<>>}
  BY DEF RowsTypeOK
<1>2. Current(h) \in Item
  BY <1>1, ListFacts DEF Current
<1>3. ShownOf(h, Current(h).ip) \in Ip \union {NoAddr}
  BY <1>2 DEF ShownOf, Item
<1> QED
  BY <1>2, <1>3 DEF NewRow, Row, Item

LEMMA RowsStart == RowsInit => RowsInv
<1> SUFFICES ASSUME RowsInit PROVE RowsInv
  OBVIOUS
<1>1. [k \in Index |-> NoAddr] \in Tables
  BY DEF Tables
<1>2. RowsTypeOK /\ StartOfPass
  BY <1>1 DEF RowsInit, RowsTypeOK, StartOfPass
<1>3. BroughtInv /\ CheckedInv
  BY DEF RowsInit, BroughtInv, Behind, CheckedInv
<1> QED
  BY <1>2, <1>3 DEF RowsInv

LEMMA RowTypesStep == RowsTypeOK /\ StartOfPass /\ [RowsNext]_rowsVars => RowsTypeOK' /\ StartOfPass'
<1> SUFFICES ASSUME RowsTypeOK, StartOfPass, [RowsNext]_rowsVars
             PROVE  RowsTypeOK' /\ StartOfPass'
  OBVIOUS
<1> USE DEF RowsTypeOK, StartOfPass, passes
<1>1. ASSUME NEW h \in Host, NEW list \in Lists, NEW table \in Tables, Begin(h, list, table)
      PROVE  RowsTypeOK' /\ StartOfPass'
  <2>1. at[h] = 1
    BY <1>1 DEF Begin
  <2>2. StartOfPass'
    BY <1>1, <2>1 DEF Begin
  <2>3. RowsTypeOK'
    BY <1>1 DEF Begin
  <2> QED
    BY <2>2, <2>3
<1>2. ASSUME NEW h \in Host, Count(h) PROVE RowsTypeOK' /\ StartOfPass'
  <2>1. at[h] \in DOMAIN vstatus[h]
    BY <1>2, ListFacts DEF Count
  <2> QED
    BY <1>2, <2>1 DEF Count, GoTo
<1>3. ASSUME NEW h \in Host, Insert(h) \/ Update(h) PROVE RowsTypeOK' /\ StartOfPass'
  <2>1. at[h] \in DOMAIN vstatus[h] /\ at[h] + 1 \in Nat \ {0}
    BY <1>3 DEF Insert, Update
  <2>2. Current(h).id \in Id /\ NewRow(h) \in Row
    BY <2>1, RowFacts
  <2> QED
    BY <1>3, <2>1, <2>2 DEF Insert, Update, Advance
<1>4. ASSUME NEW h \in Host, Check(h) PROVE RowsTypeOK' /\ StartOfPass'
  <2>1. CASE GoTo(h, "update")
    BY <1>4, <2>1 DEF Check, GoTo
  <2>2. CASE Advance(h)
    <3>1. at[h] + 1 \in Nat \ {0}
      OBVIOUS
    <3> QED
      BY <1>4, <2>2, <3>1 DEF Check, Advance
  <2> QED
    BY <1>4, <2>1, <2>2 DEF Check
<1>5. ASSUME NEW h \in Host, QueryFails(h) PROVE RowsTypeOK' /\ StartOfPass'
  <2>1. at[h] \in DOMAIN vstatus[h]
    BY <1>5, ListFacts DEF QueryFails
  <2>2. Current(h).id \in Id
    BY <2>1, RowFacts
  <2> QED
    BY <1>5, <2>2 DEF QueryFails, Advance
<1>6. ASSUME NEW h \in Host, BeginMetal(h) \/ End(h) PROVE RowsTypeOK' /\ StartOfPass'
  <2>1. CASE BeginMetal(h)
    BY <2>1 DEF BeginMetal
  <2>2. CASE End(h)
    BY <2>2 DEF End, GoTo
  <2> QED
    BY <1>6, <2>1, <2>2
<1>7. ASSUME NEW h \in Host, Metal(h) PROVE RowsTypeOK' /\ StartOfPass'
  <2> DEFINE ip == vminfo[h][at[h]]
  <2>1. ip \in Ip \union {NoAddr}
    BY <1>7 DEF Metal, Tables
  <2>2. ip # NoAddr => [id |-> ip, shown |-> ip, by |-> h] \in Row
    BY <2>1 DEF Row
  <2> QED
    <3>1. rows' \subseteq Row /\ failed' \in [Host -> SUBSET (Id \union Ip)]
      <4>1. CASE UNCHANGED <<rows, failed>>
        BY <4>1
      <4>2. CASE ip # NoAddr /\ rows' = rows \union {[id |-> ip, shown |-> ip, by |-> h]}
                             /\ UNCHANGED failed
        BY <2>2, <4>2
      <4>3. CASE ip # NoAddr /\ failed' = [failed EXCEPT ![h] = @ \union {ip}] /\ UNCHANGED rows
        BY <2>1, <4>3
      <4> QED
        BY <1>7, <4>1, <4>2, <4>3 DEF Metal
    <3> HIDE DEF ip
    <3>2. at' \in [Host -> Nat] /\ v_flag' \in [Host -> BOOLEAN]
      BY <1>7 DEF Metal
    <3> QED
      BY <1>7, <3>1, <3>2 DEF Metal
<1>8. CASE NextTime
  <2>1. [k \in Index |-> NoAddr] \in Tables
    BY DEF Tables
  <2> QED
    BY <1>8, <2>1 DEF NextTime
<1>9. CASE UNCHANGED rowsVars
  BY <1>9 DEF rowsVars
<1> QED
  BY <1>1, <1>2, <1>3, <1>4, <1>5, <1>6, <1>7, <1>8, <1>9 DEF RowsNext, Pass

\* A report in a row is replaced by an update only, which then brings another or
\* is on record.
LEMMA ReportKept ==
  ASSUME RowsTypeOK, NEW g \in Host, Pass(g), NEW id
  PROVE  /\ overwritten \subseteq overwritten'
         /\ Reported(id) => Reported(id)' \/ id \in overwritten'
<1> USE DEF Reported, RowsOf
<1>1. CASE Update(g)
  <2>1. at[g] \in DOMAIN vstatus[g]
    BY <1>1 DEF Update, RowsTypeOK
  <2>2. NewRow(g).id = Current(g).id
    BY <2>1, RowFacts
  <2>3. rows' = (rows \ RowsOf(Current(g).id)) \union {NewRow(g)}
    BY <1>1 DEF Update
  <2>4. CASE id = Current(g).id /\ NewRow(g).shown # NoAddr
    BY <1>1, <2>2, <2>3, <2>4 DEF Update
  <2>5. CASE id = Current(g).id /\ NewRow(g).shown = NoAddr
    BY <1>1, <2>5 DEF Update
  <2>6. CASE id # Current(g).id
    BY <1>1, <2>3, <2>6 DEF Update
  <2> QED
    BY <2>4, <2>5, <2>6
<1>2. ASSUME rows \subseteq rows', UNCHANGED overwritten
      PROVE  Reported(id) => Reported(id)'
  BY <1>2
<1>3. CASE Insert(g)
  BY <1>2, <1>3 DEF Insert
<1>4. CASE Metal(g)
  BY <1>2, <1>4 DEF Metal
<1>5. CASE Count(g) \/ Check(g) \/ QueryFails(g) \/ BeginMetal(g) \/ End(g)
  BY <1>2, <1>5 DEF Count, Check, QueryFails, BeginMetal, End
<1>6. ASSUME NEW list \in Lists, NEW table \in Tables, Begin(g, list, table)
      PROVE  UNCHANGED <<rows, overwritten>>
  BY <1>6 DEF Begin
<1> QED
  BY <1>1, <1>2, <1>3, <1>4, <1>5, <1>6 DEF Pass

\* A failed query stays on record.
LEMMA FailedGrows ==
  ASSUME RowsTypeOK, NEW g \in Host, Pass(g), NEW h \in Host
  PROVE  failed[h] \subseteq failed'[h]
<1>1. CASE UNCHANGED failed
  BY <1>1
<1>2. CASE QueryFails(g)
  BY <1>2 DEF QueryFails, RowsTypeOK
<1>3. CASE Metal(g)
  BY <1>3 DEF Metal, RowsTypeOK
<1> QED
  BY <1>1, <1>2, <1>3 DEF Pass, Begin, Count, Insert, Check, Update, BeginMetal, End

\* What a pass has behind it stays brought.
LEMMA BroughtKept ==
  ASSUME RowsTypeOK, StartOfPass, NEW g \in Host, Pass(g),
         NEW h \in Host, NEW k \in Behind(h), Brought(h, k)
  PROVE  Brought(h, k)'
<1>1. vstatus[h] \in Lists \union {<<>>} /\ DOMAIN vstatus[h] = 1 .. Len(vstatus[h])
  BY ListFacts DEF RowsTypeOK
<1>2. ASSUME NEW list \in Lists, NEW table \in Tables, Begin(g, list, table)
      PROVE  g # h
  BY <1>1, <1>2 DEF Begin, Behind, StartOfPass
<1>3. vstatus'[h] = vstatus[h] /\ vminfo'[h] = vminfo[h]
  BY <1>2 DEF Pass, Begin, Count, Insert, Check, Update, QueryFails, BeginMetal, Metal, End,
              passes, RowsTypeOK
<1>4. failed[h] \subseteq failed'[h]
  BY FailedGrows
<1>5. PICK id : id = vstatus[h][k].id
  OBVIOUS
<1>6. /\ overwritten \subseteq overwritten'
      /\ Reported(id) => Reported(id)' \/ id \in overwritten'
  BY ReportKept
<1>7. vstatus'[h][k].id = id
  BY <1>3, <1>5
<1> QED
  BY <1>3, <1>4, <1>5, <1>6, <1>7 DEF Brought, ShownOf

\* What a pass puts behind it is brought: a row was written or seen to show the
\* report, or the query failed.
LEMMA BroughtNew ==
  ASSUME RowsTypeOK, StartOfPass, NEW g \in Host, Pass(g),
         NEW h \in Host, NEW k, k \in Behind(h)', k \notin Behind(h)
  PROVE  Brought(h, k)'
<1>1. vstatus[h] \in Lists \union {<<>>} /\ Len(vstatus[h]) \in Nat
      /\ DOMAIN vstatus[h] = 1 .. Len(vstatus[h])
  BY ListFacts DEF RowsTypeOK
<1>2. at[h] \in Nat
  BY DEF RowsTypeOK
<1>3. g = h
  BY DEF Pass, Begin, Count, Insert, Check, Update, QueryFails, BeginMetal, Metal, End,
         GoTo, Advance, passes, RowsTypeOK, Behind
<1>4. ASSUME NEW list \in Lists, NEW table \in Tables, Begin(g, list, table)
      PROVE  FALSE
  <2>1. DOMAIN list = 1 .. Len(list) /\ Len(list) \in Nat
    BY ListFacts
  <2>2. at'[g] = 1 /\ pc'[g] = "count" /\ vstatus'[g] = list
    BY <1>4 DEF Begin, RowsTypeOK, StartOfPass
  <2> QED
    BY <1>3, <2>1, <2>2 DEF Behind
<1>5. ASSUME UNCHANGED passes, UNCHANGED at, pc'[g] \notin {"metal", "done"} \/ pc[g] = "metal"
      PROVE  FALSE
  BY <1>3, <1>5 DEF Behind, passes
<1>6. CASE Count(g)
  BY <1>5, <1>6 DEF Count, GoTo, RowsTypeOK
<1>7. CASE End(g)
  BY <1>5, <1>7 DEF End, GoTo, RowsTypeOK
<1>8. CASE BeginMetal(g)
  BY <1>1, <1>2, <1>3, <1>8 DEF BeginMetal, Behind, passes
<1>9. CASE Metal(g)
  BY <1>3, <1>9 DEF Metal, Behind, passes
<1>10. ASSUME Advance(g), UNCHANGED passes, pc[g] \in {"count", "insert", "check", "update"}
       PROVE  /\ k = at[h] /\ k \in DOMAIN vstatus[h] /\ vstatus'[h][k] = Current(h)
              /\ \A ip : ShownOf(h, ip)' = ShownOf(h, ip)
  <2>1. at'[h] = at[h] + 1 /\ pc'[h] = "count"
    BY <1>3, <1>10 DEF Advance, RowsTypeOK
  <2>2. vstatus' = vstatus /\ vminfo' = vminfo
    BY <1>10 DEF passes
  <2>3. k \in DOMAIN vstatus[h] /\ k < at[h] + 1 /\ ~(k < at[h])
    BY <2>1, <2>2 DEF Behind
  <2>4. k = at[h]
    BY <1>1, <1>2, <2>3
  <2> QED
    BY <2>2, <2>3, <2>4 DEF Current, ShownOf
<1>11. CASE Insert(g) \/ Update(g)
  <2>1. Advance(g) /\ UNCHANGED passes /\ NewRow(g) \in rows'
        /\ pc[g] \in {"count", "insert", "check", "update"}
    BY <1>11 DEF Insert, Update
  <2>2. k = at[h] /\ k \in DOMAIN vstatus[h] /\ vstatus'[h][k] = Current(h)
        /\ \A ip : ShownOf(h, ip)' = ShownOf(h, ip)
    BY <1>10, <2>1
  <2>3. NewRow(h).id = Current(h).id /\ NewRow(h).shown = ShownOf(h, Current(h).ip)
    BY <2>2, RowFacts
  <2>4. PICK row : row = NewRow(h)
    OBVIOUS
  <2>5. PICK vm : vm = Current(h)
    OBVIOUS
  <2> QED
    BY <1>3, <2>1, <2>2, <2>3, <2>4, <2>5 DEF Brought, Reported, RowsOf
<1>12. CASE Check(g)
  <2>1. UNCHANGED passes /\ UNCHANGED rows /\ pc[g] = "check"
    BY <1>12 DEF Check
  <2>2. CASE GoTo(g, "update")
    BY <1>5, <2>1, <2>2 DEF GoTo, RowsTypeOK
  <2>3. CASE Advance(g)
    <3>1. k = at[h] /\ k \in DOMAIN vstatus[h] /\ vstatus'[h][k] = Current(h)
      BY <1>10, <2>1, <2>3
    <3>2. \E r \in RowsOf(Current(h).id) : r.shown # NoAddr
      <4>1. pc'[g] = "count"
        BY <2>3 DEF Advance, RowsTypeOK
      <4>2. PICK r \in RowsOf(Current(g).id) :
              IF r.shown = NoAddr THEN GoTo(g, "update") ELSE Advance(g)
        BY <1>12 DEF Check
      <4>3. r.shown # NoAddr
        BY <4>1, <4>2 DEF GoTo, RowsTypeOK
      <4> QED
        BY <1>3, <4>2, <4>3
    <3>3. PICK vm : vm = Current(h)
      OBVIOUS
    <3> QED
      BY <2>1, <3>1, <3>2, <3>3 DEF Brought, Reported, RowsOf
  <2> QED
    BY <1>12, <2>2, <2>3 DEF Check
<1>13. CASE QueryFails(g)
  <2>1. Advance(g) /\ UNCHANGED passes /\ pc[g] \in {"count", "insert", "check", "update"}
        /\ Current(h).id \in failed'[h]
    BY <1>3, <1>13 DEF QueryFails, RowsTypeOK
  <2>2. k = at[h] /\ k \in DOMAIN vstatus[h] /\ vstatus'[h][k] = Current(h)
    BY <1>10, <2>1
  <2> QED
    BY <2>1, <2>2 DEF Brought
<1> QED
  BY <1>4, <1>6, <1>7, <1>8, <1>9, <1>11, <1>12, <1>13 DEF Pass

LEMMA BroughtStep ==
  RowsTypeOK /\ StartOfPass /\ BroughtInv /\ [RowsNext]_rowsVars => BroughtInv'
<1> SUFFICES ASSUME RowsTypeOK, StartOfPass, BroughtInv, [RowsNext]_rowsVars
             PROVE  BroughtInv'
  OBVIOUS
<1>1. ASSUME NEW g \in Host, Pass(g) PROVE BroughtInv'
  <2> SUFFICES ASSUME NEW h \in Host, NEW k, k \in Behind(h)' PROVE Brought(h, k)'
    BY DEF BroughtInv
  <2>1. CASE k \in Behind(h)
    <3>1. Brought(h, k)
      BY <2>1 DEF BroughtInv
    <3> QED
      BY <1>1, <2>1, <3>1, BroughtKept
  <2>2. CASE k \notin Behind(h)
    BY <1>1, <2>2, BroughtNew
  <2> QED
    BY <2>1, <2>2
<1>2. CASE NextTime
  BY <1>2 DEF NextTime, BroughtInv, Behind
<1>3. CASE UNCHANGED rowsVars
  BY <1>3 DEF rowsVars, passes, BroughtInv, Behind, Brought, Reported, RowsOf, ShownOf
<1> QED
  BY <1>1, <1>2, <1>3 DEF RowsNext

\* Between the look of a HOST and its update, the others add rows of theirs or
\* take away all.
LEMMA CheckedStep == RowsTypeOK /\ CheckedInv /\ [RowsNext]_rowsVars => CheckedInv'
<1> SUFFICES ASSUME RowsTypeOK, CheckedInv, [RowsNext]_rowsVars,
                    NEW h \in Host, pc'[h] = "update",
                    NEW r, r \in RowsOf(Current(h).id)', r.by = h, r.shown # NoAddr
             PROVE  \E q \in RowsOf(Current(h).id)' : q.shown = NoAddr
  BY DEF CheckedInv
<1>1. CASE UNCHANGED rowsVars
  BY <1>1 DEF rowsVars, passes, CheckedInv, RowsOf, Current
<1>2. CASE NextTime
  BY <1>2 DEF NextTime
<1>3. CASE Pass(h)
  <2>1. CASE Check(h)
    <3>1. PICK q \in RowsOf(Current(h).id) :
            IF q.shown = NoAddr THEN GoTo(h, "update") ELSE Advance(h)
      BY <2>1 DEF Check
    <3>2. q.shown = NoAddr
      BY <3>1 DEF Advance, RowsTypeOK
    <3>3. UNCHANGED <<rows, vstatus, at>>
      BY <2>1, <3>1, <3>2 DEF Check, GoTo, passes
    <3> QED
      BY <3>1, <3>2, <3>3 DEF RowsOf, Current
  <2>2. CASE ~Check(h)
    BY <1>3, <2>2 DEF Pass, Begin, Count, Insert, Update, QueryFails, BeginMetal, Metal, End,
                      GoTo, Advance, RowsTypeOK
  <2> QED
    BY <2>1, <2>2
<1>4. ASSUME NEW g \in Host, g # h, Pass(g)
      PROVE  \E q \in RowsOf(Current(h).id)' : q.shown = NoAddr
  <2>1. pc[h] = "update" /\ at'[h] = at[h] /\ vstatus'[h] = vstatus[h]
    BY <1>4 DEF Pass, Begin, Count, Insert, Check, Update, QueryFails, BeginMetal, Metal, End,
                GoTo, Advance, passes, RowsTypeOK
  <2>2. PICK id : id = Current(h).id
    OBVIOUS
  <2>3. Current(h)'.id = id
    BY <2>1, <2>2 DEF Current
  <2>4. r \in rows' /\ r.id = id
    BY <2>3 DEF RowsOf
  <2>5. ASSUME r \in rows, \A q \in rows : q.id = id => q \in rows'
        PROVE  \E q \in RowsOf(Current(h).id)' : q.shown = NoAddr
    <3>1. PICK q \in RowsOf(id) : q.shown = NoAddr
      BY <2>1, <2>2, <2>4, <2>5 DEF CheckedInv, RowsOf
    <3> QED
      BY <2>3, <2>5, <3>1 DEF RowsOf
  <2>6. CASE Insert(g)
    <3>1. NewRow(g).by = g /\ rows' = rows \union {NewRow(g)}
      BY <2>6 DEF Insert, NewRow
    <3> QED
      BY <1>4, <2>4, <2>5, <3>1
  <2>7. CASE Metal(g)
    <3>1. \/ rows' = rows \union {[id |-> vminfo[g][at[g]], shown |-> vminfo[g][at[g]], by |-> g]}
          \/ rows' = rows
      BY <2>7 DEF Metal
    <3> QED
      BY <1>4, <2>4, <2>5, <3>1
  <2>8. CASE Update(g)
    <3>1. NewRow(g).by = g /\ rows' = (rows \ RowsOf(Current(g).id)) \union {NewRow(g)}
      BY <2>8 DEF Update, NewRow
    <3>2. r \in rows \ RowsOf(Current(g).id)
      BY <1>4, <2>4, <3>1
    <3>3. id # Current(g).id
      BY <2>4, <3>2 DEF RowsOf
    <3> QED
      BY <2>5, <3>1, <3>2, <3>3 DEF RowsOf
  <2>9. CASE UNCHANGED rows
    BY <2>4, <2>5, <2>9
  <2> QED
    BY <1>4, <2>6, <2>7, <2>8, <2>9 DEF Pass, Begin, Count, Check, QueryFails, BeginMetal, End
<1> QED
  BY <1>1, <1>2, <1>3, <1>4 DEF RowsNext

LEMMA RowsInvariant == RowsSpec => []RowsInv
<1>1. RowsInv /\ [RowsNext]_rowsVars => RowsInv'
  BY RowTypesStep, BroughtStep, CheckedStep DEF RowsInv
<1> QED
  BY <1>1, RowsStart, PTL DEF RowsSpec

-----------------------------------------------------------------------------
(***************************************************************************)
(* The theorems on the rows                                                *)
(***************************************************************************)
\* What ProcessVmStateTask copies of the table is a table a pass is modelled
\* for, whatever the threads that write it are about, if no VM behind SafePlace
\* falls silent.
THEOREM PassesReadTheTable ==
  ASSUME VM \subseteq Ip, MaxPlace <= SafePlace
  PROVE  Spec => []([i \in Index |-> stateinfo[i].vm_ip] \in Tables)
<1>1. TableInv => [i \in Index |-> stateinfo[i].vm_ip] \in Tables
  <2> SUFFICES ASSUME TableInv PROVE [i \in Index |-> stateinfo[i].vm_ip] \in Tables
    OBVIOUS
  <2>1. \A i \in Index : stateinfo[i] \in Entry
    BY DEF TableInv, TypeOK, Table
  <2>2. \A i \in Index : stateinfo[i].vm_ip \in Ip \union {NoAddr}
    BY <2>1 DEF Entry
  <2> QED
    BY <2>2 DEF Tables, TableInv, GoodTable
<1> QED
  BY <1>1, Invariant, PTL

\* The passes and the rows keep their types, and a query is made for a VM of
\* the list, however long it is.
THEOREM RowTypes == RowsSpec => []RowsTypeOK
<1>1. RowsInv => RowsTypeOK
  BY DEF RowsInv
<1> QED
  BY <1>1, RowsInvariant, PTL

\* When all passes have ended the report on a VM is in its row, unless a query
\* failed or another pass replaced it, for any HOSTs in any order.
THEOREM ReportsAreShown == RowsSpec => []ReportShown
<1>1. RowsInv => ReportShown
  BY DEF RowsInv, BroughtInv, Behind, Brought, Reported, ReportShown
<1> QED
  BY <1>1, RowsInvariant, PTL

\* Whoever updates the only row of a VM has seen it show nothing, so no HOST
\* replaces a report of its own by none.
THEOREM OwnReportsStay == RowsSpec => KeepsOwnReports
<1>1. RowsInv /\ [RowsNext]_rowsVars => [~TakesBack]_rowsVars
  <2> SUFFICES ASSUME RowsInv, RowsNext, TakesBack PROVE FALSE
    OBVIOUS
  <2>1. RowsTypeOK /\ CheckedInv
    BY DEF RowsInv
  <2>2. PICK r \in rows :
          /\ r.shown # NoAddr /\ RowsOf(r.id) = {r}
          /\ pc[r.by] = "update" /\ \A h \in Host \ {r.by} : pc'[h] = pc[h]
          /\ \A q \in rows' : q.id = r.id => q.shown = NoAddr
    BY DEF TakesBack
  <2>3. r.by \in Host
    BY <2>1 DEF RowsTypeOK, Row
  <2>4. r \notin rows'
    BY <2>2
  <2>5. CASE NextTime
    BY <2>2, <2>3, <2>5 DEF NextTime
  <2>6. ASSUME NEW g \in Host, g # r.by, Pass(g) PROVE FALSE
    <3>1. pc'[g] = pc[g]
      BY <2>2, <2>6
    <3>2. Metal(g) \/ QueryFails(g)
      BY <2>1, <2>6, <3>1 DEF Pass, Begin, Count, Insert, Check, Update, BeginMetal, End,
                              GoTo, Advance, RowsTypeOK
    <3> QED
      BY <2>4, <3>2 DEF Metal, QueryFails
  <2>7. CASE Pass(r.by)
    <3>1. Update(r.by)
      BY <2>2, <2>4, <2>7 DEF Pass, Begin, Count, Insert, Check, QueryFails, BeginMetal, Metal, End
    <3>2. r \in RowsOf(Current(r.by).id)
      BY <2>4, <3>1 DEF Update
    <3>3. r.id = Current(r.by).id
      BY <3>2 DEF RowsOf
    <3>4. \E q \in RowsOf(Current(r.by).id) : q.shown = NoAddr
      BY <2>1, <2>2, <2>3, <3>2 DEF CheckedInv
    <3> QED
      BY <2>2, <3>3, <3>4
  <2> QED
    BY <2>5, <2>6, <2>7 DEF RowsNext
<1> QED
  BY <1>1, RowsInvariant, PTL DEF RowsSpec, KeepsOwnReports

-----------------------------------------------------------------------------
(***************************************************************************)
(* The machines outside of Nova                                            *)
(***************************************************************************)
OfListed(h, j) == vminfo[h][j] # NoAddr /\ Listed(h, vminfo[h][j])

\* Neither entry i nor one before it is that of a VM in the list.
Early(h, i) == vminfo[h][i] # NoAddr /\ \A j \in 0 .. i : ~OfListed(h, j)

Past(h, i) == pc[h] = "done" \/ (pc[h] = "metal" /\ i < at[h])

HasRow(h, ip) == ip \in failed[h] \/ RowsOf(ip) # {}

\* Where v_flag comes from, and what the loop has done so far.
FlagOf(h) ==
  /\ v_flag[h] => pc[h] \in {"metal", "done"}
                  /\ \E j \in Index : j < at[h] /\ OfListed(h, j)

MetalOf(h) ==
  baremetal_mode[h] = 1 =>
    \A i \in Index : Past(h, i) /\ Early(h, i) => HasRow(h, vminfo[h][i])

MetalInv == \A h \in Host : FlagOf(h) /\ MetalOf(h)

\* What MetalReported asks of all machines, said of those with an early entry.
EarlyMetalReported ==
  \A h \in Host : pc[h] = "done" /\ baremetal_mode[h] = 1 =>
    \A i \in Index : Early(h, i) => HasRow(h, vminfo[h][i])

\* Queries about VMs of Nova leave the rows of machines alone.
LEMMA MetalRowKept ==
  ASSUME RowsTypeOK, NEW g \in Host, Pass(g), NEW ip \in Ip, RowsOf(ip) # {}
  PROVE  RowsOf(ip)' # {}
<1>1. PICK r : r \in rows /\ r.id = ip
  BY DEF RowsOf
<1>2. CASE Update(g)
  <2>1. Current(g).id \in Id
    BY <1>2, RowFacts DEF Update, RowsTypeOK
  <2>2. ip # Current(g).id
    BY <2>1, OrcheAssumption
  <2> QED
    BY <1>1, <1>2, <2>2 DEF Update, RowsOf
<1>3. CASE ~Update(g)
  <2>1. rows \subseteq rows'
    BY <1>3 DEF Pass, Begin, Count, Insert, Check, QueryFails, BeginMetal, Metal, End
  <2> QED
    BY <1>1, <2>1 DEF RowsOf
<1> QED
  BY <1>2, <1>3

\* A step leaves what holds of a pass that it does not move.
LEMMA MetalOther ==
  ASSUME RowsTypeOK, MetalInv, NEW g \in Host, Pass(g), NEW h \in Host,
         UNCHANGED <<vstatus[h], vminfo[h], v_flag[h], at[h], pc[h]>>
  PROVE  FlagOf(h)' /\ MetalOf(h)'
<1>1. failed[h] \subseteq failed'[h] /\ baremetal_mode' = baremetal_mode
  BY FailedGrows DEF Pass, Begin, Count, Insert, Check, Update, QueryFails, BeginMetal,
                     Metal, End, passes
<1>2. FlagOf(h)'
  BY DEF MetalInv, FlagOf, OfListed, Listed
<1>3. ASSUME NEW i \in Index, Past(h, i)', Early(h, i)', baremetal_mode'[h] = 1
      PROVE  HasRow(h, vminfo[h][i])'
  <2>1. Past(h, i) /\ Early(h, i)
    BY <1>3 DEF Past, Early, OfListed, Listed
  <2>2. PICK ip : ip = vminfo[h][i]
    OBVIOUS
  <2>3. ip \in Ip /\ vminfo'[h][i] = ip
    BY <2>1, <2>2 DEF Early, RowsTypeOK, Tables
  <2>4. HasRow(h, ip)
    BY <1>1, <1>3, <2>1, <2>2 DEF MetalInv, MetalOf
  <2>5. HasRow(h, ip)'
    BY <1>1, <2>3, <2>4, MetalRowKept DEF HasRow
  <2> QED
    BY <2>3, <2>5
<1> QED
  BY <1>2, <1>3 DEF MetalOf

\* The entry the loop is at: its machine gets a row or a failed query, or its
\* entry sets v_flag.
LEMMA MetalMoves ==
  ASSUME RowsTypeOK, MetalInv, NEW h \in Host, Metal(h)
  PROVE  FlagOf(h)' /\ MetalOf(h)'
<1> DEFINE ip == vminfo[h][at[h]]
<1>1. /\ pc'[h] = "metal" /\ at'[h] = at[h] + 1 /\ at[h] \in Index /\ pc[h] = "metal"
      /\ UNCHANGED <<vstatus, vminfo, baremetal_mode>>
      /\ v_flag'[h] = (v_flag[h] \/ OfListed(h, at[h]))
  BY DEF Metal, RowsTypeOK, passes, OfListed
<1>2. FlagOf(h)'
  <2>1. \A j \in Index : OfListed(h, j) => OfListed(h, j)'
    BY <1>1 DEF OfListed, Listed
  <2>2. at[h] < at[h] + 1 /\ \A j \in Index : j < at[h] => j < at[h] + 1
    BY <1>1, SizeAssumption DEF Index
  <2> QED
    BY <1>1, <2>1, <2>2 DEF MetalInv, FlagOf
<1>3. ASSUME NEW i \in Index, Past(h, i)', Early(h, i)', baremetal_mode'[h] = 1
      PROVE  HasRow(h, vminfo[h][i])'
  <2>1. Early(h, i) /\ baremetal_mode[h] = 1 /\ i < at[h] + 1
    BY <1>1, <1>3 DEF Past, Early, OfListed, Listed
  <2>2. PICK vm : vm = vminfo[h][i]
    OBVIOUS
  <2>3. vm \in Ip /\ vm # NoAddr /\ vminfo'[h][i] = vm
    BY <1>1, <2>1, <2>2 DEF Early, RowsTypeOK, Tables
  <2>4. CASE i < at[h]
    <3>1. HasRow(h, vm)
      BY <1>1, <2>1, <2>2, <2>4 DEF MetalInv, MetalOf, Past
    <3>2. Pass(h)
      BY DEF Pass
    <3>3. HasRow(h, vm)'
      BY <2>3, <3>1, <3>2, FailedGrows, MetalRowKept DEF HasRow
    <3> QED
      BY <2>3, <3>3
  <2>5. CASE i = at[h]
    <3>1. ~v_flag'[h]
      <4>1. \A j \in Index : j < at[h] \/ j = at[h] => j \in 0 .. i
        BY <1>1, <2>5, SizeAssumption DEF Index
      <4> QED
        BY <1>1, <2>1, <4>1 DEF Early, MetalInv, FlagOf
    <3>2. \/ [id |-> vm, shown |-> vm, by |-> h] \in rows'
          \/ failed' = [failed EXCEPT ![h] = @ \union {vm}]
      BY <2>1, <2>2, <2>3, <2>5, <3>1 DEF Metal
    <3>3. HasRow(h, vm)'
      BY <3>2 DEF HasRow, RowsOf, RowsTypeOK
    <3> QED
      BY <2>3, <3>3
  <2> QED
    BY <1>1, <2>1, <2>4, <2>5, SizeAssumption DEF Index
<1> QED
  BY <1>2, <1>3 DEF MetalOf

LEMMA MetalStep == RowsTypeOK /\ MetalInv /\ [RowsNext]_rowsVars => MetalInv'
<1> SUFFICES ASSUME RowsTypeOK, MetalInv, [RowsNext]_rowsVars, NEW h \in Host
             PROVE  FlagOf(h)' /\ MetalOf(h)'
  BY DEF MetalInv
<1>1. ASSUME NEW g \in Host, g # h, Pass(g) PROVE FlagOf(h)' /\ MetalOf(h)'
  <2>1. UNCHANGED <<vstatus[h], vminfo[h], v_flag[h], at[h], pc[h]>>
    BY <1>1 DEF Pass, Begin, Count, Insert, Check, Update, QueryFails, BeginMetal, Metal, End,
                GoTo, Advance, passes, RowsTypeOK
  <2> QED
    BY <1>1, <2>1, MetalOther
<1>2. ASSUME v_flag'[h] = FALSE, pc'[h] \notin {"metal", "done"} \/ (pc'[h] = "metal" /\ at'[h] = 0)
      PROVE  FlagOf(h)' /\ MetalOf(h)'
  BY <1>2 DEF FlagOf, MetalOf, Past, Index
<1>3. CASE Pass(h)
  <2>1. CASE Metal(h)
    BY <2>1, MetalMoves
  <2>2. CASE End(h)
    <3>1. /\ pc[h] = "metal" /\ pc'[h] = "done"
          /\ UNCHANGED <<rows, vstatus, vminfo, v_flag, failed, baremetal_mode, at>>
      BY <2>2 DEF End, GoTo, passes, RowsTypeOK
    <3>2. \A i \in Index : i < at[h]
      BY <2>2, SizeAssumption DEF End, Index, RowsTypeOK
    <3> QED
      BY <3>1, <3>2 DEF MetalInv, FlagOf, MetalOf, OfListed, Listed, Past, Early, HasRow, RowsOf
  <2>3. CASE ~Metal(h) /\ ~End(h)
    <3>1. pc[h] \notin {"metal", "done"} /\ v_flag'[h] = v_flag[h]
      BY <1>3, <2>3 DEF Pass, Begin, Count, Insert, Check, Update, QueryFails, BeginMetal
    <3>2. pc'[h] \notin {"metal", "done"} \/ (pc'[h] = "metal" /\ at'[h] = 0)
      BY <1>3, <2>3 DEF Pass, Begin, Count, Insert, Check, Update, QueryFails, BeginMetal,
                        GoTo, Advance, RowsTypeOK
    <3>3. v_flag[h] = FALSE
      BY <3>1 DEF MetalInv, FlagOf, RowsTypeOK
    <3> QED
      BY <1>2, <3>1, <3>2, <3>3
  <2> QED
    BY <2>1, <2>2, <2>3
<1>4. CASE NextTime
  BY <1>2, <1>4 DEF NextTime
<1>5. CASE UNCHANGED rowsVars
  BY <1>5 DEF rowsVars, passes, MetalInv, FlagOf, MetalOf, OfListed, Listed, Past, Early,
              HasRow, RowsOf
<1> QED
  BY <1>1, <1>3, <1>4, <1>5 DEF RowsNext

\* "Insert Baremetal State" holds of every machine whose entry comes before
\* those of the VMs in the list: v_flag, which nothing resets, is the only
\* reason why a machine that reports has no row, with the failure of its query.
THEOREM EarlyMachinesAreReported == RowsSpec => []EarlyMetalReported
<1>1. RowsInit => MetalInv
  BY DEF RowsInit, MetalInv, FlagOf, MetalOf, Past
<1>2. RowsInv /\ MetalInv /\ [RowsNext]_rowsVars => MetalInv'
  BY MetalStep DEF RowsInv
<1>3. MetalInv => EarlyMetalReported
  BY DEF MetalInv, MetalOf, EarlyMetalReported, Past
<1> QED
  BY <1>1, <1>2, <1>3, RowsInvariant, PTL DEF RowsSpec
=============================================================================
