------------------------ MODULE HostSessions_proofs -------------------------
(***************************************************************************)
(* The session table is consistent for any number of VMs, slots and        *)
(* descriptors: the two threads never leak, confuse or forget a session.   *)
(***************************************************************************)
EXTENDS HostSessions, TLAPS

\* WaitsOnlyForNew from the select on: what rset names was ready then, and
\* stays so until it is visited, closed, or accepted anew.
ReadyStaysReady ==
  /\ rx = "accept" => new = NoSlot
  /\ rx # "select" =>
       \A s \in Slot : AcceptFD[s] \in rset /\ ~Readable(AcceptFD[s]) => s = new

\* A queued report, and the report in hand, still have their connection.
KeepsSlot(m) == m.from # NoFd => AcceptFD[m.slot] = m.from

SessionInv ==
  /\ TypeOK
  /\ WatchesSessions
  /\ RegisteredByOwner
  /\ AnswersReporter
  /\ ReadyStaysReady

LEMMA SlotFacts == NoSlot \notin Slot /\ 0 \in Slot
BY SessionAssumption DEF NoSlot, Slot

LEMMA InitInv == Init => SessionInv
<1> SUFFICES ASSUME Init PROVE SessionInv
  OBVIOUS
<1> USE SessionAssumption, SlotFacts DEF Init
<1>1. TypeOK
  BY DEF TypeOK, NoReport, Report
<1>2. WatchesSessions
  BY DEF WatchesSessions, Held, Open, InGap
<1>3. RegisteredByOwner /\ AnswersReporter /\ ReadyStaysReady
  BY DEF RegisteredByOwner, AnswersReporter, NoReport, ReadyStaysReady
<1> QED
  BY <1>1, <1>2, <1>3 DEF SessionInv

-----------------------------------------------------------------------------
(***************************************************************************)
(* Closing a session                                                       *)
(***************************************************************************)

\* Orphan gives a report, and forgets descriptor f only.
LEMMA OrphanFacts ==
  ASSUME NEW m \in Report, NEW f \in Fd
  PROVE  /\ Orphan(m, f) \in Report
         /\ Orphan(m, f).slot = m.slot
         /\ Orphan(m, f).from = IF m.from = f THEN NoFd ELSE m.from
BY DEF Orphan, Report

LEMMA DropTypes ==
  ASSUME TypeOK, NEW s \in Slot, AcceptFD[s] # NoFd, DropSession(s)
  PROVE  /\ peer' \in [Fd -> VM \union {NoAddr}]
         /\ link' \in [Fd -> {"up", "broken"}]
         /\ unread' \in [Fd -> {"none", "part", "all"}]
         /\ AcceptFD' \in [Slot -> Fd \union {NoFd}]
         /\ systemaddr' \in [Slot -> VM \union {NoAddr}]
         /\ allset' \subseteq Fd
         /\ addr' = addr
BY DEF TypeOK, DropSession, Close

\* The other sessions are as before, and nothing is left of this one.
LEMMA DropSessions ==
  ASSUME TypeOK, WatchesSessions, RegisteredByOwner,
         NEW s \in Slot, AcceptFD[s] # NoFd, DropSession(s), UNCHANGED <<rx, new>>
  PROVE  WatchesSessions' /\ RegisteredByOwner'
<1> DEFINE f == AcceptFD[s]
<1>1. /\ f \in Fd
      /\ \A t \in Slot : AcceptFD'[t] = IF t = s THEN NoFd ELSE AcceptFD[t]
      /\ \A t \in Slot : systemaddr'[t] = IF t = s THEN NoAddr ELSE systemaddr[t]
      /\ \A g \in Fd : peer'[g] = IF g = f THEN NoAddr ELSE peer[g]
      /\ allset' = allset \ {f}
      /\ addr' = addr
  BY DEF DropSession, Close, TypeOK
<1>2. \A t \in Slot : t # s /\ AcceptFD[t] # NoFd => AcceptFD[t] # f
  BY DEF WatchesSessions
<1>3. \A t, u \in Slot : AcceptFD'[t] = AcceptFD'[u] /\ AcceptFD'[t] # NoFd => t = u
  BY <1>1 DEF WatchesSessions
<1>4. Held' = Held \ {f} /\ Open' = Open \ {f}
  BY <1>1, <1>2 DEF Held, Open
<1>5. Held' \ InGap' = (Held \ InGap) \ {f}
  <2>1. CASE rx = "watch"
    <3>1. new \in Slot
      BY <2>1, SlotFacts DEF TypeOK
    <3> QED
      BY <1>1, <1>4, <2>1, <3>1 DEF InGap, Held
  <2>2. CASE rx # "watch"
    BY <1>4, <2>2 DEF InGap
  <2> QED
    BY <2>1, <2>2
<1>6. WatchesSessions'
  BY <1>1, <1>3, <1>4, <1>5 DEF WatchesSessions
<1>7. RegisteredByOwner'
  <2> SUFFICES ASSUME NEW t \in Slot, systemaddr'[t] # NoAddr
               PROVE  /\ AcceptFD'[t] # NoFd
                      /\ peer'[AcceptFD'[t]] = systemaddr'[t]
                      /\ addr'[t] = systemaddr'[t]
    BY DEF RegisteredByOwner
  <2>1. t # s /\ systemaddr[t] # NoAddr
    BY <1>1
  <2>2. AcceptFD[t] # NoFd /\ AcceptFD[t] # f /\ AcceptFD[t] \in Fd
    BY <1>2, <2>1 DEF RegisteredByOwner, TypeOK
  <2> QED
    BY <1>1, <2>1, <2>2 DEF RegisteredByOwner
<1> QED
  BY <1>6, <1>7

\* A report of the closed connection is an orphan, the others keep their slots.
LEMMA DropKeepsReports ==
  ASSUME TypeOK, WatchesSessions, NEW s \in Slot, AcceptFD[s] # NoFd,
         DropSession(s), NEW m \in Report, KeepsSlot(m)
  PROVE  LET n == Orphan(m, AcceptFD[s])
         IN  n.from # NoFd => AcceptFD'[n.slot] = n.from
<1>1. AcceptFD[s] \in Fd /\ m.slot \in Slot
  BY DEF TypeOK, Report
<1>2. \A t \in Slot : AcceptFD'[t] = IF t = s THEN NoFd ELSE AcceptFD[t]
  BY DEF DropSession, TypeOK
<1> QED
  BY <1>1, <1>2, OrphanFacts DEF KeepsSlot

\* The queue after a session was dropped.
LEMMA DropQueue ==
  ASSUME TypeOK, WatchesSessions, AnswersReporter, NEW s \in Slot,
         AcceptFD[s] # NoFd, DropSession(s),
         fifo' = [k \in DOMAIN fifo |-> Orphan(fifo[k], AcceptFD[s])]
  PROVE  /\ fifo' \in Seq(Report)
         /\ \A k \in DOMAIN fifo' : fifo'[k].from # NoFd =>
              AcceptFD'[fifo'[k].slot] = fifo'[k].from
<1>1. AcceptFD[s] \in Fd
  BY DEF TypeOK
<1>2. \A k \in DOMAIN fifo : fifo[k] \in Report /\ KeepsSlot(fifo[k])
  BY DEF TypeOK, AnswersReporter, KeepsSlot
<1>3. \A k \in DOMAIN fifo : Orphan(fifo[k], AcceptFD[s]) \in Report
  BY <1>1, <1>2, OrphanFacts
<1>4. Len(fifo) \in Nat /\ DOMAIN fifo = 1 .. Len(fifo)
  BY DEF TypeOK
<1>5. fifo' \in Seq(Report)
  BY <1>3, <1>4
<1>6. \A k \in DOMAIN fifo : fifo'[k].from # NoFd => AcceptFD'[fifo'[k].slot] = fifo'[k].from
  BY <1>2, DropKeepsReports
<1> QED
  BY <1>5, <1>6

LEMMA DropReady ==
  ASSUME TypeOK, WatchesSessions, ReadyStaysReady, NEW s \in Slot,
         AcceptFD[s] # NoFd, DropSession(s), rset' \subseteq rset, UNCHANGED <<rx, new>>
  PROVE  ReadyStaysReady'
<1> SUFFICES ASSUME rx # "select", NEW t \in Slot,
                    AcceptFD'[t] \in rset', (~Readable(AcceptFD[t]))'
             PROVE  t = new
  BY DEF ReadyStaysReady
<1>1. t # s /\ AcceptFD'[t] = AcceptFD[t] /\ AcceptFD[t] # NoFd
  BY SessionAssumption DEF DropSession, TypeOK
<1>2. AcceptFD[t] \in Fd /\ AcceptFD[t] # AcceptFD[s]
  BY <1>1 DEF TypeOK, WatchesSessions
<1>3. ~Readable(AcceptFD[t])
  BY <1>1, <1>2 DEF DropSession, Close, Readable, TypeOK
<1> QED
  BY <1>1, <1>3 DEF ReadyStaysReady

-----------------------------------------------------------------------------
(***************************************************************************)
(* Every step                                                              *)
(***************************************************************************)
LEMMA NextInv == SessionInv /\ [Next]_vars => SessionInv'
<1> SUFFICES ASSUME SessionInv, [Next]_vars PROVE SessionInv'
  OBVIOUS
<1> USE SessionAssumption, SlotFacts
<1> USE DEF SessionInv
<1>1. ASSUME NEW v \in VM, Connect(v) PROVE SessionInv'
  <2>1. TypeOK'
    BY <1>1 DEF Connect, TypeOK, conns, sessions, rxTask, getTask
  <2> QED
    BY <1>1, <2>1 DEF Connect, conns, sessions, rxTask, getTask, WatchesSessions, Held, Open,
      InGap, RegisteredByOwner, AnswersReporter, ReadyStaysReady, Readable
<1>2. ASSUME NEW f \in Fd, BeginReport(f) \/ EndReport(f) \/ Break(f) PROVE SessionInv'
  <2>1. TypeOK'
    BY <1>2 DEF BeginReport, EndReport, Break, TypeOK, net, sessions, rxTask, getTask
  <2>2. UNCHANGED <<peer, AcceptFD, addr, systemaddr, allset, rset, rx, new, fifo, msg>>
    BY <1>2 DEF BeginReport, EndReport, Break, sessions, rxTask, getTask
  <2>3. WatchesSessions' /\ RegisteredByOwner' /\ AnswersReporter'
    BY <2>2 DEF WatchesSessions, Held, Open, InGap, RegisteredByOwner, AnswersReporter
  <2>4. \A g \in Fd : Readable(g) => Readable(g)'
    BY <1>2 DEF BeginReport, EndReport, Break, Readable, TypeOK
  <2>5. ReadyStaysReady'
    BY <2>2, <2>4 DEF ReadyStaysReady, TypeOK
  <2> QED
    BY <2>1, <2>3, <2>5
<1>3. CASE Select
  <2>1. TypeOK'
    BY <1>3 DEF Select, Ready, AfterSelect, TypeOK, conns, sessions, getTask
  <2>2. UNCHANGED <<peer, link, unread, AcceptFD, addr, systemaddr, allset, fifo, msg>> /\ rx = "select"
        /\ rx' # "watch" /\ rset' = Ready /\ new' = NoSlot
    BY <1>3 DEF Select, AfterSelect, conns, sessions, getTask
  <2>3. WatchesSessions' /\ RegisteredByOwner' /\ AnswersReporter'
    BY <2>2 DEF WatchesSessions, Held, Open, InGap, RegisteredByOwner, AnswersReporter
  <2>4. ReadyStaysReady'
    BY <2>2 DEF ReadyStaysReady, Ready, Readable
  <2> QED
    BY <2>1, <2>3, <2>4
<1>4. CASE SelectTimesOut \/ Get \/ Lookup \/ Answer
  <2>1. TypeOK'
    <3>1. NoReport \in Report
      BY DEF NoReport, Report
    <3>2. CASE SelectTimesOut
      BY <3>2 DEF SelectTimesOut, TypeOK, conns, sessions, rxTask, getTask
    <3>3. CASE Get
      <4>1. Head(fifo) \in Report /\ Tail(fifo) \in Seq(Report)
        BY <3>3 DEF Get, TypeOK
      <4> QED
        BY <3>3, <4>1 DEF Get, TypeOK, net, conns, sessions, rxTask
    <3>4. CASE Lookup
      BY <3>1, <3>4 DEF Lookup, TypeOK, net, conns, sessions, rxTask
    <3>5. CASE Answer
      BY <3>1, <3>5 DEF Answer, TypeOK, net, conns, sessions, rxTask
    <3> QED
      BY <1>4, <3>2, <3>3, <3>4, <3>5
  <2>2. UNCHANGED <<peer, link, unread, AcceptFD, addr, systemaddr, allset, rset, rx, new>>
    BY <1>4 DEF SelectTimesOut, Get, Lookup, Answer, conns, sessions, rxTask, getTask
  <2>3. WatchesSessions' /\ RegisteredByOwner' /\ ReadyStaysReady'
    BY <2>2 DEF WatchesSessions, Held, Open, InGap, RegisteredByOwner, ReadyStaysReady, Readable
  <2>4. AnswersReporter'
    <3>1. CASE Get
      <4>1. msg' = fifo[1] /\ 1 \in DOMAIN fifo
        BY <3>1 DEF Get, TypeOK
      <4>2. \A k \in DOMAIN fifo' : k + 1 \in DOMAIN fifo /\ fifo'[k] = fifo[k + 1]
        BY <3>1 DEF Get, TypeOK
      <4> QED
        BY <2>2, <4>1, <4>2 DEF AnswersReporter
    <3>2. CASE SelectTimesOut \/ Lookup \/ Answer
      BY <2>2, <3>2 DEF AnswersReporter, SelectTimesOut, Lookup, Answer, NoReport, getTask
    <3> QED
      BY <1>4, <3>1, <3>2
  <2> QED
    BY <2>1, <2>3, <2>4
<1>5. ASSUME NEW v \in VM, NEW f \in Fd, NEW s \in Slot, Accept(v, f, s) PROVE SessionInv'
  <2>1. TypeOK'
    BY <1>5 DEF Accept, TypeOK, FirstFree, Free, getTask
  <2>2. /\ rx = "accept" /\ rx' = "watch" /\ new' = s
        /\ AcceptFD[s] = NoFd /\ f \notin Open
        /\ \A t \in Slot : AcceptFD'[t] = IF t = s THEN f ELSE AcceptFD[t]
        /\ \A g \in Fd : peer'[g] = IF g = f THEN v ELSE peer[g]
        /\ UNCHANGED <<link, unread, addr, systemaddr, allset, rset, fifo, msg>>
    BY <1>5 DEF Accept, TypeOK, FirstFree, Free, getTask
  <2>3. \A t \in Slot : AcceptFD[t] # f
    BY <2>2 DEF WatchesSessions, Held
  <2>4. Held' = Held \union {f} /\ Open' = Open \union {f} /\ InGap' = {f} /\ InGap = {}
    BY <2>2 DEF Held, Open, InGap
  <2>5. WatchesSessions'
    BY <2>2, <2>3, <2>4 DEF WatchesSessions
  <2>6. RegisteredByOwner'
    BY <2>2, <2>3 DEF RegisteredByOwner, TypeOK
  <2>7. AnswersReporter'
    <3>1. msg \in Report /\ \A k \in DOMAIN fifo : fifo[k] \in Report
      BY DEF TypeOK
    <3>2. \A m \in Report : m.slot \in Slot
      BY DEF Report
    <3> QED
      BY <2>2, <3>1, <3>2 DEF AnswersReporter
  <2>8. ReadyStaysReady'
    BY <2>2, <2>3 DEF ReadyStaysReady, Readable
  <2> QED
    BY <2>1, <2>5, <2>6, <2>7, <2>8
<1>6. CASE AcceptFails \/ \E v \in VM : Refuse(v)
  <2>1. TypeOK'
    BY <1>6 DEF AcceptFails, Refuse, TypeOK, net, conns, sessions, getTask
  <2> QED
    BY <1>6, <2>1 DEF AcceptFails, Refuse, conns, sessions, getTask, WatchesSessions, Held, Open, InGap,
      RegisteredByOwner, AnswersReporter, ReadyStaysReady, Readable
<1>7. CASE Watch
  <2>1. new \in Slot /\ rx = "watch" /\ rx' # "watch"
    BY <1>7 DEF Watch, TypeOK
  <2>2. TypeOK'
    BY <1>7, <2>1 DEF Watch, TypeOK, net, conns, getTask
  <2>3. UNCHANGED <<peer, link, unread, AcceptFD, addr, systemaddr, new, fifo, msg>>
    BY <1>7 DEF Watch, conns, getTask
  <2>4. Held' = Held /\ Open' = Open /\ InGap = {AcceptFD[new]} /\ InGap' = {}
    BY <2>1, <2>3 DEF Held, Open, InGap
  <2>5. WatchesSessions'
    BY <1>7, <2>1, <2>3, <2>4 DEF Watch, WatchesSessions, Held
  <2>6. RegisteredByOwner' /\ AnswersReporter'
    BY <2>3 DEF RegisteredByOwner, AnswersReporter
  <2>7. ReadyStaysReady'
    BY <1>7, <2>1, <2>3 DEF Watch, ReadyStaysReady, Readable
  <2> QED
    BY <2>2, <2>5, <2>6, <2>7
<1>8. CASE Lock \/ EndScan
  <2>1. TypeOK'
    BY <1>8 DEF Lock, EndScan, TypeOK, net, conns, sessions, getTask
  <2>2. UNCHANGED <<peer, link, unread, AcceptFD, addr, systemaddr, allset, new, fifo, msg>>
    BY <1>8 DEF Lock, EndScan, conns, sessions, getTask
  <2>3. rx # "watch" /\ rx' # "watch"
    BY <1>8 DEF Lock, EndScan
  <2>4. WatchesSessions' /\ RegisteredByOwner' /\ AnswersReporter'
    BY <2>2, <2>3 DEF WatchesSessions, Held, Open, InGap, RegisteredByOwner, AnswersReporter
  <2>5. ReadyStaysReady'
    BY <1>8, <2>2 DEF Lock, EndScan, ReadyStaysReady, Readable
  <2> QED
    BY <2>1, <2>4, <2>5
<1>9. ASSUME NEW s \in Slot, Receive(s) PROVE SessionInv'
  <2> DEFINE f == AcceptFD[s]
  <2>1. f \in rset /\ f \in Fd /\ f # NoFd /\ rx = "scan"
    BY <1>9 DEF Receive, Current, ToVisit, TypeOK
  <2>2. /\ UNCHANGED <<peer, link, AcceptFD, allset, rx, new, msg>>
        /\ rset' = rset \ {f}
        /\ \A g \in Fd : g # f => unread'[g] = unread[g]
    BY <1>9 DEF Receive, TypeOK, getTask
  <2>3. peer[f] \in VM
    BY <2>1 DEF WatchesSessions, Held, Open, TypeOK
  <2>4. [slot |-> s, from |-> f] \in Report
    BY <2>1 DEF Report
  <2>5. TypeOK'
    <3>1. fifo' \in Seq(Report)
      BY <1>9, <2>4 DEF Receive, TypeOK
    <3>2. addr' \in [Slot -> VM \union {NoAddr}] /\ systemaddr' \in [Slot -> VM \union {NoAddr}]
      BY <1>9, <2>3 DEF Receive, TypeOK
    <3> QED
      BY <1>9, <2>2, <3>1, <3>2 DEF Receive, TypeOK, net, getTask
  <2>6. WatchesSessions'
    BY <2>2 DEF WatchesSessions, Held, Open, InGap
  <2>7. RegisteredByOwner'
    BY <1>9, <2>1, <2>2, <2>3 DEF Receive, RegisteredByOwner, TypeOK
  <2>8. AnswersReporter'
    <3>1. \A k \in DOMAIN fifo' : \/ k \in DOMAIN fifo /\ fifo'[k] = fifo[k]
                                  \/ fifo'[k] = [slot |-> s, from |-> f]
      BY <1>9 DEF Receive, TypeOK
    <3> QED
      BY <2>2, <3>1 DEF AnswersReporter
  <2>9. ReadyStaysReady'
    <3> SUFFICES ASSUME NEW t \in Slot, AcceptFD[t] \in rset, AcceptFD[t] # f,
                        ~Readable(AcceptFD[t])'
                 PROVE  t = new
      BY <2>2 DEF ReadyStaysReady, Readable
    <3>1. AcceptFD[t] \in Fd /\ ~Readable(AcceptFD[t])
      BY <2>2 DEF Readable, TypeOK
    <3> QED
      BY <2>1, <3>1 DEF ReadyStaysReady
  <2> QED
    BY <2>5, <2>6, <2>7, <2>8, <2>9
<1>10. ASSUME NEW s \in Slot, ReceiveFails(s) PROVE SessionInv'
  <2> DEFINE f == AcceptFD[s]
  <2>1. f \in rset /\ f \in Fd /\ f # NoFd /\ rx = "scan"
    BY <1>10 DEF ReceiveFails, Current, ToVisit, TypeOK
  <2>2. /\ DropSession(s)
        /\ fifo' = [k \in DOMAIN fifo |-> Orphan(fifo[k], AcceptFD[s])]
        /\ msg' = Orphan(msg, AcceptFD[s])
        /\ rset' \subseteq rset
        /\ UNCHANGED <<backlog, refused, rx, new, getter>>
    BY <1>10 DEF ReceiveFails, net
  <2>3. fifo' \in Seq(Report) /\ msg' \in Report
    BY <2>1, <2>2, DropQueue, OrphanFacts DEF TypeOK
  <2>4. TypeOK'
    BY <2>1, <2>2, <2>3, DropTypes DEF TypeOK
  <2>5. WatchesSessions' /\ RegisteredByOwner'
    BY <2>1, <2>2, DropSessions
  <2>6. AnswersReporter'
    <3>1. msg \in Report /\ KeepsSlot(msg)
      BY DEF TypeOK, AnswersReporter, KeepsSlot
    <3>2. msg'.from # NoFd => AcceptFD'[msg'.slot] = msg'.from
      BY <2>1, <2>2, <3>1, DropKeepsReports
    <3> QED
      BY <2>1, <2>2, <3>2, DropQueue DEF AnswersReporter
  <2>7. ReadyStaysReady'
    BY <2>1, <2>2, DropReady
  <2> QED
    BY <2>4, <2>5, <2>6, <2>7
<1>11. CASE AnswerFails
  <2> DEFINE s == msg.slot
  <2>1. s \in Slot /\ AcceptFD[s] # NoFd /\ AcceptFD[s] \in Fd
    BY <1>11 DEF AnswerFails, TypeOK, Report
  <2>2. /\ DropSession(s)
        /\ fifo' = [k \in DOMAIN fifo |-> Orphan(fifo[k], AcceptFD[s])]
        /\ msg' = NoReport
        /\ getter' = "idle"
        /\ UNCHANGED <<backlog, refused, rset, rx, new>>
    BY <1>11 DEF AnswerFails, net, rxTask
  <2>3. fifo' \in Seq(Report) /\ msg' \in Report
    BY <2>1, <2>2, DropQueue DEF NoReport, Report
  <2>4. TypeOK'
    BY <2>1, <2>2, <2>3, DropTypes DEF TypeOK
  <2>5. WatchesSessions' /\ RegisteredByOwner'
    BY <2>1, <2>2, DropSessions
  <2>6. AnswersReporter'
    BY <2>1, <2>2, DropQueue DEF AnswersReporter, NoReport
  <2>7. ReadyStaysReady'
    BY <2>1, <2>2, DropReady
  <2> QED
    BY <2>4, <2>5, <2>6, <2>7
<1>12. CASE UNCHANGED vars
  BY <1>12 DEF vars, net, conns, sessions, rxTask, getTask, TypeOK, WatchesSessions, Held, Open,
    InGap, RegisteredByOwner, AnswersReporter, ReadyStaysReady, Readable
<1> QED
  BY <1>1, <1>2, <1>3, <1>4, <1>5, <1>6, <1>7, <1>8, <1>9, <1>10, <1>11, <1>12
  DEF Next, RcvTask, GetTask, Vm, Network

-----------------------------------------------------------------------------
(***************************************************************************)
(* The theorems                                                            *)
(***************************************************************************)
THEOREM SessionsConsistent == Spec => []SessionInv
BY InitInv, NextInv, PTL DEF Spec

\* Every variable of the session table keeps its type (alist[], vmc_system[]).
THEOREM TypeCorrect == Spec => []TypeOK
<1>1. SessionInv => TypeOK
  BY DEF SessionInv
<1> QED
  BY <1>1, SessionsConsistent, PTL

\* No connection is leaked or closed under another slot, and select() never
\* meets a closed descriptor (tcp_rcvTask, TcpAccept, TcpSend, TcpRecv).
THEOREM NothingLeaks == Spec => []WatchesSessions
<1>1. SessionInv => WatchesSessions
  BY DEF SessionInv
<1> QED
  BY <1>1, SessionsConsistent, PTL

\* vmc_system[] names the VM at the other end of the slot's connection.
THEOREM OwnersAreRegistered == Spec => []RegisteredByOwner
<1>1. SessionInv => RegisteredByOwner
  BY DEF SessionInv
<1> QED
  BY <1>1, SessionsConsistent, PTL

\* The answer to a report whose connection is open goes to that connection.
THEOREM ReportersAreAnswered == Spec => []AnswersReporter
<1>1. SessionInv => AnswersReporter
  BY DEF SessionInv
<1> QED
  BY <1>1, SessionsConsistent, PTL

\* recv() waits under TcpMutex only for the connection accepted in this round.
THEOREM OldConnectionsNeverBlock == Spec => []WaitsOnlyForNew
<1>1. SessionInv => WaitsOnlyForNew
  BY DEF SessionInv, ReadyStaysReady, WaitsOnlyForNew
<1> QED
  BY <1>1, SessionsConsistent, PTL

-----------------------------------------------------------------------------
(***************************************************************************)
(* What the monitors see of the sessions                                   *)
(***************************************************************************)
Registry == INSTANCE SessionTable

\* tcp_rcvTask and fifo_getTask change vmc_system[] as SessionTable says: only
\* the report of a VM registers a slot, and only a free one, although both
\* threads zero slots and descriptors are reused.
THEOREM RefinesTable == Spec => Registry!Spec
<1>1. Init => Registry!Init
  BY DEF Init, Registry!Init
<1>2. SessionInv /\ [Next]_vars => [Registry!Next]_systemaddr
  <2> SUFFICES ASSUME SessionInv, Next, systemaddr' # systemaddr PROVE Registry!Next
    BY DEF vars, sessions
  <2>1. TypeOK
    BY DEF SessionInv
  <2>2. ASSUME NEW s \in Slot, Receive(s) PROVE Registry!Next
    <3> DEFINE f == AcceptFD[s]
    <3>1. f \in Fd /\ f # NoFd
      BY <2>1, <2>2, SessionAssumption DEF Receive, Current, ToVisit, TypeOK
    <3>2. f \in Open
      BY <3>1 DEF SessionInv, WatchesSessions, Held
    <3>3. peer[f] \in VM
      BY <2>1, <3>1, <3>2 DEF Open, TypeOK
    <3> QED
      BY <2>2, <3>3 DEF Receive, Registry!Next, Registry!Register
  <2>3. ASSUME NEW s \in Slot, DropSession(s) PROVE Registry!Next
    BY <2>3 DEF DropSession, Registry!Next, Registry!Vanish
  <2>4. ASSUME NEW s \in Slot, ReceiveFails(s) PROVE Registry!Next
    BY <2>3, <2>4 DEF ReceiveFails
  <2>5. CASE AnswerFails
    BY <2>1, <2>3, <2>5 DEF AnswerFails, TypeOK, Report
  <2> QED
    BY <2>2, <2>4, <2>5 DEF Next, RcvTask, GetTask, Network, Vm, Select, SelectTimesOut, Watch,
         Lock, EndScan, Accept, AcceptFails, Refuse, Get, Lookup, Answer, Connect, BeginReport,
         EndReport, Break, sessions
<1> QED
  BY <1>1, <1>2, SessionsConsistent, PTL DEF Spec, Registry!Spec
=============================================================================
