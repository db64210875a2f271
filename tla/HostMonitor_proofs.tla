------------------------- MODULE HostMonitor_proofs -------------------------
(***************************************************************************)
(* The relay follows the votes, and the minute check counts silence; what  *)
(* the database client adds to that, and what it takes from it.  For every *)
(* number of VMs, slots and minutes.                                       *)
(***************************************************************************)
EXTENDS HostMonitor, TLAPS

\* While an increment is pending, nothing but a reset can have happened to the
\* counter that was loaded; without a reset it still has the loaded value.
PendingStore ==
  tcp_pc = "store" =>
    /\ cur.loaded < CHECK_TCPSTATUS_MIN
    /\ link_status[cur.slot] <= cur.loaded
    /\ quiet[cur.slot] <= cur.loaded
    /\ ~raced[cur.slot] => link_status[cur.slot] = cur.loaded

\* A slot is looked at for a VM.
ScanHasVM == tcp_pc = "scan" => cur.vm \in VM

CountInv == TypeOK /\ CountsSilence /\ PendingStore /\ ScanHasVM

-----------------------------------------------------------------------------
(***************************************************************************)
(* Types                                                                   *)
(***************************************************************************)

\* Whatever the tables hold, a vote is a mode.
LEMMA VoteIsMode == \A table : TableVote(table) \in Mode
BY DEF TableVote, Mode

\* The arbitration yields a mode whenever the vote is one and the relay has one.
LEMMA ArbitrateIsMode ==
  ASSUME NEW v \in Mode, NEW other, bp_mode \in Mode
  PROVE  Arbitrate(v, other) \in Mode
BY DEF Arbitrate, Mode

\* CountInv holds initially: no counter has moved.
LEMMA CountInit == Init => CountInv
<1> SUFFICES ASSUME Init PROVE CountInv
  OBVIOUS
<1> USE ControlAssumption
<1>1. NoRows \in Table
  BY DEF NoRows, Table
<1>2. bp_mode \in Mode /\ vmc_mode \in Mode /\ tcp_mode \in Mode /\ vm_list \subseteq VM
  BY VoteIsMode DEF Init, Mode, Listed
<1>3. 0 \in Slot /\ 0 \in 0 .. CHECK_TCPSTATUS_MIN
  BY DEF Slot
<1>4. TypeOK
  BY <1>1, <1>2, <1>3 DEF Init, TypeOK, Mode, NoScan, NoTurn
<1>5. CountsSilence /\ PendingStore /\ ScanHasVM
  BY DEF Init, CountsSilence, PendingStore, ScanHasVM
<1> QED
  BY <1>4, <1>5 DEF CountInv

\* A step of any thread keeps CountInv.
LEMMA CountStep == CountInv /\ [Next]_vars => CountInv'
<1> SUFFICES ASSUME CountInv, [Next]_vars PROVE CountInv'
  OBVIOUS
<1> USE ControlAssumption
<1> USE DEF CountInv, ScanHasVM, modes, session, vmTask, tcpTask, history
<1>1. CASE UNCHANGED vars
  BY <1>1 DEF vars, TypeOK, CountsSilence, PendingStore
<1>2. CASE VmWake
  BY <1>2 DEF VmWake, TypeOK, CountsSilence, PendingStore
<1>3. CASE VmSelect
  <2>1. NoRows \in Table
    BY DEF NoRows, Table
  <2>2. rows' \in Table
    BY <1>3, <2>1 DEF VmSelect
  <2> QED
    BY <1>3, <2>2 DEF VmSelect, TypeOK, CountsSilence, PendingStore
<1>4. CASE VmSelectFails
  BY <1>4 DEF VmSelectFails, TypeOK, CountsSilence, PendingStore
<1>5. CASE VmUpdate
  <2>1. bp_mode' \in Mode /\ vmc_mode' \in Mode
    BY <1>5, VoteIsMode, ArbitrateIsMode DEF VmUpdate, TypeOK
  <2>2. rows' \in Table /\ vm_list' \subseteq VM
    BY <1>5 DEF VmUpdate, NoRows, Table, Listed
  <2> QED
    BY <1>5, <2>1, <2>2 DEF VmUpdate, TypeOK, CountsSilence, PendingStore
<1>6. CASE TcpBegin
  BY <1>6 DEF TcpBegin, TypeOK, CountsSilence, PendingStore, Mode
<1>7. CASE TcpStore
  <2>1. PICK old \in {cur.loaded, link_status[cur.slot]} :
          link_status' = [link_status EXCEPT ![cur.slot] = old + 1]
    BY <1>7 DEF TcpStore
  <2>2. cur.slot \in Slot /\ cur.loaded \in Nat /\ link_status[cur.slot] \in Nat
        /\ quiet[cur.slot] \in Nat /\ raced[cur.slot] \in BOOLEAN
    BY DEF TypeOK
  <2>3. /\ old + 1 \in 0 .. CHECK_TCPSTATUS_MIN
        /\ quiet[cur.slot] + 1 <= old + 1
        /\ ~raced[cur.slot] => old + 1 = quiet[cur.slot] + 1
    BY <1>7, <2>1, <2>2 DEF TcpStore, PendingStore, CountsSilence
  <2>4. /\ link_status'[cur.slot] = old + 1
        /\ quiet'[cur.slot] = quiet[cur.slot] + 1
        /\ raced'[cur.slot] = (raced[cur.slot] /\ old + 1 # quiet[cur.slot] + 1)
    BY <1>7, <2>1, <2>2 DEF TcpStore, TypeOK
  <2>5. raced' \in [Slot -> BOOLEAN]
    BY <1>7, <2>2 DEF TcpStore, TypeOK
  <2>6. TypeOK'
    <3>1. link_status' \in [Slot -> 0 .. CHECK_TCPSTATUS_MIN]
      BY <2>1, <2>3 DEF TypeOK
    <3>2. quiet[cur.slot] + 1 \in 0 .. CHECK_TCPSTATUS_MIN
      BY <2>2, <2>3
    <3>3. quiet' \in [Slot -> 0 .. CHECK_TCPSTATUS_MIN]
      BY <1>7, <3>2 DEF TcpStore, TypeOK
    <3>4. cur' \in [vm : VM \union {NoAddr}, slot : Slot, loaded : 0 .. CHECK_TCPSTATUS_MIN]
      BY <1>7 DEF TcpStore, NoScan, Slot
    <3> QED
      BY <1>7, <2>5, <3>1, <3>3, <3>4 DEF TcpStore, TypeOK
  <2>7. CountsSilence'
    <3> SUFFICES ASSUME NEW s \in Slot
                 PROVE  /\ quiet'[s] <= link_status'[s]
                        /\ ~raced'[s] => link_status'[s] = quiet'[s]
      BY DEF CountsSilence
    <3>1. CASE s = cur.slot
      BY <2>2, <2>3, <2>4, <3>1
    <3>2. CASE s # cur.slot
      <4>1. link_status'[s] = link_status[s] /\ quiet'[s] = quiet[s] /\ raced'[s] = raced[s]
        BY <1>7, <2>1, <3>2 DEF TcpStore, TypeOK
      <4> QED
        BY <4>1 DEF CountsSilence
    <3> QED
      BY <3>1, <3>2
  <2>8. PendingStore' /\ ScanHasVM'
    BY <1>7 DEF TcpStore, PendingStore
  <2> QED
    BY <2>6, <2>7, <2>8
<1>8. CASE TcpDecide
  BY <1>8, ArbitrateIsMode DEF TcpDecide, TypeOK, CountsSilence, PendingStore, Mode
<1>9. ASSUME NEW s \in Slot, NEW v \in VM, LookAt(s, v),
             todo' \subseteq VM,
             UNCHANGED <<modes, vm_list, session, vmTask, bpmode, got, history>>
      PROVE  CountInv'
  <2>1. /\ tcp_pc' \in {"check", "scan", "match"}
        /\ cur' \in [vm : VM \union {NoAddr}, slot : Slot, loaded : 0 .. CHECK_TCPSTATUS_MIN]
        /\ tcp_pc' = "scan" => cur'.vm = v
    BY <1>9 DEF LookAt, NoScan, Slot
  <2> QED
    BY <1>9, <2>1 DEF TypeOK, CountsSilence, PendingStore
<1>10. ASSUME NEW v \in VM, TcpPick(v) PROVE CountInv'
  <2>1. 0 \in Slot /\ todo' \subseteq VM
    BY <1>10 DEF TcpPick, TypeOK, Slot
  <2> QED
    BY <1>9, <1>10, <2>1 DEF TcpPick
<1>11. CASE TcpScan
  <2>1. cur.slot \in Slot /\ cur.vm \in VM /\ todo' \subseteq VM
    BY <1>11 DEF TcpScan, TypeOK, ScanHasVM
  <2> QED
    BY <1>9, <1>11, <2>1 DEF TcpScan
<1>12. ASSUME NEW s \in Slot, NEW v \in VM, Register(s, v) PROVE CountInv'
  BY <1>12 DEF Register, TypeOK, CountsSilence, PendingStore
<1>13. ASSUME NEW s \in Slot,
              link_status' = [link_status EXCEPT ![s] = 0], Forgive(s),
              systemaddr' \in [Slot -> VM \union {NoAddr}],
              got' \in [at : {"idle", "seek", "clear"}, vm : VM \union {NoAddr}, slot : Slot],
              UNCHANGED <<modes, vm_list, vmTask, tcpTask>>
       PROVE  CountInv'
  <2>1. TypeOK'
    BY <1>13 DEF Forgive, TypeOK
  <2>2. CountsSilence'
    BY <1>13 DEF Forgive, TypeOK, CountsSilence
  <2>3. PendingStore'
    <3> SUFFICES ASSUME tcp_pc = "store"
                 PROVE  PendingStore'
      BY <1>13 DEF PendingStore
    <3>1. cur' = cur /\ cur.slot \in Slot /\ cur.loaded \in Nat
      BY <1>13 DEF TypeOK
    <3>2. CASE cur.slot = s
      <4>1. link_status'[s] = 0 /\ quiet'[s] = 0 /\ raced'[s] = TRUE
        BY <1>13, <3>2 DEF Forgive, TypeOK
      <4> QED
        BY <3>1, <3>2, <4>1 DEF PendingStore
    <3>3. CASE cur.slot # s
      <4>1. /\ link_status'[cur.slot] = link_status[cur.slot]
            /\ quiet'[cur.slot] = quiet[cur.slot]
            /\ raced'[cur.slot] = raced[cur.slot]
        BY <1>13, <3>1, <3>3 DEF Forgive, TypeOK
      <4> QED
        BY <3>1, <4>1 DEF PendingStore
    <3> QED
      BY <3>2, <3>3
  <2>4. ScanHasVM'
    BY <1>13
  <2> QED
    BY <2>1, <2>2, <2>3, <2>4
<1>14. CASE ReportClears
  <2>1. got.slot \in Slot
    BY DEF TypeOK
  <2>2. got' \in [at : {"idle", "seek", "clear"}, vm : VM \union {NoAddr}, slot : Slot]
    BY <1>14 DEF ReportClears, NoTurn, Slot
  <2> QED
    BY <1>13, <1>14, <2>1, <2>2 DEF ReportClears, TypeOK
<1>15. ASSUME NEW s \in Slot, Lost(s) PROVE CountInv'
  BY <1>13, <1>15 DEF Lost, TypeOK
<1>16. ASSUME NEW s \in Slot, NEW v \in VM \union {NoAddr}, Seek(s, v),
              UNCHANGED <<modes, vm_list, session, vmTask, tcpTask, history>>
       PROVE  CountInv'
  <2>1. got' \in [at : {"idle", "seek", "clear"}, vm : VM \union {NoAddr}, slot : Slot]
    BY <1>16 DEF Seek, NoTurn, Slot
  <2> QED
    BY <1>16, <2>1 DEF TypeOK, CountsSilence, PendingStore, ScanHasVM
<1>17. ASSUME NEW v \in VM, ReportTaken(v) PROVE CountInv'
  <2>1. 0 \in Slot
    BY DEF Slot
  <2> QED
    BY <1>16, <1>17, <2>1 DEF ReportTaken
<1>18. CASE ReportSeeks
  <2>1. got.slot \in Slot /\ got.vm \in VM \union {NoAddr}
    BY DEF TypeOK
  <2> QED
    BY <1>16, <1>18, <2>1 DEF ReportSeeks
<1>19. CASE TcpLoad
  <2>1. cur.slot \in Slot /\ link_status[cur.slot] \in 0 .. CHECK_TCPSTATUS_MIN
        /\ link_status[cur.slot] < CHECK_TCPSTATUS_MIN
    BY <1>19 DEF TcpLoad, TypeOK
  <2>2. TypeOK'
    BY <1>19, <2>1 DEF TcpLoad, TypeOK
  <2>3. CountsSilence' /\ ScanHasVM'
    BY <1>19 DEF TcpLoad, CountsSilence, ScanHasVM
  <2>4. PendingStore'
    <3>1. cur'.slot = cur.slot /\ cur'.loaded = link_status[cur.slot]
      BY <1>19 DEF TcpLoad, TypeOK
    <3> QED
      BY <1>19, <2>1, <3>1 DEF TcpLoad, TypeOK, CountsSilence, PendingStore
  <2> QED
    BY <2>2, <2>3, <2>4
<1>20. CASE TcpHang
  BY <1>20 DEF TcpHang, TypeOK, CountsSilence, PendingStore, ScanHasVM, Mode, NoScan, Slot
<1> QED
  BY <1>1, <1>2, <1>3, <1>4, <1>5, <1>6, <1>7, <1>8, <1>10, <1>11, <1>12,
     <1>14, <1>15, <1>17, <1>18, <1>19, <1>20 DEF Next, VmTask, TcpStep, Report, Session

LEMMA CountInvariant == Safety => []CountInv
BY CountInit, CountStep, PTL DEF Safety

\* Every variable keeps its type; in particular link_status never passes
\* CHECK_TCPSTATUS_MIN.
THEOREM TypeCorrect == Safety => []TypeOK
<1>1. CountInv => TypeOK
  BY DEF CountInv
<1> QED
  BY <1>1, CountInvariant, PTL

\* The unlocked counter of a VM counts its silence, and only a raced report
\* can leave it too high.
THEOREM CountsCorrect == Safety => []CountsSilence
<1>1. CountInv => CountsSilence
  BY DEF CountInv
<1> QED
  BY <1>1, CountInvariant, PTL

-----------------------------------------------------------------------------
(***************************************************************************)
(* The relay and the votes                                                 *)
(***************************************************************************)

\* One vote, given the last vote of the other monitor, leaves a relay that
\* agrees with the two.
LEMMA ArbitrateAgrees ==
  ASSUME NEW v \in Mode, NEW other \in Mode, NEW own \in Mode, bp_mode \in Mode,
         bp_mode = "ON" <=> own = "ON" \/ other = "ON"
  PROVE  Arbitrate(v, other) = "ON" <=> v = "ON" \/ other = "ON"
BY DEF Arbitrate, Mode

\* Only the two sections under BypassMutex change a vote or the relay.
LEMMA OnlyDecisionsMoveTheRelay ==
  ASSUME [Next]_vars, ~VmUpdate, ~TcpDecide
  PROVE  UNCHANGED modes
BY DEF Next, vars, VmTask, TcpStep, Session, VmWake, VmSelect, VmSelectFails,
       TcpBegin, TcpPick, TcpScan, TcpLoad, TcpStore, TcpHang, Register, Report,
       ReportTaken, ReportSeeks, ReportClears, Lost

\* The relay is in bypass exactly when one of the two checks last voted for it.
THEOREM RelayAgrees == Safety => []BypassAgrees
<1>1. Init => BypassAgrees
  BY DEF Init, BypassAgrees
<1>2. TypeOK /\ BypassAgrees /\ [Next]_vars => BypassAgrees'
  <2> SUFFICES ASSUME TypeOK, BypassAgrees, [Next]_vars PROVE BypassAgrees'
    OBVIOUS
  <2>1. CASE VmUpdate
    BY <2>1, ArbitrateAgrees, VoteIsMode DEF VmUpdate, TypeOK, BypassAgrees
  <2>2. CASE TcpDecide
    BY <2>2, ArbitrateAgrees DEF TcpDecide, TypeOK, BypassAgrees
  <2>3. CASE ~VmUpdate /\ ~TcpDecide
    BY <2>3, OnlyDecisionsMoveTheRelay DEF modes, BypassAgrees
  <2> QED
    BY <2>1, <2>2, <2>3
<1> QED
  BY <1>1, <1>2, TypeCorrect, PTL DEF Safety

-----------------------------------------------------------------------------
(***************************************************************************)
(* A vote of the minute check                                              *)
(***************************************************************************)

\* The minute check votes for bypass at a slot exactly when the slot was silent
\* for long enough.
THEOREM HangsAreSilent == Safety => HangIsSilence
<1>1. CountInv /\ [Next]_vars =>
        [tcp_pc = "match" /\ tcp_pc' # "match" =>
           /\ quiet[cur.slot] >= CHECK_TCPSTATUS_MIN => bpmode' = "ON"
           /\ bpmode' = "ON" => \/ bpmode = "ON"
                                \/ quiet[cur.slot] >= CHECK_TCPSTATUS_MIN
                                \/ raced[cur.slot]]_vars
  <2> SUFFICES ASSUME CountInv, Next, tcp_pc = "match", tcp_pc' # "match"
               PROVE  /\ quiet[cur.slot] >= CHECK_TCPSTATUS_MIN => bpmode' = "ON"
                      /\ bpmode' = "ON" => \/ bpmode = "ON"
                                           \/ quiet[cur.slot] >= CHECK_TCPSTATUS_MIN
                                           \/ raced[cur.slot]
    OBVIOUS
  <2>1. TcpLoad \/ TcpHang
    BY DEF Next, VmTask, TcpStep, Report, Session, VmWake, VmSelect, VmSelectFails, VmUpdate,
           TcpBegin, TcpPick, TcpScan, TcpStore, TcpDecide, Register, ReportTaken,
           ReportSeeks, ReportClears, Lost, tcpTask
  <2>2. /\ link_status[cur.slot] \in Nat /\ quiet[cur.slot] \in Nat
        /\ quiet[cur.slot] <= link_status[cur.slot]
        /\ (~raced[cur.slot] => link_status[cur.slot] = quiet[cur.slot])
    BY ControlAssumption DEF CountInv, TypeOK, CountsSilence
  <2>3. CASE TcpLoad
    BY <2>2, <2>3, ControlAssumption DEF TcpLoad
  <2>4. CASE TcpHang
    BY <2>2, <2>4, ControlAssumption DEF TcpHang
  <2> QED
    BY <2>1, <2>3, <2>4
<1> QED
  BY <1>1, CountInvariant, PTL DEF Safety, HangIsSilence

-----------------------------------------------------------------------------
(***************************************************************************)
(* Refinement                                                              *)
(***************************************************************************)

\* The votes as the abstract relay sees them.
Ballot == [m \in {"vmc", "tcp"} |-> IF m = "vmc" THEN vmc_mode ELSE tcp_mode]

\* Agreement of the relay, in the terms of the abstract specification.
LEMMA AgreesIsWanted ==
  ASSUME TypeOK, BypassAgrees
  PROVE  bp_mode = Switch!Wanted(Ballot)
BY DEF TypeOK, BypassAgrees, Switch!Wanted, Ballot, Mode

\* The three modes of hostConf implement the abstract relay: each of the two
\* sections under BypassMutex is one vote, every other step is invisible.
THEOREM RefinesSwitch == Safety => ImplementsSwitch
<1>1. Init /\ TypeOK /\ BypassAgrees => Switch!Init
  BY AgreesIsWanted DEF Init, TypeOK, Switch!Init, Switch!Mode, Mode, Ballot
<1>2. /\ TypeOK /\ BypassAgrees /\ TypeOK' /\ BypassAgrees'
      /\ [Next]_vars
      => [Switch!Next]_(Switch!vars)
  <2> SUFFICES ASSUME TypeOK, TypeOK', BypassAgrees', [Next]_vars
               PROVE  [Switch!Next]_(Switch!vars)
    OBVIOUS
  <2>1. bp_mode' = Switch!Wanted(Ballot')
    BY DEF TypeOK, BypassAgrees, Switch!Wanted, Ballot, Mode
  <2>2. CASE VmUpdate
    <3>1. Ballot' = [Ballot EXCEPT !["vmc"] = vmc_mode']
      BY <2>2 DEF VmUpdate, Ballot
    <3>2. PICK mode \in Switch!Mode : mode = vmc_mode'
      BY DEF Switch!Mode, TypeOK, Mode
    <3>3. Switch!Vote("vmc", mode)
      BY <2>1, <3>1, <3>2 DEF Switch!Vote, Ballot
    <3> QED
      BY <3>3 DEF Switch!Next
  <2>3. CASE TcpDecide
    <3>1. Ballot' = [Ballot EXCEPT !["tcp"] = tcp_mode']
      BY <2>3 DEF TcpDecide, Ballot
    <3>2. PICK mode \in Switch!Mode : mode = tcp_mode'
      BY DEF Switch!Mode, TypeOK, Mode
    <3>3. Switch!Vote("tcp", mode)
      BY <2>1, <3>1, <3>2 DEF Switch!Vote, Ballot
    <3> QED
      BY <3>3 DEF Switch!Next
  <2>4. CASE ~VmUpdate /\ ~TcpDecide
    BY <2>4, OnlyDecisionsMoveTheRelay DEF modes, Switch!vars
  <2> QED
    BY <2>2, <2>3, <2>4
<1> QED
  BY <1>1, <1>2, TypeCorrect, RelayAgrees, PTL
     DEF Safety, ImplementsSwitch, Switch!Spec

-----------------------------------------------------------------------------
Registry == INSTANCE SessionTable

\* The monitors judge VMs by a vmc_system[] that changes as SessionTable says,
\* which is also all that HostSessions does to it.
THEOREM RefinesTable == Safety => Registry!Spec
<1>1. Init => Registry!Init
  BY DEF Init, Registry!Init
<1>2. [Next]_vars => [Registry!Next]_systemaddr
  <2> SUFFICES ASSUME Next, systemaddr' # systemaddr PROVE Registry!Next
    BY DEF vars, session
  <2>1. Session
    BY DEF Next, VmTask, TcpStep, VmWake, VmSelect, VmSelectFails, VmUpdate, TcpBegin,
           TcpStore, TcpDecide, TcpPick, TcpScan, TcpLoad, TcpHang, Report, ReportTaken,
           ReportSeeks, ReportClears, session
  <2> QED
    BY <2>1 DEF Session, Register, Lost, Registry!Next, Registry!Register, Registry!Vanish
<1> QED
  BY <1>1, <1>2, PTL DEF Safety, Registry!Spec

-----------------------------------------------------------------------------
(***************************************************************************)
(* The composition                                                         *)
(***************************************************************************)

\* Every step of the composition is a step of the bypass decision or invisible
\* to it.
LEMMA StepImplementsControl == [MonitorNext]_all => [Next]_vars
BY DEF MonitorNext, VmThread, Check, Query, Answer, LostAnswer, Failure, Update,
       TcpThread, Other, Environment, all, Next, VmTask

\* A HOST whose database answers as the client lets it does nothing that the
\* bypass decision with arbitrary answers does not do: what is proved of
\* BypassControl holds of the composition.
THEOREM ImplementsControl == MonitorSafety => Safety
<1>1. MonitorInit => Init
  BY DEF MonitorInit
<1> QED
  BY <1>1, StepImplementsControl, PTL DEF MonitorSafety, Safety

\* The relay of the composed HOST follows the two votes.
COROLLARY MonitorRelayAgrees == MonitorSafety => []BypassAgrees
BY ImplementsControl, RelayAgrees, PTL

-----------------------------------------------------------------------------
(***************************************************************************)
(* The client                                                              *)
(***************************************************************************)

\* A connection that was dropped has cost no check yet, or one whose table was
\* read as empty.
TroubleIsFresh ==
  /\ missed \in 0 .. 2
  /\ missed <= IF emptied THEN 2 ELSE 1
  /\ nova = "store" /\ handler1 = "dead" => missed = 0
  /\ handler1 = "dead" \/ nova = "reopen" => missed <= IF emptied THEN 1 ELSE 0

\* How many attempts were refused before there is no handler at each place.
AttemptsBefore ==
  /\ refused \in 0 .. MaxRefused
  /\ nova = "again" => handler1 = "NULL" /\ refused >= 2
  /\ nova = "reopen" => handler1 = "NULL"
  /\ nova = "store" => handler1 # "NULL"
  /\ nova \in {"idle", "exec"} /\ handler1 = "NULL" => refused >= 1
  /\ nova \in {"query", "fault"} /\ handler1 = "NULL" => refused >= 3
  /\ nova = "fault" => handler1 = "NULL"

ClientInv == TroubleIsFresh /\ AttemptsBefore

\* The steps of the composition that the client takes part in.
ClientStep ==
  Begin \/ Exec \/ ReturnRows \/ ReturnNoRows \/ FailAfterReopen \/ FailAtServer \/ Server

\* The client moves by its own steps only, and by none once the process died.
LEMMA OnlyClientSteps == [MonitorNext]_all => UNCHANGED client \/ (Alive /\ ClientStep)
BY DEF MonitorNext, VmThread, Check, Query, Answer, LostAnswer, Failure, Update,
       TcpThread, Other, Environment, all, ClientStep

LEMMA ClientStart == MonitorInit => ClientInv
BY MonitorAssumption DEF MonitorInit, ClientInit, ClientInv, TroubleIsFresh, AttemptsBefore

\* An attempt to connect counts its refusals, up to the bound of the count.
LEMMA OpenCounts ==
  ASSUME refused \in 0 .. MaxRefused, OpenDatabase1
  PROVE  /\ refused' \in 0 .. MaxRefused
         /\ handler1' \in {"open", "NULL"}
         /\ handler1' = "NULL" => refused' >= refused + 1 \/ refused' >= 3
BY MonitorAssumption DEF OpenDatabase1

LEMMA ClientKeeps == ClientInv /\ [MonitorNext]_all => ClientInv'
<1> SUFFICES ASSUME ClientInv, [MonitorNext]_all PROVE ClientInv'
  OBVIOUS
<1> USE DEF ClientInv, TroubleIsFresh, AttemptsBefore, Afresh, lost
<1>1. CASE UNCHANGED client
  BY <1>1 DEF client
<1>2. CASE Alive /\ Begin
  BY <1>2 DEF Begin
<1>3. CASE Alive /\ FirstOpen
  BY <1>3, OpenCounts DEF FirstOpen, OpenDatabase1
<1>4. CASE Alive /\ SecondOpen
  BY <1>4, OpenCounts DEF SecondOpen
<1>5. CASE Alive /\ QueryWithoutHandler
  BY <1>5 DEF QueryWithoutHandler, Ready
<1>6. CASE Alive /\ QueryAnswered
  BY <1>6 DEF QueryAnswered
<1>7. CASE Alive /\ QueryFindsDead
  BY <1>7 DEF QueryFindsDead
<1>8. CASE Alive /\ FailAfterReopen
  BY <1>8, OpenCounts DEF FailAfterReopen
<1>9. CASE Alive /\ (ReturnRows \/ ReturnNoRows \/ FailAtServer)
  BY <1>9 DEF ReturnRows, ReturnNoRows, FailAtServer
<1>10. CASE Alive /\ Server
  BY <1>10 DEF Alive, Server, ServerStops, ServerStarts, ConnectionLost
<1> QED
  BY <1>1, <1>2, <1>3, <1>4, <1>5, <1>6, <1>7, <1>8, <1>9, <1>10, OnlyClientSteps
     DEF ClientStep, Exec

LEMMA ClientInvariant == MonitorSafety => []ClientInv
BY ClientStart, ClientKeeps, PTL DEF MonitorSafety

\* One trouble with the server costs one check, or two when the first of them
\* was answered with a table that had lost its rows.
THEOREM FewChecksAreLost == MonitorSafety => []LosesFewChecks
<1>1. ClientInv => LosesFewChecks
  BY DEF ClientInv, TroubleIsFresh, LosesFewChecks
<1> QED
  BY <1>1, ClientInvariant, PTL

\* Only an outage that lasts over three attempts kills the HOST.
THEOREM OnlyOutageKills == MonitorSafety => []DiesOnlyInOutage
<1>1. ClientInv => DiesOnlyInOutage
  BY DEF ClientInv, AttemptsBefore, DiesOnlyInOutage, Alive
<1> QED
  BY <1>1, ClientInvariant, PTL
=============================================================================
