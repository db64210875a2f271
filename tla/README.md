# VNF_monitoring: verification project

VNF_monitoring watches virtual network functions.  On every host a process
`bpappHOST` (src/src/HOST) decides whether traffic goes through the virtual
machines or around them, over a bypass relay; in every virtual machine a process
`bpappVMCT` (src/src/VMCT) reports the state of the processes there.  They share
a library (src/src/CMLB) and two database clients (src/src/DBMB, src/src/PQMB).
This directory holds TLA+ models of that code, their TLC instances and TLAPS
proofs.  The repository has no documents and no tests: the code is the reference,
and its comments are the only statements of intent.

Run a model with `tlc -workers 2 -config X.cfg M`, check a proof with
`tlapm M_proofs.tla`.  `PROJECT.json` maps each definition to its lines.

## 1. The system

### HOST: six threads, three mutexes

| Part | State | Operations | Interacts with |
|---|---|---|---|
| `tcp_rcvTask` | `alist[128]`, `vmc_system[128]`, `allset`, `rset` | select, accept, watch, receive, close | VMs; puts into `TcpFifo`; clears `stateinfo[]` |
| `TcpFifo` | linked list with `p_first`, `pp_last`, `i_depth` | put, timed get, release | `tcp_rcvTask` to `fifo_getTask` |
| `fifo_getTask` | the block in hand | answer, clear `link_status`, store the report | `alist[]`, `vmc_system[]`, `stateinfo[]` |
| `CheckVmStatusTask` | `vmc_mode`, `vmc_status[]`, `vm_count` | every 5 s: read Nova, vote | relay, the other vote |
| `CheckTcpStatusTask` | `tcp_mode`, `link_status` | every minute: count silence, vote | relay, the other vote, `vmc_system[]`, `stateinfo[]` |
| `ResetWatchdogTask` | none | restart the watchdog of the bypass card | external program |
| `ProcessVmStateTask` | copies of `vmc_status[]` and `stateinfo[]` | every 5 s: write a row per VM for the orchestrator | `vmc_status[]`, `stateinfo[]`, PQMB, the same thread of other HOSTs |
| main thread, `host_shutdown` | `ThreadAlive[]`, `ThreadFlags[]` | on a signal: close sockets, cancel the threads, empty `TcpFifo` | all of them |

`TcpMutex` covers one accept, one addition to `allset`, one pass over the slots or
one `TcpSend`; `BypassMutex` the relay, the votes and the VM list; `StateMutex`
each copy of `stateinfo[]`.  `vmc_system[]` is covered by none when the minute
check counts and when `fifo_getTask` looks a slot up, and `stateinfo[]` by none
when its two clearers search it.

### VMCT: three threads, one mutex

| Part | State | Operations |
|---|---|---|
| `TcpRcvTask` | `allsetHOST` | select, receive an answer, take the link down |
| `TcpSessionTask` | `tlinkHOST`, `retryCnt`, `recvFlag` | report each period, reopen the link, cut it after three silent periods |
| `TmrCmdTask` | `tmrsync[]` | connect again when a reconnect timer expires |

`TcpHostMutex` covers a receipt, a reconnect and the silence check, and not the
sending of a report, which may also close the link.

### Libraries

CMLB's timers hand out ids from a ring and keep running timers in a linked list
under `time_mutex`; `timer_task` walks the list ten times a second, giving the mutex
back between two entries, and sends a message for each timer that expires to a queue.
DBMB (MySQL) opens its handler again after some errors, PQMB (PostgreSQL) never does.
`xprint` writes every line of the log under `print_mutex`.  The rest is
configuration and formatting.

### What makes it correct, and what is hard about it

| Component | It is correct when | Hard because |
|---|---|---|
| Bypass decision | the relay follows both votes; a silent VM, or a fault the database shows, ends in bypass; health ends it | two threads vote; `link_status++` races with the report that clears it |
| Sessions | slots, sockets and watched descriptors agree; answers go to the reporter; broken sessions free their slot | two threads close; descriptors and slots are reused between select, accept, pass and answer |
| Report queue | every report is handled once, in order | timed waits without a second look; memory is reused |
| Timers | no two timers share an id, none is lost; each expires | ids return in another order than they left; the scan's cursor outlives the entry it is at |
| VMCT link | a link that is up is watched; the link comes back | three threads open and close it, one without the mutex; old timers fire |
| VM state table | one entry per VM, the last it reported; none for a VM that left | copied and stored in two sections; two threads clear it and search it unlocked |
| Orchestrator rows | a VM that reports is shown as reporting; so is a machine Nova does not know | four queries without a transaction; Nova lists the VMs of every host, one row per address, so several HOSTs write one row |
| Shutdown | a signal ends the process | threads are cancelled anywhere and release nothing; cleanups lock, and unlock what others hold |
| Database handler | a lost server is noticed and its handler opened again | a failed query is not repeated; a handler that cannot be opened is used all the same |

`PROJECT.json` lists each hazard at the line where it bites, with the properties
that would show it going wrong.

## 2. The plan

| Step | Modules | Contents | State |
|---|---|---|---|
| 1 | `BypassSwitch`, `BypassControl` | the votes and the relay; refinement of an abstract switch | modelled, checked, proved |
| 2 | `IdQueue`, `TimerIds` | the id ring as a queue of ids | modelled, checked, proved |
| 3 | `BlockQueue`, `HostFifo` | the linked list as a queue of blocks | modelled, checked, proved |
| 4 | `HostSessions` | sessions of two threads over reused descriptors | modelled, checked, proved |
| 5 | `VmctLink` | VMCT's link, timers and silence check | modelled, checked, safety proved |
| 6 | `StateInfo`, `VmStateTable`, `OrcheRows` | `stateinfo[]` with its getter and its two clearers; the rows written from it | modelled, checked, proved |
| 7 | `NovaClient`, `HostMonitor` | queries, lost servers, reopening; composed with `BypassControl`, whose database it is | modelled, checked; safety proved |
| 8 | `TimerTask` | the expiry scan, whose cursor outlives the entry, with `timer_reset`; messages lost in a full queue in `VmctLink` | modelled, checked; safety proved |
| 9 | `Shutdown` | who holds which mutex when a thread is cancelled, in the HOST and in VMCT | modelled, checked; safety proved |
| 10 | `HostVmct` | `HostSessions` and `VmctLink` composed: both ends of one connection | open |
| 11 | `LogRotate` | the hourly change of the log file beside the threads that print | open |

Abstract specifications: `BypassSwitch`, `IdQueue` and `BlockQueue`;
`SessionTable`, which `BypassControl`, `HostSessions` and `VmStateTable` implement; and
`BypassControl` itself, which `HostMonitor` implements.  Every safety property a
passing run checks is a theorem; steps 10 and 11 are what is left to model.

## 3. The modules

**BypassControl** (host_task.c:293-391, 628-871 and 873-886, host_conf.c:410-493).  The
two monitor threads, and every change to `vmc_system[]` a session can cause.  A section
under `BypassMutex` is one action (`VmUpdate`, `TcpDecide`).  No lock covers
`vmc_system[]`, and the minute check walks through it for each VM a slot a step
(`TcpPick`, `TcpScan`): it looks at the slot's VM, compares the counter with the limit,
loads it (`TcpLoad`) and stores it incremented (`TcpStore`), or votes (`TcpHang`), and
the slot may change hands between any two of these.  So may the slot of a report between
its search (`ReportTaken`, `ReportSeeks`) and the clearing of its counter
(`ReportClears`).  The store may use the loaded value or a fresh one, because C leaves
both open.  A VM row is a pair of states; `Faulty` is the condition of the code.
`quiet` and `raced` are histories: the checks a slot was counted in since it was last
cleared, and the slots in which a race shows in the counter.  *BypassSwitch* is the abstract relay: a vote and
its effect are one step.

**NovaClient** (dbmb_main.c:38-44, 116-135, 179-219, 468-527).  `handler1` as
`ExecQuery1` treats it: opened up to twice when it is NULL, closed and opened again
when a query finds the connection lost, and used even when it could not be opened,
which ends the process (`QueryWithoutHandler`).  The server stops, starts and drops
connections between any two calls.  `mysql_store_result` returns NULL when the
connection is lost after the query; the client library reads no row from that, so the
table is returned as empty (`ReturnNoRows`) and the dead handler is left to the next
check.  `refused`, `missed` and `emptied` are histories; a check that returns no rows for
this reason counts as missed.

**HostMonitor** composes the two: the select of `CheckVmStatusTask` is a run through
`ExecQuery1`, its table the one that returns, and all threads end with the process.
What `BypassControl` allows a check to find is now what the client can make of the
server.

**TimerIds** (timer.c).  `func_assign_tid` and `func_cancel_tid` on `tid_list[]`
with `assign_ptr`, `cancel_ptr`, `comeback` and `tremainder`.  Everything in it runs
under `time_mutex`.  The list of timers is reduced to how many entries carry an id.
*IdQueue* is a supply of ids: none is given out while it is out.

**TimerTask** (timer.c:89-196, 393-581).  The list with the memory of its entries: a
freed entry keeps its `next` until its memory is used again, and loses its id and its
time.  `BeginScan` to `EndScan` are one walk of `cmp_timer_value`, an entry per step;
`StartTimer` and `StopTimer` come between any two.  `ExpireRepeat`, `ResetArgs`,
`Reset` and `ResetNext` are the way of a repeating timer, which gives the mutex back
in the middle.  Time is a flag per entry, `due`; `Period` and `Elapsed` are the
arithmetic behind it, in ints of 32 bits (`ToInt`), which hold 35 minutes of
microseconds.  Which id a timer gets is the business of `TimerIds`.

**HostFifo** (host_fifo.c).  `Put`, the get with its timed wait, and the release.
The wait gives the mutex up, so its return is an action, and so is a wakeup
without a signal, which POSIX allows.  The code does not look at the list again after the
wait; the fault that follows ends the process.  *BlockQueue* is the abstract queue.

**HostSessions** (host_task.c:120-291 and 873-917, host_sock.c).  One round of
`tcp_rcvTask` is `Select`, `Accept`, `Watch`, `Lock`, a `Receive` or `ReceiveFails` for
each ready slot, and `EndScan`; `fifo_getTask` is `Get`, `Lookup`, `Answer` or
`AnswerFails`.  The pass over the slots has a step per slot since a `recv()` in it can
wait with `TcpMutex` held.  Descriptors and slots are reused; `rset` keeps its
old names.  Both ends set SO_LINGER with no time, so a closed connection resets
its peer.  A connection whose `accept()` fails stays where it is, so the round ends before
the sessions are looked at, and so may every round (`AcceptFails`); one that finds no
slot is closed (`Refuse`).  *SessionTable* is what the models that hold `vmc_system[]` agree on: one slot
changes at a time, and is zeroed between two VMs.

**VmctLink** (vmct_task.c:199-600, vmct_sock.c).  One action per section under
`TcpHostMutex`; what `TcpSend` does without it is a step per access: `SendFails`
(FD_ZERO), `SendClose`, `SendUnset`, `SendStop`, `SendStart`.  `FD_SET` loads a word of
`allsetHOST` and stores it again, and `TcpSessionTask` does so without the mutex
(`LookReopened`, `LoadReopened`, `StoreReopened`): it may undo the `FD_SET` of
`TcpReconnect` (`LoadReconnected`, `StoreReconnected`) or be undone by it.  `undone` is
the history of that.  `Reconnect` puts its socket in the place of the old one without
closing that, as the code does: sockets get lost, and so do descriptors.  A timer whose
message is under way can be stopped only by `used`; `ExpireUnheard` is an expiry whose
message finds the queue full.

**VmStateTable** (host_task.c:558-614, 758-816, 873-982, host_sock.c:810-849).  The
getter copies `stateinfo[]` (`Copy`), and later searches the copy, completes it and
stores all of it (`Store`).  `tcp_rcvTask` closes a connection (`ReceiveFails`),
looks for the entry of its VM without `StateMutex`, an entry a step (`Look`), empties
it under the mutex (`EmptyBroken`) and forgets the session (`Forget`).  The minute
check finds a silent VM (`FindsHung`), looks for its entry (`LookForHung`) and empties
another one (`EmptyHung`): the code indexes `stateinfo[]` with the place of the VM in
the VM list, which may be any.  Its copy of `basePState[]` also starts that many
processes too far in the entry and runs into the entries behind it; which of their bytes
it reaches follows from the sizes of the structures (`Position`, `AddrHit`,
`StatesHit`).  From places 1 to 12 it reaches the `vm_ip` of the next entry, and sets it
to the bytes right behind `basePState[]`; those are padding of the array, 0 in the build
(`Emptied`).  From place 13 on it writes other variables of the process into the states,
and from place 14 on into the addresses, of entries of other VMs (`Spoilt`): anything.
A report that finds no entry is dropped (`Store`).  `last` and `late` are histories: what was stored last of each VM, and whose session
ended while a report of it was under way.

**OrcheRows** (host_task.c:446-513, 983-1099, pqmb_main.c:103-126, 215-321).  The
passes of several HOSTs over their VM lists for one time, a query a step.  Their
inputs are any list and any table with one entry per VM; that `VmStateTable` has no
other is `PassesReadTheTable`.  Both modules know the entries from *StateInfo*.
`Count`, `Insert`, `Check` and `Update` are the four queries, each of which may fail;
`Metal` is the second loop, over the entries of machines that are not in the list.
A row keeps its VM and whose report it shows; the bypass state in it is left out.
The repository does not create the orchestrator's table, so no key is assumed.

**Shutdown** (host_main.c:58-131, host_task.c:55-118, host_fifo.c:101-134,
vmct_main.c:47-110, vmct_task.c:33-100).  A behaviour is that of the HOST or that of
VMCT.  A thread takes and gives back the mutexes its code takes, in any order the code
has; `Signal` sends the main thread through the shutdown, `Stop`, `Cancel` and
`Sleep` once for each thread.  `Die` strikes a thread wherever it is, and what it
holds stays locked; a getter in its timed wait locks the queue first
(`DieWaiting`).  VMCT's receiver may spin in `recv()` with `TcpHostMutex` locked
(`Hang`) until the HOST sends something (`Heard`), which it need not.  The cleanup of the receiver locks `TcpMutex` again, which may be its
own; every cleanup of the HOST unlocks it at the end, whoever holds it.
`block_FifoEmpty` unlocks the queue and locks it (`UnlockQueue`, `LockQueue`).

Definitions named with "Slip:" in their comment are mistakes this code could have
made.  No specification uses them; each shows that a property is able to fail.

Each `MC` module adds rows, lists, a symmetry set or a view for TLC.

## 4. What the runs show

| Run | Instance | Shows |
|---|---|---|
| `host_monitor` | 1 VM, 2 slots, 5 kinds of rows, limit 2 | the relay is on exactly when a vote is (`BypassAgrees`); `link_status` is the number of silent checks, at most too high after a race (`CountsSilence`); hung means silent (`HangIsSilence`); `BypassSwitch` is implemented; trouble with the server costs one check, or two if one of them read an empty table (`LosesFewChecks`), and only three refusals in a row end the HOST (`DiesOnlyInOutage`); when the server serves again a lasting fault ends in bypass (`FaultIsShown`) and health ends it (`Released`); a silent VM is found whatever the server does (`HangIsShown`) |
| `timer_ids` | 4 ids | ids are unique, and refused only when all are out; `IdQueue` is implemented |
| `timer_task` | 3 timers, 3 entries | the cursor leaves the list only by a stop of the entry it is at (`OnTheList`); a scan no stop hit has looked at every timer (`LooksAtAll`); and even if stops hit every scan, a timer whose time has come expires (`Expires`) |
| `fifo` | 4 blocks | the links spell the queue; every block put is got; `BlockQueue` is implemented |
| `fifo_wakeup` | 1 block | **violated**: a wakeup without a signal dereferences an empty list, against the comment at host_fifo.c:172 |
| `sessions` | 1 VM, 2 descriptors, 2 slots | `WatchesSessions`, `RegisteredByOwner`, `AnswersReporter`, `WaitsOnlyForNew`; a broken connection frees its slot (`SlotsComeBack`), with two excuses |
| `vmct_live` | 2 descriptors, 2 timers, 1 fault, limit 3 | a link that is up is open, and watched unless an `FD_SET` without the mutex undid it (`LinkWatched`); after the fault VMCT hears answers for ever (`KeepsHearing`), also on from such a link, with two excuses |
| `vmct_retry` | the same | **violated**: a new socket is cut for the silence of the one before, against the comment at vmct_sock.h:53 |
| `state_table` | 3 VMs, 2 states, 2 slots, 2 entries, places 0 and 1, 1 report queued | a VM has one entry (`OneEntryPerVM`), which shows its last report (`EntryIsLastReport`), also after a stale copy brought it back; entries without a session have one of two causes (`OrphansAreLate`); a VM with a session is kept out of the table only by more entries left behind than it has beyond the slots (`OnlyOrphansCrowdOut`), which happens here |
| `orche_rows` | 2 HOSTs, 1 VM with 2 addresses, 1 machine outside Nova | a VM that reports is shown (`ReportShown`); a HOST takes none of its reports back (`KeepsOwnReports`) |
| `orche_metal` | the same | **violated**: `v_flag` is never reset, so a machine outside Nova has no row if the entry of a VM comes before its own, against the comment at host_task.c:1054 |
| `shutdown` | 6 threads of the HOST, 3 of VMCT | a TERM ends the process (`Ends`), with three excuses; the sections of `TcpMutex` stay apart although cleanups unlock what is not theirs (`TcpExclusive`) |

Where a property has an excuse, the excuse is a state or a behaviour of the code, and the
model reaches it.  Each needs a rare order of events or a silent peer; no comment says
that it cannot happen, so they are hazards and not findings.

* `SlotsComeBack`: a VM goes silent in the middle of a report, and `recv()` waits for it
  for ever under `TcpMutex` (`InRecv`); or from some time on there is always a connection
  to accept, for one whose `accept()` fails stays first in the queue, and every round ends
  with it.
* `LinkWatched`: `TcpSessionTask` has loaded `allsetHOST`, `TcpReconnect` opens and watches
  a new socket, and the store forgets it.  The link is then up and unheard until the
  silence check cuts it, so `KeepsHearing` needs no excuse for it.
* `KeepsHearing`: `TcpRcvTask` finds a socket ready, the link changes to another socket
  with the same descriptor before it has the mutex, and it spins in `recv()` (the socket
  does not block, EAGAIN is retried) while `TcpSessionTask` waits for that mutex.  Or each
  reconnect timer that fired while the link was up has lost a socket
  (`ReconnectsLoseSockets`), and no descriptor is left.
* `Ends` (`Stuck`): VMCT's main thread prints before it cancels the next thread, and waits
  for ever if the last one died inside `xprint`.  The HOST's main thread waits for ever if
  the receiver died inside `block_FifoPut` and the getter, which was waiting for the
  queue, gets the lock between the unlock and the lock of `block_FifoEmpty`; that unlock
  is what saves every other shutdown, as the getter nearly always dies with the queue
  locked.  And VMCT's main thread takes `TcpHostMutex` before it cancels anybody, so a
  receiver that spins in `recv()` keeps it waiting for as long as the HOST is silent.  The
  first two are never left again.  A process that is stuck keeps its name, and
  `dupcheckbyname` refuses to start another.

`OnTheList` and `DiesOnlyInOutage` say when something bad can happen, and the model
reaches both: the scan reads an entry that was freed under its cursor, and the HOST
ends in a query with a NULL handler.

### Bounds

*Two slots and two VMs* are what the shared tables tell apart: the slot a search
stops at and another one, the VM it is for and another one; a VM may hold both.
`host_monitor` and `sessions` check liveness with *one VM*, which connects again while
its old session is there and holds both slots; their safety properties are proved for
any number.  *Three timers* lie before, under and behind the cursor.  `MaxRefused`
stops the history `refused` at the three that `DiesOnlyInOutage` asks about.
*Two descriptors* let one be closed and given out again while the other is in use.
*Four ids, four blocks* give a first, a last and inner positions, so both pointers
of the ring wrap in every relative position.  *Three VMs, two slots and two entries* are
the least with which entries left behind crowd out a VM that has a session, and which
tell apart the entry a search means and the one that is emptied.  The run's `View`
leaves out what is never looked at again.  With two entries the next entry of `EmptyHung` lies outside the table;
that it does no more harm than the place itself is proved, for any table.  *Two HOSTs and
two addresses* write one row from two processes and twice from one.  *Limits of 1 to 3*: the counters
are compared with the limit only.  `MaxReports` bounds the unhandled reports of one
connection, `MaxOld` those of closed ones: without them the queue grows for ever.
`MaxFaults` bounds what breaks in VMCT's network; liveness is about what
comes after the last fault.  The proofs need none of these bounds to be small.

CHECK_DEADLOCK is off where the system can stop: after a fault of `HostFifo` and of
`HostMonitor`, when all ids are leaked in `TimerIds`, in the spin described above in
`VmctLink`, and at the end of `Shutdown`.

### Fairness, and why the code justifies it

*HostMonitor*: weak fairness of both loops, which sleep 100 ms and look at the
clock again, and are never cancelled while the process runs; none of the server:
`FaultIsShown` and `Released` are about behaviours in which it serves from some time on,
`HangIsShown` needs only that the process lives.  *TimerTask*: weak fairness of
`timer_task`; `Expires` is about behaviours in which scans come to their end, which they
do unless timers are started as fast as the list is walked.  *HostFifo*: weak fairness
of the getter, none of the VMs.  *HostSessions*: weak fairness of both threads,
and none of the VMs, which connect, go silent and break as they like.  *VmctLink*: weak
fairness of the three threads, of running timers, and of the HOST's answers on a
socket that is up.  With `Patient` a period is longer than an exchange of messages:
it is 5 to 60 seconds.  Mutexes are granted to a thread that waits for ever while they
are free for ever.  *Shutdown* needs more: strong fairness of the main thread, which
gets `print_mutex` and `TcpHostMutex` between the short sections of the others, and of
the end of a section under `TcpHostMutex` in which a thread may print any number of
times, except while the receiver spins in `recv()` (`hung`): nothing makes the HOST send
what ends that.  `Sleep` takes 10 ms to be enough for a cancellation to strike a thread
that waits for no mutex.

## 5. What is proved

For every value of the constants that meets the named assumptions
(`ControlAssumption`, `MonitorAssumption`, `MaxAssumption`, `TaskAssumption`, `FifoAssumption`,
`SessionAssumption`, `LinkAssumption`, `SizeAssumption`, `TableAssumption`, `SlotAssumption`,
`OrcheAssumption`, `ShutdownAssumption`).  They say that the special values are not
ordinary ones, that ids are not addresses and that sizes are numbers; `SlotAssumption`
that there are no more slots than entries, which are both `MAX_SYSTEM_NUM` in the code.

Two limits are hypotheses of the theorems they are needed for, as the code goes beyond them.
`MaxPlace <= SafePlace` (12): no VM behind place 12 of the VM list, which has up to 128,
falls silent.  From place 13 on `EmptyHung` writes other variables into the table, and
`OneEntryPerVM`, `EntryIsLastReport` and `OrphansAreLate` do not hold; the types do
(`TypeCorrect` needs no hypothesis).  And the arithmetic of the timers is right for
periods and scans within the 2147483 ms of an `int`; `PeriodIsExact` says that no longer
period is.

| Module | Theorems | Along which invariant |
|---|---|---|
| `HostMonitor_proofs`, on `BypassControl` | `TypeCorrect`, `CountsCorrect`, `RelayAgrees`, `HangsAreSilent`, `RefinesSwitch`, `RefinesTable` | `CountInv`.  `CountsSilence` alone is not inductive: between load and store one must know what the loaded value still says of the counter (`PendingStore`) |
| `HostMonitor_proofs`, on the composition | `ImplementsControl`, `MonitorRelayAgrees`, `FewChecksAreLost`, `OnlyOutageKills` | every step of the composition is one of `BypassControl` or a stutter, so its theorems carry over (`MonitorRelayAgrees` is `RelayAgrees`).  `LosesFewChecks` and `DiesOnlyInOutage` rest on `ClientInv`: `LosesFewChecks` needs that a check which failed left an open handler or a server that is down, and one that read an empty table a dead handler; `DiesOnlyInOutage` that each place of `ExecQuery1` without a handler was reached by so many refusals |
| `TimerTask_proofs` | `PeriodIsExact`, `ExpiryIsRight`, `CursorStaysOnList`, `ScanMissesNone` | `ScanInv`: the entries reachable from `head` are the running timers, each once, and end at `tail`; what is still to be looked at lies at or behind the cursor |
| `TimerIds_proofs` | `TypeCorrect`, `NoSharedId`, `RemovalNeverLeaks`, `RefusalIsHonest`, `RefinesQueue` | `IdInv`: the free positions are the stretch from `assign_ptr` to `cancel_ptr`, every id is in one place, and `tremainder` counts that stretch |
| `HostFifo_proofs` | `TypeCorrect`, `ListCorrect`, `RefinesQueue`, `OnlyWakeupsFault` | `FifoInv`: no block is twice in the list, and the one in hand is not in it.  With it: a getter that was signalled finds a block, as it alone takes blocks out |
| `HostSessions_proofs` | `TypeCorrect`, `NothingLeaks`, `OwnersAreRegistered`, `ReportersAreAnswered`, `OldConnectionsNeverBlock`, `RefinesTable` | `SessionInv`.  `WaitsOnlyForNew` speaks of the pass only; `ReadyStaysReady` carries it from the select on |
| `VmctLink_proofs` | `TypeCorrect`, `UpIsWatched`, `SilenceIsCut`, `ReconnectsLoseSockets` | `LinkInv`: between the load and the store of an `FD_SET` the link's socket is in the word to be stored or in the `allsetHOST` it overwrites (`WordsKnow`); in the second case the store makes it `undone`.  `SilenceInv`: `retryCnt` is never behind the silence of the link it is about, as a receipt resets it only for that link |
| `HostReports_proofs`, on the table | `TypeCorrect`, `EntriesAreUnique`, `EntriesAreCurrent`, `OrphansExplained`, `CrowdingExplained`, `RefinesTable` | `TableInv`: the table and the getter's copy are both unique and current, since the copy is stored over the table; and a search that has passed an entry has not missed its VM (`SearchedFor`), since only the getter adds entries, and `late` has every VM it may add meanwhile.  `OnlyOrphansCrowdOut` follows by counting: the entries of VMs with a session are fewer than the slots |
| `HostReports_proofs`, on the rows | `PassesReadTheTable`, `RowTypes`, `ReportsAreShown`, `OwnReportsStay`, `EarlyMachinesAreReported` | `RowsInv`.  `BroughtInv` says `ReportShown` of the VMs a pass has behind it, at any time: a row shows the report, the query failed, or a pass replaced it; an update of another pass may take the row away, but then brings its own report or is on record.  `CheckedInv` says that a HOST about to update saw a row show nothing, and that this row is there as long as one of its own is, since an update takes all rows of the VM or none.  `MetalInv` says which entries `v_flag` stands for |
| `Shutdown_proofs` | `SectionsStayApart`, `StuckForGood`, `StuckNeverEnds` | `ShutdownInv`.  `TcpExclusive` needs the order of the cancellations (`OrderInv`): no cleanup of the HOST unlocks `TcpMutex` before the receiver's own does, and then the getter is the only thread left that takes it (`StrayUnlock`).  `StuckInv` says where the main thread of VMCT is when a thread died inside `xprint`: short of its next line; `HungInv` that a receiver in `recv()` holds `TcpHostMutex`.  Of the three cases of `Stuck` only the HOST can end the last (`StuckForGood`) |

Each proof has a step per action, and lemmas for what the operators do: the ring's
assign and cancel, the unlinking of a block, the closing of a session, the timers.
Refinements are proved by mapping the initial states and every step.  Those of
`SessionTable` (`RefinesTable`, three times) are proved only: no run repeats them.

Three theorems bound what the violations show.  The fault of `fifo_wakeup` has no other
cause than a wakeup without a signal (`OnlyWakeupsFault`); a machine whose entry comes
before those of listed VMs is reported (`EarlyMachinesAreReported`), so `v_flag` is all
there is to `orche_metal`; and the count that `vmct_retry` finds too hasty is never too
slow (`SilenceIsCut`).  Of the descriptors that an excuse of `KeepsHearing` sees used
up, `ReconnectsLoseSockets` says where they went.

Only model-checked: all liveness, `Ends` among it, as fairness and ENABLED are out of
the prover's reach (`StuckForGood` and `StuckNeverEnds` are the safety half of what its
excuses mean); and the three violations, which are counterexamples.

## 6. What is not modelled

* The other handlers of DBMB (no thread calls them) and of PQMB, whose connection is
  opened once: in `OrcheRows` any query may fail at any time.
* Message framing: `HostSessions` and `VmctLink` know a report that arrived in part, not
  its bytes.  The two processes are not composed (step 10).
* A second signal during the shutdown, the closing of sockets in it, and the threads of
  the library (`timer_task`, `logTask`), which it does not wait for.
* The change of the log file every hour, which takes `print_mutex` to close the old
  file and again to open the new one.
* Client mode of the HOST and server mode of VMCT: the configuration sets neither.
* The start-up of the listening socket, configuration files, logging, address
  formatting and debug output: input, output and wording.
* The watchdog of the bypass card: its calls are compiled out (`-U__BPCTL__`).
* The clock: a period, a timeout or a timer ends some time.  A skipped minute or
  period is a hazard without a property.
