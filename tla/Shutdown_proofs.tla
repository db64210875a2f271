-------------------------- MODULE Shutdown_proofs ---------------------------
(***************************************************************************)
(* The sections under TcpMutex stay apart while the threads are cancelled, *)
(* and a shutdown that is stuck stays so unless somebody outside helps it, *)
(* for any number of threads.                                              *)
(***************************************************************************)
EXTENDS Shutdown, TLAPS

Place == {"run", "wait", "clean", "printing", "lock", "closing", "unlock", "gone"}

MainPlace == {"live", "print", "printing", "close", "closing", "next", "say", "saying",
              "cancel", "sleep"} \union Destroyed

Types ==
  /\ process \in {"HOST", "VMCT"}
  /\ locked \subseteq Mutex /\ held \in [Task -> SUBSET Mutex]
  /\ st \in [Task -> Place]
  /\ main \in MainPlace /\ i \in Nat /\ hung \in BOOLEAN

\* The main thread has told thread t to stop, and has cancelled it.
Told(t) == t < i \/ (t = i /\ main \in {"say", "saying", "cancel", "sleep"})
Struck(t) == t < i \/ (t = i /\ main = "sleep")

\* How far a thread can be, by how far the main thread is.
OrderOf(t) ==
  /\ t \in alive <=> t \in Threads /\ ~Told(t)
  /\ t \in doomed <=> t \in Threads /\ Struck(t)
  /\ t \notin Threads => st[t] = "gone"
  /\ t < i => st[t] # "run"
  /\ st[t] \notin {"run", "wait", "gone"} => t \in doomed
  /\ st[t] = "gone" => t \notin alive
  /\ st[t] = "wait" => t = Getter /\ process = "HOST"
  /\ st[t] \in {"lock", "closing"} => t = Receiver /\ process = "HOST"

MainOrder ==
  /\ main \in {"live", "print", "printing", "close", "closing"} => i = 0
  /\ main \in {"say", "saying", "cancel", "sleep"} => i \in Threads
  /\ main \in {"closing", "say", "saying"} => process = "VMCT"
  /\ main \in {"unlock queue", "lock queue", "empty"} => process = "HOST"
  /\ main \in Destroyed => i \notin Threads

OrderInv == MainOrder /\ \A t \in Task : OrderOf(t)

\* print_mutex is held by one thread, also by one that was cancelled with it.
PrintInv ==
  /\ main \in {"printing", "saying"} => "print" \in locked
  /\ \A t \in Task : "print" \in held[t] =>
       /\ "print" \in locked
       /\ main \notin {"printing", "saying"}
       /\ \A u \in Task \ {t} : "print" \notin held[u]
  /\ \A t \in Task : st[t] = "printing" => "print" \in held[t]

\* A running thread is in a section under TcpMutex.
Inside(t) == st[t] = "run" /\ "tcp" \in held[t]

\* The getter runs, or will when its wait ends.
GetterRuns == st[Getter] = "run" \/ (st[Getter] = "wait" /\ Getter \notin doomed)

\* The unlock at the end of ThreadCleanUp may have hit a running thread: the
\* receiver's that of the getter, PTASK1's of VMCT that of PTASK2.
StrayUnlock ==
  \/ process = "HOST" /\ st[Receiver] \in {"unlock", "gone"}
  \/ process = "VMCT" /\ st[Getter] = "gone"

TcpInv ==
  /\ \A t \in Task : Inside(t) /\ process = "HOST" => t \in {Receiver, Getter}
  /\ \A t \in Task : Inside(t) => "tcp" \in locked \/ StrayUnlock
  /\ st[Receiver] = "closing" /\ GetterRuns => "tcp" \in locked
  /\ main = "closing" => "tcp" \in locked
  /\ st[Getter] = "wait" => "tcp" \notin held[Getter]
  /\ TcpExclusive

\* The lock of TcpFifo is held by one of its two users, until the main thread
\* unlocks it; then the one that waited for it may take it as well.
FifoInv ==
  /\ \A t \in Task : "fifo" \in held[t] =>
       /\ process = "HOST" /\ t \in {Receiver, Getter}
       /\ "fifo" \in locked \/ main \in {"lock queue", "empty", "exited"}
  /\ main = "empty" => "fifo" \in locked
  /\ "fifo" \in held[Receiver] /\ "fifo" \in held[Getter] =>
       main = "lock queue" /\ "fifo" \in locked

\* The receiver waits in recv() under TcpMutex, and prints nothing meanwhile.
HungInv == hung => st[Receiver] = "run" /\ held[Receiver] = {"tcp"}

ShutdownInv == Types /\ OrderInv /\ PrintInv /\ TcpInv /\ FifoInv /\ HungInv

\* Where the main thread of VMCT is when one of its threads was cancelled inside
\* xprint, and where it cannot leave.
StuckInv ==
  \A t \in 0 .. 1 : process = "VMCT" /\ st[t] = "clean" /\ "print" \in held[t] =>
    (i = t /\ main = "sleep") \/ (i = t + 1 /\ main \in {"next", "say"})

-----------------------------------------------------------------------------
(***************************************************************************)
(* The threads and the order they are cancelled in                         *)
(***************************************************************************)
LEMMA TaskFacts ==
  /\ Task \subseteq Nat /\ 0 \in Task /\ 1 \in Task /\ 2 \in Task
  /\ Receiver \in Task /\ Getter \in Task /\ Receiver # Getter
  /\ Threads \subseteq Task /\ 0 \in Threads /\ 1 \in Threads
  /\ \A k \in Nat \ Threads, t \in Threads : t < k
BY ShutdownAssumption DEF Task, Threads, Receiver, Getter

LEMMA InitInv == Init => ShutdownInv
<1> SUFFICES ASSUME Init PROVE ShutdownInv
  OBVIOUS
<1> USE TaskFacts DEF Init
<1>1. Types
  BY DEF Types, Place, MainPlace, Mutex
<1>2. OrderInv
  BY DEF OrderInv, MainOrder, OrderOf, Told, Struck, Destroyed, Threads
<1>3. PrintInv /\ TcpInv /\ FifoInv
  BY DEF PrintInv, TcpInv, TcpExclusive, FifoInv, Inside, Getter, Receiver
<1> QED
  BY <1>1, <1>2, <1>3 DEF ShutdownInv, HungInv

\* The set of threads depends on the process alone.
LEMMA ProcessStays == [Next]_vars => UNCHANGED <<process, Threads>>
BY DEF Next, vars, Threads, MainThread, Main, Ending, Signal, Say, Said, HostClose,
       VmctLock, VmctClosed, Stop, Cancel, Sleep, Destroy, UnlockQueue, LockQueue, Exit,
       Wait, WaitEnds, Leave, Die, DieWaiting, CleanPrint, CleanPrinted, CleanLock,
       CleanClosed, CleanUnlock, Take, Give, Hang, Heard

\* Every step of a thread locks or unlocks one mutex, or none.
LEMMA LockTypes ==
  ASSUME Types, NEW t \in Task, NEW m \in Mutex, Lock(t, m) \/ Unlock(t, m)
  PROVE  locked' \subseteq Mutex /\ held' \in [Task -> SUBSET Mutex]
BY DEF Types, Lock, Unlock

LEMMA TypesStep == Types /\ OrderInv /\ [Next]_vars => Types'
<1> SUFFICES ASSUME Types, OrderInv, [Next]_vars PROVE Types'
  OBVIOUS
<1> USE TaskFacts DEF Types, Place, MainPlace, Destroyed
<1>1. CASE Signal \/ MainThread
  <2>1. CASE Signal \/ HostClose \/ Cancel \/ Exit
    BY <2>1 DEF Signal, HostClose, Cancel, Exit, Main, mutexes, tasks
  <2>5. CASE Sleep
    BY <2>5 DEF Sleep, mutexes, tasks
  <2>4. CASE Stop \/ Destroy
    BY <2>4 DEF Stop, Destroy, Main, mutexes, tasks
  <2>2. CASE \/ Say("print", "printing") \/ Said("printing", "close")
             \/ Say("say", "saying") \/ Said("saying", "cancel")
    BY <2>2 DEF Say, Said, Main, Mutex, tasks
  <2>3. CASE VmctLock \/ VmctClosed \/ UnlockQueue \/ LockQueue
    BY <2>3 DEF VmctLock, VmctClosed, UnlockQueue, LockQueue, Main, Mutex, tasks
  <2> QED
    BY <1>1, <2>1, <2>2, <2>3, <2>4, <2>5 DEF MainThread
<1>2. CASE Wait \/ WaitEnds \/ DieWaiting
  BY <1>2, LockTypes DEF Wait, WaitEnds, DieWaiting, Mutex
<1>3. ASSUME NEW t \in Task, Leave(t) \/ Die(t) PROVE Types'
  BY <1>3 DEF Leave, Die, mutexes
<1>4. ASSUME NEW t \in Task, CleanPrint(t) \/ CleanPrinted(t) PROVE Types'
  BY <1>4, LockTypes DEF CleanPrint, CleanPrinted, Mutex
<1>5. CASE CleanLock \/ CleanClosed
  BY <1>5, LockTypes DEF CleanLock, CleanClosed, Mutex
<1>6. ASSUME NEW t \in Task, CleanUnlock(t) PROVE Types'
  BY <1>6, LockTypes DEF CleanUnlock, Mutex, mutexes
<1>7. ASSUME NEW t \in Task, NEW m \in Mutex, Take(t, m) \/ Give(t, m) PROVE Types'
  BY <1>7, LockTypes DEF Take, Give, Goes, tasks
<1>8. CASE UNCHANGED vars \/ Hang \/ Heard
  BY <1>8 DEF vars, mutexes, tasks, Hang, Heard
<1> QED
  BY <1>1, <1>2, <1>3, <1>4, <1>5, <1>6, <1>7, <1>8 DEF Next, Ending

LEMMA NextTask == \A t \in Task, k \in Nat : t < k + 1 <=> t < k \/ t = k
BY TaskFacts

\* A thread is told to stop and struck once; a running one was not struck long
\* ago, since the main thread sleeps until it stops running.
LEMMA OrderStep == Types /\ OrderInv /\ [Next]_vars => OrderInv'
<1> SUFFICES ASSUME Types, OrderInv, [Next]_vars PROVE OrderInv'
  OBVIOUS
<1> USE TaskFacts, ProcessStays DEF OrderInv, MainOrder, OrderOf, Told, Struck
<1>1. CASE Signal \/ HostClose \/ VmctLock \/ VmctClosed
  BY <1>1 DEF Signal, Main, HostClose, VmctLock, VmctClosed, mutexes, tasks, Destroyed
<1>2. CASE \/ Say("print", "printing") \/ Said("printing", "close")
           \/ Say("say", "saying") \/ Said("saying", "cancel")
  BY <1>2 DEF Main, Say, Said, tasks, Destroyed
<1>3. CASE Stop
  BY <1>3 DEF Stop, Main, mutexes, Destroyed, Types
<1>4. CASE Cancel
  BY <1>4 DEF Cancel, Main, mutexes, Destroyed, Types
<1>5. CASE Sleep
  <2>1. \A t \in Task : t < i + 1 <=> t < i \/ t = i
    BY NextTask DEF Types
  <2>2. MainOrder'
    BY <1>5 DEF Sleep, mutexes, tasks, Destroyed
  <2>3. ASSUME NEW t \in Task PROVE OrderOf(t)'
    BY <1>5, <2>1 DEF Sleep, mutexes, tasks, Destroyed
  <2> QED
    BY <2>2, <2>3
<1>6. CASE Destroy \/ UnlockQueue \/ LockQueue \/ Exit
  BY <1>6 DEF Destroy, UnlockQueue, LockQueue, Exit, Main, mutexes, tasks, Destroyed, Types
<1>7. CASE Wait \/ WaitEnds \/ DieWaiting
  <2>1. CASE Wait
    BY <2>1 DEF Wait, Types
  <2>2. CASE WaitEnds
    BY <2>2 DEF WaitEnds, Types
  <2>3. CASE DieWaiting
    BY <2>3 DEF DieWaiting, Types
  <2> QED
    BY <1>7, <2>1, <2>2, <2>3
<1>8. ASSUME NEW t \in Task, Leave(t) \/ Die(t) PROVE OrderInv'
  <2>1. CASE Leave(t)
    BY <2>1 DEF Leave, Types
  <2>2. CASE Die(t)
    BY <2>2 DEF Die, Types
  <2> QED
    BY <1>8, <2>1, <2>2
<1>9. ASSUME NEW t \in Task, CleanPrint(t) \/ CleanPrinted(t) \/ CleanUnlock(t)
      PROVE  OrderInv'
  <2>1. CASE CleanPrint(t)
    BY <2>1 DEF CleanPrint, Types
  <2>2. CASE CleanPrinted(t)
    BY <2>2 DEF CleanPrinted, Types
  <2>3. CASE CleanUnlock(t)
    BY <2>3 DEF CleanUnlock, Types
  <2> QED
    BY <1>9, <2>1, <2>2, <2>3
<1>10. CASE CleanLock \/ CleanClosed
  BY <1>10 DEF CleanLock, CleanClosed, Types
<1>11. ASSUME NEW t \in Task, NEW m \in Mutex, Take(t, m) \/ Give(t, m) PROVE OrderInv'
  BY <1>11 DEF Take, Give, Goes, tasks
<1>12. CASE UNCHANGED vars \/ Hang \/ Heard
  BY <1>12 DEF vars, mutexes, tasks, Hang, Heard
<1> QED
  BY <1>1, <1>2, <1>3, <1>4, <1>5, <1>6, <1>7, <1>8, <1>9, <1>10, <1>11, <1>12
     DEF Next, MainThread, Ending

\* Once TcpMutex is destroyed every thread was cancelled, and none runs.
LEMMA DestroyedFacts ==
  ASSUME Types, OrderInv, main \in Destroyed
  PROVE  (\A t \in Task : st[t] # "run") /\ ~GetterRuns
<1>1. ASSUME NEW t \in Threads PROVE t < i
  BY <1>1, TaskFacts DEF Types, OrderInv, MainOrder
<1>2. ASSUME NEW t \in Task PROVE st[t] # "run"
  BY <1>1 DEF OrderInv, OrderOf
<1>3. st[Getter] = "wait" => Getter \in doomed
  BY <1>1, TaskFacts DEF OrderInv, OrderOf, Struck, Getter
<1> QED
  BY <1>2, <1>3, TaskFacts DEF GetterRuns

LEMMA NotYetStarted ==
  ASSUME OrderInv, Types, 0 < i
  PROVE  main # "close" /\ main # "closing"
<1>1. main \in {"live", "print", "printing", "close", "closing"} => i = 0
  BY DEF OrderInv, MainOrder
<1>2. i # 0
  BY DEF Types
<1> QED
  BY <1>1, <1>2

\* When a thread was cancelled none before it runs, and the getter, if it still
\* waits, will not run again.
LEMMA StruckFacts ==
  ASSUME Types, OrderInv, NEW t \in Task, t \in doomed, t # Receiver
  PROVE  /\ st[Receiver] # "run"
         /\ main # "closing"
         /\ t # Getter => ~GetterRuns
<1>1. t \in Nat /\ i \in Nat /\ t <= i /\ 0 < t
  BY TaskFacts DEF OrderInv, OrderOf, Struck, Types, Receiver
<1>2. st[Receiver] # "run" /\ main # "closing"
  <2>1. 0 < i
    BY <1>1
  <2>2. st[Receiver] # "run"
    BY <2>1, TaskFacts DEF OrderInv, OrderOf, Receiver
  <2> QED
    BY <2>1, <2>2, NotYetStarted
<1>3. ASSUME t # Getter PROVE ~GetterRuns
  <2>1. Getter < i
    BY <1>1, <1>3 DEF Getter
  <2> QED
    BY <2>1, TaskFacts DEF OrderInv, OrderOf, Struck, GetterRuns, Getter
<1> QED
  BY <1>2, <1>3

\* In VMCT the third thread is the only one that runs without PTASK1.
LEMMA LastRuns ==
  ASSUME Types, OrderInv, process = "VMCT", st[Getter] = "gone"
  PROVE  (\A t \in Task : st[t] = "run" => t = 2) /\ main # "closing" /\ main # "close"
<1>1. Told(Getter)
  BY TaskFacts DEF OrderInv, OrderOf, Getter
<1>2. 0 < i
  BY <1>1 DEF Told, Getter, Types
<1>3. ASSUME NEW t \in Task, st[t] = "run" PROVE t = 2
  <2>1. t \in 0 .. 2 /\ t # 1
    BY <1>3 DEF OrderInv, OrderOf, Threads, Getter
  <2>2. t # 0
    BY <1>2, <1>3 DEF OrderInv, OrderOf
  <2> QED
    BY <2>1, <2>2
<1> QED
  BY <1>2, <1>3, NotYetStarted

-----------------------------------------------------------------------------
(***************************************************************************)
(* print_mutex and the lock of TcpFifo                                     *)
(***************************************************************************)
LEMMA PrintStep == Types /\ PrintInv /\ [Next]_vars => PrintInv'
<1> SUFFICES ASSUME Types, PrintInv, [Next]_vars PROVE PrintInv'
  OBVIOUS
<1> USE TaskFacts DEF Types, PrintInv
<1>1. CASE \/ Say("print", "printing") \/ Said("printing", "close")
           \/ Say("say", "saying") \/ Said("saying", "cancel")
  BY <1>1 DEF Say, Said, Main, tasks
<1>2. CASE VmctLock \/ VmctClosed \/ UnlockQueue \/ LockQueue
  BY <1>2 DEF VmctLock, VmctClosed, UnlockQueue, LockQueue, Main, tasks
<1>3. CASE Signal \/ HostClose \/ Stop \/ Cancel
  BY <1>3 DEF Signal, HostClose, Stop, Cancel, Main, mutexes, tasks
<1>4. CASE Sleep \/ Destroy \/ Exit
  BY <1>4 DEF Sleep, Destroy, Exit, Main, mutexes, tasks
<1>5. CASE Wait \/ WaitEnds \/ DieWaiting
  BY <1>5 DEF Wait, WaitEnds, DieWaiting, Lock, Unlock
<1>6. CASE CleanLock \/ CleanClosed
  BY <1>6 DEF CleanLock, CleanClosed, Lock, Unlock
<1>7. ASSUME NEW t \in Task, Leave(t) \/ Die(t) \/ CleanUnlock(t) PROVE PrintInv'
  BY <1>7 DEF Leave, Die, CleanUnlock, Unlock, mutexes
<1>8. ASSUME NEW t \in Task, CleanPrint(t) PROVE PrintInv'
  BY <1>8 DEF CleanPrint, Lock
<1>9. ASSUME NEW t \in Task, CleanPrinted(t) PROVE PrintInv'
  BY <1>9 DEF CleanPrinted, Unlock
<1>10. ASSUME NEW t \in Task, NEW m \in Mutex, Take(t, m) PROVE PrintInv'
  BY <1>10 DEF Take, Goes, Lock, tasks
<1>11. ASSUME NEW t \in Task, NEW m \in Mutex, Give(t, m) PROVE PrintInv'
  BY <1>11 DEF Give, Goes, MayGive, Unlock, tasks
<1>12. CASE UNCHANGED vars \/ Hang \/ Heard
  BY <1>12 DEF vars, mutexes, tasks, Hang, Heard
<1> QED
  BY <1>1, <1>2, <1>3, <1>4, <1>5, <1>6, <1>7, <1>8, <1>9, <1>10, <1>11, <1>12
     DEF Next, MainThread, Ending

\* Both users of the queue are threads.
LEMMA Users == Receiver \in Task /\ Getter \in Task /\ Receiver # Getter
BY TaskFacts

\* What is done with one mutex concerns no other.
LEMMA OtherMutex ==
  ASSUME Types, NEW t \in Task, NEW m \in Mutex, Lock(t, m) \/ Unlock(t, m),
         NEW n \in Mutex \ {m}
  PROVE  /\ n \in locked' <=> n \in locked
         /\ \A u \in Task : n \in held'[u] <=> n \in held[u]
BY DEF Types, Lock, Unlock

\* A step after which FifoInv is the same.
LEMMA FifoUntouched ==
  ASSUME FifoInv, UNCHANGED <<process, main>>, "fifo" \in locked' <=> "fifo" \in locked,
         \A u \in Task : "fifo" \in held'[u] <=> "fifo" \in held[u]
  PROVE  FifoInv'
BY Users DEF FifoInv

LEMMA FifoStep == Types /\ OrderInv /\ FifoInv /\ [Next]_vars => FifoInv'
<1> SUFFICES ASSUME Types, OrderInv, FifoInv, [Next]_vars PROVE FifoInv'
  OBVIOUS
<1> USE Users DEF Types, FifoInv
<1>1. CASE \/ Say("print", "printing") \/ Said("printing", "close")
           \/ Say("say", "saying") \/ Said("saying", "cancel")
  BY <1>1 DEF Say, Said, Main
<1>2. CASE VmctLock \/ VmctClosed
  BY <1>2 DEF VmctLock, VmctClosed, Main
<1>3. CASE Signal \/ HostClose \/ Stop \/ Cancel
  BY <1>3 DEF Signal, HostClose, Stop, Cancel, Main, mutexes
<1>4. CASE Sleep \/ Destroy
  BY <1>4 DEF Sleep, Destroy, Main, mutexes
<1>5. CASE UnlockQueue
  BY <1>5 DEF UnlockQueue, Main
<1>6. CASE LockQueue
  BY <1>6 DEF LockQueue, Main
<1>7. CASE Exit
  BY <1>7 DEF Exit, Main, mutexes
<1>8. CASE Wait
  BY <1>8, DestroyedFacts DEF Wait, Unlock, Destroyed
<1>9. CASE WaitEnds
  BY <1>9, DestroyedFacts DEF WaitEnds, Lock, Destroyed, GetterRuns, OrderInv, OrderOf
<1>10. CASE DieWaiting /\ main # "exited"
  BY <1>10 DEF DieWaiting, Lock, OrderInv, OrderOf
<1>11. CASE CleanLock \/ CleanClosed
  BY <1>11, OtherMutex, FifoUntouched DEF CleanLock, CleanClosed, Mutex
<1>12. ASSUME NEW t \in Task, Leave(t) \/ Die(t) \/ CleanUnlock(t) PROVE FifoInv'
  BY <1>12, OtherMutex, FifoUntouched DEF Leave, Die, CleanUnlock, Mutex, mutexes
<1>13. ASSUME NEW t \in Task, CleanPrint(t) \/ CleanPrinted(t) PROVE FifoInv'
  BY <1>13, OtherMutex, FifoUntouched DEF CleanPrint, CleanPrinted, Mutex
<1>14. ASSUME NEW t \in Task, NEW m \in Mutex, Take(t, m) PROVE FifoInv'
  BY <1>14, DestroyedFacts DEF Take, Goes, MayTake, Lock, Destroyed
<1>15. ASSUME NEW t \in Task, NEW m \in Mutex, Give(t, m) PROVE FifoInv'
  BY <1>15, DestroyedFacts DEF Give, Goes, MayGive, Unlock, Destroyed
<1>16. CASE UNCHANGED vars \/ Hang \/ Heard
  BY <1>16 DEF vars, mutexes, Hang, Heard
<1> QED
  BY <1>1, <1>2, <1>3, <1>4, <1>5, <1>6, <1>7, <1>8, <1>9, <1>10, <1>11, <1>12, <1>13,
     <1>14, <1>15, <1>16 DEF Next, MainThread, Ending

-----------------------------------------------------------------------------
(***************************************************************************)
(* TcpMutex                                                                *)
(***************************************************************************)
LEMMA TcpStep == Types /\ OrderInv /\ TcpInv /\ [Next]_vars => TcpInv'
<1> SUFFICES ASSUME Types, OrderInv, TcpInv, [Next]_vars PROVE TcpInv'
  OBVIOUS
<1> USE Users DEF Types, TcpInv, TcpExclusive, Inside, StrayUnlock, GetterRuns
<1>1. CASE \/ Say("print", "printing") \/ Said("printing", "close")
           \/ Say("say", "saying") \/ Said("saying", "cancel")
  BY <1>1 DEF Say, Said, Main, tasks
<1>2. CASE VmctLock
  BY <1>2, LastRuns DEF VmctLock, Main, tasks
<1>3. CASE VmctClosed \/ UnlockQueue \/ LockQueue
  <2>1. main = "closing" => st[Receiver] # "closing"
    BY DEF OrderInv, OrderOf, MainOrder
  <2> QED
    BY <1>3, <2>1 DEF VmctClosed, UnlockQueue, LockQueue, Main, tasks
<1>4. CASE Signal \/ HostClose \/ Stop \/ Cancel
  BY <1>4 DEF Signal, HostClose, Stop, Cancel, Main, mutexes, tasks
<1>5. CASE Sleep \/ Destroy \/ Exit
  BY <1>5 DEF Sleep, Destroy, Exit, Main, mutexes, tasks
<1>6. CASE Wait
  BY <1>6 DEF Wait, Unlock
<1>7. CASE WaitEnds
  BY <1>7 DEF WaitEnds, Lock
<1>8. CASE DieWaiting
  BY <1>8 DEF DieWaiting, Lock
<1>9. CASE CleanLock
  BY <1>9, DestroyedFacts DEF CleanLock, Lock, OrderInv, OrderOf
<1>10. CASE CleanClosed
  <2>1. process = "HOST" /\ main # "closing" /\ st[Receiver] = "closing"
    BY <1>10 DEF CleanClosed, OrderInv, OrderOf, MainOrder
  <2> QED
    BY <1>10, <2>1 DEF CleanClosed, Unlock
<1>11. ASSUME NEW t \in Task, Leave(t) \/ Die(t) PROVE TcpInv'
  BY <1>11 DEF Leave, Die, mutexes
<1>12. ASSUME NEW t \in Task, CleanPrint(t) \/ CleanPrinted(t) PROVE TcpInv'
  BY <1>12 DEF CleanPrint, CleanPrinted, Lock, Unlock
<1>13. ASSUME NEW t \in Task, CleanUnlock(t) PROVE TcpInv'
  <2>1. t \in doomed
    BY <1>13 DEF CleanUnlock, OrderInv, OrderOf
  <2>2. CASE process = "HOST" /\ t = Receiver
    <3>1. main # "closing"
      BY <2>2 DEF OrderInv, MainOrder
    <3> QED
      BY <1>13, <2>2, <3>1 DEF CleanUnlock, Unlock
  <2>3. CASE process = "HOST" /\ t # Receiver
    <3>1. /\ st[Receiver] # "run" /\ main # "closing"
          /\ ~GetterRuns \/ t = Getter
      BY <2>1, <2>3, StruckFacts
    <3>2. st[t] = "unlock"
      BY <1>13 DEF CleanUnlock
    <3>3. \A u \in Task : ~Inside(u)
      BY <2>3, <3>1, <3>2
    <3> QED
      BY <1>13, <2>3, <3>1, <3>2, <3>3 DEF CleanUnlock, Unlock
  <2>4. CASE process = "VMCT" /\ t = Getter
    <3>1. main # "closing" /\ st[Receiver] # "closing"
      BY <2>1, <2>4, StruckFacts DEF OrderInv, OrderOf
    <3> QED
      BY <1>13, <2>4, <3>1 DEF CleanUnlock, Unlock
  <2>5. CASE process = "VMCT" /\ t # Getter
    BY <1>13, <2>5 DEF CleanUnlock, mutexes
  <2> QED
    BY <2>2, <2>3, <2>4, <2>5
<1>14. ASSUME NEW t \in Task, NEW m \in Mutex, Take(t, m) PROVE TcpInv'
  <2>1. CASE m # "tcp"
    BY <1>14, <2>1 DEF Take, Goes, Lock, tasks
  <2>2. CASE m = "tcp"
    <3>1. "tcp" \notin locked
      BY <1>14, <2>2, DestroyedFacts DEF Take, Goes, Lock
    <3>2. ASSUME NEW u \in Task, Inside(u) PROVE u = t
      <4>1. StrayUnlock
        BY <3>1, <3>2
      <4>2. CASE process = "HOST"
        BY <1>14, <2>2, <3>2, <4>1, <4>2 DEF Take, Goes, MayTake
      <4>3. CASE process = "VMCT"
        BY <1>14, <3>2, <4>1, <4>3, LastRuns DEF Take, Goes
      <4> QED
        BY <4>2, <4>3
    <3>3. st[Receiver] # "closing" /\ main # "closing"
      <4>1. CASE process = "HOST"
        BY <1>14, <2>2, <3>1, <4>1 DEF Take, Goes, MayTake
      <4>2. CASE process = "VMCT"
        BY <3>1, <4>2 DEF OrderInv, OrderOf
      <4> QED
        BY <4>1, <4>2
    <3>4. process = "HOST" => t \in {Receiver, Getter}
      BY <1>14, <2>2 DEF Take, Goes, MayTake
    <3> QED
      BY <1>14, <2>2, <3>2, <3>3, <3>4 DEF Take, Goes, Lock, tasks
  <2> QED
    BY <2>1, <2>2
<1>15. ASSUME NEW t \in Task, NEW m \in Mutex, Give(t, m) PROVE TcpInv'
  BY <1>15 DEF Give, Goes, MayGive, Unlock, tasks
<1>16. CASE UNCHANGED vars \/ Hang \/ Heard
  BY <1>16 DEF vars, mutexes, tasks, Hang, Heard
<1> QED
  BY <1>1, <1>2, <1>3, <1>4, <1>5, <1>6, <1>7, <1>8, <1>9, <1>10, <1>11, <1>12, <1>13,
     <1>14, <1>15, <1>16 DEF Next, MainThread, Ending

-----------------------------------------------------------------------------
(***************************************************************************)
(* A receiver in recv()                                                    *)
(***************************************************************************)
\* Only the cancellation touches it.
LEMMA HungStep == Types /\ OrderInv /\ HungInv /\ [Next]_vars => HungInv'
<1> SUFFICES ASSUME Types, OrderInv, HungInv, [Next]_vars, hung'
             PROVE  st'[Receiver] = "run" /\ held'[Receiver] = {"tcp"}
  BY DEF HungInv
<1> USE Users DEF HungInv
<1> DEFINE Still == st'[Receiver] = "run" /\ held'[Receiver] = {"tcp"}
<1>1. CASE Signal \/ MainThread \/ UNCHANGED vars \/ Hang \/ Heard
  BY <1>1
     DEF Signal, MainThread, Say, Said, HostClose, VmctLock, VmctClosed, Stop, Cancel,
         Sleep, Destroy, UnlockQueue, LockQueue, Exit, mutexes, tasks, vars, Hang, Heard, Goes
<1>2. CASE Wait \/ WaitEnds \/ DieWaiting
  BY <1>2 DEF Wait, WaitEnds, DieWaiting, Lock, Unlock, Types
<1>3. CASE CleanLock \/ CleanClosed
  BY <1>3 DEF CleanLock, CleanClosed
<1>4. ASSUME NEW t \in Task, Leave(t) \/ Die(t) PROVE Still
  BY <1>4 DEF Leave, Die, mutexes, Types
<1>5. ASSUME NEW t \in Task, CleanPrint(t) \/ CleanPrinted(t) \/ CleanUnlock(t) PROVE Still
  BY <1>5 DEF CleanPrint, CleanPrinted, CleanUnlock, Lock, Unlock, mutexes, Types
<1>6. ASSUME NEW t \in Task, NEW m \in Mutex, Take(t, m) \/ Give(t, m) PROVE Still
  BY <1>6 DEF Take, Give, Goes, Lock, Unlock, tasks, Types
<1> QED
  BY <1>1, <1>2, <1>3, <1>4, <1>5, <1>6 DEF Next, Ending

LEMMA StepInv == ShutdownInv /\ [Next]_vars => ShutdownInv'
BY TypesStep, OrderStep, PrintStep, FifoStep, TcpStep, HungStep DEF ShutdownInv

LEMMA Invariant == Spec => []ShutdownInv
BY InitInv, StepInv, PTL DEF Spec

-----------------------------------------------------------------------------
(***************************************************************************)
(* The theorems                                                            *)
(***************************************************************************)
\* Whatever threads the shutdown cancels under TcpMutex, and whoever unlocks it
\* for them in ThreadCleanUp, two sections never overlap.
THEOREM SectionsStayApart == Spec => []TcpExclusive
<1>1. ShutdownInv => TcpExclusive
  BY DEF ShutdownInv, TcpInv
<1> QED
  BY <1>1, Invariant, PTL

-----------------------------------------------------------------------------
(***************************************************************************)
(* A process that is stuck                                                 *)
(***************************************************************************)
\* What one thread does with a mutex leaves the others' alone.
LEMMA OtherTask ==
  ASSUME Types, NEW t \in Task, NEW u \in Task \ {t}, NEW m \in Mutex,
         Lock(u, m) \/ Unlock(u, m)
  PROVE  held'[t] = held[t]
BY DEF Types, Lock, Unlock

LEMMA StuckStep == ShutdownInv /\ StuckInv /\ [Next]_vars => StuckInv'
<1> SUFFICES ASSUME ShutdownInv, StuckInv, [Next]_vars,
                    NEW t \in 0 .. 1,
                    process' = "VMCT", st'[t] = "clean", "print" \in held'[t]
             PROVE  (i' = t /\ main' = "sleep") \/ (i' = t + 1 /\ main' \in {"next", "say"})
  BY DEF StuckInv
<1> DEFINE At == (i = t /\ main = "sleep") \/ (i = t + 1 /\ main \in {"next", "say"})
<1>1. process = "VMCT" /\ t \in Task /\ t \in Threads /\ t + 1 \in Threads /\ t # 2
  BY ProcessStays, TaskFacts DEF Threads
<1>2. ASSUME UNCHANGED <<st, held>> PROVE At /\ "print" \in locked
  BY <1>1, <1>2 DEF StuckInv, ShutdownInv, PrintInv
<1>3. CASE Sleep
  BY <1>2, <1>3 DEF Sleep, mutexes, tasks
<1>4. CASE Stop \/ Destroy
  BY <1>1, <1>2, <1>4 DEF Stop, Destroy, Main, mutexes, tasks
<1>5. CASE \/ Say("print", "printing") \/ Said("printing", "close")
           \/ Say("say", "saying") \/ Said("saying", "cancel")
  BY <1>2, <1>5 DEF Say, Said, Main, tasks
<1>6. CASE \/ Signal \/ HostClose \/ VmctLock \/ VmctClosed \/ Cancel
           \/ UnlockQueue \/ LockQueue \/ Exit
  BY <1>2, <1>6
     DEF Signal, HostClose, VmctLock, VmctClosed, Cancel, UnlockQueue, LockQueue, Exit,
         Main, mutexes, tasks
<1>7. ASSUME UNCHANGED <<main, i>>, UNCHANGED <<st[t], held[t]>> PROVE
        (i' = t /\ main' = "sleep") \/ (i' = t + 1 /\ main' \in {"next", "say"})
  BY <1>1, <1>7 DEF StuckInv
<1>8. process = "VMCT" => st[Getter] # "wait" /\ st[Receiver] \notin {"lock", "closing"}
  BY TaskFacts DEF ShutdownInv, OrderInv, OrderOf
<1>9. CASE Wait \/ WaitEnds \/ DieWaiting \/ CleanLock \/ CleanClosed
  BY <1>1, <1>8, <1>9 DEF Wait, WaitEnds, DieWaiting, CleanLock, CleanClosed
<1>10. ASSUME NEW u \in Task, Die(u)
       PROVE (i' = t /\ main' = "sleep") \/ (i' = t + 1 /\ main' \in {"next", "say"})
  <2>1. CASE u = t
    <3>1. i = t /\ main = "sleep"
      BY <1>1, <1>10, <2>1, TaskFacts DEF Die, ShutdownInv, OrderInv, OrderOf, Struck
    <3> QED
      BY <1>10, <3>1 DEF Die
  <2>2. CASE u # t
    BY <1>7, <1>10, <2>2 DEF Die, mutexes, ShutdownInv, Types
  <2> QED
    BY <2>1, <2>2
<1>11. ASSUME NEW u \in Task, Leave(u) \/ CleanPrint(u) \/ CleanPrinted(u) \/ CleanUnlock(u)
       PROVE (i' = t /\ main' = "sleep") \/ (i' = t + 1 /\ main' \in {"next", "say"})
  <2>1. u # t
    BY <1>1, <1>11 DEF Leave, CleanPrint, CleanPrinted, CleanUnlock, ShutdownInv, Types
  <2> QED
    BY <1>1, <1>7, <1>11, <2>1, OtherTask
       DEF Leave, CleanPrint, CleanPrinted, CleanUnlock, Mutex, mutexes, ShutdownInv, Types
<1>12. ASSUME NEW u \in Task, NEW m \in Mutex, Take(u, m) \/ Give(u, m)
       PROVE (i' = t /\ main' = "sleep") \/ (i' = t + 1 /\ main' \in {"next", "say"})
  <2>1. u # t
    BY <1>12 DEF Take, Give, Goes, tasks
  <2> QED
    BY <1>1, <1>7, <1>12, <2>1, OtherTask DEF Take, Give, Goes, tasks, ShutdownInv
<1>13. CASE UNCHANGED vars \/ Hang \/ Heard
  BY <1>7, <1>13 DEF vars, mutexes, tasks, Hang, Heard
<1> QED
  BY <1>3, <1>4, <1>5, <1>6, <1>9, <1>10, <1>11, <1>12, <1>13 DEF Next, MainThread, Ending

\* Both locks of the queue, or print_mutex, stay with the threads that died, and
\* TcpHostMutex with the receiver until the HOST is heard.
LEMMA StuckKept == ShutdownInv /\ [Next]_vars => (Stuck => Stuck' \/ Heard)
<1> SUFFICES ASSUME ShutdownInv, [Next]_vars, Stuck, ~Heard PROVE Stuck'
  OBVIOUS
<1>1. UNCHANGED process
  BY ProcessStays
<1>2. CASE process = "HOST" /\ "fifo" \in held[Receiver] \intersect held[Getter]
  <2>1. st[Receiver] # "run" /\ st[Getter] # "run"
    BY <1>2, DestroyedFacts, Users DEF ShutdownInv, FifoInv, Destroyed
  <2>2. ASSUME UNCHANGED held PROVE Stuck'
    BY <1>1, <1>2, <2>2 DEF Stuck
  <2>3. ASSUME NEW t \in Task, NEW m \in Mutex, Lock(t, m) PROVE Stuck'
    BY <1>1, <1>2, <2>3, Users DEF Stuck, Lock, ShutdownInv, Types
  <2>4. ASSUME NEW t \in Task, NEW m \in Mutex \ {"fifo"}, Unlock(t, m) PROVE Stuck'
    BY <1>1, <1>2, <2>4, Users DEF Stuck, Unlock, ShutdownInv, Types
  <2>5. CASE Signal \/ MainThread
    BY <2>2, <2>5
       DEF Signal, MainThread, Say, Said, HostClose, VmctLock, VmctClosed, Stop, Cancel,
           Sleep, Destroy, UnlockQueue, LockQueue, Exit, mutexes
  <2>6. CASE Wait \/ WaitEnds \/ DieWaiting \/ CleanLock \/ CleanClosed
    BY <2>1, <2>3, <2>4, <2>6, Users
       DEF Wait, WaitEnds, DieWaiting, CleanLock, CleanClosed, Mutex
  <2>7. ASSUME NEW t \in Task,
               Leave(t) \/ Die(t) \/ CleanPrint(t) \/ CleanPrinted(t) \/ CleanUnlock(t)
        PROVE Stuck'
    BY <2>2, <2>3, <2>4, <2>7
       DEF Leave, Die, CleanPrint, CleanPrinted, CleanUnlock, Mutex, mutexes
  <2>8. ASSUME NEW t \in Task, NEW m \in Mutex, Take(t, m) \/ Give(t, m) PROVE Stuck'
    <3>1. CASE Take(t, m)
      BY <2>3, <3>1 DEF Take
    <3>2. CASE Give(t, m) /\ m # "fifo"
      BY <2>4, <3>2 DEF Give
    <3>3. ~(Give(t, m) /\ m = "fifo")
      BY <2>1 DEF Give, Goes, MayGive, ShutdownInv, FifoInv
    <3> QED
      BY <2>8, <3>1, <3>2, <3>3
  <2>9. CASE UNCHANGED vars \/ Hang
    BY <2>2, <2>9 DEF vars, mutexes, Hang
  <2> QED
    BY <2>5, <2>6, <2>7, <2>8, <2>9 DEF Next, Ending
<1>3. ASSUME process = "VMCT", NEW t \in 0 .. 1, st[t] = "clean", "print" \in held[t]
      PROVE  Stuck'
  <2>1. t \in Task /\ "print" \in locked
    BY <1>3, TaskFacts DEF ShutdownInv, PrintInv
  <2>2. ASSUME UNCHANGED <<st[t], held[t]>> PROVE Stuck'
    BY <1>1, <1>3, <2>2 DEF Stuck
  <2>3. CASE Signal \/ MainThread
    BY <2>2, <2>3
       DEF Signal, MainThread, Say, Said, HostClose, VmctLock, VmctClosed, Stop, Cancel,
           Sleep, Destroy, UnlockQueue, LockQueue, Exit, mutexes, tasks
  <2>4. st[Getter] # "wait" /\ st[Receiver] \notin {"lock", "closing"}
    BY <1>3, Users DEF ShutdownInv, OrderInv, OrderOf
  <2>5. CASE Wait \/ WaitEnds \/ DieWaiting \/ CleanLock \/ CleanClosed
    BY <1>3, <2>4, <2>5 DEF Wait, WaitEnds, DieWaiting, CleanLock, CleanClosed
  <2>6. ASSUME NEW u \in Task,
               Leave(u) \/ Die(u) \/ CleanPrint(u) \/ CleanPrinted(u) \/ CleanUnlock(u)
        PROVE Stuck'
    <3>1. u # t
      BY <1>3, <2>1, <2>6 DEF Leave, Die, CleanPrint, CleanPrinted, CleanUnlock, Lock
    <3> QED
      BY <2>1, <2>2, <2>6, <3>1, OtherTask
         DEF Leave, Die, CleanPrint, CleanPrinted, CleanUnlock, Mutex, mutexes,
             ShutdownInv, Types
  <2>7. ASSUME NEW u \in Task, NEW m \in Mutex, Take(u, m) \/ Give(u, m) PROVE Stuck'
    <3>1. u # t
      BY <1>3, <2>7 DEF Take, Give, Goes
    <3> QED
      BY <2>1, <2>2, <2>7, <3>1, OtherTask DEF Take, Give, Goes, tasks, ShutdownInv
  <2>8. CASE UNCHANGED vars \/ Hang
    BY <2>2, <2>8 DEF vars, mutexes, tasks, Hang
  <2> QED
    BY <2>3, <2>5, <2>6, <2>7, <2>8 DEF Next, Ending
<1>4. CASE process = "VMCT" /\ main = "close" /\ hung
  <2>1. i = 0 /\ st[Receiver] = "run" /\ "tcp" \in held[Receiver]
    BY <1>4 DEF ShutdownInv, OrderInv, MainOrder, HungInv
  <2>2. "tcp" \in locked
    BY <1>4, <2>1, Users, LastRuns DEF ShutdownInv, TcpInv, Inside, StrayUnlock
  <2>3. Receiver \notin doomed
    BY <1>4, <2>1, Users DEF ShutdownInv, OrderInv, OrderOf, Struck, Receiver
  <2>4. ASSUME UNCHANGED <<main, hung>> PROVE Stuck'
    BY <1>1, <1>4, <2>4 DEF Stuck
  <2>5. CASE Signal \/ MainThread
    BY <1>4, <2>2, <2>5
       DEF Signal, MainThread, Say, Said, HostClose, VmctLock, VmctClosed, Stop, Cancel,
           Sleep, Destroy, UnlockQueue, LockQueue, Exit, Main
  <2>6. CASE Wait \/ WaitEnds \/ DieWaiting \/ CleanLock \/ CleanClosed
    BY <2>4, <2>6 DEF Wait, WaitEnds, DieWaiting, CleanLock, CleanClosed
  <2>7. ASSUME NEW t \in Task,
               Leave(t) \/ Die(t) \/ CleanPrint(t) \/ CleanPrinted(t) \/ CleanUnlock(t)
        PROVE Stuck'
    BY <1>4, <2>3, <2>4, <2>7 DEF Leave, Die, CleanPrint, CleanPrinted, CleanUnlock
  <2>8. ASSUME NEW t \in Task, NEW m \in Mutex, Take(t, m) \/ Give(t, m) PROVE Stuck'
    BY <2>4, <2>8 DEF Take, Give, tasks
  <2>9. CASE UNCHANGED vars \/ Hang
    BY <1>4, <2>4, <2>9 DEF vars, tasks, Hang, Goes
  <2> QED
    BY <2>5, <2>6, <2>7, <2>8, <2>9 DEF Next, Ending
<1> QED
  BY <1>2, <1>3, <1>4 DEF Stuck

LEMMA StuckInvariant == Spec => []StuckInv
<1>1. Init => StuckInv
  BY TaskFacts DEF Init, StuckInv
<1> QED
  BY <1>1, StuckStep, Invariant, PTL DEF Spec

\* What Ends excepts is a deadlock of the program and nothing less: no step of the
\* process ends it.  One of the three cases ends when the HOST is heard in recv(),
\* the other two never, ...
THEOREM StuckForGood == Spec => [][Stuck => Stuck' \/ Heard]_vars
BY StuckKept, Invariant, PTL DEF Spec

\* ... and a process that is stuck has not ended.
THEOREM StuckNeverEnds == Spec => [](Stuck => main # "exited")
<1>1. ShutdownInv /\ StuckInv => (Stuck => main # "exited")
  BY DEF ShutdownInv, FifoInv, StuckInv, Stuck
<1> QED
  BY <1>1, Invariant, StuckInvariant, PTL
=============================================================================
