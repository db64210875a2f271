------------------------------ MODULE Shutdown ------------------------------
(***************************************************************************)
(* What a TERM does to a process, the HOST or VMCT: its main thread        *)
(* cancels the others one by one, asynchronously, wherever they are, and   *)
(* each runs ThreadCleanUp.                                                *)
(*                                                                         *)
(* A cancelled thread releases nothing: the mutexes it holds stay locked,  *)
(* and the main thread and the cleanups may need them.  Mutexes are the    *)
(* normal ones of glibc: locking one's own blocks, and any thread can      *)
(* unlock any mutex, as both shutdowns do.                                 *)
(***************************************************************************)
EXTENDS Integers

CONSTANT MAX_PTASK  \* number of threads the HOST cancels; VMCT has three

ASSUME ShutdownAssumption == MAX_PTASK \in Nat /\ MAX_PTASK >= 3

Task == 0 .. MAX_PTASK - 1

Receiver == 0  \* PTASK0, tcp_rcvTask of the HOST
Getter   == 1  \* PTASK1, fifo_getTask of the HOST, TcpSessionTask of VMCT

\* print_mutex, TcpMutex (TcpHostMutex in VMCT) and the lock of TcpFifo.
Mutex == {"print", "tcp", "fifo"}

VARIABLES
  process,  \* "HOST" or "VMCT"
  locked,   \* the locked mutexes
  held,     \* task -> those it has locked, and never unlocked
  st,       \* task -> "run", "wait" (for TcpFifo), a place in ThreadCleanUp, "gone"
  alive,    \* the tasks whose ThreadAlive is TRUE
  doomed,   \* the tasks pthread_cancel was called for
  hung,     \* whether the receiver waits in recv() with TcpMutex locked
  main,     \* where the main thread is
  i         \* the task host_shutdown or vmct_shutdown is at

mutexes == <<locked, held>>
tasks   == <<st, alive, doomed, hung>>
vars    == <<process, mutexes, tasks, main, i>>

Threads == IF process = "VMCT" THEN 0 .. 2 ELSE Task

\* Every thread runs, and no signal has come.
Init ==
  /\ process \in {"HOST", "VMCT"}
  /\ locked = {} /\ held = [t \in Task |-> {}]
  /\ st = [t \in Task |-> IF t \in Threads THEN "run" ELSE "gone"]
  /\ alive = Threads /\ doomed = {} /\ hung = FALSE
  /\ main = "live" /\ i = 0

-----------------------------------------------------------------------------
(***************************************************************************)
(* Mutexes                                                                 *)
(***************************************************************************)
\* TcpMutex is destroyed at the end of the shutdown; to lock it then may return
\* at once.
Destroyed == {"unlock queue", "lock queue", "empty", "exited"}

Lock(t, m) ==
  /\ m \notin locked \/ (m = "tcp" /\ main \in Destroyed)
  /\ locked' = locked \union {m}
  /\ held' = [held EXCEPT ![t] = @ \union {m}]

Unlock(t, m) ==
  /\ locked' = locked \ {m}
  /\ held' = [held EXCEPT ![t] = @ \ {m}]

-----------------------------------------------------------------------------
(***************************************************************************)
(* A running thread                                                        *)
(***************************************************************************)
\* The mutexes a thread locks while it holds others.  Everybody prints; a
\* report is put into TcpFifo under TcpMutex, and taken out without it.
MayTake(t, m) ==
  \/ m = "print" /\ held[t] \subseteq {"tcp"}
  \/ m = "print" /\ process = "HOST" /\ t = Receiver /\ "print" \notin held[t]
  \/ m = "tcp"   /\ held[t] = {} /\ (process = "HOST" => t \in {Receiver, Getter})
  \/ m = "fifo"  /\ process = "HOST"
                 /\ \/ t = Receiver /\ held[t] = {"tcp"}
                    \/ t = Getter   /\ held[t] = {}

\* What was locked last is unlocked first.
MayGive(t, m) ==
  /\ m \in held[t]
  /\ m = "fifo" => "print" \notin held[t]
  /\ m = "tcp"  => held[t] = {"tcp"}

Goes(t) == st[t] = "run" /\ (t = Receiver => ~hung)

Take(t, m) ==
  /\ Goes(t) /\ MayTake(t, m) /\ Lock(t, m)
  /\ UNCHANGED <<process, tasks, main, i>>

Give(t, m) ==
  /\ Goes(t) /\ MayGive(t, m) /\ Unlock(t, m)
  /\ UNCHANGED <<process, tasks, main, i>>

\* TcpRecv waits for the bytes it lacks: in the HOST recv() blocks, in VMCT it is
\* called again and again.  Nothing in the program bounds either, ...
Hang ==
  /\ Goes(Receiver) /\ held[Receiver] = {"tcp"}
  /\ hung' = TRUE
  /\ UNCHANGED <<process, mutexes, st, alive, doomed, main, i>>

\* ... and only the other end can end it.
Heard ==
  /\ hung /\ hung' = FALSE
  /\ UNCHANGED <<process, mutexes, st, alive, doomed, main, i>>

\* block_FifoGet finds nothing: pthread_cond_timedwait unlocks the queue ...
Wait ==
  /\ process = "HOST" /\ st[Getter] = "run" /\ held[Getter] = {"fifo"}
  /\ Unlock(Getter, "fifo")
  /\ st' = [st EXCEPT ![Getter] = "wait"]
  /\ UNCHANGED <<process, alive, doomed, hung, main, i>>

\* ... and locks it again before it returns.
WaitEnds ==
  /\ st[Getter] = "wait" /\ Getter \notin doomed
  /\ Lock(Getter, "fifo")
  /\ st' = [st EXCEPT ![Getter] = "run"]
  /\ UNCHANGED <<process, alive, doomed, hung, main, i>>

-----------------------------------------------------------------------------
(***************************************************************************)
(* The end of a thread                                                     *)
(***************************************************************************)
\* The loop of a thread finds ThreadAlive FALSE before the cancellation comes.
\* It clears ThreadFlags itself, so ThreadCleanUp does not find it and returns.
Leave(t) ==
  /\ st[t] = "run" /\ held[t] = {} /\ t \notin alive
  /\ st' = [st EXCEPT ![t] = "gone"]
  /\ UNCHANGED <<process, mutexes, alive, doomed, hung, main, i>>

\* The cancellation strikes, and calls ThreadCleanUp, ...
Die(t) ==
  /\ t \in doomed /\ st[t] = "run"
  /\ st' = [st EXCEPT ![t] = "clean"]
  /\ hung' = (hung /\ t # Receiver)
  /\ UNCHANGED <<process, mutexes, alive, doomed, main, i>>

\* ... in pthread_cond_timedwait after the queue is locked again.
DieWaiting ==
  /\ Getter \in doomed /\ st[Getter] = "wait"
  /\ Lock(Getter, "fifo")
  /\ st' = [st EXCEPT ![Getter] = "clean"]
  /\ UNCHANGED <<process, alive, doomed, hung, main, i>>

\* ThreadCleanUp prints.
CleanPrint(t) ==
  /\ st[t] = "clean" /\ Lock(t, "print")
  /\ st' = [st EXCEPT ![t] = "printing"]
  /\ UNCHANGED <<process, alive, doomed, hung, main, i>>

CleanPrinted(t) ==
  /\ st[t] = "printing" /\ Unlock(t, "print")
  /\ st' = [st EXCEPT ![t] = IF process = "HOST" /\ t = Receiver THEN "lock" ELSE "unlock"]
  /\ UNCHANGED <<process, alive, doomed, hung, main, i>>

\* The receiver of the HOST closes the sockets under TcpMutex, which it may have
\* been holding when it was cancelled.
CleanLock ==
  /\ st[Receiver] = "lock" /\ Lock(Receiver, "tcp")
  /\ st' = [st EXCEPT ![Receiver] = "closing"]
  /\ UNCHANGED <<process, alive, doomed, hung, main, i>>

CleanClosed ==
  /\ st[Receiver] = "closing" /\ Unlock(Receiver, "tcp")
  /\ st' = [st EXCEPT ![Receiver] = "unlock"]
  /\ UNCHANGED <<process, alive, doomed, hung, main, i>>

\* The last unlock, by every thread of the HOST and by PTASK1 of VMCT, of a mutex
\* that may be unlocked, or locked by another thread.
CleanUnlock(t) ==
  /\ st[t] = "unlock"
  /\ IF process = "HOST" \/ t = Getter THEN Unlock(t, "tcp") ELSE UNCHANGED mutexes
  /\ st' = [st EXCEPT ![t] = "gone"]
  /\ UNCHANGED <<process, alive, doomed, hung, main, i>>

-----------------------------------------------------------------------------
(***************************************************************************)
(* The main thread                                                         *)
(***************************************************************************)
Main(from, to) ==
  /\ main = from /\ main' = to
  /\ UNCHANGED <<process, i>>

\* The main thread sleeps, and takes the signal.
Signal == Main("live", "print") /\ UNCHANGED <<mutexes, tasks>>

\* xprint of the main thread, before anything else and, in VMCT, before it
\* cancels the next thread.
Say(from, to) ==
  /\ Main(from, to)
  /\ "print" \notin locked
  /\ locked' = locked \union {"print"}
  /\ UNCHANGED <<held, tasks>>

Said(from, to) ==
  /\ Main(from, to)
  /\ locked' = locked \ {"print"}
  /\ UNCHANGED <<held, tasks>>

\* The HOST closes its sockets without TcpMutex, VMCT its own under TcpHostMutex.
HostClose == process = "HOST" /\ Main("close", "next") /\ UNCHANGED <<mutexes, tasks>>

VmctLock ==
  /\ process = "VMCT" /\ Main("close", "closing")
  /\ "tcp" \notin locked /\ locked' = locked \union {"tcp"}
  /\ UNCHANGED <<held, tasks>>

VmctClosed ==
  /\ Main("closing", "next")
  /\ locked' = locked \ {"tcp"}
  /\ UNCHANGED <<held, tasks>>

\* ThreadAlive[i] = FALSE
Stop ==
  /\ i \in Threads /\ Main("next", IF process = "VMCT" THEN "say" ELSE "cancel")
  /\ alive' = alive \ {i}
  /\ UNCHANGED <<mutexes, st, doomed, hung>>

Cancel ==
  /\ Main("cancel", "sleep")
  /\ doomed' = doomed \union {i}
  /\ UNCHANGED <<mutexes, st, alive, hung>>

\* Slip: the main thread does not sleep.
SleepNot ==
  /\ main = "sleep" /\ main' = "next" /\ i' = i + 1
  /\ UNCHANGED <<process, mutexes, tasks>>

\* nanoSleep(10): ten milliseconds are enough for a thread to be struck, unless
\* it has to lock the queue first.
Sleep ==
  /\ main = "sleep" /\ main' = "next" /\ i' = i + 1
  /\ st[i] # "run" /\ (st[i] = "wait" => "fifo" \in locked)
  /\ UNCHANGED <<process, mutexes, tasks>>

Destroy ==
  /\ i \notin Threads
  /\ Main("next", IF process = "HOST" THEN "unlock queue" ELSE "exited")
  /\ UNCHANGED <<mutexes, tasks>>

\* Slip: the queue is emptied under its lock, and only that.
UnlockQueueNot == Main("unlock queue", "lock queue") /\ UNCHANGED <<mutexes, tasks>>

\* block_FifoEmpty unlocks the queue, whoever holds it, ...
UnlockQueue ==
  /\ Main("unlock queue", "lock queue")
  /\ locked' = locked \ {"fifo"}
  /\ UNCHANGED <<held, tasks>>

\* ... and locks it.
LockQueue ==
  /\ Main("lock queue", "empty")
  /\ "fifo" \notin locked /\ locked' = locked \union {"fifo"}
  /\ UNCHANGED <<held, tasks>>

\* The queue is emptied and freed, and the process ends.
Exit == Main("empty", "exited") /\ UNCHANGED <<mutexes, tasks>>

-----------------------------------------------------------------------------
\* What happens to a thread that is to end.
Ending(t) ==
  \/ Leave(t) \/ Die(t)
  \/ CleanPrint(t) \/ CleanPrinted(t) \/ CleanUnlock(t)
  \/ t = Getter   /\ DieWaiting
  \/ t = Receiver /\ (CleanLock \/ CleanClosed)

MainThread ==
  \/ Say("print", "printing") \/ Said("printing", "close")
  \/ HostClose \/ VmctLock \/ VmctClosed
  \/ Stop
  \/ Say("say", "saying") \/ Said("saying", "cancel")
  \/ Cancel \/ Sleep \/ Destroy
  \/ UnlockQueue \/ LockQueue \/ Exit

\* Nothing runs after exit().
Next ==
  /\ main # "exited"
  /\ \/ Signal \/ MainThread
     \/ Wait \/ WaitEnds \/ Hang \/ Heard
     \/ \E t \in Task : Ending(t) \/ \E m \in Mutex : Take(t, m) \/ Give(t, m)

Gives(m) == \E t \in Task : Give(t, m)

\* Every thread is scheduled; one that prints comes to an end of it, and one that
\* prints again and again under TcpMutex still leaves that section, unless it
\* waits in recv(): nothing obliges the other end to answer.  The main thread
\* gets a mutex that is free again and again: the others, but for that recv(),
\* hold them for moments, and sleep or wait in between.
Fairness ==
  /\ SF_vars(MainThread)
  /\ WF_vars(\E t \in Task : Ending(t))
  /\ WF_vars(Gives("print")) /\ SF_vars(Gives("tcp"))

Spec == Init /\ [][Next]_vars /\ Fairness

-----------------------------------------------------------------------------
(***************************************************************************)
(* Properties                                                              *)
(***************************************************************************)
\* What keeps a process from ending: in the HOST, the receiver was cancelled
\* inside block_FifoPut, and the getter, which waited for the queue, locked it
\* between the unlock and the lock of the main thread; in VMCT, a thread other
\* than the last was cancelled inside xprint, and the main thread prints before
\* it cancels the next one; or the receiver waits in recv() with TcpHostMutex,
\* which the main thread locks before it cancels anybody.
Stuck ==
  \/ process = "HOST" /\ "fifo" \in held[Receiver] \intersect held[Getter]
  \/ process = "VMCT" /\ \E t \in 0 .. 1 : st[t] = "clean" /\ "print" \in held[t]
  \/ process = "VMCT" /\ main = "close" /\ hung

\* A TERM ends the process unless it is stuck for good, although nearly every
\* shutdown of the HOST cancels the getter with the queue locked, and any mutex
\* may be lost with its thread.
Ends == <>(main # "live") => <>(main = "exited") \/ <>[]Stuck

\* The sections under TcpMutex stay apart: the unlocks of ThreadCleanUp, by
\* threads that do not own it, never let the closing of the sockets run beside
\* an answer or a receipt.
TcpExclusive ==
  \A t \in Task :
    st[t] = "run" /\ "tcp" \in held[t] =>
      /\ st[Receiver] # "closing" /\ main # "closing"
      /\ \A u \in Task \ {t} : st[u] = "run" => "tcp" \notin held[u]
=============================================================================
