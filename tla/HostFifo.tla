------------------------------ MODULE HostFifo ------------------------------
(***************************************************************************)
(* TcpFifo, the queue between tcp_rcvTask, which puts what the VMs report, *)
(* and fifo_getTask, which handles it.                                     *)
(*                                                                         *)
(* The queue is a singly linked list.  pp_last is the address of the       *)
(* pointer that ends it: that of p_first while the list is empty, that of  *)
(* the p_next of the last block otherwise.  What is done under the mutex   *)
(* of the queue is one action; waiting for the condition gives the mutex   *)
(* up, so the return of the wait is an action of its own.                  *)
(*                                                                         *)
(* Blocks are pieces of memory: the one that was released can be the next  *)
(* to be allocated.                                                        *)
(***************************************************************************)
EXTENDS Integers, Sequences, FiniteSets

CONSTANTS
  Block,     \* the pieces of memory a block_t can be allocated in
  NULL,
  P_FIRST    \* the address of p_first

ASSUME FifoAssumption ==
  /\ IsFiniteSet(Block)
  /\ NULL \notin Block /\ P_FIRST \notin Block

VARIABLES
  p_first, pp_last, i_depth,  \* block_fifo_t
  p_next,                     \* the link of every block
  allocated,                  \* the blocks in use
  pc,                         \* where fifo_getTask is
  b,                          \* the block it holds
  queued                      \* history: the blocks put and not yet got

fifo == <<p_first, pp_last, i_depth>>
vars == <<fifo, p_next, allocated, pc, b, queued>>

Init ==
  /\ p_first = NULL /\ pp_last = P_FIRST /\ i_depth = 0
  /\ p_next = [x \in Block |-> NULL]
  /\ allocated = {}
  /\ pc = "idle"
  /\ b = NULL
  /\ queued = <<>>

-----------------------------------------------------------------------------
(***************************************************************************)
(* tcp_rcvTask                                                             *)
(***************************************************************************)
\* malloc() gives a block that is not in use.
New(x) == x \notin allocated /\ allocated' = allocated \union {x}

\* *pp_last = x, for a block x that was just allocated.
Link(x) ==
  IF pp_last = P_FIRST
  THEN p_first' = x /\ p_next' = [p_next EXCEPT ![x] = NULL]
  ELSE p_next' = [p_next EXCEPT ![x] = NULL, ![pp_last] = x] /\ UNCHANGED p_first

\* Slip: the end of the list does not move.
PutWithoutEnd(x) ==
  /\ New(x)
  /\ Link(x)
  /\ pp_last' = IF pp_last = P_FIRST THEN x ELSE pp_last
  /\ i_depth' = i_depth + 1
  /\ pc' = IF pc = "waiting" THEN "woken" ELSE pc
  /\ queued' = Append(queued, x)
  /\ UNCHANGED b

\* tcp_PutFifo: a block is allocated, linked and signalled.  When there is no
\* memory for it nothing changes.
Put(x) ==
  /\ New(x)
  /\ Link(x)
  /\ pp_last' = x
  /\ i_depth' = i_depth + 1
  /\ pc' = IF pc = "waiting" THEN "woken" ELSE pc
  /\ queued' = Append(queued, x)
  /\ UNCHANGED b

-----------------------------------------------------------------------------
(***************************************************************************)
(* fifo_getTask                                                            *)
(***************************************************************************)
\* Slip: the list became empty and pp_last stays in the block that left it.
UnlinkKeepsEnd ==
  /\ b' = p_first
  /\ p_first' = p_next[p_first]
  /\ i_depth' = i_depth - 1
  /\ pc' = "unlinked"
  /\ queued' = Tail(queued)
  /\ UNCHANGED <<pp_last, p_next, allocated>>

\* Slip: the depth only grows.
UnlinkUncounted ==
  /\ b' = p_first
  /\ p_first' = p_next[p_first]
  /\ pp_last' = IF p_next[p_first] = NULL THEN P_FIRST ELSE pp_last
  /\ pc' = "unlinked"
  /\ queued' = Tail(queued)
  /\ UNCHANGED <<i_depth, p_next, allocated>>

\* The first block leaves the list.
Unlink ==
  /\ b' = p_first
  /\ p_first' = p_next[p_first]
  /\ pp_last' = IF p_next[p_first] = NULL THEN P_FIRST ELSE pp_last
  /\ i_depth' = i_depth - 1
  /\ pc' = "unlinked"
  /\ queued' = Tail(queued)
  /\ UNCHANGED <<p_next, allocated>>

\* block_FifoGet finds a block.
Get ==
  /\ pc = "idle"
  /\ p_first # NULL
  /\ Unlink

\* Slip: the wait is entered without a look at the list.
WaitAnyway ==
  /\ pc = "idle"
  /\ pc' = "waiting"
  /\ UNCHANGED <<fifo, p_next, allocated, b, queued>>

\* block_FifoGet finds the list empty and waits, for 0.9 ms at most.
Wait ==
  /\ pc = "idle"
  /\ p_first = NULL
  /\ pc' = "waiting"
  /\ UNCHANGED <<fifo, p_next, allocated, b, queued>>

\* The wait fails: the time is over, or it was no valid time because tv_nsec
\* passed a second.  The task comes back without a block and asks again.
TimeOut ==
  /\ pc = "waiting"
  /\ pc' = "idle"
  /\ UNCHANGED <<fifo, p_next, allocated, b, queued>>

\* pthread_cond_timedwait may return 0 without a signal.
SpuriousWakeup ==
  /\ pc = "waiting"
  /\ pc' = "woken"
  /\ UNCHANGED <<fifo, p_next, allocated, b, queued>>

\* After the wait the list is not looked at again.
GetAfterWait ==
  /\ pc = "woken"
  /\ p_first # NULL
  /\ Unlink

\* b->p_next of a null b.
GetNothing ==
  /\ pc = "woken"
  /\ p_first = NULL
  /\ pc' = "fault"
  /\ UNCHANGED <<fifo, p_next, allocated, b, queued>>

\* b->p_next = NULL, after the mutex was given back.
Detach ==
  /\ pc = "unlinked"
  /\ pc' = "handle"
  /\ p_next' = [p_next EXCEPT ![b] = NULL]
  /\ UNCHANGED <<fifo, allocated, b, queued>>

\* FifoGet_Event is done with the block and block_Release frees it.
Release ==
  /\ pc = "handle"
  /\ pc' = "idle"
  /\ allocated' = allocated \ {b}
  /\ b' = NULL
  /\ UNCHANGED <<fifo, p_next, queued>>

-----------------------------------------------------------------------------
GetTask == \/ Get \/ Wait \/ TimeOut \/ GetAfterWait \/ GetNothing
           \/ Detach \/ Release

\* A fault ends the process.
Next == \/ pc # "fault" /\ \E x \in Block : Put(x)
        \/ GetTask
        \/ SpuriousWakeup

Safety == Init /\ [][Next]_vars

\* fifo_getTask runs as long as the process does.  Nothing makes a VM report.
Spec == Safety /\ WF_vars(GetTask)

-----------------------------------------------------------------------------
(***************************************************************************)
(* Properties                                                              *)
(***************************************************************************)
\* Every pointer is one to a block or to p_first, and the depth is a number of
\* blocks.
TypeOK ==
  /\ p_first \in Block \union {NULL}
  /\ pp_last \in Block \union {P_FIRST}
  /\ i_depth \in 0 .. Cardinality(Block)
  /\ p_next \in [Block -> Block \union {NULL}]
  /\ allocated \subseteq Block
  /\ pc \in {"idle", "waiting", "woken", "unlinked", "handle", "fault"}
  /\ b \in Block \union {NULL}
  /\ queued \in Seq(Block)

\* The blocks reached from p_first are the ones put and not yet got, in the
\* order they were put; pp_last ends that list and never points into a block
\* that was taken out, released or allocated anew.
ListIsQueue ==
  /\ p_first = IF queued = <<>> THEN NULL ELSE queued[1]
  /\ pp_last = IF queued = <<>> THEN P_FIRST ELSE queued[Len(queued)]
  /\ i_depth = Len(queued)
  /\ \A k \in 1 .. Len(queued) :
       p_next[queued[k]] = IF k = Len(queued) THEN NULL ELSE queued[k + 1]

\* Whatever the puts, wakeups and timeouts, fifo_getTask gets each block once
\* and in order, and no memory is reused while the list or the task has it.
Queue == INSTANCE BlockQueue WITH None <- NULL, queue <- queued, taken <- b

ImplementsQueue == Queue!Spec

\* A block that was put is handed to fifo_getTask, even when the signal for it
\* finds nobody waiting or meets a wait that just timed out; unless the task
\* dies of a wakeup without a block.
Delivered ==
  \A x \in Block :
    (\E k \in 1 .. Len(queued) : queued[k] = x) ~> (b = x \/ pc = "fault")

\* The comment in block_FifoGet says that the list is looked at again after
\* the wait, since it may be empty: the task never goes on without a block.
NeverWithoutBlock == pc # "fault"
=============================================================================
