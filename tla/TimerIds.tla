------------------------------ MODULE TimerIds ------------------------------
(***************************************************************************)
(* The timer library of CMLB: the ring that hands out timer ids and the    *)
(* linked list of the running timers.                                      *)
(*                                                                         *)
(* tid_list[] is one array used as a queue: an id is taken at assign_ptr   *)
(* and a returned id, which may be another one, is written at cancel_ptr.  *)
(* comeback says that assign_ptr has wrapped and cancel_ptr has not yet.   *)
(*                                                                         *)
(* timer_start and timer_stop run under time_mutex and the expiry runs     *)
(* under it too, so each is one action.  Which clock value makes a timer   *)
(* expire is left open: any running timer may.                             *)
(***************************************************************************)
EXTENDS Integers, FiniteSets

CONSTANT maxtnum   \* timer_init's argument: how many timers may run

ASSUME MaxAssumption == maxtnum \in Nat \ {0}

Id  == 1 .. maxtnum
Pos == 0 .. maxtnum - 1

VARIABLES
  assign_ptr, cancel_ptr, comeback,
  tremainder,   \* ids that may still be handed out
  tid_id,       \* tid_list[].id
  tid_flag,     \* tid_list[].flag
  list,         \* how many entries of the linked list carry an id
  leaked        \* history: ids taken by a timer_start that then failed

ring == <<assign_ptr, cancel_ptr, comeback, tremainder, tid_id, tid_flag>>
vars == <<ring, list, leaked>>

Init ==
  /\ assign_ptr = 0 /\ cancel_ptr = 0
  /\ comeback = FALSE
  /\ tremainder = maxtnum
  /\ tid_id = [p \in Pos |-> p + 1]
  /\ tid_flag = [p \in Pos |-> FALSE]
  /\ list = [id \in Id |-> 0]
  /\ leaked = {}

-----------------------------------------------------------------------------
(***************************************************************************)
(* The ring                                                                *)
(***************************************************************************)
\* The position p steps after the start of the array, once around it at most.
Wrap(p) == IF p >= maxtnum THEN p - maxtnum ELSE p

\* func_assign_tid has an id to give.
CanAssign ==
  /\ tremainder > 0
  /\ comeback => assign_ptr < cancel_ptr
  /\ ~tid_flag[assign_ptr]

\* Slip: the ids that are left are not counted down.
AssignTidUncounted ==
  /\ CanAssign
  /\ tid_flag' = [tid_flag EXCEPT ![assign_ptr] = TRUE]
  /\ assign_ptr' = Wrap(assign_ptr + 1)
  /\ comeback' = (comeback \/ assign_ptr + 1 >= maxtnum)
  /\ UNCHANGED <<tremainder, cancel_ptr, tid_id>>

\* func_assign_tid gives the id at assign_ptr.
AssignTid ==
  /\ CanAssign
  /\ tid_flag' = [tid_flag EXCEPT ![assign_ptr] = TRUE]
  /\ tremainder' = tremainder - 1
  /\ assign_ptr' = Wrap(assign_ptr + 1)
  /\ comeback' = (comeback \/ assign_ptr + 1 >= maxtnum)
  /\ UNCHANGED <<cancel_ptr, tid_id>>

\* func_cancel_tid accepts an id.
CanCancel == comeback \/ assign_ptr > cancel_ptr

\* Slip: the position is freed with the id it had before.
CancelTidOldId(id) ==
  /\ CanCancel
  /\ tid_flag' = [tid_flag EXCEPT ![cancel_ptr] = FALSE]
  /\ tremainder' = tremainder + 1
  /\ cancel_ptr' = Wrap(cancel_ptr + 1)
  /\ comeback' = (comeback /\ cancel_ptr + 1 < maxtnum)
  /\ UNCHANGED <<assign_ptr, tid_id>>

\* Slip: the ids that are left are not counted up again.
CancelTidUncounted(id) ==
  /\ CanCancel
  /\ tid_id' = [tid_id EXCEPT ![cancel_ptr] = id]
  /\ tid_flag' = [tid_flag EXCEPT ![cancel_ptr] = FALSE]
  /\ cancel_ptr' = Wrap(cancel_ptr + 1)
  /\ comeback' = (comeback /\ cancel_ptr + 1 < maxtnum)
  /\ UNCHANGED <<tremainder, assign_ptr>>

\* Slip: cancel_ptr runs off the end of the array.
CancelTidNoWrap(id) ==
  /\ CanCancel
  /\ tid_id' = [tid_id EXCEPT ![cancel_ptr] = id]
  /\ tid_flag' = [tid_flag EXCEPT ![cancel_ptr] = FALSE]
  /\ tremainder' = tremainder + 1
  /\ cancel_ptr' = cancel_ptr + 1
  /\ UNCHANGED <<assign_ptr, comeback>>

\* func_cancel_tid takes id back.
CancelTid(id) ==
  /\ CanCancel
  /\ tid_id' = [tid_id EXCEPT ![cancel_ptr] = id]
  /\ tid_flag' = [tid_flag EXCEPT ![cancel_ptr] = FALSE]
  /\ tremainder' = IF tremainder + 1 > maxtnum THEN maxtnum ELSE tremainder + 1
  /\ cancel_ptr' = Wrap(cancel_ptr + 1)
  /\ comeback' = (comeback /\ cancel_ptr + 1 < maxtnum)
  /\ UNCHANGED assign_ptr

-----------------------------------------------------------------------------
(***************************************************************************)
(* The operations                                                          *)
(***************************************************************************)
\* The list gets one more timer with this id, or one less.
Enlist(id) == list' = [list EXCEPT ![id] = @ + 1]
Unlist(id) == list[id] > 0 /\ list' = [list EXCEPT ![id] = @ - 1]

\* timer_start: an id is taken and the timer goes to the end of the list.
Start ==
  /\ AssignTid
  /\ Enlist(tid_id[assign_ptr])
  /\ UNCHANGED leaked

\* timer_start: an id is taken, but no timer is made of it, because the
\* allocation or the clock fails or the timer is of the socket type.
StartWithoutTimer ==
  /\ AssignTid
  /\ leaked' = leaked \union {tid_id[assign_ptr]}
  /\ UNCHANGED list

\* timer_stop, or the expiry of a timer that does not repeat: the timer leaves
\* the list, then its id goes back to the ring, which may refuse it.
Remove(id) ==
  /\ Unlist(id)
  /\ IF CanCancel THEN CancelTid(id) ELSE UNCHANGED ring
  /\ UNCHANGED leaked

\* timer_stop of an id that no running timer has changes nothing, and neither
\* does timer_start when the ring is empty: they need no action.
Next ==
  \/ Start
  \/ StartWithoutTimer
  \/ \E id \in Id : Remove(id)

Spec == Init /\ [][Next]_vars

-----------------------------------------------------------------------------
(***************************************************************************)
(* Properties                                                              *)
(***************************************************************************)
\* The pointers stay inside the array and the counter inside its range.
TypeOK ==
  /\ assign_ptr \in Pos /\ cancel_ptr \in Pos
  /\ comeback \in BOOLEAN
  /\ tremainder \in 0 .. maxtnum
  /\ tid_id \in [Pos -> Id]
  /\ tid_flag \in [Pos -> BOOLEAN]
  /\ list \in [Id -> Nat]
  /\ leaked \subseteq Id

\* No two running timers share an id, however starts, stops and expiries have
\* shuffled the ids around the ring; otherwise stopping one timer would stop
\* another, and one expiry would be taken for another.
OneTimerPerId == \A id \in Id : list[id] <= 1

Live == {id \in Id : list[id] > 0} \union leaked

\* timer_start refuses for want of an id only when every id is with a running
\* timer or was leaked by a failed start.
NoFalseExhaustion == ~CanAssign => Live = Id

\* A timer that leaves the list gets rid of its id: func_cancel_tid never
\* refuses it, so stops and expiries leak none.
RemovalReturnsId == (\E id \in Id : list[id] > 0) => CanCancel

\* The ring behaves as a queue of ids: none is given out while it is out, and
\* a returned id waits behind all that were free before it, so that an expiry
\* message that comes late meets its old id again as late as possible.
Queue == INSTANCE IdQueue WITH
  Size <- maxtnum,
  free <- [k \in 1 .. tremainder |-> tid_id[Wrap(assign_ptr + k - 1)]]

ImplementsQueue == Queue!Spec
=============================================================================
