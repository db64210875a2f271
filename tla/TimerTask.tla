----------------------------- MODULE TimerTask ------------------------------
(***************************************************************************)
(* The expiry scan of the timer library, on the list the other threads     *)
(* start and stop timers in.                                               *)
(*                                                                         *)
(* cmp_timer_value walks the list from head->next and holds time_mutex     *)
(* only while it looks at an entry: between two entries, and before the    *)
(* first, another thread may free the very entry its cursor ent points to. *)
(* The memory of an entry is therefore modelled: a freed one keeps its     *)
(* next pointer, loses its id and its time (free() writes its own links    *)
(* over them), and is used again by a later timer_start.  What is left in  *)
(* it is kept here while the cursor may still come to it.                  *)
(*                                                                         *)
(* Time is a flag per entry: its period has elapsed, or not yet.           *)
(* Elapsed and Period are the arithmetic behind the flag, which is right   *)
(* for periods up to 35 minutes (TimerTask_proofs); VMCT has timers of a   *)
(* few seconds.  A new timer gets any id that is not in use: TimerIds says *)
(* which.  The message of an expiry, sent or lost, changes nothing here:   *)
(* see VmctLink.                                                           *)
(***************************************************************************)
EXTENDS Integers

CONSTANTS
  Id,           \* timer ids
  NoId,         \* what free() leaves in the id of an entry
  Cell,         \* memory for entries of the list
  head, tail    \* the two ends of the list

ASSUME TaskAssumption ==
  /\ head # tail /\ head \notin Cell /\ tail \notin Cell
  /\ NoId \notin Id

VARIABLES
  alloc,    \* the entries that are not freed
  next,     \* their next pointers, and those left in freed entries
  id,       \* their ids
  repeat,   \* arg3 is TMR_REPEAT
  due,      \* more than the period has elapsed
  scan,     \* timer_task: "sleep", "look", "args", "reset" or "next"
  ent,      \* its cursor
  args,     \* the arguments of its timer_reset: an id, and a period or none
  hit,      \* history: a stop has freed the cursor's entry in this scan
  unseen    \* history: timers that run since the scan began, to be looked at

entries == <<alloc, next, id, repeat, due>>
cursor  == <<scan, ent, args>>
traces  == <<hit, unseen>>
all     == <<entries, cursor, traces>>

\* Outside timer_reset there are no arguments.
NoArgs == [id |-> NoId, again |-> FALSE]

TaskInit ==
  /\ alloc = {}
  /\ next = [c \in Cell \union {head} |-> tail]
  /\ id = [c \in Cell |-> NoId]
  /\ repeat = [c \in Cell |-> FALSE]
  /\ due = [c \in Cell |-> FALSE]
  /\ scan = "sleep" /\ ent = tail /\ args = NoArgs
  /\ hit = FALSE /\ unseen = {}

-----------------------------------------------------------------------------
(***************************************************************************)
(* Time in microseconds                                                    *)
(***************************************************************************)
\* What an int keeps of n.
ToInt(n) == ((n + 32768 * 65536) % (65536 * 65536)) - 32768 * 65536

\* The period of a timer of so many milliseconds, computed in an int.
Period(msecs) == ToInt((msecs \div 1000) * 1000000 + (msecs % 1000) * 1000)

\* What cmp_timer_value takes for the time since start, an int as well; 10 ms
\* are added for the delay of the scan.
Elapsed(start, now) ==
  LET usec == now.usec + 10000 IN
  ToInt(IF now.sec > start.sec
        THEN (now.sec - (start.sec + 1)) * 1000000 + (1000000 - start.usec) + usec
        ELSE usec - start.usec)

\* The period has elapsed: Elapsed(start, now) > Period(msecs) from here on.
Elapse(c) ==
  /\ c \in alloc /\ ~due[c]
  /\ due' = [due EXCEPT ![c] = TRUE]
  /\ UNCHANGED <<alloc, next, id, repeat, cursor, traces>>

-----------------------------------------------------------------------------
(***************************************************************************)
(* The list                                                                *)
(***************************************************************************)
\* The entry before c.
Before(c) == CHOOSE p \in alloc \union {head} : next[p] = c

\* insert_timer_list: c goes before tail.
Insert(c, newid) ==
  /\ alloc' = alloc \union {c}
  /\ next' = [next EXCEPT ![Before(tail)] = c, ![c] = tail]
  /\ id' = [id EXCEPT ![c] = newid]
  /\ due' = [due EXCEPT ![c] = FALSE]
  /\ \E again \in BOOLEAN : repeat' = [repeat EXCEPT ![c] = again]

\* Slip: the entry is freed, the one before it still points to it.
FreeLinked(c) ==
  /\ alloc' = alloc \ {c}
  /\ next' = next
  /\ id' = [id EXCEPT ![c] = NoId]
  /\ due' = [due EXCEPT ![c] = FALSE]
  /\ repeat' = repeat

\* delete_timer_list: c is unlinked and freed.
Free(c) ==
  /\ alloc' = alloc \ {c}
  /\ next' = [next EXCEPT ![Before(c)] = next[c],
                          ![c] = IF hit' THEN next[c] ELSE tail]
  /\ id' = [id EXCEPT ![c] = NoId]
  /\ due' = [due EXCEPT ![c] = FALSE]
  /\ repeat' = [repeat EXCEPT ![c] = hit' /\ repeat[c]]

\* The ids of the running timers.
Used == {id[c] : c \in alloc}

\* timer_start by any thread.
StartTimer ==
  /\ \E c \in Cell \ alloc, new \in Id \ Used : Insert(c, new)
  /\ UNCHANGED <<cursor, traces>>

\* timer_stop by any thread; the scan may be about to look at the entry.
StopTimer(c) ==
  /\ c \in alloc
  /\ hit' = (hit \/ (scan # "sleep" /\ ent = c))
  /\ unseen' = IF hit' THEN {} ELSE unseen \ {c}
  /\ Free(c)
  /\ UNCHANGED cursor

-----------------------------------------------------------------------------
(***************************************************************************)
(* timer_task                                                              *)
(***************************************************************************)
\* Slip: the scan begins behind the first entry.
BeginSecond ==
  /\ scan = "sleep"
  /\ scan' = "look"
  /\ ent' = IF next[head] = tail THEN tail ELSE next[next[head]]
  /\ unseen' = alloc
  /\ UNCHANGED <<entries, args, hit>>

\* A tick: head->next is read, without time_mutex.
BeginScan ==
  /\ scan = "sleep"
  /\ scan' = "look"
  /\ ent' = next[head]
  /\ unseen' = alloc
  /\ UNCHANGED <<entries, args, hit>>

EndScan ==
  /\ scan = "look" /\ ent = tail
  /\ scan' = "sleep"
  /\ hit' = FALSE /\ unseen' = {}
  /\ next' = [c \in Cell \union {head} |->
                IF c \in alloc \union {head} THEN next[c] ELSE tail]
  /\ repeat' = [c \in Cell |-> c \in alloc /\ repeat[c]]
  /\ UNCHANGED <<alloc, id, due, ent, args>>

\* The entry was looked at.
Seen == unseen' = unseen \ {ent} /\ UNCHANGED hit

\* Its time has not come.
LookOn ==
  /\ scan = "look" /\ ent \in alloc /\ ~due[ent]
  /\ ent' = next[ent]
  /\ Seen
  /\ UNCHANGED <<entries, scan, args>>

\* Slip: a scan is over once a timer has expired.
ExpireAndLeave ==
  /\ scan = "look" /\ ent \in alloc /\ due[ent] /\ ~repeat[ent]
  /\ Seen
  /\ Free(ent)
  /\ ent' = tail
  /\ UNCHANGED <<scan, args>>

\* The timer expires: its entry is freed, and read once more for its successor.
Expire ==
  /\ scan = "look" /\ ent \in alloc /\ due[ent] /\ ~repeat[ent]
  /\ Seen
  /\ Free(ent)
  /\ ent' = next[ent]
  /\ UNCHANGED <<scan, args>>

\* A repeating timer expires: time_mutex is given back for timer_reset.
ExpireRepeat ==
  /\ scan = "look" /\ ent \in alloc /\ due[ent] /\ repeat[ent]
  /\ Seen
  /\ scan' = "args"
  /\ UNCHANGED <<entries, ent, args>>

\* The entry was freed, and nothing is known of its time or its id: it is
\* passed over, or expires with an id timer_stop does not know.
LookAtFreed ==
  /\ scan = "look" /\ ent \in Cell \ alloc
  /\ \/ scan' = "look" /\ ent' = next[ent]
     \/ repeat[ent] /\ scan' = "args" /\ UNCHANGED ent
  /\ UNCHANGED <<entries, args, traces>>

\* The id and the period for timer_reset are read from the entry, without
\* time_mutex: by now it may be the entry of a timer that does not repeat, whose
\* arg2 is no period.
ResetArgs ==
  /\ scan = "args"
  /\ args' = [id |-> id[ent], again |-> repeat[ent]]
  /\ scan' = "reset"
  /\ UNCHANGED <<entries, ent, traces>>

\* timer_reset: the timer that has this id by now starts again; without a period
\* it is due at once.
Reset ==
  /\ scan = "reset"
  /\ due' = [c \in Cell |-> IF c \in alloc /\ id[c] = args.id THEN ~args.again ELSE due[c]]
  /\ scan' = "next" /\ args' = NoArgs
  /\ UNCHANGED <<alloc, next, id, repeat, ent, traces>>

\* time_mutex is held again, and the scan goes on from the entry.
ResetNext ==
  /\ scan = "next"
  /\ ent' = next[ent]
  /\ scan' = "look"
  /\ UNCHANGED <<entries, args, traces>>

-----------------------------------------------------------------------------
Scan ==
  \/ BeginScan \/ EndScan
  \/ LookOn \/ Expire \/ ExpireRepeat \/ LookAtFreed
  \/ ResetArgs \/ Reset \/ ResetNext

TaskNext ==
  \/ Scan
  \/ StartTimer \/ \E c \in Cell : StopTimer(c)
  \/ \E c \in Cell : Elapse(c)

TaskSafety == TaskInit /\ [][TaskNext]_all

\* timer_task is not cancelled and its ticks go on.
Task == TaskSafety /\ WF_all(Scan)

-----------------------------------------------------------------------------
(***************************************************************************)
(* Properties                                                              *)
(***************************************************************************)
\* The cursor of the scan has left the list only if a stop freed the entry it
\* was at: expiries, the scan's own removals and every other stop leave it on a
\* running timer, so nothing is read from freed memory and no message is sent
\* for a timer that does not run.
OnTheList == scan # "sleep" /\ ~hit => ent \in alloc \union {tail}

\* A scan that no stop has hit looks at every timer that ran when it began and
\* was not stopped since: removals around the cursor make it pass over none.
LooksAtAll == scan = "look" /\ ent = tail => unseen = {}

\* Even so no timer is forgotten: one whose time has come leaves the list, or
\* starts again, although stops may throw the cursor off the list again and
\* again; each time the list before the timer gets shorter.  A scan has to reach
\* the end of the list at some time, which it does unless timers are started
\* faster than it walks.
Expires ==
  []<>(scan = "sleep") => \A c \in Cell : []<>(c \notin alloc \/ ~due[c])
=============================================================================
