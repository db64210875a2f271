----------------------------- MODULE BlockQueue -----------------------------
(***************************************************************************)
(* What TcpFifo promises its two threads: the blocks leave the queue in    *)
(* the order they entered it, each once, one at a time.  A block may enter *)
(* again once the thread that took it has let go of it.                    *)
(***************************************************************************)
EXTENDS Sequences, Naturals

CONSTANTS Block, None   \* None: no block is being handled

VARIABLES queue, taken

Queued(x) == \E k \in 1 .. Len(queue) : queue[k] = x

Init == queue = <<>> /\ taken = None

Put(x) ==
  /\ ~Queued(x) /\ x # taken
  /\ queue' = Append(queue, x)
  /\ UNCHANGED taken

Get ==
  /\ queue # <<>> /\ taken = None
  /\ taken' = Head(queue)
  /\ queue' = Tail(queue)

Release ==
  /\ taken # None
  /\ taken' = None
  /\ UNCHANGED queue

Next == (\E x \in Block : Put(x)) \/ Get \/ Release

Spec == Init /\ [][Next]_<<queue, taken>>
=============================================================================
