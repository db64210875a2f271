--------------------------- MODULE HostFifo_proofs ---------------------------
(***************************************************************************)
(* TcpFifo is the queue it is meant to be, for any number of blocks.  The  *)
(* invariant adds to ListIsQueue what keeps the pointers apart: the blocks *)
(* of the list are allocated, all different, and not the one in hand.      *)
(***************************************************************************)
EXTENDS HostFifo, FiniteSetTheorems, SequenceTheorems, TLAPS

\* The task holds a block only between taking and releasing it.
Holding == pc \in {"unlinked", "handle"}

Disjoint ==
  /\ \A k \in 1 .. Len(queued) : queued[k] \in allocated
  /\ \A j, k \in 1 .. Len(queued) : queued[j] = queued[k] => j = k
  /\ Holding => b \in allocated /\ \A k \in 1 .. Len(queued) : queued[k] # b
  /\ ~Holding => b = NULL

\* TypeOK without the bound of i_depth.
PointersOK ==
  /\ p_first \in Block \union {NULL}
  /\ pp_last \in Block \union {P_FIRST}
  /\ p_next \in [Block -> Block \union {NULL}]
  /\ allocated \subseteq Block
  /\ pc \in {"idle", "waiting", "woken", "unlinked", "handle", "fault"}
  /\ b \in Block \union {NULL}
  /\ queued \in Seq(Block)

FifoInv == PointersOK /\ ListIsQueue /\ Disjoint

LEMMA InitInv == Init => FifoInv
<1> SUFFICES ASSUME Init PROVE FifoInv
  OBVIOUS
<1>1. queued = <<>> /\ Len(queued) = 0
  BY DEF Init
<1> QED
  BY <1>1 DEF Init, FifoInv, PointersOK, ListIsQueue, Disjoint, Holding

\* The queue of the history has a first block exactly when the list has one.
LEMMA FirstIsHead ==
  ASSUME FifoInv, p_first # NULL
  PROVE  /\ queued # <<>>
         /\ Len(queued) \in Nat \ {0}
         /\ p_first = Head(queued) /\ p_first = queued[1] /\ p_first \in Block
         /\ Tail(queued) \in Seq(Block)
         /\ Len(Tail(queued)) = Len(queued) - 1
         /\ \A k \in 1 .. Len(queued) - 1 : Tail(queued)[k] = queued[k + 1]
<1>1. queued # <<>> /\ queued \in Seq(Block) /\ p_first = queued[1]
  BY DEF FifoInv, PointersOK, ListIsQueue
<1>2. Len(queued) \in Nat \ {0}
  BY <1>1, EmptySeq
<1>3. /\ Tail(queued) \in Seq(Block) /\ Len(Tail(queued)) = Len(queued) - 1
      /\ \A k \in 1 .. Len(queued) - 1 : Tail(queued)[k] = queued[k + 1]
      /\ queued[1] = Head(queued) /\ queued[1] \in Block
  BY <1>1, <1>2, HeadTailProperties, ElementOfSeq
<1> QED
  BY <1>1, <1>2, <1>3

\* A block that enters the queue is put after the others.
LEMMA PutInv ==
  ASSUME FifoInv, NEW x \in Block, Put(x), pc # "fault"
  PROVE  FifoInv'
<1> DEFINE n == Len(queued)
<1>1. /\ queued \in Seq(Block) /\ n \in Nat
      /\ queued' = Append(queued, x) /\ queued' \in Seq(Block) /\ Len(queued') = n + 1
      /\ \A k \in 1 .. n : queued'[k] = queued[k] /\ queued[k] \in Block
      /\ queued'[n + 1] = x
  BY AppendProperties, LenProperties, ElementOfSeq DEF FifoInv, PointersOK, Put, New
<1>2. queued' # <<>>
  BY <1>1
<1>3. /\ x \notin allocated /\ allocated' = allocated \union {x}
      /\ \A k \in 1 .. n : queued[k] # x
      /\ pp_last' = x /\ i_depth' = n + 1 /\ b' = b /\ Holding' = Holding
  BY DEF FifoInv, Disjoint, ListIsQueue, Put, New, Holding
<1>4. PointersOK'
  BY <1>1, <1>3, FifoAssumption DEF FifoInv, PointersOK, Put, New, Link
<1>5. Disjoint'
  <2>1. \A k \in 1 .. n + 1 : k = n + 1 \/ k \in 1 .. n
    BY <1>1
  <2>2. \A k \in 1 .. n + 1 : queued'[k] \in allocated'
    BY <1>1, <1>3, <2>1 DEF FifoInv, Disjoint
  <2>3. \A j, k \in 1 .. n + 1 : queued'[j] = queued'[k] => j = k
    BY <1>1, <1>3, <2>1 DEF FifoInv, Disjoint
  <2>4. Holding' => b' \in allocated' /\ \A k \in 1 .. n + 1 : queued'[k] # b'
    BY <1>1, <1>3, <2>1 DEF FifoInv, Disjoint
  <2> QED
    BY <1>1, <1>3, <2>2, <2>3, <2>4 DEF FifoInv, Disjoint
<1>6. ListIsQueue'
  <2>1. CASE pp_last = P_FIRST
    <3>1. n = 0 /\ queued = <<>>
      BY <1>1, <2>1, FifoAssumption, ElementOfSeq, EmptySeq
         DEF FifoInv, ListIsQueue
    <3>2. p_first' = x /\ p_next'[x] = NULL
      BY <2>1 DEF Put, Link, FifoInv, PointersOK
    <3> QED
      BY <1>1, <1>2, <1>3, <3>1, <3>2 DEF ListIsQueue
  <2>2. CASE pp_last # P_FIRST
    <3>1. n \in Nat \ {0} /\ queued # <<>> /\ pp_last = queued[n]
      BY <1>1, <2>2, EmptySeq DEF FifoInv, ListIsQueue
    <3>2. p_next' = [p_next EXCEPT ![x] = NULL, ![queued[n]] = x] /\ p_first' = p_first
      BY <2>2, <3>1 DEF Put, Link
    <3>3. \A k \in 1 .. n - 1 : queued[k] # queued[n] /\ queued[k] # x
      BY <1>1, <1>3, <3>1 DEF FifoInv, Disjoint
    <3>4. p_next'[x] = NULL /\ p_next'[queued[n]] = x
      BY <1>1, <1>3, <3>1, <3>2 DEF FifoInv, PointersOK
    <3>5. \A k \in 1 .. n - 1 : p_next'[queued[k]] = queued[k + 1]
      BY <1>1, <3>1, <3>2, <3>3 DEF FifoInv, PointersOK, ListIsQueue
    <3>6. ASSUME NEW k \in 1 .. n + 1
          PROVE  p_next'[queued'[k]] = IF k = n + 1 THEN NULL ELSE queued'[k + 1]
      <4>1. CASE k = n + 1
        BY <1>1, <3>4, <4>1
      <4>2. CASE k = n
        BY <1>1, <3>1, <3>4, <4>2
      <4>3. CASE k \in 1 .. n - 1
        BY <1>1, <3>1, <3>5, <4>3
      <4> QED
        BY <1>1, <4>1, <4>2, <4>3
    <3>7. p_first' = queued'[1]
      BY <1>1, <3>1, <3>2 DEF FifoInv, ListIsQueue
    <3> QED
      BY <1>1, <1>2, <1>3, <3>6, <3>7 DEF ListIsQueue
  <2> QED
    BY <2>1, <2>2
<1> QED
  BY <1>4, <1>5, <1>6 DEF FifoInv

\* The first block leaves, the others move up.
LEMMA UnlinkInv ==
  ASSUME FifoInv, p_first # NULL, ~Holding, Unlink
  PROVE  FifoInv'
<1> DEFINE n == Len(queued)
<1>1. /\ queued # <<>> /\ n \in Nat \ {0} /\ queued \in Seq(Block)
      /\ b' = queued[1] /\ b' \in Block
      /\ queued' \in Seq(Block) /\ Len(queued') = n - 1
      /\ \A k \in 1 .. n - 1 : queued'[k] = queued[k + 1]
      /\ \A k \in 1 .. n : queued[k] \in Block
  BY FirstIsHead, ElementOfSeq DEF Unlink, FifoInv, PointersOK
<1>2. /\ p_first' = p_next[queued[1]] /\ p_next' = p_next /\ allocated' = allocated
      /\ pc' = "unlinked" /\ Holding' /\ i_depth' = n - 1
  BY <1>1 DEF Unlink, Holding, FifoInv, ListIsQueue
<1>3. p_next[queued[1]] = IF n = 1 THEN NULL ELSE queued[2]
  BY <1>1 DEF FifoInv, ListIsQueue
<1>4. queued' = <<>> <=> n = 1
  BY <1>1, EmptySeq
<1>5. pp_last' = IF n = 1 THEN P_FIRST ELSE queued[n]
  BY <1>1, <1>3, FifoAssumption DEF Unlink, FifoInv, ListIsQueue
<1>6. PointersOK'
  BY <1>1, <1>2, <1>3, <1>5 DEF FifoInv, PointersOK
<1>7. Disjoint'
  <2>1. \A k \in 1 .. n - 1 : k + 1 \in 1 .. n /\ k + 1 # 1
    BY <1>1
  <2>2. \A k \in 1 .. n - 1 : queued'[k] \in allocated' /\ queued'[k] # b'
    BY <1>1, <1>2, <2>1 DEF FifoInv, Disjoint
  <2>3. \A j, k \in 1 .. n - 1 : queued'[j] = queued'[k] => j = k
    <3> SUFFICES ASSUME NEW j \in 1 .. n - 1, NEW k \in 1 .. n - 1,
                        queued'[j] = queued'[k]
                 PROVE  j = k
      OBVIOUS
    <3>1. j + 1 = k + 1
      BY <1>1, <2>1 DEF FifoInv, Disjoint
    <3> QED
      BY <3>1
  <2>4. b' \in allocated'
    BY <1>1, <1>2 DEF FifoInv, Disjoint
  <2> QED
    BY <1>1, <1>2, <2>2, <2>3, <2>4 DEF Disjoint
<1>8. ListIsQueue'
  <2>1. p_first' = IF queued' = <<>> THEN NULL ELSE queued'[1]
    BY <1>1, <1>2, <1>3, <1>4
  <2>2. pp_last' = IF queued' = <<>> THEN P_FIRST ELSE queued'[n - 1]
    BY <1>1, <1>4, <1>5
  <2>3. ASSUME NEW k \in 1 .. n - 1
        PROVE  p_next'[queued'[k]] = IF k = n - 1 THEN NULL ELSE queued'[k + 1]
    <3>1. k + 1 \in 1 .. n /\ queued'[k] = queued[k + 1]
      BY <1>1
    <3>2. p_next[queued[k + 1]] = IF k + 1 = n THEN NULL ELSE queued[(k + 1) + 1]
      BY <3>1 DEF FifoInv, ListIsQueue
    <3>3. k # n - 1 => queued'[k + 1] = queued[(k + 1) + 1]
      BY <1>1
    <3> QED
      BY <1>1, <1>2, <3>1, <3>2, <3>3
  <2> QED
    BY <1>1, <1>2, <2>1, <2>2, <2>3 DEF ListIsQueue
<1> QED
  BY <1>6, <1>7, <1>8 DEF FifoInv

LEMMA NextInv == FifoInv /\ [Next]_vars => FifoInv'
<1> SUFFICES ASSUME FifoInv, [Next]_vars PROVE FifoInv'
  OBVIOUS
<1>1. CASE pc # "fault" /\ \E x \in Block : Put(x)
  BY <1>1, PutInv
<1>2. CASE Get \/ GetAfterWait
  BY <1>2, UnlinkInv DEF Get, GetAfterWait, Holding
<1>3. CASE Wait \/ TimeOut \/ SpuriousWakeup \/ GetNothing
  BY <1>3 DEF Wait, TimeOut, SpuriousWakeup, GetNothing, fifo,
              FifoInv, PointersOK, ListIsQueue, Disjoint, Holding
<1>4. CASE Detach
  <2>1. /\ fifo' = fifo /\ allocated' = allocated /\ b' = b /\ queued' = queued
        /\ Holding /\ Holding' /\ pc' = "handle"
        /\ p_next' = [p_next EXCEPT ![b] = NULL]
    BY <1>4 DEF Detach, Holding
  <2>2. /\ \A k \in 1 .. Len(queued) : queued[k] # b /\ queued[k] \in Block
        /\ b \in Block
    BY <2>1, ElementOfSeq DEF FifoInv, Disjoint, PointersOK
  <2>3. PointersOK'
    BY <2>1, <2>2 DEF FifoInv, PointersOK, fifo
  <2>4. \A k \in 1 .. Len(queued) : p_next'[queued[k]] = p_next[queued[k]]
    BY <2>1, <2>2 DEF FifoInv, PointersOK
  <2>5. ListIsQueue'
    BY <2>1, <2>4 DEF FifoInv, ListIsQueue, fifo
  <2>6. Disjoint'
    BY <2>1 DEF FifoInv, Disjoint
  <2> QED
    BY <2>3, <2>5, <2>6 DEF FifoInv
<1>5. CASE Release
  <2>1. /\ fifo' = fifo /\ p_next' = p_next /\ queued' = queued
        /\ allocated' = allocated \ {b} /\ b' = NULL
        /\ Holding /\ ~Holding' /\ pc' = "idle"
    BY <1>5 DEF Release, Holding
  <2>2. \A k \in 1 .. Len(queued) : queued[k] \in allocated'
    BY <2>1 DEF FifoInv, Disjoint
  <2> QED
    BY <2>1, <2>2 DEF FifoInv, PointersOK, ListIsQueue, Disjoint, fifo
<1>6. CASE UNCHANGED vars
  BY <1>6 DEF vars, fifo, FifoInv, PointersOK, ListIsQueue, Disjoint, Holding
<1> QED
  BY <1>1, <1>2, <1>3, <1>4, <1>5, <1>6 DEF Next, GetTask

LEMMA FifoInvariant == Safety => []FifoInv
BY InitInv, NextInv, PTL DEF Safety

\* For any number of blocks the links of TcpFifo spell the queue: puts, timed
\* out waits and spurious wakeups never make the list lose or repeat a block.
THEOREM ListCorrect == Safety => []ListIsQueue
<1>1. FifoInv => ListIsQueue
  BY DEF FifoInv
<1> QED
  BY <1>1, FifoInvariant, PTL

\* i_depth never exceeds the number of blocks: the queue has no other limit.
LEMMA DepthIsBounded == FifoInv => i_depth \in 0 .. Cardinality(Block)
<1> SUFFICES ASSUME FifoInv PROVE i_depth \in 0 .. Cardinality(Block)
  OBVIOUS
<1> DEFINE n == Len(queued)
           Enqueued == {queued[k] : k \in 1 .. n}
<1>1. n \in Nat /\ i_depth = n /\ IsFiniteSet(Block) /\ Cardinality(Block) \in Nat
  BY FifoAssumption, FS_CardinalityType, LenProperties
     DEF FifoInv, PointersOK, ListIsQueue
<1>2. IsFiniteSet(1 .. n) /\ Cardinality(1 .. n) = n
  <2>1. 1 \in Int /\ n \in Int /\ (1 > n <=> n = 0) /\ n - 1 + 1 = n
    BY <1>1
  <2>2. IsFiniteSet(1 .. n) /\ Cardinality(1 .. n) = IF 1 > n THEN 0 ELSE n - 1 + 1
    BY <2>1, FS_Interval
  <2> QED
    BY <2>1, <2>2
<1>3. ExistsBijection(1 .. n, Enqueued)
  <2>1. [k \in 1 .. n |-> queued[k]] \in Bijection(1 .. n, Enqueued)
    BY DEF FifoInv, Disjoint, Bijection, Injection, Surjection, IsInjective
  <2> QED
    BY <2>1 DEF ExistsBijection
<1>4. Cardinality(Enqueued) = n
  <2> HIDE DEF Enqueued
  <2> QED
    BY <1>2, <1>3, FS_Bijection
<1>5. Enqueued \in SUBSET Block
  BY ElementOfSeq DEF FifoInv, PointersOK
<1>6. Cardinality(Enqueued) <= Cardinality(Block)
  <2> HIDE DEF Enqueued
  <2> QED
    BY <1>1, <1>5, FS_Subset
<1>7. n <= Cardinality(Block)
  BY <1>4, <1>6
<1> HIDE DEF n, Enqueued
<1> QED
  BY <1>1, <1>7

\* Every variable of the queue keeps its type.
THEOREM TypeCorrect == Safety => []TypeOK
<1>1. FifoInv => TypeOK
  BY DepthIsBounded DEF FifoInv, PointersOK, TypeOK
<1> QED
  BY <1>1, FifoInvariant, PTL

\* The linked list implements the abstract queue: fifo_getTask is handed the
\* blocks in the order they were put, each once, however many there are.
THEOREM RefinesQueue == Safety => ImplementsQueue
<1>1. Init => Queue!Init
  BY DEF Init, Queue!Init
<1>2. FifoInv /\ [Next]_vars => [Queue!Next]_<<queued, b>>
  <2> SUFFICES ASSUME FifoInv, [Next]_vars PROVE [Queue!Next]_<<queued, b>>
    OBVIOUS
  <2>1. ASSUME NEW x \in Block, Put(x) PROVE Queue!Next
    <3>1. x \notin allocated /\ queued' = Append(queued, x) /\ b' = b
      BY <2>1 DEF Put, New
    <3>2. x # b /\ \A k \in 1 .. Len(queued) : queued[k] # x
      BY <3>1, FifoAssumption DEF FifoInv, Disjoint
    <3> QED
      BY <3>1, <3>2 DEF Queue!Next, Queue!Put, Queue!Queued
  <2>2. CASE Get \/ GetAfterWait
    <3>1. Unlink /\ p_first # NULL /\ b = NULL
      BY <2>2 DEF Get, GetAfterWait, FifoInv, Disjoint, Holding
    <3>2. queued # <<>> /\ b' = Head(queued) /\ queued' = Tail(queued)
      BY <3>1, FirstIsHead DEF Unlink
    <3> QED
      BY <3>1, <3>2 DEF Queue!Next, Queue!Get
  <2>3. CASE Release
    BY <2>3, FifoAssumption DEF Release, Holding, FifoInv, Disjoint, PointersOK,
                                Queue!Next, Queue!Release
  <2>4. CASE Wait \/ TimeOut \/ SpuriousWakeup \/ GetNothing \/ Detach \/ UNCHANGED vars
    BY <2>4 DEF Wait, TimeOut, SpuriousWakeup, GetNothing, Detach, vars
  <2> QED
    BY <2>1, <2>2, <2>3, <2>4 DEF Next, GetTask
<1> QED
  BY <1>1, <1>2, FifoInvariant, PTL DEF Safety, ImplementsQueue, Queue!Spec

-----------------------------------------------------------------------------
\* The only fault of fifo_getTask is the one fifo_wakeup shows: if every return
\* of pthread_cond_timedwait with 0 answers a signal, it never works on a
\* NULL block, whenever blocks are put and waits end.
THEOREM OnlyWakeupsFault ==
  Init /\ [][Next /\ ~SpuriousWakeup]_vars => [](pc # "fault")
<1> DEFINE Signalled == pc # "fault" /\ (pc = "woken" => p_first # NULL)
           Inv == FifoInv /\ Signalled
<1>1. Init => Inv
  BY InitInv DEF Init
<1>2. Inv /\ [Next /\ ~SpuriousWakeup]_vars => Inv'
  <2> SUFFICES ASSUME FifoInv, Signalled, [Next /\ ~SpuriousWakeup]_vars
               PROVE  Signalled'
    BY NextInv
  <2>1. ASSUME NEW x \in Block, Put(x) PROVE Signalled'
    <3>1. p_first = NULL => pp_last = P_FIRST
      BY FifoAssumption, LenProperties, ElementOfSeq DEF FifoInv, PointersOK, ListIsQueue
    <3>2. p_first' # NULL
      BY <2>1, <3>1, FifoAssumption DEF Put, Link
    <3> QED
      BY <2>1, <3>2 DEF Put
  <2>2. CASE UNCHANGED vars
    BY <2>2 DEF vars, fifo
  <2>3. CASE GetTask
    BY <2>3 DEF GetTask, Get, Wait, TimeOut, GetAfterWait, GetNothing, Detach, Release, Unlink, fifo
  <2> QED
    BY <2>1, <2>2, <2>3 DEF Next
<1>3. Inv => pc # "fault"
  OBVIOUS
<1> HIDE DEF Inv
<1> QED
  BY <1>1, <1>2, <1>3, PTL
=============================================================================
