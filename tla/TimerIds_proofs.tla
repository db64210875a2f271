-------------------------- MODULE TimerIds_proofs ---------------------------
(***************************************************************************)
(* The ring of timer ids is a first-in first-out supply that never gives   *)
(* an id twice, for every number of timers.                                *)
(***************************************************************************)
EXTENDS TimerIds, FiniteSetTheorems, SequenceTheorems, TLAPS

\* The positions between cancel_ptr and assign_ptr, around the end of the array.
InUse(p) == IF comeback THEN p >= cancel_ptr \/ p < assign_ptr
                        ELSE p >= cancel_ptr /\ p < assign_ptr

\* The pointers, the flags and the counter describe the same part of the ring.
RingInv ==
  /\ comeback => assign_ptr <= cancel_ptr
  /\ ~comeback => cancel_ptr <= assign_ptr
  /\ tremainder = IF comeback THEN cancel_ptr - assign_ptr
                              ELSE maxtnum - (assign_ptr - cancel_ptr)
  /\ \A p \in Pos : tid_flag[p] <=> InUse(p)

\* An id is in one place only: at one free position, with one running timer,
\* or leaked.
OnePlace ==
  /\ \A p, q \in Pos : ~tid_flag[p] /\ ~tid_flag[q] /\ tid_id[p] = tid_id[q] => p = q
  /\ \A p \in Pos : ~tid_flag[p] => tid_id[p] \notin Live
  /\ \A id \in leaked : list[id] = 0
  /\ OneTimerPerId

\* As many ids are out as the counter says.
Counted == Cardinality(Live) = maxtnum - tremainder

IdInv == TypeOK /\ RingInv /\ OnePlace /\ Counted

-----------------------------------------------------------------------------
(***************************************************************************)
(* Facts about a state of the ring                                         *)
(***************************************************************************)

\* func_assign_tid refuses only at the count of zero: the other two tests of
\* the code never fail.
LEMMA RefusalIsExhaustion ==
  ASSUME TypeOK, RingInv
  PROVE  CanAssign <=> tremainder > 0
BY MaxAssumption DEF CanAssign, TypeOK, RingInv, InUse, Pos

\* Something is out exactly when the ring accepts an id.
LEMMA AcceptanceIsUse ==
  ASSUME TypeOK, RingInv
  PROVE  CanCancel <=> tremainder < maxtnum
BY MaxAssumption DEF CanCancel, TypeOK, RingInv, Pos

LEMMA LiveIsFinite ==
  ASSUME TypeOK
  PROVE  Live \subseteq Id /\ IsFiniteSet(Live) /\ IsFiniteSet(Id)
         /\ Cardinality(Id) = maxtnum /\ Cardinality(Live) \in Nat
<1>1. Live \subseteq Id
  BY DEF Live, TypeOK
<1>2. IsFiniteSet(Id) /\ Cardinality(Id) = maxtnum
  BY MaxAssumption, FS_Interval DEF Id
<1> QED
  BY <1>1, <1>2, FS_Subset, FS_CardinalityType

-----------------------------------------------------------------------------
(***************************************************************************)
(* Taking an id                                                            *)
(***************************************************************************)

LEMMA AssignKeepsRing ==
  ASSUME TypeOK, RingInv, AssignTid
  PROVE  /\ RingInv'
         /\ assign_ptr' \in Pos /\ cancel_ptr' \in Pos /\ comeback' \in BOOLEAN
         /\ tremainder' \in 0 .. maxtnum
         /\ tid_id' \in [Pos -> Id] /\ tid_flag' \in [Pos -> BOOLEAN]
<1> USE MaxAssumption
<1>1. /\ assign_ptr' \in Pos /\ cancel_ptr' \in Pos /\ comeback' \in BOOLEAN
      /\ tremainder' \in 0 .. maxtnum
      /\ tid_id' \in [Pos -> Id] /\ tid_flag' \in [Pos -> BOOLEAN]
  BY DEF TypeOK, AssignTid, CanAssign, Wrap, Pos
<1>2. /\ assign_ptr \in 0 .. maxtnum - 1 /\ cancel_ptr \in 0 .. maxtnum - 1
      /\ cancel_ptr' = cancel_ptr /\ tremainder > 0
      /\ tremainder' = tremainder - 1
      /\ assign_ptr' = IF assign_ptr + 1 >= maxtnum THEN assign_ptr + 1 - maxtnum
                                                    ELSE assign_ptr + 1
  BY DEF TypeOK, AssignTid, CanAssign, Wrap, Pos
<1>3. comeback' <=> comeback \/ assign_ptr + 1 >= maxtnum
  BY DEF AssignTid
<1>4. \A p \in Pos : tid_flag'[p] <=> p = assign_ptr \/ InUse(p)
  BY DEF TypeOK, RingInv, AssignTid
<1>5. CASE comeback
  <2>1. comeback' /\ assign_ptr < cancel_ptr /\ tremainder = cancel_ptr - assign_ptr
    BY <1>3, <1>5 DEF RingInv, AssignTid, CanAssign
  <2>2. assign_ptr' = assign_ptr + 1
    BY <1>2, <2>1
  <2>3. \A p \in Pos : InUse(p)' <=> p = assign_ptr \/ InUse(p)
    BY <1>2, <1>5, <2>1, <2>2 DEF InUse, Pos
  <2> QED
    BY <1>1, <1>2, <1>4, <2>1, <2>2, <2>3 DEF RingInv
<1>6. CASE ~comeback
  <2>1. cancel_ptr <= assign_ptr /\ tremainder = maxtnum - (assign_ptr - cancel_ptr)
    BY <1>6 DEF RingInv
  <2>2. \A p \in Pos : InUse(p)' <=> p = assign_ptr \/ InUse(p)
    <3>1. CASE assign_ptr + 1 >= maxtnum
      BY <1>2, <1>3, <1>6, <2>1, <3>1 DEF InUse, Pos
    <3>2. CASE ~(assign_ptr + 1 >= maxtnum)
      BY <1>2, <1>3, <1>6, <2>1, <3>2 DEF InUse, Pos
    <3> QED
      BY <3>1, <3>2
  <2>3. /\ comeback' => assign_ptr' <= cancel_ptr' /\ tremainder' = cancel_ptr' - assign_ptr'
        /\ ~comeback' => cancel_ptr' <= assign_ptr'
                         /\ tremainder' = maxtnum - (assign_ptr' - cancel_ptr')
    BY <1>2, <1>3, <1>6, <2>1
  <2> QED
    BY <1>1, <1>4, <2>2, <2>3 DEF RingInv
<1> QED
  BY <1>1, <1>5, <1>6

\* The id that is taken was with nobody, and is out afterwards.
LEMMA AssignTakesFresh ==
  ASSUME IdInv, AssignTid, Live' = Live \union {tid_id[assign_ptr]}
  PROVE  /\ \A p, q \in Pos : ~tid_flag'[p] /\ ~tid_flag'[q] /\ tid_id'[p] = tid_id'[q] => p = q
         /\ \A p \in Pos : ~tid_flag'[p] => tid_id'[p] \notin Live'
         /\ tid_id[assign_ptr] \in Id \ Live
         /\ Counted'
<1> USE DEF IdInv
<1>1. /\ ~tid_flag[assign_ptr] /\ assign_ptr \in Pos /\ tid_id' = tid_id
      /\ tid_flag' = [tid_flag EXCEPT ![assign_ptr] = TRUE]
      /\ tremainder' = tremainder - 1
  BY DEF AssignTid, CanAssign, TypeOK
<1>2. \A p \in Pos : ~tid_flag'[p] => ~tid_flag[p] /\ p # assign_ptr
  BY <1>1 DEF TypeOK
<1>3. tid_id[assign_ptr] \in Id \ Live
  BY <1>1 DEF OnePlace, TypeOK
<1>4. \A p, q \in Pos : ~tid_flag'[p] /\ ~tid_flag'[q] /\ tid_id'[p] = tid_id'[q] => p = q
  BY <1>1, <1>2 DEF OnePlace
<1>5. \A p \in Pos : ~tid_flag'[p] => tid_id'[p] \notin Live'
  BY <1>1, <1>2 DEF OnePlace
<1>6. Counted'
  <2>1. Cardinality(Live') = Cardinality(Live) + 1
    BY <1>3, LiveIsFinite, FS_AddElement
  <2> QED
    BY <1>1, <2>1, LiveIsFinite, MaxAssumption DEF Counted, TypeOK
<1> QED
  BY <1>3, <1>4, <1>5, <1>6

-----------------------------------------------------------------------------
(***************************************************************************)
(* Returning an id                                                         *)
(***************************************************************************)

LEMMA CancelKeepsRing ==
  ASSUME TypeOK, RingInv, NEW id \in Id, CancelTid(id)
  PROVE  /\ RingInv'
         /\ assign_ptr' \in Pos /\ cancel_ptr' \in Pos /\ comeback' \in BOOLEAN
         /\ tremainder' \in 0 .. maxtnum /\ tremainder' = tremainder + 1
         /\ tid_id' \in [Pos -> Id] /\ tid_flag' \in [Pos -> BOOLEAN]
<1> USE MaxAssumption
<1>1. tremainder < maxtnum
  BY AcceptanceIsUse DEF CancelTid
<1>2. tremainder' = tremainder + 1
  BY <1>1 DEF CancelTid, TypeOK
<1>3. /\ assign_ptr \in 0 .. maxtnum - 1 /\ cancel_ptr \in 0 .. maxtnum - 1
      /\ assign_ptr' = assign_ptr
      /\ cancel_ptr' = IF cancel_ptr + 1 >= maxtnum THEN cancel_ptr + 1 - maxtnum
                                                    ELSE cancel_ptr + 1
  BY DEF TypeOK, CancelTid, Wrap, Pos
<1>4. comeback' <=> comeback /\ cancel_ptr + 1 < maxtnum
  BY DEF CancelTid
<1>5. /\ assign_ptr' \in Pos /\ cancel_ptr' \in Pos
      /\ tremainder' \in 0 .. maxtnum
      /\ tid_id' \in [Pos -> Id] /\ tid_flag' \in [Pos -> BOOLEAN]
  BY <1>1, <1>2, <1>3 DEF TypeOK, CancelTid, Pos
<1>6. comeback' \in BOOLEAN
  BY DEF CancelTid
<1>7. \A p \in Pos : tid_flag'[p] <=> p # cancel_ptr /\ InUse(p)
  BY DEF TypeOK, RingInv, CancelTid
<1>8. CASE comeback
  <2>1. assign_ptr <= cancel_ptr /\ tremainder = cancel_ptr - assign_ptr
    BY <1>8 DEF RingInv
  <2>2. \A p \in Pos : InUse(p)' <=> p # cancel_ptr /\ InUse(p)
    <3>1. CASE cancel_ptr + 1 >= maxtnum
      BY <1>3, <1>4, <1>8, <2>1, <3>1 DEF InUse, Pos
    <3>2. CASE ~(cancel_ptr + 1 >= maxtnum)
      BY <1>3, <1>4, <1>8, <2>1, <3>2 DEF InUse, Pos
    <3> QED
      BY <3>1, <3>2
  <2>3. /\ comeback' => assign_ptr' <= cancel_ptr' /\ tremainder' = cancel_ptr' - assign_ptr'
        /\ ~comeback' => cancel_ptr' <= assign_ptr'
                         /\ tremainder' = maxtnum - (assign_ptr' - cancel_ptr')
    BY <1>2, <1>3, <1>4, <1>8, <2>1
  <2> QED
    BY <1>2, <1>5, <1>6, <1>7, <2>2, <2>3 DEF RingInv
<1>9. CASE ~comeback
  <2>1. ~comeback' /\ cancel_ptr < assign_ptr
        /\ tremainder = maxtnum - (assign_ptr - cancel_ptr)
    BY <1>4, <1>9 DEF RingInv, CancelTid, CanCancel
  <2>2. cancel_ptr' = cancel_ptr + 1
    BY <1>3, <2>1
  <2>3. \A p \in Pos : InUse(p)' <=> p # cancel_ptr /\ InUse(p)
    BY <1>3, <1>9, <2>1, <2>2 DEF InUse, Pos
  <2> QED
    BY <1>2, <1>3, <1>5, <1>6, <1>7, <2>1, <2>2, <2>3 DEF RingInv
<1> QED
  BY <1>8, <1>9

-----------------------------------------------------------------------------
(***************************************************************************)
(* The invariant                                                           *)
(***************************************************************************)

LEMMA IdInit == Init => IdInv
<1> SUFFICES ASSUME Init PROVE IdInv
  OBVIOUS
<1> USE MaxAssumption
<1>1. TypeOK
  <2>1. \A p \in Pos : p + 1 \in Id
    BY DEF Pos, Id
  <2>2. 0 \in Pos /\ maxtnum \in 0 .. maxtnum
    BY DEF Pos
  <2> QED
    BY <2>1, <2>2 DEF Init, TypeOK
<1>2. RingInv
  BY DEF Init, RingInv, InUse, Pos
<1>3. Live = {}
  BY DEF Init, Live
<1>4. OnePlace
  BY <1>3 DEF Init, OnePlace, OneTimerPerId, Pos
<1>5. Counted
  BY <1>3, FS_EmptySet DEF Counted, Init
<1> QED
  BY <1>1, <1>2, <1>4, <1>5 DEF IdInv

LEMMA StartKeepsInv == IdInv /\ Start => IdInv'
<1> SUFFICES ASSUME IdInv, Start PROVE IdInv'
  OBVIOUS
<1> DEFINE id == tid_id[assign_ptr]
<1>1. AssignTid /\ leaked' = leaked /\ list' = [list EXCEPT ![id] = @ + 1]
  BY DEF Start, Enlist
<1>2. id \in Id /\ id \notin Live
  BY <1>1 DEF IdInv, OnePlace, AssignTid, CanAssign, TypeOK
<1>3. list[id] = 0 /\ id \notin leaked
  BY <1>2 DEF Live, IdInv, TypeOK
<1>4. list' \in [Id -> Nat] /\ list'[id] = 1 /\ \A j \in Id \ {id} : list'[j] = list[j]
  BY <1>1, <1>2, <1>3 DEF IdInv, TypeOK
<1>5. Live' = Live \union {id}
  BY <1>1, <1>2, <1>4 DEF Live
<1>6. RingInv' /\ TypeOK'
  BY <1>1, <1>4, AssignKeepsRing DEF IdInv, TypeOK
<1>7. OnePlace'
  <2>1. \A j \in leaked' : list'[j] = 0
    BY <1>1, <1>3, <1>4 DEF IdInv, OnePlace, TypeOK
  <2>2. OneTimerPerId'
    BY <1>4 DEF IdInv, OnePlace, OneTimerPerId
  <2> QED
    BY <1>1, <1>5, <2>1, <2>2, AssignTakesFresh DEF OnePlace
<1>8. Counted'
  BY <1>1, <1>5, AssignTakesFresh
<1> QED
  BY <1>6, <1>7, <1>8 DEF IdInv

LEMMA FailedStartKeepsInv == IdInv /\ StartWithoutTimer => IdInv'
<1> SUFFICES ASSUME IdInv, StartWithoutTimer PROVE IdInv'
  OBVIOUS
<1> DEFINE id == tid_id[assign_ptr]
<1>1. AssignTid /\ leaked' = leaked \union {id} /\ list' = list
  BY DEF StartWithoutTimer
<1>2. id \in Id /\ id \notin Live
  BY <1>1 DEF IdInv, OnePlace, AssignTid, CanAssign, TypeOK
<1>3. list[id] = 0
  BY <1>2 DEF Live, IdInv, TypeOK
<1>4. Live' = Live \union {id}
  BY <1>1 DEF Live
<1>5. RingInv' /\ TypeOK'
  BY <1>1, <1>2, AssignKeepsRing DEF IdInv, TypeOK
<1>6. OnePlace'
  <2>1. \A j \in leaked' : list'[j] = 0
    BY <1>1, <1>3 DEF IdInv, OnePlace
  <2>2. OneTimerPerId'
    BY <1>1 DEF IdInv, OnePlace, OneTimerPerId
  <2> QED
    BY <1>1, <1>4, <2>1, <2>2, AssignTakesFresh DEF OnePlace
<1>7. Counted'
  BY <1>1, <1>4, AssignTakesFresh
<1> QED
  BY <1>5, <1>6, <1>7 DEF IdInv

\* While a timer runs, the ring accepts an id.
LEMMA RunningMeansAccepted == IdInv => RemovalReturnsId
<1> SUFFICES ASSUME IdInv, NEW id \in Id, list[id] > 0 PROVE CanCancel
  BY DEF RemovalReturnsId
<1>1. Live # {}
  BY DEF Live
<1>2. Cardinality(Live) # 0
  BY <1>1, LiveIsFinite, FS_EmptySet DEF IdInv
<1>3. tremainder < maxtnum
  BY <1>2, LiveIsFinite, MaxAssumption DEF IdInv, Counted, TypeOK
<1> QED
  BY <1>3, AcceptanceIsUse DEF IdInv

LEMMA RemoveKeepsInv == IdInv /\ (\E id \in Id : Remove(id)) => IdInv'
<1> SUFFICES ASSUME IdInv, NEW id \in Id, Remove(id) PROVE IdInv'
  OBVIOUS
<1> USE DEF IdInv
<1>1. list[id] > 0 /\ leaked' = leaked /\ list' = [list EXCEPT ![id] = @ - 1]
  BY DEF Remove, Unlist
<1>2. CancelTid(id)
  BY <1>1, RunningMeansAccepted DEF RemovalReturnsId, Remove, Unlist
<1>3. list[id] = 1 /\ id \notin leaked
  BY <1>1 DEF OnePlace, OneTimerPerId, TypeOK
<1>4. list' \in [Id -> Nat] /\ list'[id] = 0 /\ \A j \in Id \ {id} : list'[j] = list[j]
  BY <1>1, <1>3 DEF TypeOK
<1>5. Live' = Live \ {id} /\ id \in Live
  BY <1>1, <1>3, <1>4 DEF Live, TypeOK
<1>6. RingInv' /\ TypeOK'
  BY <1>1, <1>2, <1>4, CancelKeepsRing DEF TypeOK
<1>7. \A p \in Pos : ~tid_flag'[p] => \/ p = cancel_ptr /\ tid_id'[p] = id
                                      \/ ~tid_flag[p] /\ tid_id'[p] = tid_id[p] /\ p # cancel_ptr
  BY <1>2 DEF CancelTid, TypeOK
<1>8. OnePlace'
  <2>1. \A p, q \in Pos : ~tid_flag'[p] /\ ~tid_flag'[q] /\ tid_id'[p] = tid_id'[q] => p = q
    BY <1>5, <1>7 DEF OnePlace
  <2>2. \A p \in Pos : ~tid_flag'[p] => tid_id'[p] \notin Live'
    BY <1>5, <1>7 DEF OnePlace
  <2>3. \A j \in leaked' : list'[j] = 0
    BY <1>1, <1>3, <1>4 DEF OnePlace, TypeOK
  <2>4. OneTimerPerId'
    BY <1>4 DEF OnePlace, OneTimerPerId
  <2> QED
    BY <2>1, <2>2, <2>3, <2>4 DEF OnePlace
<1>9. Counted'
  <2>1. Cardinality(Live') = Cardinality(Live) - 1
    BY <1>5, LiveIsFinite, FS_RemoveElement
  <2>2. tremainder' = tremainder + 1
    BY <1>2, CancelKeepsRing
  <2> QED
    BY <2>1, <2>2, LiveIsFinite, MaxAssumption DEF Counted, TypeOK
<1> QED
  BY <1>6, <1>8, <1>9

LEMMA IdInvariant == Spec => []IdInv
<1>1. IdInv /\ UNCHANGED vars => IdInv'
  BY DEF vars, ring, IdInv, TypeOK, RingInv, InUse, OnePlace, OneTimerPerId, Counted, Live
<1>2. IdInv /\ [Next]_vars => IdInv'
  BY <1>1, StartKeepsInv, FailedStartKeepsInv, RemoveKeepsInv DEF Next
<1> QED
  BY <1>2, IdInit, PTL DEF Spec

\* The pointers never leave the array and the counter never leaves its range,
\* so the cap in func_cancel_tid never acts.
THEOREM TypeCorrect == Spec => []TypeOK
<1>1. IdInv => TypeOK
  BY DEF IdInv
<1> QED
  BY <1>1, IdInvariant, PTL

\* No two running timers share an id.
THEOREM NoSharedId == Spec => []OneTimerPerId
<1>1. IdInv => OneTimerPerId
  BY DEF IdInv, OnePlace
<1> QED
  BY <1>1, IdInvariant, PTL

\* A stop or an expiry always gets rid of its id.
THEOREM RemovalNeverLeaks == Spec => []RemovalReturnsId
BY RunningMeansAccepted, IdInvariant, PTL

\* timer_start refuses only when every id is in use or was leaked.
THEOREM RefusalIsHonest == Spec => []NoFalseExhaustion
<1>1. IdInv => NoFalseExhaustion
  <2> SUFFICES ASSUME IdInv, ~CanAssign PROVE Live = Id
    BY DEF NoFalseExhaustion
  <2>1. tremainder = 0
    BY RefusalIsExhaustion DEF IdInv, TypeOK
  <2>2. Cardinality(Live) = Cardinality(Id)
    BY <2>1, LiveIsFinite, MaxAssumption DEF IdInv, Counted
  <2> QED
    BY <2>2, LiveIsFinite, FS_Subset DEF IdInv
<1> QED
  BY <1>1, IdInvariant, PTL

-----------------------------------------------------------------------------
(***************************************************************************)
(* Refinement: the ring is a queue of ids                                  *)
(***************************************************************************)

\* The queue that the ring stands for.
FreeIds == [k \in 1 .. tremainder |-> tid_id[Wrap(assign_ptr + k - 1)]]

\* The k-th position from assign_ptr on, and its flag.
LEMMA FreePositions ==
  ASSUME TypeOK, RingInv, NEW k \in 1 .. tremainder
  PROVE  /\ Wrap(assign_ptr + k - 1) \in Pos
         /\ ~tid_flag[Wrap(assign_ptr + k - 1)]
         /\ comeback => Wrap(assign_ptr + k - 1) < cancel_ptr
<1> USE MaxAssumption
<1>1. /\ assign_ptr \in 0 .. maxtnum - 1 /\ cancel_ptr \in 0 .. maxtnum - 1
      /\ tremainder \in 0 .. maxtnum /\ k \in 1 .. tremainder
  BY DEF TypeOK, Pos
<1>2. CASE comeback
  <2>1. tremainder = cancel_ptr - assign_ptr
    BY <1>2 DEF RingInv
  <2>2. Wrap(assign_ptr + k - 1) = assign_ptr + k - 1
    BY <1>1, <2>1 DEF Wrap
  <2> QED
    BY <1>1, <1>2, <2>1, <2>2 DEF RingInv, InUse, Pos
<1>3. CASE ~comeback
  <2>1. tremainder = maxtnum - (assign_ptr - cancel_ptr) /\ cancel_ptr <= assign_ptr
    BY <1>3 DEF RingInv
  <2> DEFINE p == Wrap(assign_ptr + k - 1)
  <2>2. p \in Pos /\ ~(p >= cancel_ptr /\ p < assign_ptr)
    BY <1>1, <2>1 DEF Wrap, Pos
  <2> QED
    BY <1>3, <2>2 DEF RingInv, InUse
<1> QED
  BY <1>2, <1>3

\* Taking an id takes the head of the queue.
LEMMA AssignIsTake ==
  ASSUME TypeOK, RingInv, AssignTid
  PROVE  FreeIds # <<>> /\ FreeIds' = Tail(FreeIds)
<1> USE MaxAssumption
<1>1. /\ tremainder \in 1 .. maxtnum /\ tremainder' = tremainder - 1 /\ tid_id' = tid_id
      /\ assign_ptr \in 0 .. maxtnum - 1 /\ assign_ptr' = Wrap(assign_ptr + 1)
  BY DEF TypeOK, AssignTid, CanAssign, Pos
<1>2. FreeIds \in Seq(Id) /\ Len(FreeIds) = tremainder
  <2>1. \A k \in 1 .. tremainder : FreeIds[k] \in Id
    BY FreePositions DEF FreeIds, TypeOK
  <2> QED
    BY <1>1, <2>1 DEF FreeIds
<1>3. ASSUME NEW k \in 1 .. tremainder - 1
      PROVE  Wrap(Wrap(assign_ptr + 1) + k - 1) = Wrap(assign_ptr + (k + 1) - 1)
  BY <1>1, <1>3 DEF Wrap
<1>4. FreeIds' = [k \in 1 .. tremainder - 1 |-> FreeIds[k + 1]]
  <2>1. FreeIds' = [k \in 1 .. tremainder - 1 |-> tid_id[Wrap(Wrap(assign_ptr + 1) + k - 1)]]
    BY <1>1 DEF FreeIds, Wrap
  <2>2. \A k \in 1 .. tremainder - 1 : FreeIds[k + 1] = tid_id[Wrap(assign_ptr + (k + 1) - 1)]
    BY <1>1 DEF FreeIds
  <2> QED
    BY <1>3, <2>1, <2>2
<1>5. FreeIds # <<>>
  BY <1>1, <1>2
<1>6. FreeIds' \in Seq(Id) /\ Len(FreeIds') = tremainder - 1
  <2>1. \A k \in 1 .. tremainder - 1 : FreeIds[k + 1] \in Id
    BY <1>1, <1>2, ElementOfSeq
  <2> QED
    BY <1>1, <1>4, <2>1
<1>7. /\ Tail(FreeIds) \in Seq(Id) /\ Len(Tail(FreeIds)) = tremainder - 1
      /\ \A k \in 1 .. tremainder - 1 : Tail(FreeIds)[k] = FreeIds[k + 1]
  BY <1>1, <1>2, <1>5, HeadTailProperties
<1>8. \A k \in 1 .. tremainder - 1 : FreeIds'[k] = FreeIds[k + 1]
  BY <1>4
<1> QED
  BY <1>5, <1>6, <1>7, <1>8, SeqEqual

\* Returning an id appends it.
LEMMA CancelIsReturn ==
  ASSUME TypeOK, RingInv, NEW id \in Id, CancelTid(id)
  PROVE  FreeIds' = Append(FreeIds, id)
<1> USE MaxAssumption
<1>1. /\ tremainder \in 0 .. maxtnum - 1 /\ tremainder' = tremainder + 1
      /\ assign_ptr \in 0 .. maxtnum - 1 /\ assign_ptr' = assign_ptr
      /\ cancel_ptr \in 0 .. maxtnum - 1
      /\ tid_id' = [tid_id EXCEPT ![cancel_ptr] = id]
  BY AcceptanceIsUse, CancelKeepsRing DEF CancelTid, TypeOK, Pos
<1>2. tremainder = IF comeback THEN cancel_ptr - assign_ptr
                               ELSE maxtnum - (assign_ptr - cancel_ptr)
  BY DEF RingInv
<1>3. Wrap(assign_ptr + (tremainder + 1) - 1) = cancel_ptr
  BY <1>1, <1>2 DEF Wrap
<1>4. ASSUME NEW k \in 1 .. tremainder
      PROVE  Wrap(assign_ptr + k - 1) \in Pos \ {cancel_ptr}
  <2>1. Wrap(assign_ptr + k - 1) \in Pos
    BY <1>4, FreePositions
  <2>2. assign_ptr \in Int /\ cancel_ptr \in Int /\ k \in Int /\ tremainder \in Int
    BY <1>1, <1>4
  <2>3. Wrap(assign_ptr + k - 1) # cancel_ptr
    <3>1. CASE comeback
      <4>1. tremainder = cancel_ptr - assign_ptr
        BY <1>2, <3>1
      <4> QED
        BY <1>1, <1>4, <2>2, <4>1 DEF Wrap
    <3>2. CASE ~comeback
      <4>1. tremainder = maxtnum - (assign_ptr - cancel_ptr)
        BY <1>2, <3>2
      <4> QED
        BY <1>1, <1>4, <2>2, <4>1 DEF Wrap
    <3> QED
      BY <3>1, <3>2
  <2> QED
    BY <2>1, <2>3
<1>5. tid_id'[cancel_ptr] = id /\ \A p \in Pos \ {cancel_ptr} : tid_id'[p] = tid_id[p]
  BY <1>1 DEF TypeOK
<1>6. FreeIds \in Seq(Id) /\ Len(FreeIds) = tremainder
  <2>1. \A k \in 1 .. tremainder : FreeIds[k] \in Id
    BY FreePositions DEF FreeIds, TypeOK
  <2> QED
    BY <1>1, <2>1 DEF FreeIds
<1>7. FreeIds' = [k \in 1 .. tremainder + 1 |-> IF k = tremainder + 1 THEN id ELSE FreeIds[k]]
  <2>1. FreeIds' = [k \in 1 .. tremainder + 1 |-> tid_id'[Wrap(assign_ptr + k - 1)]]
    BY <1>1 DEF FreeIds, Wrap
  <2>2. \A k \in 1 .. tremainder : tid_id'[Wrap(assign_ptr + k - 1)] = FreeIds[k]
    BY <1>4, <1>5 DEF FreeIds
  <2>3. tid_id'[Wrap(assign_ptr + (tremainder + 1) - 1)] = id
    BY <1>3, <1>5
  <2> QED
    BY <1>1, <2>1, <2>2, <2>3
<1>8. FreeIds' \in Seq(Id) /\ Len(FreeIds') = tremainder + 1
  <2>1. \A k \in 1 .. tremainder : FreeIds[k] \in Id
    BY <1>1, <1>6, ElementOfSeq
  <2> QED
    BY <1>1, <1>7, <2>1
<1>9. /\ Append(FreeIds, id) \in Seq(Id) /\ Len(Append(FreeIds, id)) = tremainder + 1
      /\ \A k \in 1 .. tremainder : Append(FreeIds, id)[k] = FreeIds[k]
      /\ Append(FreeIds, id)[tremainder + 1] = id
  BY <1>1, <1>6, AppendProperties
<1>10. \A k \in 1 .. tremainder + 1 : FreeIds'[k] = Append(FreeIds, id)[k]
  BY <1>1, <1>7, <1>9
<1> QED
  BY <1>8, <1>9, <1>10, SeqEqual

\* The ring implements a queue of ids: timer_start takes the one that has been
\* free for the longest time, and a stop or an expiry returns one that was out.
THEOREM RefinesQueue == Spec => ImplementsQueue
<1> USE MaxAssumption
<1>1. Init => Queue!Init
  <2> SUFFICES ASSUME Init PROVE FreeIds = [k \in Id |-> k]
    BY DEF Queue!Init, Queue!Id, FreeIds, Id
  <2>1. \A k \in 1 .. maxtnum : Wrap(0 + k - 1) \in Pos /\ Wrap(0 + k - 1) + 1 = k
    BY DEF Wrap, Pos
  <2> QED
    BY <2>1 DEF Init, FreeIds, Id
<1>2. IdInv /\ [Next]_vars => [Queue!Next]_FreeIds
  <2> SUFFICES ASSUME IdInv, [Next]_vars PROVE [Queue!Next]_FreeIds
    OBVIOUS
  <2>1. CASE Start \/ StartWithoutTimer
    <3>1. FreeIds # <<>> /\ FreeIds' = Tail(FreeIds)
      BY <2>1, AssignIsTake DEF IdInv, Start, Enlist, StartWithoutTimer
    <3> QED
      BY <3>1 DEF Queue!Next, Queue!Take, FreeIds
  <2>2. ASSUME NEW id \in Id, Remove(id) PROVE [Queue!Next]_FreeIds
    <3>1. CancelTid(id)
      BY <2>2, RunningMeansAccepted DEF RemovalReturnsId, Remove, Unlist
    <3>2. FreeIds' = Append(FreeIds, id)
      BY <3>1, CancelIsReturn DEF IdInv
    <3>3. id \in Live
      BY <2>2 DEF Remove, Unlist, Live
    <3>4. DOMAIN FreeIds = 1 .. tremainder
      BY DEF FreeIds
    <3>5. \A k \in 1 .. tremainder : FreeIds[k] # id
      BY <3>3, FreePositions DEF FreeIds, IdInv, OnePlace
    <3>6. id \in Queue!Out
      BY <3>4, <3>5 DEF Queue!Out, Queue!Id, Id, FreeIds
    <3> QED
      BY <3>2, <3>6 DEF Queue!Next, Queue!Return, FreeIds
  <2>3. CASE UNCHANGED vars
    BY <2>3 DEF vars, ring, FreeIds, Wrap
  <2> QED
    BY <2>1, <2>2, <2>3 DEF Next
<1> QED
  BY <1>1, <1>2, IdInvariant, PTL DEF Spec, ImplementsQueue, Queue!Spec, FreeIds
=============================================================================
