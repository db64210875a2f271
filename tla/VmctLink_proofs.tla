-------------------------- MODULE VmctLink_proofs ---------------------------
(***************************************************************************)
(* The link that is up has an open socket, watched unless one race undid   *)
(* it, for every number of descriptors, timers, faults and silent periods, *)
(* although TcpSend takes links down without the mutex.                    *)
(***************************************************************************)
EXTENDS VmctLink, TLAPS

\* What LinkWatched rests on: between the load and the store of an FD_SET the
\* link is either in the word to be stored, or in the allsetHOST the store is
\* about to overwrite; in TcpReconnect always in the word.
WordsKnow ==
  /\ ses = "store" /\ tmr \notin {"load", "store"} =>
       ListenFD \in sesWord \union allset \union {NoFd}
  /\ tmr = "store" => ListenFD \in tmrWord \union {NoFd}

LinkInv == TypeOK /\ LinkWatched /\ WordsKnow

-----------------------------------------------------------------------------
\* Timers keep their types whatever is stopped and started.
LEMMA StopTimerTypes ==
  ASSUME TypeOK, NEW id, StopTimer(id)
  PROVE  /\ running' \subseteq Timer /\ expired' = expired /\ used' \subseteq Timer
         /\ running' \intersect expired' = {}
BY DEF TypeOK, StopTimer

LEMMA StartTimerTypes ==
  ASSUME TypeOK, NEW id, StartTimer(id)
  PROVE  /\ tmrId' \in Timer \union {NoTimer}
         /\ running' \subseteq Timer /\ expired' = expired /\ used' \subseteq Timer
         /\ running' \intersect expired' = {}
<1> DEFINE free == Timer \ ((running \ {id}) \union expired)
<1>1. CASE free = {}
  BY <1>1, StopTimerTypes DEF StartTimer
<1>2. CASE free # {}
  <2>1. PICK t \in free :
          /\ tmrId' = t
          /\ running' = (running \ {id}) \union {t}
          /\ used' = (used \ {id}) \union {t}
          /\ UNCHANGED expired
    BY <1>2 DEF StartTimer
  <2> QED
    BY <2>1 DEF TypeOK
<1> QED
  BY <1>1, <1>2

\* close() forgets one socket.
LEMMA CloseFacts ==
  ASSUME TypeOK, NEW f, Close(f)
  PROVE  /\ sock' \in [Fd -> {"closed", "up", "broken"}]
         /\ Opened' = Opened \ {f}
         /\ asked' \subseteq Opened' /\ answered' \subseteq Opened'
BY DEF TypeOK, Close, Opened

\* TcpOpen gives a new socket.
LEMMA ConnectedFacts ==
  ASSUME TypeOK, NEW f, Connected(f)
  PROVE  /\ f \in Fd
         /\ sock' \in [Fd -> {"closed", "up", "broken"}]
         /\ Opened' = Opened \union {f}
         /\ asked' \subseteq Opened' /\ answered' \subseteq Opened'
         /\ silent' \in [Fd -> 0 .. TCP_SND_RETRY]
         /\ undone' \in Fd \union {NoFd}
         /\ faults' = faults
<1> USE LinkAssumption
<1> QED
  BY DEF TypeOK, Connected, Opened

\* A refused connection changes nothing but the count of faults.
LEMMA RefusedFacts ==
  ASSUME TypeOK, Refused
  PROVE  /\ sock' = sock /\ Opened' = Opened /\ asked' = asked /\ answered' = answered
         /\ silent' = silent /\ undone' = undone
         /\ faults' \in 0 .. MaxFaults
BY LinkAssumption DEF TypeOK, Refused, Opened, net, hist

LEMMA LinkInit == Init => LinkInv
<1> SUFFICES ASSUME Init PROVE LinkInv
  OBVIOUS
<1> USE LinkAssumption
<1>1. PICK f \in Fd, first, second \in BOOLEAN :
        LET up == first \/ second IN
        /\ ListenFD = IF up THEN f ELSE NoFd
        /\ allset = IF up THEN {f} ELSE {}
        /\ sock = [g \in Fd |-> IF up /\ g = f THEN "up" ELSE "closed"]
        /\ asked = IF up THEN {f} ELSE {}
        /\ IF first THEN tmrId = NoTimer ELSE tmrId \in Timer
  BY DEF Init
<1>2. asked \subseteq Opened /\ (ListenFD # NoFd => ListenFD \in Opened /\ ListenFD \in allset)
  BY <1>1 DEF Opened
<1>3. tmrId \in Timer \union {NoTimer} /\ running \subseteq Timer
  BY <1>1 DEF Init
<1>4. /\ sock \in [Fd -> {"closed", "up", "broken"}]
      /\ ListenFD \in Fd \union {NoFd} /\ allset \subseteq Fd
  BY <1>1
<1>5. /\ 0 \in 0 .. TCP_SND_RETRY - 1 /\ 0 \in 0 .. MaxFaults
      /\ silent \in [Fd -> 0 .. TCP_SND_RETRY]
  BY DEF Init
<1>6. TypeOK
  BY <1>2, <1>3, <1>4, <1>5 DEF Init, TypeOK
<1> QED
  BY <1>2, <1>6 DEF Init, LinkInv, LinkWatched, WordsKnow

-----------------------------------------------------------------------------
LEMMA LinkStep == LinkInv /\ [Next]_vars => LinkInv'
<1> SUFFICES ASSUME LinkInv, [Next]_vars PROVE LinkInv'
  OBVIOUS
<1> USE LinkAssumption
<1> USE DEF LinkInv, hb, net, timers, link, tasks, words, hist
<1>1. CASE UNCHANGED vars
  BY <1>1 DEF vars, TypeOK, LinkWatched, WordsKnow, Opened
<1>2. ASSUME NEW f \in Fd, Answer(f) PROVE LinkInv'
  BY <1>2 DEF Answer, Opened, TypeOK, LinkWatched, WordsKnow
<1>3. ASSUME NEW f \in Fd, Break(f) PROVE LinkInv'
  BY <1>3 DEF Break, Opened, TypeOK, LinkWatched, WordsKnow
<1>4. ASSUME NEW id \in Timer, Expire(id) PROVE LinkInv'
  BY <1>4 DEF Expire, Opened, TypeOK, LinkWatched, WordsKnow
<1>27. ASSUME NEW id \in Timer, ExpireUnheard(id) PROVE LinkInv'
  BY <1>27 DEF ExpireUnheard, Opened, TypeOK, LinkWatched, WordsKnow
<1>5. CASE Select
  BY <1>5 DEF Select, Opened, TypeOK, LinkWatched, WordsKnow
<1>6. CASE Lock
  BY <1>6 DEF Lock, Opened, TypeOK, LinkWatched, WordsKnow
<1>7. ASSUME NEW f \in Fd, Receive(f) PROVE LinkInv'
  BY <1>7 DEF Receive, Opened, TypeOK, LinkWatched, WordsKnow
<1>8. ASSUME NEW f \in Fd, ReceiveFails(f) PROVE LinkInv'
  <2>1. CASE ListenFD # NoFd
    BY <1>8, <2>1, CloseFacts DEF ReceiveFails, TypeOK, LinkWatched, WordsKnow
  <2>2. CASE ListenFD = NoFd
    BY <1>8, <2>2 DEF ReceiveFails, TypeOK, LinkWatched, WordsKnow, Opened
  <2> QED
    BY <2>1, <2>2
<1>9. CASE RcvTimer
  BY <1>9, StartTimerTypes DEF RcvTimer, Opened, TypeOK, LinkWatched, WordsKnow
<1>10. CASE Tick
  BY <1>10 DEF Tick, Opened, TypeOK, LinkWatched, WordsKnow
<1>11. CASE Reopen
  <2>1. ASSUME NEW f \in Fd, Connected(f), ListenFD' = f PROVE LinkInv'
    BY <1>11, <2>1, ConnectedFacts DEF Reopen, TypeOK, LinkWatched, WordsKnow
  <2>2. CASE Refused /\ ListenFD' = NoFd
    BY <1>11, <2>2, RefusedFacts DEF Reopen, TypeOK, LinkWatched, WordsKnow
  <2> QED
    BY <1>11, <2>1, <2>2 DEF Reopen
<1>12. CASE CloseReopened
  BY <1>12, CloseFacts DEF CloseReopened, TypeOK, LinkWatched, WordsKnow
<1>13. CASE LookReopened \/ ReadReopened
  BY <1>13 DEF LookReopened, ReadReopened, Opened, TypeOK, LinkWatched, WordsKnow
<1>28. CASE LoadReopened
  BY <1>28 DEF LoadReopened, Watched, Opened, TypeOK, LinkWatched, WordsKnow
<1>29. CASE StoreReopened
  BY <1>29 DEF StoreReopened, Opened, TypeOK, LinkWatched, WordsKnow
<1>30. CASE LoadReconnected
  BY <1>30 DEF LoadReconnected, Watched, Opened, TypeOK, LinkWatched, WordsKnow
<1>31. CASE StoreReconnected
  BY <1>31 DEF StoreReconnected, Opened, TypeOK, LinkWatched, WordsKnow
<1>14. CASE Send
  BY <1>14 DEF Send, Opened, TypeOK, LinkWatched, WordsKnow
<1>15. CASE SendNothing
  BY <1>15 DEF SendNothing, Opened, TypeOK, LinkWatched, WordsKnow
<1>16. CASE SendFails
  BY <1>16 DEF SendFails, Opened, TypeOK, LinkWatched, WordsKnow
<1>17. CASE SendClose
  BY <1>17, CloseFacts DEF SendClose, TypeOK, LinkWatched, WordsKnow
<1>18. CASE SendUnset
  BY <1>18 DEF SendUnset, Opened, TypeOK, LinkWatched, WordsKnow
<1>19. CASE SendStop
  BY <1>19, StopTimerTypes DEF SendStop, Opened, TypeOK, LinkWatched, WordsKnow
<1>20. CASE SendStart
  BY <1>20, StartTimerTypes DEF SendStart, Opened, TypeOK, LinkWatched, WordsKnow
<1>21. CASE KeepLink
  <2>1. CASE ListenFD = NoFd
    BY <1>21, <2>1 DEF KeepLink, TypeOK, LinkWatched, WordsKnow, Opened
  <2>2. CASE ListenFD # NoFd
    <3>1. Count \in 0 .. TCP_SND_RETRY - 1
      BY <1>21, <2>2 DEF KeepLink, Count, TypeOK
    <3>2. silent' \in [Fd -> 0 .. TCP_SND_RETRY]
      BY <1>21, <2>2 DEF KeepLink, TypeOK
    <3> QED
      BY <1>21, <2>2, <3>1, <3>2 DEF KeepLink, TypeOK, LinkWatched, WordsKnow, Opened
  <2> QED
    BY <2>1, <2>2
<1>22. CASE CutLink
  <2>1. Close(ListenFD) /\ StartTimer(tmrId) /\ ListenFD' = NoFd
    BY <1>22 DEF CutLink
  <2>2. 0 \in 0 .. TCP_SND_RETRY - 1
    OBVIOUS
  <2>3. TypeOK'
    BY <1>22, <2>1, <2>2, CloseFacts, StartTimerTypes DEF CutLink, TypeOK
  <2> QED
    BY <2>1, <2>3 DEF LinkWatched, WordsKnow
<1>23. ASSUME NEW id \in Timer, Ignore(id) PROVE LinkInv'
  BY <1>23 DEF Ignore, Opened, TypeOK, LinkWatched, WordsKnow
<1>24. ASSUME NEW id \in Timer, Begin(id) PROVE LinkInv'
  BY <1>24 DEF Begin, Opened, TypeOK, LinkWatched, WordsKnow
<1>25. CASE Reconnect
  <2>1. PICK f \in Fd : Connected(f) /\ ListenFD' = f
    BY <1>25 DEF Reconnect
  <2> QED
    BY <1>25, <2>1, ConnectedFacts DEF Reconnect, TypeOK, LinkWatched, WordsKnow
<1>26. CASE ReconnectFails
  BY <1>26, RefusedFacts, StartTimerTypes DEF ReconnectFails, TypeOK, LinkWatched, WordsKnow
<1> QED
  BY <1>1, <1>2, <1>3, <1>4, <1>5, <1>6, <1>7, <1>8, <1>9, <1>10, <1>11, <1>12, <1>13,
     <1>14, <1>15, <1>16, <1>17, <1>18, <1>19, <1>20, <1>21, <1>22, <1>23, <1>24, <1>25, <1>26, <1>27,
     <1>28, <1>29, <1>30, <1>31
     DEF Next, RcvTask, SessionTask, TmrTask

\* Every variable of VMCT's link keeps its type, and the count of silent periods
\* stays below the limit.
THEOREM TypeCorrect == Spec => []TypeOK
<1>1. LinkInv => TypeOK
  BY DEF LinkInv
<1> QED
  BY <1>1, LinkInit, LinkStep, PTL DEF Spec

\* A link that is up has an open socket, whichever threads open and close it, and
\* whatever number of old reconnect timers is still running; and it is watched, once
\* its own FD_SET is over, unless a store of an older allsetHOST undid that.
THEOREM UpIsWatched == Spec => []LinkWatched
<1>1. LinkInv => LinkWatched
  BY DEF LinkInv
<1> QED
  BY <1>1, LinkInit, LinkStep, PTL DEF Spec

-----------------------------------------------------------------------------
(***************************************************************************)
(* How long a link may be silent                                           *)
(***************************************************************************)
\* The counter is never behind the silence of the link it is about; TcpRcvTask
\* receives from that link, unless TcpSend has taken it down meanwhile.
SilenceInv ==
  /\ recvFlag => retryCnt = 0
  /\ rcv = "recv" => \A f \in rset : ListenFD \in {f, NoFd}
  /\ ListenFD # NoFd => silent[ListenFD] <= retryCnt + (IF recvFlag THEN 0 ELSE 1)

\* No silence check keeps a link on which TCP_SND_RETRY checks in a row met no
\* answer: CutsAfterThree, the other way round.
KeepsNoSilentLink ==
  [][KeepLink => ListenFD = NoFd \/ silent[ListenFD] < TCP_SND_RETRY]_vars

\* A new link has not been silent yet.
LEMMA NewIsNotSilent ==
  ASSUME LinkInv, SilenceInv, NEW f, Connected(f), ListenFD' = f, UNCHANGED <<hb, rcv, rset>>,
         rcv # "recv"
  PROVE  SilenceInv'
BY DEF SilenceInv, Connected, LinkInv, TypeOK, hb

\* What leaves the counters and the silence alone and does not open a link.
LEMMA SilenceStays ==
  ASSUME SilenceInv, UNCHANGED <<hb, silent>>, ListenFD' \in {ListenFD, NoFd},
         rcv' = "recv" => rcv = "recv" /\ UNCHANGED rset
  PROVE  SilenceInv'
BY DEF SilenceInv, hb

LEMMA SilenceStep == LinkInv /\ SilenceInv /\ [Next]_vars => SilenceInv'
<1> SUFFICES ASSUME LinkInv, SilenceInv, [Next]_vars PROVE SilenceInv'
  OBVIOUS
<1> USE LinkAssumption
<1>1. CASE UNCHANGED vars
  BY <1>1, SilenceStays DEF vars, tasks, link, hist
<1>2. ASSUME NEW f \in Fd, Answer(f) \/ Break(f) PROVE SilenceInv'
  BY <1>2, SilenceStays DEF Answer, Break, tasks, link, hist
<1>3. ASSUME NEW id \in Timer, Expire(id) \/ ExpireUnheard(id) \/ Ignore(id) \/ Begin(id)
      PROVE  SilenceInv'
  BY <1>3, SilenceStays DEF Expire, ExpireUnheard, Ignore, Begin, tasks, link, hist
<1>4. CASE Select \/ RcvTimer
  BY <1>4, SilenceStays DEF Select, RcvTimer, link, hist
<1>5. CASE Lock
  BY <1>5 DEF Lock, SilenceInv, hb, link, hist
<1>6. ASSUME NEW f \in Fd, Receive(f) PROVE SilenceInv'
  <2>1. ListenFD \in {f, NoFd}
    BY <1>6 DEF Receive, SilenceInv
  <2>2. silent'[f] = 0 /\ retryCnt' = 0 /\ recvFlag' = TRUE /\ ListenFD' = ListenFD
    BY <1>6 DEF Receive, LinkInv, TypeOK, link
  <2> QED
    BY <1>6, <2>1, <2>2 DEF Receive, SilenceInv
<1>7. ASSUME NEW f \in Fd, ReceiveFails(f) PROVE SilenceInv'
  BY <1>7, SilenceStays DEF ReceiveFails, link, hist
<1>8. CASE Tick \/ Send \/ SendNothing \/ SendFails \/ SendClose
           \/ SendUnset \/ SendStop \/ SendStart \/ CloseReopened
  BY <1>8, SilenceStays DEF Tick, Send, SendNothing, SendFails, SendClose,
       SendUnset, SendStop, SendStart, CloseReopened, link, tasks, hist
<1>15. CASE \/ LookReopened \/ LoadReopened \/ StoreReopened \/ ReadReopened
            \/ LoadReconnected \/ StoreReconnected
  BY <1>15, SilenceStays DEF LookReopened, LoadReopened, StoreReopened, ReadReopened,
       LoadReconnected, StoreReconnected, link, hist
<1>9. ASSUME ~mutex PROVE rcv # "recv"
  BY <1>9 DEF LinkInv, TypeOK
<1>10. CASE Reopen
  <2>1. ASSUME NEW f \in Fd, Connected(f), ListenFD' = f PROVE SilenceInv'
    BY <1>9, <1>10, <2>1, NewIsNotSilent DEF Reopen
  <2>2. CASE Refused /\ ListenFD' = NoFd
    BY <1>10, <2>2, SilenceStays DEF Reopen, Refused, hist
  <2> QED
    BY <1>10, <2>1, <2>2 DEF Reopen
<1>11. CASE Reconnect
  <2>1. PICK f \in Fd : Connected(f) /\ ListenFD' = f
    BY <1>11 DEF Reconnect
  <2> QED
    BY <1>9, <1>11, <2>1, NewIsNotSilent DEF Reconnect
<1>12. CASE ReconnectFails
  BY <1>12, SilenceStays DEF ReconnectFails, Refused, hist
<1>13. CASE CutLink
  BY <1>13 DEF CutLink, SilenceInv
<1>14. CASE KeepLink
  <2>1. CASE ListenFD = NoFd
    BY <1>14, <2>1, SilenceStays DEF KeepLink, link
  <2>2. CASE ListenFD # NoFd
    <3>1. silent[ListenFD] \in Nat /\ retryCnt \in Nat
      BY <2>2 DEF LinkInv, TypeOK
    <3>2. /\ retryCnt' = IF recvFlag THEN retryCnt ELSE retryCnt + 1
          /\ recvFlag' = FALSE /\ ListenFD' = ListenFD /\ rcv' = rcv /\ rset' = rset
      BY <1>14, <2>2 DEF KeepLink, Count, link
    <3>3. silent'[ListenFD] <= silent[ListenFD] + 1
      BY <1>14, <2>2, <3>1 DEF KeepLink, LinkInv, TypeOK
    <3>4. silent'[ListenFD] \in Nat
      BY <1>14, <2>2, <3>1 DEF KeepLink, LinkInv, TypeOK
    <3> QED
      BY <2>2, <3>1, <3>2, <3>3, <3>4 DEF SilenceInv, LinkInv, TypeOK
  <2> QED
    BY <2>1, <2>2
<1> QED
  BY <1>1, <1>2, <1>3, <1>4, <1>5, <1>6, <1>7, <1>8, <1>10, <1>11, <1>12, <1>13, <1>14,
     <1>15
     DEF Next, RcvTask, SessionTask, TmrTask

LEMMA LinkInvariant == Spec => [](LinkInv /\ SilenceInv)
<1>1. Init => SilenceInv
  BY LinkAssumption DEF Init, SilenceInv
<1> QED
  BY <1>1, LinkInit, LinkStep, SilenceStep, PTL DEF Spec

\* Sockets may be cut too early, which vmct_retry shows, but never too late,
\* whichever threads change the link between two checks.
THEOREM SilenceIsCut == Spec => KeepsNoSilentLink
<1>1. LinkInv /\ SilenceInv /\ KeepLink => ListenFD = NoFd \/ silent[ListenFD] < TCP_SND_RETRY
  <2> SUFFICES ASSUME LinkInv, SilenceInv, KeepLink, ListenFD # NoFd
               PROVE  silent[ListenFD] < TCP_SND_RETRY
    OBVIOUS
  <2>1. silent[ListenFD] \in Nat /\ retryCnt \in Nat
    BY DEF LinkInv, TypeOK
  <2>2. (IF recvFlag THEN retryCnt ELSE retryCnt + 1) < TCP_SND_RETRY
    BY DEF KeepLink, Count
  <2> QED
    BY <2>1, <2>2, LinkAssumption DEF SilenceInv
<1> QED
  BY <1>1, LinkInvariant, PTL DEF KeepsNoSilentLink

-----------------------------------------------------------------------------
(***************************************************************************)
(* How sockets are lost                                                    *)
(***************************************************************************)
\* The sockets nothing will ever close.
Lost == Opened \ {ListenFD}

\* A step that does not touch the link, or closes its socket with it.
LEMMA NothingLost ==
  ASSUME Opened' \subseteq Opened, ListenFD' = ListenFD \/ Opened' = Opened \ {ListenFD}
  PROVE  Lost' \subseteq Lost
BY DEF Lost

LEMMA SocketsKept ==
  ASSUME LinkInv, [Next]_vars, ListenFD = NoFd \/ (tmr # "open" /\ ses # "unset")
  PROVE  Lost' \subseteq Lost
<1> USE LinkAssumption DEF link, net
<1>0. TypeOK /\ Opened \subseteq Fd
  BY DEF LinkInv, Opened
<1>1. CASE UNCHANGED <<sock, ListenFD>>
  BY <1>1, NothingLost DEF Opened
<1>2. ASSUME NEW f \in Fd, Break(f) PROVE Lost' \subseteq Lost
  BY <1>0, <1>2, NothingLost DEF Break, TypeOK, Opened
<1>3. ASSUME NEW f, Close(f), ListenFD' = ListenFD \/ f = ListenFD PROVE Lost' \subseteq Lost
  BY <1>0, <1>3, CloseFacts, NothingLost
<1>4. ASSUME NEW f \in Fd, ReceiveFails(f) PROVE Lost' \subseteq Lost
  BY <1>1, <1>3, <1>4 DEF ReceiveFails
<1>5. CASE CloseReopened \/ SendClose \/ CutLink
  BY <1>3, <1>5 DEF CloseReopened, SendClose, CutLink
<1>6. CASE Reopen \/ Reconnect \/ ReconnectFails
  <2>1. ListenFD = NoFd
    BY <1>6 DEF Reopen, Reconnect, ReconnectFails
  <2>2. Lost = Opened
    BY <1>0, <2>1 DEF Lost
  <2>3. ASSUME NEW f \in Fd, Connected(f), ListenFD' = f PROVE Lost' \subseteq Lost
    BY <1>0, <2>2, <2>3, ConnectedFacts DEF Lost
  <2>4. CASE Refused
    BY <1>0, <2>2, <2>4, RefusedFacts DEF Lost
  <2> QED
    BY <1>6, <2>3, <2>4 DEF Reopen, Reconnect, ReconnectFails
<1>7. CASE SendUnset
  BY <1>7, NothingLost DEF SendUnset, Opened
<1> QED
  BY <1>1, <1>2, <1>4, <1>5, <1>6, <1>7
     DEF Next, RcvTask, SessionTask, TmrTask, vars, Answer, Expire, ExpireUnheard, Select, Lock,
         Receive, RcvTimer, Tick, LookReopened, LoadReopened, StoreReopened,
         ReadReopened, LoadReconnected, StoreReconnected, Send, SendNothing, SendFails, SendStop,
         SendStart, KeepLink, Ignore, Begin

\* Every lost socket, and so the end of the descriptors that KeepsHearing excuses,
\* is the work of a reconnect: TmrCmdTask puts another socket in the place of one
\* that is up, or TcpSend, between its close and its unset, forgets the new one.
THEOREM ReconnectsLoseSockets ==
  Spec => [][~(Lost' \subseteq Lost) => ListenFD # NoFd /\ (tmr = "open" \/ ses = "unset")]_vars
<1>1. LinkInv /\ [Next]_vars =>
        (~(Lost' \subseteq Lost) => ListenFD # NoFd /\ (tmr = "open" \/ ses = "unset"))
  BY SocketsKept DEF LinkInv, TypeOK
<1> QED
  BY <1>1, LinkInvariant, PTL DEF Spec
=============================================================================
