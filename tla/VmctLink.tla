------------------------------ MODULE VmctLink ------------------------------
(***************************************************************************)
(* The link of a VM to the HOST, as the three threads of VMCT keep it:     *)
(*   - TcpSessionTask reports at every period, reopens the link if it is   *)
(*     down, and cuts it when the HOST has been silent for too long;       *)
(*   - TcpRcvTask waits for the answers of the HOST;                       *)
(*   - TmrCmdTask connects again when a reconnect timer expires.           *)
(*                                                                         *)
(* TcpHostMutex covers what TcpRcvTask does with an answer, a reconnect,   *)
(* and the silence check.  It does not cover the sending of a report: what *)
(* TcpSessionTask does there is split into a step per access to tlinkHOST. *)
(* What is done under the mutex is one step, but for two things another    *)
(* thread does without the mutex: TmrCmdTask forgets the timer of the      *)
(* link, so the timer of a failed receipt is a second step, and            *)
(* TcpSessionTask watches a socket, so FD_SET is a load and a store of     *)
(* allsetHOST, here and in TcpReconnect.                                   *)
(*                                                                         *)
(* A socket that the link does not name any more is never closed.          *)
(***************************************************************************)
EXTENDS Integers, FiniteSets

CONSTANTS
  Fd,             \* descriptors the process can open
  NoFd,           \* ListenFD -1
  Timer,          \* timer ids
  NoTimer,        \* tmrId 0
  TCP_SND_RETRY,  \* silent periods a link is allowed
  MaxFaults,      \* bound: connections that break or cannot be made
  Patient         \* a period is longer than an exchange of messages

ASSUME LinkAssumption ==
  /\ NoFd \notin Fd
  /\ NoTimer \notin Timer
  /\ TCP_SND_RETRY \in Nat \ {0}
  /\ MaxFaults \in Nat
  /\ Patient \in BOOLEAN

VARIABLES
  ListenFD,            \* tlinkHOST.ListenFD
  retryCnt, recvFlag,  \* tlinkHOST.tmr_hb
  tmrId,               \* tlinkHOST.tmr_reconn.tmrId
  allset,              \* allsetHOST: the watched sockets
  sock,                \* the socket of every descriptor
  asked,               \* the sockets with a report under way to the HOST
  answered,            \* the sockets with an answer to receive
  running,             \* timers that will expire
  expired,             \* timers whose message is in the queue of TmrCmdTask
  used,                \* tmrsync[]: timers whose message counts
  rcv, rset,           \* TcpRcvTask: where it is, the sockets it found ready
  ses, out,            \* TcpSessionTask: where it is, the socket it writes to
  tmr,                 \* TmrCmdTask: where it is
  sesWord, tmrWord,    \* what their FD_SET is about to store in allsetHOST
  mutex,               \* whether a thread holds TcpHostMutex between steps
  faults,              \* history: faults so far
  silent,              \* history: checks of a socket since it last had an answer
  undone               \* history: the socket of a link that a store of an older
                       \* allsetHOST made unwatched

hb     == <<retryCnt, recvFlag>>
net    == <<sock, asked, answered>>
timers == <<tmrId, running, expired, used>>
link   == <<ListenFD, allset>>
words  == <<sesWord, tmrWord>>
tasks  == <<rcv, rset, ses, out, tmr, words, mutex>>
hist   == <<silent, undone>>
vars   == <<hb, net, timers, link, tasks, faults, hist>>

-----------------------------------------------------------------------------
(***************************************************************************)
(* Sockets and timers                                                      *)
(***************************************************************************)
Opened == {f \in Fd : sock[f] # "closed"}
Readable(f) == f \in answered \/ sock[f] = "broken"

\* close(): the socket of f, if it has one, is gone.
Close(f) ==
  /\ sock' = [g \in Fd |-> IF g = f THEN "closed" ELSE sock[g]]
  /\ asked' = asked \ {f} /\ answered' = answered \ {f}

\* TcpOpen connects on a free descriptor f.
Connected(f) ==
  /\ f \in Fd \ Opened
  /\ sock' = [sock EXCEPT ![f] = "up"]
  /\ silent' = [silent EXCEPT ![f] = 0]
  /\ undone' = IF undone = f THEN NoFd ELSE undone
  /\ UNCHANGED <<asked, answered, faults>>

\* TcpOpen fails: the HOST does not answer, or there is no descriptor.
Refused ==
  /\ IF Opened = Fd THEN UNCHANGED faults
     ELSE faults < MaxFaults /\ faults' = faults + 1
  /\ UNCHANGED <<net, hist>>

\* TcptmrStop, with id = 0 for "no timer": one that has expired already keeps
\* its message, which will not count.
StopTimer(id) ==
  /\ running' = running \ {id}
  /\ used' = used \ {id}
  /\ UNCHANGED expired

\* TcptmrStart.  Ids are given out in turn, so one with a message under way is
\* not among the next ones.
StartTimer(stopped) ==
  LET free == Timer \ ((running \ {stopped}) \union expired)
  IN  IF free = {} THEN tmrId' = NoTimer /\ StopTimer(stopped)
      ELSE \E id \in free :
             /\ tmrId' = id
             /\ running' = (running \ {stopped}) \union {id}
             /\ used' = (used \ {stopped}) \union {id}
             /\ UNCHANGED expired

\* After the start-up of TcpRcvTask: it opened the link, and if that failed it
\* started a timer and tried again with the first report.
Init ==
  /\ \E f \in Fd, first, second \in BOOLEAN :
       LET up == first \/ second IN
       /\ ListenFD = IF up THEN f ELSE NoFd
       /\ allset = IF up THEN {f} ELSE {}
       /\ sock = [g \in Fd |-> IF up /\ g = f THEN "up" ELSE "closed"]
       /\ asked = IF up THEN {f} ELSE {}
       /\ IF first THEN tmrId = NoTimer ELSE tmrId \in Timer
  /\ running = {tmrId} \ {NoTimer} /\ expired = {} /\ used = running
  /\ retryCnt = 0 /\ recvFlag = FALSE
  /\ answered = {}
  /\ rcv = "select" /\ rset = {} /\ ses = "wait" /\ out = NoFd /\ tmr = "wait"
  /\ sesWord = {} /\ tmrWord = {} /\ mutex = FALSE
  /\ faults = 0 /\ undone = NoFd
  /\ silent = [f \in Fd |-> 0]

-----------------------------------------------------------------------------
(***************************************************************************)
(* The HOST, the network and the clock                                     *)
(***************************************************************************)
Answer(f) ==
  /\ f \in asked /\ sock[f] = "up"
  /\ asked' = asked \ {f} /\ answered' = answered \union {f}
  /\ UNCHANGED <<hb, sock, timers, link, tasks, faults, hist>>

Break(f) ==
  /\ sock[f] = "up"
  /\ faults < MaxFaults /\ faults' = faults + 1
  /\ sock' = [sock EXCEPT ![f] = "broken"]
  /\ UNCHANGED <<hb, asked, answered, timers, link, tasks, hist>>

Expire(id) ==
  /\ id \in running
  /\ running' = running \ {id} /\ expired' = expired \union {id}
  /\ UNCHANGED <<hb, net, tmrId, used, link, tasks, faults, hist>>

\* The queue of TmrCmdTask is full: the timer is gone, its message is lost, and
\* tmrsync[] still waits for it.
ExpireUnheard(id) ==
  /\ id \in running
  /\ faults < MaxFaults /\ faults' = faults + 1
  /\ running' = running \ {id}
  /\ UNCHANGED <<hb, net, tmrId, expired, used, link, tasks, hist>>

-----------------------------------------------------------------------------
(***************************************************************************)
(* TcpRcvTask                                                              *)
(***************************************************************************)
\* recv_extendedPoll; a watched socket that is closed makes it fail.
Select ==
  /\ rcv = "select"
  /\ allset \subseteq Opened
  /\ \E f \in allset : Readable(f)
  /\ rset' = {f \in allset : Readable(f)}
  /\ rcv' = "lock"
  /\ UNCHANGED <<hb, net, timers, link, ses, out, tmr, words, mutex, faults, hist>>

\* TcpHostMutex is taken; it is kept if the socket of the link was ready.
Lock ==
  /\ rcv = "lock" /\ ~mutex
  /\ IF ListenFD \in rset
     THEN rcv' = "recv" /\ mutex' = TRUE /\ rset' = {ListenFD}
     ELSE rcv' = "select" /\ mutex' = FALSE /\ rset' = {}
  /\ UNCHANGED <<hb, net, timers, link, ses, out, tmr, words, faults, hist>>

\* TcpRecv has an answer.
Receive(f) ==
  /\ rcv = "recv" /\ f \in rset /\ f \in answered
  /\ answered' = answered \ {f}
  /\ retryCnt' = 0 /\ recvFlag' = TRUE
  /\ silent' = [silent EXCEPT ![f] = 0]
  /\ rcv' = "select" /\ mutex' = FALSE /\ rset' = {}
  /\ UNCHANGED <<sock, asked, timers, link, ses, out, tmr, words, faults, undone>>

\* TcpRecv fails on a broken socket, or one TcpSessionTask closed meanwhile.
\* Without anything to read on an open one it tries again and again.
ReceiveFails(f) ==
  /\ rcv = "recv" /\ f \in rset /\ f \notin answered /\ sock[f] # "up"
  /\ IF ListenFD # NoFd
     THEN /\ Close(ListenFD)
          /\ allset' = {} /\ ListenFD' = NoFd
          /\ rcv' = "timer" /\ UNCHANGED mutex
     ELSE /\ rcv' = "select" /\ mutex' = FALSE
          /\ UNCHANGED <<net, link>>
  /\ rset' = {}
  /\ UNCHANGED <<hb, timers, ses, out, tmr, words, faults, hist>>

RcvTimer ==
  /\ rcv = "timer"
  /\ StartTimer(tmrId)
  /\ rcv' = "select" /\ mutex' = FALSE
  /\ UNCHANGED <<hb, net, link, rset, ses, out, tmr, words, faults, hist>>

-----------------------------------------------------------------------------
(***************************************************************************)
(* TcpSessionTask                                                          *)
(***************************************************************************)
\* With Patient a period leaves time for an answer that is under way to be
\* received, unless select() fails on a closed socket or does not watch the link.
Settled ==
  /\ \A f \in asked : sock[f] # "up"
  /\ rcv # "timer"
  /\ \A f \in Opened \intersect {ListenFD} :
       f \in rset \/ (f \in allset /\ allset \subseteq Opened) => ~Readable(f)

\* A period is over: SendProcStateReq looks whether the link is up.
Tick ==
  /\ ses = "wait"
  /\ Patient => Settled
  /\ out' = ListenFD
  /\ ses' = IF ListenFD # NoFd THEN "send" ELSE "reopen"
  /\ UNCHANGED <<hb, net, timers, link, rcv, rset, tmr, words, mutex, faults, hist>>

\* The link is down: the old socket is closed, whatever it is by now, and
\* another one is opened.
Reopen ==
  /\ ses = "reopen" /\ ~mutex
  /\ \/ \E f \in Fd : Connected(f) /\ ListenFD' = f
     \/ Refused /\ ListenFD' = NoFd
  /\ ListenFD = NoFd
  /\ allset' = {}
  /\ ses' = IF ListenFD' # NoFd THEN "watch" ELSE "check"
  /\ UNCHANGED <<hb, timers, rcv, rset, out, tmr, words, mutex>>

\* It may have been reopened by TmrCmdTask while the mutex was awaited.
CloseReopened ==
  /\ ses = "reopen" /\ ~mutex
  /\ ListenFD # NoFd
  /\ Close(ListenFD)
  /\ ListenFD' = NoFd /\ allset' = {}
  /\ UNCHANGED <<hb, timers, tasks, faults, hist>>

\* FD_SET(ListenFD): a load of allsetHOST, and in a later step the store.
\* FD_SET(-1) hits a bit that select() does not look at.
Watched == allset \union ({ListenFD} \ {NoFd})

\* Without the mutex: is the link up?
LookReopened ==
  /\ ses = "watch"
  /\ ses' = IF ListenFD # NoFd THEN "load" ELSE "check"
  /\ UNCHANGED <<hb, net, timers, link, rcv, rset, out, tmr, words, mutex, faults, hist>>

LoadReopened ==
  /\ ses = "load"
  /\ sesWord' = Watched
  /\ ses' = "store"
  /\ UNCHANGED <<hb, net, timers, link, rcv, rset, out, tmr, tmrWord, mutex, faults, hist>>

\* A socket watched since the load is not watched any more, and one forgotten
\* since is watched again.
StoreReopened ==
  /\ ses = "store"
  /\ allset' = sesWord /\ sesWord' = {}
  /\ undone' = IF ListenFD \in allset \ sesWord THEN ListenFD ELSE undone
  /\ ses' = "read"
  /\ UNCHANGED <<hb, net, timers, ListenFD, rcv, rset, out, tmr, tmrWord, mutex, faults,
                 silent>>

\* The report goes to what is ListenFD now.
ReadReopened ==
  /\ ses = "read"
  /\ out' = ListenFD
  /\ ses' = IF ListenFD # NoFd THEN "send" ELSE "check"
  /\ UNCHANGED <<hb, net, timers, link, rcv, rset, tmr, words, mutex, faults, hist>>

\* TcpSend: the report leaves; or the socket is full, which is a fault.
Send ==
  /\ ses = "send" /\ sock[out] = "up"
  /\ \/ asked' = asked \union {out} /\ UNCHANGED faults
     \/ faults < MaxFaults /\ faults' = faults + 1 /\ UNCHANGED asked
  /\ ses' = "check" /\ out' = NoFd
  /\ UNCHANGED <<hb, sock, answered, timers, link, rcv, rset, tmr, words, mutex, hist>>

\* The link went down after the first look: there is nothing to write to.
SendNothing ==
  /\ ses = "send" /\ ListenFD = NoFd
  /\ ses' = "check" /\ out' = NoFd
  /\ UNCHANGED <<hb, net, timers, link, rcv, rset, tmr, words, mutex, faults, hist>>

\* TcpSend fails: it forgets the watched sockets, closes the one the link has
\* now and takes the link down, all without the mutex.
SendFails ==
  /\ ses = "send" /\ sock[out] # "up"
  /\ IF ListenFD # NoFd
     THEN allset' = {} /\ ses' = "close"
     ELSE ses' = "check" /\ UNCHANGED allset
  /\ out' = NoFd
  /\ UNCHANGED <<hb, net, timers, ListenFD, rcv, rset, tmr, words, mutex, faults, hist>>

SendClose ==
  /\ ses = "close"
  /\ Close(ListenFD)
  /\ ses' = "unset"
  /\ UNCHANGED <<hb, timers, link, rcv, rset, out, tmr, words, mutex, faults, hist>>

SendUnset ==
  /\ ses = "unset"
  /\ ListenFD' = NoFd
  /\ ses' = "stop"
  /\ UNCHANGED <<hb, net, timers, allset, rcv, rset, out, tmr, words, mutex, faults, hist>>

SendStop ==
  /\ ses = "stop"
  /\ StopTimer(tmrId)
  /\ ses' = "start"
  /\ UNCHANGED <<hb, net, tmrId, link, rcv, rset, out, tmr, words, mutex, faults, hist>>

SendStart ==
  /\ ses = "start"
  /\ StartTimer(NoTimer)
  /\ ses' = "check"
  /\ UNCHANGED <<hb, net, link, rcv, rset, out, tmr, words, mutex, faults, hist>>

\* Slip: silence is not counted.
CountNothing == retryCnt

\* The silent periods, this one included.
Count == IF recvFlag THEN retryCnt ELSE retryCnt + 1

\* Slip: one silent period more is allowed.
KeepLinkLonger ==
  /\ ses = "check" /\ ~mutex
  /\ \/ /\ ListenFD = NoFd
        /\ UNCHANGED <<hb, silent>>
     \/ /\ ListenFD # NoFd /\ Count <= TCP_SND_RETRY
        /\ retryCnt' = Count /\ recvFlag' = FALSE
        /\ silent' = [silent EXCEPT ![ListenFD] =
                        IF @ < TCP_SND_RETRY THEN @ + 1 ELSE @]
  /\ ses' = "wait"
  /\ UNCHANGED <<net, timers, link, rcv, rset, out, tmr, words, mutex, faults, undone>>

\* The silence check.
KeepLink ==
  /\ ses = "check" /\ ~mutex
  /\ \/ /\ ListenFD = NoFd
        /\ UNCHANGED <<hb, silent>>
     \/ /\ ListenFD # NoFd /\ Count < TCP_SND_RETRY
        /\ retryCnt' = Count /\ recvFlag' = FALSE
        /\ silent' = [silent EXCEPT ![ListenFD] =
                        IF @ < TCP_SND_RETRY THEN @ + 1 ELSE @]
  /\ ses' = "wait"
  /\ UNCHANGED <<net, timers, link, rcv, rset, out, tmr, words, mutex, faults, undone>>

CutLink ==
  /\ ses = "check" /\ ~mutex
  /\ ListenFD # NoFd /\ Count >= TCP_SND_RETRY
  /\ retryCnt' = 0 /\ recvFlag' = FALSE
  /\ Close(ListenFD)
  /\ allset' = {} /\ ListenFD' = NoFd
  /\ StartTimer(tmrId)
  /\ ses' = "wait"
  /\ UNCHANGED <<rcv, rset, out, tmr, words, mutex, faults, hist>>

-----------------------------------------------------------------------------
(***************************************************************************)
(* TmrCmdTask                                                              *)
(***************************************************************************)
\* The message of a timer that was stopped does not count.
Ignore(id) ==
  /\ tmr = "wait" /\ id \in expired \ used
  /\ expired' = expired \ {id}
  /\ UNCHANGED <<hb, net, tmrId, running, used, link, tasks, faults, hist>>

\* The other one does, and the link forgets its timer, whichever it was.
Begin(id) ==
  /\ tmr = "wait" /\ id \in expired \intersect used
  /\ expired' = expired \ {id} /\ used' = used \ {id}
  /\ tmrId' = NoTimer
  /\ tmr' = "open"
  /\ UNCHANGED <<hb, net, running, link, rcv, rset, ses, out, words, mutex, faults, hist>>

\* TcpReconnect: the new socket takes the place of the old one, if any.
Reconnect ==
  /\ tmr = "open" /\ ~mutex
  /\ \E f \in Fd : Connected(f) /\ ListenFD' = f
  /\ tmr' = "load" /\ mutex' = TRUE
  /\ UNCHANGED <<hb, timers, allset, rcv, rset, ses, out, words>>

LoadReconnected ==
  /\ tmr = "load"
  /\ tmrWord' = Watched
  /\ tmr' = "store"
  /\ UNCHANGED <<hb, net, timers, link, rcv, rset, ses, out, sesWord, mutex, faults, hist>>

\* Slip: the new socket is not watched.
StoreOthers ==
  /\ tmr = "store"
  /\ allset' = tmrWord \ {ListenFD} /\ tmrWord' = {}
  /\ tmr' = "wait" /\ mutex' = FALSE
  /\ UNCHANGED <<hb, net, timers, ListenFD, rcv, rset, ses, out, sesWord, faults, hist>>

StoreReconnected ==
  /\ tmr = "store"
  /\ allset' = tmrWord /\ tmrWord' = {}
  /\ tmr' = "wait" /\ mutex' = FALSE
  /\ UNCHANGED <<hb, net, timers, ListenFD, rcv, rset, ses, out, sesWord, faults, hist>>

ReconnectFails ==
  /\ tmr = "open" /\ ~mutex
  /\ Refused
  /\ ListenFD' = NoFd
  /\ StartTimer(tmrId)
  /\ tmr' = "wait"
  /\ UNCHANGED <<hb, allset, rcv, rset, ses, out, words, mutex>>

-----------------------------------------------------------------------------
RcvTask == Select \/ Lock \/ RcvTimer \/ \E f \in Fd : Receive(f) \/ ReceiveFails(f)

SessionTask ==
  \/ Tick \/ Reopen \/ CloseReopened
  \/ LookReopened \/ LoadReopened \/ StoreReopened \/ ReadReopened
  \/ Send \/ SendNothing
  \/ SendFails \/ SendClose \/ SendUnset \/ SendStop \/ SendStart
  \/ KeepLink \/ CutLink

TmrTask ==
  \/ Reconnect \/ LoadReconnected \/ StoreReconnected \/ ReconnectFails
  \/ \E id \in Timer : Ignore(id) \/ Begin(id)

Next ==
  \/ RcvTask \/ SessionTask \/ TmrTask
  \/ \E f \in Fd : Answer(f) \/ Break(f)
  \/ \E id \in Timer : Expire(id) \/ ExpireUnheard(id)

Spec == Init /\ [][Next]_vars

\* The threads run, timers expire and the HOST answers what reaches it.
Fairness ==
  /\ WF_vars(RcvTask) /\ WF_vars(SessionTask) /\ WF_vars(TmrTask)
  /\ \A f \in Fd : WF_vars(Answer(f))
  /\ \A id \in Timer : WF_vars(Expire(id))

LiveSpec == Spec /\ Fairness

-----------------------------------------------------------------------------
(***************************************************************************)
(* Properties                                                              *)
(***************************************************************************)
\* The link, its timers and the places of the three threads keep their types; the
\* count of silent periods stays below the limit, nothing is under way on a
\* closed socket, and no timer runs whose message is still in the queue.
TypeOK ==
  /\ ListenFD \in Fd \union {NoFd} /\ out \in Fd \union {NoFd}
  /\ retryCnt \in 0 .. TCP_SND_RETRY - 1 /\ recvFlag \in BOOLEAN
  /\ tmrId \in Timer \union {NoTimer}
  /\ allset \subseteq Fd /\ rset \subseteq Fd
  /\ sock \in [Fd -> {"closed", "up", "broken"}]
  /\ asked \subseteq Opened /\ answered \subseteq Opened
  /\ running \subseteq Timer /\ expired \subseteq Timer /\ used \subseteq Timer
  /\ running \intersect expired = {}
  /\ rcv \in {"select", "lock", "recv", "timer"}
  /\ ses \in {"wait", "reopen", "watch", "load", "store", "read", "send", "close",
              "unset", "stop", "start", "check"}
  /\ tmr \in {"wait", "open", "load", "store"}
  /\ sesWord \subseteq Fd /\ tmrWord \subseteq Fd
  /\ ~(rcv \in {"recv", "timer"} /\ tmr \in {"load", "store"})
  /\ mutex <=> rcv \in {"recv", "timer"} \/ tmr \in {"load", "store"}
  /\ ses = "send" => out # NoFd
  /\ faults \in 0 .. MaxFaults
  /\ silent \in [Fd -> 0 .. TCP_SND_RETRY]
  /\ undone \in Fd \union {NoFd}

\* A link that is up has an open socket, except while TcpSend, without the mutex,
\* is taking it down; and once the thread that put it up has watched it, select()
\* watches it, unless TcpSessionTask, whose FD_SET runs without the mutex too,
\* stored an allsetHOST it had loaded before TcpReconnect watched this socket.
LinkWatched ==
  ListenFD # NoFd /\ ses \notin {"close", "unset"} =>
    /\ ListenFD \in Opened
    /\ ses \notin {"watch", "load", "store"} /\ tmr \notin {"load", "store"} =>
         ListenFD \in allset \union {undone}

\* The end of the descriptors: every one belongs to a socket that is lost, as
\* a reconnect timer does not look whether the link is up already.
Exhausted == ListenFD = NoFd /\ Opened = Fd

\* When nothing breaks any more VMCT goes on to hear answers: the link comes
\* back, whoever reopens it; a closed socket left among the watched ones, which
\* makes every select() fail, is forgotten again; and a link that is up and not
\* watched, which LinkWatched cannot rule out, is cut.  Two states are excused:
\* TcpRcvTask took the socket of a new link for the old one, found ready
\* before, and waits in recv() for ever with TcpHostMutex held; and the
\* process has lost all its descriptors.
KeepsHearing == []<>recvFlag \/ <>[](rcv = "recv") \/ <>[]Exhausted

\* The comment on retryCnt says that a socket is cut when nothing was received
\* on it three times in a row (vmct_sock.h).
CutsAfterThree ==
  [][CutLink => silent[ListenFD] + 1 >= TCP_SND_RETRY]_vars
=============================================================================
