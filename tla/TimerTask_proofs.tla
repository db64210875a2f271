-------------------------- MODULE TimerTask_proofs --------------------------
(***************************************************************************)
(* The expiry scan passes over no timer, for any number of timers and any  *)
(* interleaving of stops and starts, as long as no stop hits the entry at  *)
(* its cursor; and its arithmetic in ints is right below their limit.      *)
(***************************************************************************)
EXTENDS TimerTask, TLAPS

Node == Cell \union {head, tail}
From == alloc \union {head}

\* The functions that number the entries in the order of the list.
Ranks == {r \in [Node -> Nat] :
            /\ r[head] = 0
            /\ \A p \in From : r[p] < r[next[p]] /\ r[p] < r[tail]
            /\ \A p, q \in From : r[p] = r[q] => p = q
            /\ \A p, q \in From : r[p] < r[q] => r[next[p]] <= r[q]}

\* The list is one chain from head to tail, whatever was stopped and started.
Chained ==
  /\ alloc \subseteq Cell
  /\ next \in [Cell \union {head} -> Cell \union {tail}]
  /\ \A p \in From : next[p] \in alloc \union {tail}
  /\ \A c \in alloc \union {tail} : \E p \in From : next[p] = c
  /\ \A p, q \in From : next[p] = next[q] => p = q

\* What a scan has still to look at is not behind its cursor.
Ahead(r) ==
  /\ scan = "look" => \A c \in unseen : r[ent] <= r[c]
  /\ scan \in {"args", "reset", "next"} => \A c \in unseen : r[ent] < r[c]

ScanInv ==
  /\ Chained
  /\ scan \in {"sleep", "look", "args", "reset", "next"}
  /\ hit \in BOOLEAN
  /\ ent \in Cell \union {tail}
  /\ scan \in {"args", "reset", "next"} => ent \in Cell
  /\ unseen \subseteq alloc
  /\ hit \/ scan = "sleep" => unseen = {}
  /\ scan = "sleep" => ~hit
  /\ OnTheList
  /\ scan \in {"args", "reset", "next"} /\ ~hit => ent \in alloc
  /\ \E r \in Ranks : Ahead(r)

-----------------------------------------------------------------------------
(***************************************************************************)
(* The arithmetic                                                          *)
(***************************************************************************)
MaxInt == 2147483647

\* An int keeps the numbers of its range.
LEMMA IntKeeps == ASSUME NEW n \in Int, -MaxInt <= n, n <= MaxInt PROVE ToInt(n) = n
<1>1. 0 <= n + 2147483648 /\ n + 2147483648 < 4294967296
  BY SMT DEF MaxInt
<1>2. (n + 2147483648) % 4294967296 = n + 2147483648
  BY <1>1, SMT
<1> QED
  BY <1>2, SMT DEF ToInt

\* and never has another one.
LEMMA IntInRange == ASSUME NEW n \in Int PROVE ToInt(n) \in Int /\ ToInt(n) <= MaxInt
BY SMT DEF ToInt, MaxInt

\* timer_start takes any int of milliseconds that is not negative.  The period
\* is these milliseconds in microseconds up to 2147483 of them, some 35 minutes,
\* and for none beyond.
THEOREM PeriodIsExact ==
  ASSUME NEW msecs \in Nat, msecs <= MaxInt
  PROVE  Period(msecs) = msecs * 1000 <=> msecs <= 2147483
<1>1. (msecs \div 1000) * 1000000 + (msecs % 1000) * 1000 = msecs * 1000
  BY SMT DEF MaxInt
<1>2. Period(msecs) = ToInt(msecs * 1000)
  BY <1>1, SMT DEF Period
<1>3. CASE msecs <= 2147483
  BY <1>2, <1>3, IntKeeps, SMT DEF MaxInt
<1>4. CASE msecs > 2147483
  BY <1>2, <1>4, IntInRange, SMT DEF MaxInt
<1> QED
  BY <1>3, <1>4, SMT DEF MaxInt

\* A timer expires when its milliseconds, and no more than the 10 that are added
\* before, have passed since its start.  The clock must not be set back, and
\* neither the period nor the time since the start exceed what an int holds in
\* microseconds: the scan must come round within 35 minutes.
THEOREM ExpiryIsRight ==
  ASSUME NEW s1 \in Nat, NEW u1 \in Nat, NEW s2 \in Nat, NEW u2 \in Nat,
         s1 <= s2, u1 < 1000000, u2 < 1000000,
         0 <= (s2 - s1) * 1000000 + u2 - u1,
         (s2 - s1) * 1000000 + u2 - u1 <= MaxInt - 10000,
         NEW msecs \in Nat, msecs <= 2147483
  PROVE  Elapsed([sec |-> s1, usec |-> u1], [sec |-> s2, usec |-> u2]) > Period(msecs) <=>
           (s2 - s1) * 1000000 + u2 - u1 > (msecs - 10) * 1000
<1> DEFINE span == (s2 - s1) * 1000000 + u2 - u1
           start == [sec |-> s1, usec |-> u1]
           now == [sec |-> s2, usec |-> u2]
<1>1. Period(msecs) = msecs * 1000
  BY PeriodIsExact, SMT DEF MaxInt
<1>2. Elapsed(start, now) = ToInt(span + 10000)
  <2>1. CASE s2 > s1
    <3>1. (s2 - (s1 + 1)) * 1000000 + (1000000 - u1) + (u2 + 10000) = span + 10000
      BY SMT
    <3> QED
      BY <2>1, <3>1, SMT DEF Elapsed
  <2>2. CASE s2 = s1
    <3>1. (u2 + 10000) - u1 = span + 10000 /\ ~(s2 > s1)
      BY <2>2, SMT
    <3> QED
      BY <3>1, SMT DEF Elapsed
  <2> QED
    BY <2>1, <2>2, SMT
<1>3. span \in Int /\ 0 <= span /\ span + 10000 <= MaxInt
  BY SMT DEF MaxInt
<1> HIDE DEF span
<1>4. ToInt(span + 10000) = span + 10000
  BY <1>3, IntKeeps, SMT DEF MaxInt
<1>5. span + 10000 > msecs * 1000 <=> span > (msecs - 10) * 1000
  BY <1>3, SMT
<1> QED
  BY <1>1, <1>2, <1>4, <1>5, SMT DEF span

-----------------------------------------------------------------------------
(***************************************************************************)
(* The list                                                                *)
(***************************************************************************)
\* Every entry, and tail, has one entry before it.
LEMMA BeforeIs ==
  ASSUME Chained, NEW c \in alloc \union {tail}
  PROVE  /\ Before(c) \in From /\ next[Before(c)] = c
         /\ \A p \in From : next[p] = c => p = Before(c)
<1>1. \E p \in alloc \union {head} : next[p] = c
  BY DEF Chained, From
<1>2. Before(c) \in From /\ next[Before(c)] = c
  BY <1>1 DEF Before, From
<1> QED
  BY <1>2 DEF Chained

\* A new entry goes to the end of the chain, and of every numbering of it.
LEMMA InsertChains ==
  ASSUME Chained, NEW c \in Cell \ alloc, NEW newid, Insert(c, newid)
  PROVE  /\ Chained'
         /\ \A r \in Ranks : \E s \in Ranks' :
              /\ \A n \in Node \ {c, tail} : s[n] = r[n]
              /\ s[c] = r[tail] /\ s[tail] = r[tail] + 1
<1> USE TaskAssumption
<1> DEFINE b == Before(tail)
<1>1. /\ b \in From /\ next[b] = tail
      /\ \A p \in From : next[p] = tail => p = b
  BY BeforeIs
<1>2. /\ alloc' = alloc \union {c} /\ From' = From \union {c}
      /\ next' = [next EXCEPT ![b] = c, ![c] = tail]
  BY DEF Insert, From
<1>3. b # c /\ c \notin From /\ From \subseteq Cell \union {head}
  BY <1>1 DEF From, Chained
<1>4. /\ next'[b] = c /\ next'[c] = tail
      /\ \A p \in From \ {b} : next'[p] = next[p]
      /\ next' \in [Cell \union {head} -> Cell \union {tail}]
  BY <1>1, <1>2, <1>3 DEF Chained
<1>5. \A p \in From \ {b} : next[p] \in alloc
  BY <1>1, <1>3 DEF Chained
<1>6. Chained'
  <2>1. \A p \in From' : next'[p] \in alloc' \union {tail}
    <3> SUFFICES ASSUME NEW p \in From' PROVE next'[p] \in alloc' \union {tail}
      OBVIOUS
    <3>1. CASE p \in From \ {b}
      <4>1. next'[p] \in alloc
        BY <1>4, <1>5, <3>1
      <4> QED
        BY <1>2, <4>1
    <3>2. CASE p = b
      <4>1. next'[p] = c
        BY <1>4, <3>2
      <4> QED
        BY <1>2, <4>1
    <3>4. CASE p = c
      <4>1. next'[p] = tail
        BY <1>4, <3>4
      <4> QED
        BY <4>1
    <3>5. p \in From \ {b} \/ p = b \/ p = c
      BY <1>2
    <3> QED
      BY <3>1, <3>2, <3>4, <3>5
  <2>2. \A d \in alloc' \union {tail} : \E p \in From' : next'[p] = d
    <3> SUFFICES ASSUME NEW d \in alloc' \union {tail} PROVE \E p \in From' : next'[p] = d
      OBVIOUS
    <3>1. CASE d \in {c, tail}
      BY <1>1, <1>2, <1>4, <3>1
    <3>2. CASE d \in alloc
      <4>1. PICK p \in From : next[p] = d
        BY <3>2 DEF Chained
      <4>2. p # b
        BY <1>1, <3>2, <4>1 DEF Chained
      <4> QED
        BY <1>2, <1>4, <4>1, <4>2
    <3> QED
      BY <1>2, <3>1, <3>2
  <2>3. \A p, q \in From' : next'[p] = next'[q] => p = q
    <3> SUFFICES ASSUME NEW p \in From', NEW q \in From', next'[p] = next'[q]
                 PROVE  p = q
      OBVIOUS
    <3>1. \A x \in From \ {b} : next'[x] \in alloc
      BY <1>4, <1>5
    <3>2. c \notin alloc /\ tail \notin alloc
      BY DEF Chained
    <3>3. CASE p \in From \ {b} /\ q \in From \ {b}
      BY <1>4, <3>3 DEF Chained
    <3>4. CASE p = c
      <4>1. next'[q] = tail
        BY <1>4, <3>4
      <4>2. q \notin From \ {b} /\ q # b
        BY <1>4, <3>1, <3>2, <4>1, TaskAssumption DEF Chained
      <4> QED
        BY <1>2, <3>4, <4>2
    <3>5. CASE p = b
      <4>1. next'[q] = c
        BY <1>4, <3>5
      <4>2. q \notin From \ {b} /\ q # c
        BY <1>4, <3>1, <3>2, <4>1, TaskAssumption DEF Chained
      <4> QED
        BY <1>2, <3>5, <4>2
    <3>6. CASE p \in From \ {b}
      <4>1. next'[q] \in alloc
        BY <3>1, <3>6
      <4>2. q # c /\ q # b
        BY <1>4, <3>2, <4>1
      <4> QED
        BY <1>2, <3>3, <3>6, <4>2
    <3> QED
      BY <1>2, <3>4, <3>5, <3>6
  <2> QED
    BY <1>2, <1>4, <2>1, <2>2, <2>3 DEF Chained
<1>7. ASSUME NEW r \in Ranks
      PROVE  \E s \in Ranks' : /\ \A n \in Node \ {c, tail} : s[n] = r[n]
                               /\ s[c] = r[tail] /\ s[tail] = r[tail] + 1
  <2> DEFINE s == [n \in Node |-> IF n = c THEN r[tail]
                                  ELSE IF n = tail THEN r[tail] + 1 ELSE r[n]]
  <2>1. /\ r \in [Node -> Nat] /\ r[head] = 0
        /\ \A p \in From : r[p] < r[next[p]] /\ r[p] < r[tail]
        /\ \A p, q \in From : r[p] = r[q] => p = q
        /\ \A p, q \in From : r[p] < r[q] => r[next[p]] <= r[q]
    BY <1>7 DEF Ranks
  <2>2. From \subseteq Node /\ c \in Node /\ tail \in Node /\ c # tail
        /\ tail \notin From
    BY <1>3 DEF Node, From, Chained
  <2>3. /\ s \in [Node -> Nat] /\ s[c] = r[tail] /\ s[tail] = r[tail] + 1
        /\ \A n \in Node \ {c, tail} : s[n] = r[n]
    BY <2>1, <2>2
  <2>4. \A p \in From : s[p] = r[p] /\ r[p] \in Nat
    BY <1>3, <2>1, <2>2, <2>3
  <2>5. \A p \in From \ {b} : next'[p] = next[p] /\ s[next[p]] = r[next[p]] /\ next[p] \in Node
    <3> SUFFICES ASSUME NEW p \in From \ {b}
                 PROVE  next'[p] = next[p] /\ s[next[p]] = r[next[p]] /\ next[p] \in Node
      OBVIOUS
    <3>1. next[p] \in alloc
      BY <1>5
    <3> QED
      BY <1>4, <2>4, <3>1, <2>2 DEF From
  <2>6. r[tail] \in Nat
    BY <2>1, <2>2
  <2>7. \A p \in From' : s[p] < s[next'[p]] /\ s[p] < s[tail]
    <3> SUFFICES ASSUME NEW p \in From' PROVE s[p] < s[next'[p]] /\ s[p] < s[tail]
      OBVIOUS
    <3>1. CASE p = c
      BY <1>4, <2>3, <2>6, <3>1
    <3>2. CASE p = b
      BY <1>1, <1>4, <2>1, <2>3, <2>4, <2>6, <3>2
    <3>3. CASE p \in From \ {b}
      <4>1. s[next'[p]] = r[next[p]]
        BY <2>5, <3>3
      <4>2. s[p] = r[p] /\ r[p] \in Nat /\ r[p] < r[next[p]] /\ r[p] < r[tail]
        BY <2>1, <2>4, <3>3
      <4> QED
        BY <2>3, <2>6, <4>1, <4>2
    <3> QED
      BY <1>2, <3>1, <3>2, <3>3
  <2>8. \A p, q \in From' : s[p] = s[q] => p = q
    BY <1>2, <2>1, <2>3, <2>4, <2>6
  <2>9. \A p, q \in From' : s[p] < s[q] => s[next'[p]] <= s[q]
    <3> SUFFICES ASSUME NEW p \in From', NEW q \in From', s[p] < s[q]
                 PROVE  s[next'[p]] <= s[q]
      OBVIOUS
    <3>1. p # c
      BY <1>2, <2>1, <2>3, <2>4, <2>6
    <3>2. CASE p = b
      <4>1. q = c
        <5>1. ASSUME q \in From PROVE FALSE
          <6>1. r[next[b]] <= r[q]
            BY <1>1, <2>1, <2>4, <3>2, <5>1
          <6> QED
            BY <1>1, <2>1, <2>4, <2>6, <5>1, <6>1
        <5> QED
          BY <1>2, <5>1
      <4> QED
        BY <1>4, <2>3, <2>6, <3>2, <4>1
    <3>3. CASE p \in From \ {b} /\ q \in From
      BY <2>1, <2>4, <2>5, <3>3
    <3>4. CASE p \in From \ {b} /\ q = c
      <4>1. next[p] \in From
        BY <1>5, <3>4 DEF From
      <4> QED
        BY <2>1, <2>3, <2>4, <2>5, <2>6, <3>4, <4>1
    <3> QED
      BY <1>2, <3>1, <3>2, <3>3, <3>4
  <2>10. s[head] = 0
    BY <1>3, <2>1, <2>3 DEF Node
  <2>11. s \in Ranks'
    BY <2>3, <2>7, <2>8, <2>9, <2>10 DEF Ranks
  <2> QED
    BY <2>3, <2>11
<1> QED
  BY <1>6, <1>7

\* A freed entry is taken out of the chain; every numbering stays one.
LEMMA FreeChains ==
  ASSUME Chained, NEW c \in alloc, Free(c), hit' \in BOOLEAN
  PROVE  /\ Chained'
         /\ Ranks \subseteq Ranks'
         /\ alloc' = alloc \ {c}
         /\ \A p \in From' : next'[p] = IF next[p] = c THEN next[c] ELSE next[p]
<1> USE TaskAssumption
<1> DEFINE b == Before(c)
<1>1. /\ b \in From /\ next[b] = c
      /\ \A p \in From : next[p] = c => p = b
  BY BeforeIs
<1>2. /\ alloc' = alloc \ {c} /\ From' = From \ {c}
      /\ c \in Cell /\ c # head /\ c # tail /\ c \in From
  BY DEF Free, From, Chained
<1>3. /\ next' \in [Cell \union {head} -> Cell \union {tail}]
      /\ \A p \in From' : next'[p] = IF next[p] = c THEN next[c] ELSE next[p]
  <2>1. next' = [next EXCEPT ![b] = next[c], ![c] = IF hit' THEN next[c] ELSE tail]
    BY DEF Free
  <2>2. next[c] \in Cell \union {tail} /\ From \subseteq Cell \union {head}
    BY <1>2 DEF Chained, From
  <2> QED
    BY <1>1, <1>2, <2>1, <2>2 DEF Chained
<1>4. Chained'
  <2>1. \A p \in From' : next'[p] \in alloc' \union {tail}
    <3> SUFFICES ASSUME NEW p \in From' PROVE next'[p] \in alloc' \union {tail}
      OBVIOUS
    <3>1. CASE next[p] # c
      BY <1>2, <1>3, <3>1 DEF Chained
    <3>2. CASE next[p] = c
      <4>1. p = b /\ b # c
        BY <1>1, <1>2, <3>2
      <4>2. next[c] # c
        BY <1>1, <1>2, <4>1
      <4> QED
        BY <1>2, <1>3, <3>2, <4>2 DEF Chained
    <3> QED
      BY <3>1, <3>2
  <2>2. \A d \in alloc' \union {tail} : \E p \in From' : next'[p] = d
    <3> SUFFICES ASSUME NEW d \in alloc' \union {tail} PROVE \E p \in From' : next'[p] = d
      OBVIOUS
    <3>1. d \in alloc \union {tail} /\ d # c
      BY <1>2
    <3>2. PICK p \in From : next[p] = d
      BY <3>1 DEF Chained
    <3>3. CASE p # c
      BY <1>2, <1>3, <3>1, <3>2, <3>3
    <3>4. CASE p = c
      BY <1>1, <1>2, <1>3, <3>1, <3>2, <3>4
    <3> QED
      BY <3>3, <3>4
  <2>3. \A p, q \in From' : next'[p] = next'[q] => p = q
    BY <1>1, <1>2, <1>3 DEF Chained
  <2> QED
    BY <1>2, <1>3, <2>1, <2>2, <2>3 DEF Chained
<1>5. ASSUME NEW r \in Ranks PROVE r \in Ranks'
  <2>1. /\ r \in [Node -> Nat] /\ r[head] = 0
        /\ \A p \in From : r[p] < r[next[p]] /\ r[p] < r[tail]
        /\ \A p, q \in From : r[p] = r[q] => p = q
        /\ \A p, q \in From : r[p] < r[q] => r[next[p]] <= r[q]
    BY <1>5 DEF Ranks
  <2>2. \A p \in From : p \in Node /\ next[p] \in Node /\ r[p] \in Nat /\ r[next[p]] \in Nat
    BY <2>1 DEF From, Node, Chained
  <2>3. tail \in Node /\ r[tail] \in Nat
    BY <2>1 DEF Node
  <2>4. \A p \in From' : r[p] < r[next'[p]] /\ r[p] < r[tail]
    BY <1>2, <1>3, <2>1, <2>2, <2>3
  <2>5. \A p, q \in From' : r[p] < r[q] => r[next'[p]] <= r[q]
    <3> SUFFICES ASSUME NEW p \in From', NEW q \in From', r[p] < r[q]
                 PROVE  r[next'[p]] <= r[q]
      OBVIOUS
    <3>1. CASE next[p] # c
      BY <1>2, <1>3, <2>1, <3>1
    <3>2. CASE next[p] = c
      <4>1. r[c] <= r[q] /\ q # c
        BY <1>2, <2>1, <3>2
      <4>2. r[c] < r[q]
        BY <1>2, <2>1, <2>2, <4>1
      <4> QED
        BY <1>2, <1>3, <2>1, <3>2, <4>2
    <3> QED
      BY <3>1, <3>2
  <2> QED
    BY <1>2, <2>1, <2>4, <2>5 DEF Ranks
<1> QED
  BY <1>2, <1>3, <1>4, <1>5
-----------------------------------------------------------------------------
(***************************************************************************)
(* The scan                                                                *)
(***************************************************************************)
\* Initially the list is empty, and head and tail can be numbered.
LEMMA ScanInit == TaskInit => ScanInv
<1> SUFFICES ASSUME TaskInit PROVE ScanInv
  OBVIOUS
<1> USE TaskAssumption
<1> DEFINE r == [n \in Node |-> IF n = tail THEN 1 ELSE 0]
<1>1. From = {head} /\ next[head] = tail /\ head \in Node /\ tail \in Node
  BY DEF TaskInit, From, Node
<1>2. Chained
  BY <1>1 DEF TaskInit, Chained
<1>3. r \in Ranks
  BY <1>1 DEF Ranks
<1>4. Ahead(r)
  BY DEF TaskInit, Ahead
<1> QED
  BY <1>2, <1>3, <1>4 DEF TaskInit, ScanInv, OnTheList

\* What a numbering says of the entries, as the proofs below use it.
LEMMA RankFacts ==
  ASSUME Chained, NEW r \in Ranks
  PROVE  /\ \A n \in Node : r[n] \in Nat
         /\ r[head] = 0
         /\ From \subseteq Node /\ tail \in Node
         /\ \A p \in From : r[p] < r[next[p]] /\ r[p] < r[tail] /\ next[p] \in Node
         /\ \A p, q \in From : r[p] = r[q] => p = q
         /\ \A p, q \in From : r[p] < r[q] => r[next[p]] <= r[q]
<1>1. From \subseteq Node /\ tail \in Node
  BY DEF Chained, From, Node
<1>2. \A p \in From : next[p] \in Node
  BY DEF Chained, Node
<1> QED
  BY <1>1, <1>2 DEF Ranks

\* A timer is started: it is behind all that is to be looked at.
LEMMA StartKeeps == ScanInv /\ StartTimer => ScanInv'
<1> SUFFICES ASSUME ScanInv, StartTimer PROVE ScanInv'
  OBVIOUS
<1> USE TaskAssumption
<1>1. PICK c \in Cell \ alloc, new \in Id \ Used : Insert(c, new)
  BY DEF StartTimer
<1>2. Chained /\ UNCHANGED <<cursor, traces>>
  BY DEF ScanInv, StartTimer
<1>3. PICK r \in Ranks : Ahead(r)
  BY DEF ScanInv
<1>4. PICK s \in Ranks' : /\ \A n \in Node \ {c, tail} : s[n] = r[n]
                          /\ s[c] = r[tail] /\ s[tail] = r[tail] + 1
  BY <1>1, <1>2, InsertChains
<1>5. Chained' /\ alloc' = alloc \union {c}
  BY <1>1, <1>2, InsertChains DEF Insert
<1>6. unseen \subseteq alloc /\ alloc \subseteq Node \ {c, tail} /\ alloc \subseteq From
  BY DEF ScanInv, Chained, Node, From
<1>7. Ahead(s)'
  <2>1. \A d \in unseen : s[d] = r[d] /\ r[d] \in Nat /\ r[d] < r[tail]
    BY <1>2, <1>3, <1>4, <1>6, RankFacts
  <2>2. scan = "look" => \A d \in unseen : s[ent] <= s[d]
    <3> SUFFICES ASSUME scan = "look", NEW d \in unseen PROVE s[ent] <= s[d]
      OBVIOUS
    <3>1. r[ent] <= r[d] /\ ~hit /\ ent \in alloc \union {tail}
      BY <1>3 DEF Ahead, ScanInv, OnTheList
    <3>2. tail \in Node /\ r[tail] \in Nat
      BY <1>2, <1>3, RankFacts
    <3>3. ent # tail
      BY <2>1, <3>1, <3>2
    <3> QED
      BY <1>4, <1>6, <2>1, <3>1, <3>3
  <2>3. scan \in {"args", "reset", "next"} => \A d \in unseen : s[ent] < s[d]
    <3> SUFFICES ASSUME scan \in {"args", "reset", "next"}, NEW d \in unseen
                 PROVE  s[ent] < s[d]
      OBVIOUS
    <3>1. r[ent] < r[d] /\ ent \in alloc
      BY <1>3 DEF Ahead, ScanInv
    <3> QED
      BY <1>4, <1>6, <2>1, <3>1
  <2> QED
    BY <1>2, <2>2, <2>3 DEF Ahead, cursor, traces
<1> QED
  BY <1>2, <1>4, <1>5, <1>7 DEF ScanInv, OnTheList, cursor, traces

\* A timer is stopped: either it is not the cursor's, or the scan was hit.
LEMMA StopKeeps == ASSUME NEW c \in Cell PROVE ScanInv /\ StopTimer(c) => ScanInv'
<1> SUFFICES ASSUME ScanInv, StopTimer(c) PROVE ScanInv'
  OBVIOUS
<1> USE TaskAssumption
<1>1. /\ c \in alloc /\ Free(c) /\ Chained
      /\ hit' = (hit \/ (scan # "sleep" /\ ent = c)) /\ hit' \in BOOLEAN
      /\ unseen' = IF hit' THEN {} ELSE unseen \ {c}
      /\ UNCHANGED cursor
  BY DEF StopTimer, ScanInv
<1>2. Chained' /\ Ranks \subseteq Ranks' /\ alloc' = alloc \ {c}
  BY <1>1, FreeChains
<1>3. PICK r \in Ranks : Ahead(r)
  BY DEF ScanInv
<1>4. Ahead(r)'
  BY <1>1, <1>3 DEF Ahead, cursor
<1>5. unseen' \subseteq alloc'
  BY <1>1, <1>2 DEF ScanInv
<1>6. OnTheList' /\ (scan' \in {"args", "reset", "next"} /\ ~hit' => ent' \in alloc')
  BY <1>1, <1>2 DEF ScanInv, OnTheList, cursor
<1>7. (hit' \/ scan' = "sleep" => unseen' = {}) /\ (scan' = "sleep" => ~hit')
  BY <1>1 DEF ScanInv, cursor
<1> QED
  BY <1>1, <1>2, <1>3, <1>4, <1>5, <1>6, <1>7 DEF ScanInv, cursor

\* Where the scan goes on to from a running timer.
LEMMA Onward ==
  ASSUME Chained, NEW r \in Ranks, ent \in alloc
  PROVE  /\ next[ent] \in alloc \union {tail}
         /\ \A c \in alloc : r[ent] < r[c] => r[next[ent]] <= r[c]
         /\ \A c \in alloc : r[ent] <= r[c] /\ c # ent => r[ent] < r[c]
<1>1. alloc \subseteq From
  BY DEF From
<1>2. next[ent] \in alloc \union {tail}
  BY <1>1 DEF Chained
<1>3. \A c \in From : r[c] \in Nat
  BY RankFacts
<1> QED
  BY <1>1, <1>2, <1>3, RankFacts

LEMMA BeginKeeps == ScanInv /\ BeginScan => ScanInv'
<1> SUFFICES ASSUME ScanInv, BeginScan PROVE ScanInv'
  OBVIOUS
<1> USE TaskAssumption
<1>1. /\ Chained /\ scan' = "look" /\ ent' = next[head] /\ unseen' = alloc
      /\ ~hit /\ hit' = FALSE /\ UNCHANGED <<alloc, next>>
  BY DEF ScanInv, BeginScan, entries
<1>2. PICK r \in Ranks : Ahead(r)
  BY DEF ScanInv
<1>3. head \in From /\ alloc \subseteq From
  BY DEF From
<1>4. next[head] \in alloc \union {tail}
  BY <1>1, <1>3 DEF Chained
<1>5. \A c \in alloc : r[next[head]] <= r[c]
  <2> SUFFICES ASSUME NEW c \in alloc PROVE r[next[head]] <= r[c]
    OBVIOUS
  <2>1. c # head /\ c \in From
    BY <1>1, <1>3 DEF Chained
  <2>2. r[c] \in Nat /\ r[c] # 0
    BY <1>1, <1>3, <2>1, RankFacts
  <2> QED
    BY <1>1, <1>3, <2>1, <2>2, RankFacts
<1>6. Chained' /\ r \in Ranks'
  BY <1>1 DEF Chained, Ranks, From
<1>7. Ahead(r)'
  BY <1>1, <1>5 DEF Ahead
<1>8. next[head] \in Cell \union {tail} /\ alloc' = alloc
  BY <1>1, <1>4 DEF Chained
<1> QED
  BY <1>1, <1>4, <1>6, <1>7, <1>8 DEF ScanInv, OnTheList

\* The memory of freed entries is not part of the list.
LEMMA SameList ==
  ASSUME Chained, alloc' = alloc, \A p \in From : next'[p] = next[p],
         next' \in [Cell \union {head} -> Cell \union {tail}]
  PROVE  Chained' /\ Ranks' = Ranks
BY DEF Chained, Ranks, From

LEMMA EndKeeps == ScanInv /\ EndScan => ScanInv'
<1> SUFFICES ASSUME ScanInv, EndScan PROVE ScanInv'
  OBVIOUS
<1> USE TaskAssumption
<1>1. /\ Chained /\ scan' = "sleep" /\ ent' = ent /\ unseen' = {} /\ ~hit'
      /\ hit' \in BOOLEAN /\ ent \in Cell \union {tail} /\ alloc' = alloc
  BY DEF ScanInv, EndScan
<1>2. /\ \A p \in From : next'[p] = next[p]
      /\ next' \in [Cell \union {head} -> Cell \union {tail}]
  BY <1>1 DEF EndScan, Chained, From
<1>3. Chained' /\ Ranks' = Ranks
  BY <1>1, <1>2, SameList
<1>4. PICK r \in Ranks : Ahead(r)
  BY DEF ScanInv
<1>5. Ahead(r)'
  BY <1>1 DEF Ahead
<1> QED
  BY <1>1, <1>3, <1>4, <1>5 DEF ScanInv, OnTheList

\* Steps that change neither the list nor what is to be looked at.
LEMMA ListKeeps ==
  ASSUME ScanInv, UNCHANGED <<alloc, next, traces, scan, ent>> PROVE ScanInv'
<1>1. PICK r \in Ranks : Ahead(r)
  BY DEF ScanInv
<1>2. Chained' /\ Ranks' = Ranks
  BY DEF ScanInv, Chained, Ranks, From
<1>3. Ahead(r)'
  BY <1>1 DEF Ahead, traces
<1> QED
  BY <1>1, <1>2, <1>3 DEF ScanInv, OnTheList, traces

LEMMA LookKeeps == ScanInv /\ LookOn => ScanInv'
<1> SUFFICES ASSUME ScanInv, LookOn PROVE ScanInv'
  OBVIOUS
<1> USE TaskAssumption
<1>1. /\ Chained /\ scan = "look" /\ scan' = "look" /\ ent \in alloc /\ ent' = next[ent]
      /\ unseen' = unseen \ {ent} /\ unseen \subseteq alloc
      /\ hit' = hit /\ UNCHANGED <<alloc, next>>
  BY DEF ScanInv, LookOn, Seen, entries
<1>2. PICK r \in Ranks : Ahead(r)
  BY DEF ScanInv
<1>3. \A c \in unseen' : r[next[ent]] <= r[c]
  BY <1>1, <1>2, Onward DEF Ahead
<1>4. Chained' /\ Ranks' = Ranks
  BY <1>1 DEF Chained, Ranks, From
<1>5. Ahead(r)'
  BY <1>1, <1>3 DEF Ahead
<1>6. next[ent] \in alloc \union {tail} /\ alloc \subseteq Cell
  BY <1>1, <1>2, Onward DEF Chained
<1> QED
  BY <1>1, <1>2, <1>4, <1>5, <1>6 DEF ScanInv, OnTheList

LEMMA ExpireKeeps == ScanInv /\ Expire => ScanInv'
<1> SUFFICES ASSUME ScanInv, Expire PROVE ScanInv'
  OBVIOUS
<1> USE TaskAssumption
<1>1. /\ Chained /\ scan = "look" /\ scan' = "look" /\ ent \in alloc /\ ent' = next[ent]
      /\ unseen' = unseen \ {ent} /\ unseen \subseteq alloc
      /\ hit' = hit /\ hit \in BOOLEAN /\ Free(ent)
  BY DEF ScanInv, Expire, Seen
<1>2. PICK r \in Ranks : Ahead(r)
  BY DEF ScanInv
<1>3. \A c \in unseen' : r[next[ent]] <= r[c]
  BY <1>1, <1>2, Onward DEF Ahead
<1>4. Chained' /\ r \in Ranks' /\ alloc' = alloc \ {ent}
  BY <1>1, <1>2, FreeChains
<1>5. Ahead(r)'
  BY <1>1, <1>3 DEF Ahead
<1>6. next[ent] \in alloc' \union {tail} /\ alloc \subseteq Cell
  <2>1. next[ent] \in alloc \union {tail} /\ ent \in From
    BY <1>1, <1>2, Onward DEF From
  <2>2. next[ent] # ent
    BY <1>1, <1>2, <2>1, RankFacts
  <2> QED
    BY <1>1, <1>4, <2>1, <2>2 DEF Chained
<1> QED
  BY <1>1, <1>4, <1>5, <1>6 DEF ScanInv, OnTheList

LEMMA RepeatKeeps == ScanInv /\ ExpireRepeat => ScanInv'
<1> SUFFICES ASSUME ScanInv, ExpireRepeat PROVE ScanInv'
  OBVIOUS
<1> USE TaskAssumption
<1>1. /\ Chained /\ scan = "look" /\ scan' = "args" /\ ent \in alloc /\ ent' = ent
      /\ unseen' = unseen \ {ent} /\ unseen \subseteq alloc
      /\ hit' = hit /\ UNCHANGED <<alloc, next>>
  BY DEF ScanInv, ExpireRepeat, Seen, entries
<1>2. PICK r \in Ranks : Ahead(r)
  BY DEF ScanInv
<1>3. Chained' /\ Ranks' = Ranks
  BY <1>1 DEF Chained, Ranks, From
<1>4. \A c \in unseen' : r[ent] < r[c]
  BY <1>1, <1>2, Onward DEF Ahead
<1>5. Ahead(r)'
  BY <1>1, <1>4 DEF Ahead
<1> QED
  BY <1>1, <1>2, <1>3, <1>5 DEF ScanInv, OnTheList, Chained

\* The cursor is on a freed entry: the scan was hit.
LEMMA FreedKeeps == ScanInv /\ LookAtFreed => ScanInv'
<1> SUFFICES ASSUME ScanInv, LookAtFreed PROVE ScanInv'
  OBVIOUS
<1> USE TaskAssumption
<1>1. /\ Chained /\ scan = "look" /\ ent \in Cell \ alloc /\ hit /\ unseen = {}
      /\ UNCHANGED <<alloc, next, hit, unseen>>
      /\ scan' \in {"look", "args"} /\ ent' \in {ent, next[ent]}
      /\ scan' = "args" => ent' = ent
  BY DEF ScanInv, OnTheList, LookAtFreed, traces, entries
<1>2. next[ent] \in Cell \union {tail}
  BY <1>1 DEF Chained
<1>3. PICK r \in Ranks : Ahead(r)
  BY DEF ScanInv
<1>4. Chained' /\ Ranks' = Ranks
  BY <1>1 DEF Chained, Ranks, From
<1>5. Ahead(r)'
  BY <1>1 DEF Ahead
<1> QED
  BY <1>1, <1>2, <1>3, <1>4, <1>5 DEF ScanInv, OnTheList

LEMMA ResetKeeps == ScanInv /\ (ResetArgs \/ Reset) => ScanInv'
<1> SUFFICES ASSUME ScanInv, ResetArgs \/ Reset PROVE ScanInv'
  OBVIOUS
<1>1. /\ scan \in {"args", "reset", "next"} /\ scan' \in {"args", "reset", "next"}
      /\ UNCHANGED <<alloc, next, ent, hit, unseen>>
  BY DEF ResetArgs, Reset, traces, entries
<1>2. PICK r \in Ranks : Ahead(r)
  BY DEF ScanInv
<1>3. Chained' /\ Ranks' = Ranks
  BY <1>1 DEF ScanInv, Chained, Ranks, From
<1>4. Ahead(r)'
  BY <1>1, <1>2 DEF Ahead
<1> QED
  BY <1>1, <1>2, <1>3, <1>4 DEF ScanInv, OnTheList

LEMMA NextKeeps == ScanInv /\ ResetNext => ScanInv'
<1> SUFFICES ASSUME ScanInv, ResetNext PROVE ScanInv'
  OBVIOUS
<1> USE TaskAssumption
<1>1. /\ Chained /\ scan = "next" /\ scan' = "look" /\ ent \in Cell /\ ent' = next[ent]
      /\ UNCHANGED <<alloc, next, hit, unseen>> /\ unseen \subseteq alloc
  BY DEF ScanInv, ResetNext, entries, traces
<1>2. PICK r \in Ranks : Ahead(r)
  BY DEF ScanInv
<1>3. Chained' /\ Ranks' = Ranks
  BY <1>1 DEF Chained, Ranks, From
<1>4. next[ent] \in Cell \union {tail}
  BY <1>1 DEF Chained
<1>5. CASE hit
  <2>1. unseen = {}
    BY <1>5 DEF ScanInv
  <2>2. Ahead(r)'
    BY <1>1, <2>1 DEF Ahead
  <2> QED
    BY <1>1, <1>2, <1>3, <1>4, <1>5, <2>1, <2>2 DEF ScanInv, OnTheList
<1>6. CASE ~hit
  <2>1. ent \in alloc
    BY <1>1, <1>6 DEF ScanInv
  <2>2. next[ent] \in alloc \union {tail}
    BY <1>1, <1>2, <2>1, Onward
  <2>3. \A c \in unseen : r[next[ent]] <= r[c]
    BY <1>1, <1>2, <2>1, Onward DEF Ahead
  <2>4. Ahead(r)'
    BY <1>1, <2>3 DEF Ahead
  <2> QED
    BY <1>1, <1>2, <1>3, <1>4, <1>6, <2>2, <2>4 DEF ScanInv, OnTheList
<1> QED
  BY <1>5, <1>6 DEF ScanInv

LEMMA ScanStep == ScanInv /\ [TaskNext]_all => ScanInv'
<1> SUFFICES ASSUME ScanInv, [TaskNext]_all PROVE ScanInv'
  OBVIOUS
<1>1. CASE UNCHANGED all
  BY <1>1, ListKeeps DEF all, entries, cursor
<1>2. ASSUME NEW c \in Cell, Elapse(c) PROVE ScanInv'
  BY <1>2, ListKeeps DEF Elapse, cursor
<1>3. ASSUME NEW c \in Cell, StopTimer(c) PROVE ScanInv'
  BY <1>3, StopKeeps
<1>4. CASE Scan
  BY <1>4, BeginKeeps, EndKeeps, LookKeeps, ExpireKeeps, RepeatKeeps, FreedKeeps,
     ResetKeeps, NextKeeps DEF Scan
<1> QED
  BY <1>1, <1>2, <1>3, <1>4, StartKeeps DEF TaskNext

LEMMA ScanInvariant == TaskSafety => []ScanInv
BY ScanInit, ScanStep, PTL DEF TaskSafety

\* For any number of timers: only a stop of the entry at the cursor takes the
\* cursor off the list.
THEOREM CursorStaysOnList == TaskSafety => []OnTheList
<1>1. ScanInv => OnTheList
  BY DEF ScanInv
<1> QED
  BY <1>1, ScanInvariant, PTL

\* For any number of timers: at the end of a scan nothing is left to look at.
THEOREM ScanMissesNone == TaskSafety => []LooksAtAll
<1>1. ScanInv => LooksAtAll
  <2> SUFFICES ASSUME ScanInv, scan = "look", ent = tail, NEW c \in unseen PROVE FALSE
    BY DEF LooksAtAll
  <2>1. PICK r \in Ranks : Ahead(r)
    BY DEF ScanInv
  <2>2. c \in From /\ Chained
    BY DEF ScanInv, From
  <2>3. r[c] < r[tail] /\ r[c] \in Nat /\ r[tail] \in Nat
    BY <2>1, <2>2, RankFacts
  <2>4. r[tail] <= r[c]
    BY <2>1 DEF Ahead
  <2> QED
    BY <2>3, <2>4
<1> QED
  BY <1>1, ScanInvariant, PTL
=============================================================================
