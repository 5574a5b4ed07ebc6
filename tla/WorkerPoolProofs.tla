-------------------------- MODULE WorkerPoolProofs --------------------------
(***************************************************************************)
(* Proofs about WorkerPool for every number of tasks, loops, signals,      *)
(* attempts and faults.  The queue part of the invariant depends on four   *)
(* variables only, so it is carried through the few steps that touch them; *)
(* the leases and the shutdown are carried through every action.           *)
(***************************************************************************)
EXTENDS WorkerPool, FiniteSetTheorems, SequenceTheorems, TLAPS

-----------------------------------------------------------------------------
(* Sequences without duplicates.                                            *)

Distinct(q) == \A i, k \in DOMAIN q : i # k => q[i] # q[k]
Has(q, t) == \E i \in DOMAIN q : q[i] = t

(* The first element leaves.                                                *)
LEMMA FirstLeaves ==
  ASSUME NEW S, NEW q \in Seq(S), Len(q) > 0, Distinct(q)
  PROVE  LET r == RemoveAt(q, 1)
         IN /\ r \in Seq(S) /\ Len(r) = Len(q) - 1
            /\ \A i \in 1..Len(r) : r[i] = q[i + 1]
            /\ Distinct(r)
            /\ \A t \in S : Has(r, t) <=> Has(q, t) /\ t # q[1]
<1> DEFINE r == SubSeq(q, 2, Len(q))
<1>1. Len(q) \in Nat \ {0} /\ DOMAIN q = 1..Len(q) /\ \A i \in 1..Len(q) : q[i] \in S
  OBVIOUS
<1>2. SubSeq(q, 1, 0) = << >>
  BY SubSeqEmpty
<1>3. /\ r \in Seq(S) /\ Len(r) = Len(q) - 1 /\ DOMAIN r = 1..(Len(q) - 1)
      /\ \A i \in 1..(Len(q) - 1) : r[i] = q[i + 1]
  BY <1>1, SubSeqProperties
<1>4. RemoveAt(q, 1) = r
  BY <1>2, <1>3, ConcatEmptySeq DEF RemoveAt
<1> HIDE DEF r
<1>5. Distinct(r)
  BY <1>1, <1>3 DEF Distinct
<1>6. ASSUME NEW t \in S PROVE Has(r, t) <=> Has(q, t) /\ t # q[1]
  <2>1. ASSUME Has(r, t) PROVE Has(q, t) /\ t # q[1]
    <3>1. PICK i \in 1..(Len(q) - 1) : r[i] = t
      BY <1>3, <2>1 DEF Has
    <3>2. i + 1 \in DOMAIN q /\ 1 \in DOMAIN q /\ q[i + 1] = t /\ i + 1 # 1
      BY <1>1, <1>3, <3>1
    <3> QED BY <3>2 DEF Has, Distinct
  <2>2. ASSUME Has(q, t), t # q[1] PROVE Has(r, t)
    <3>1. PICK i \in 1..Len(q) : q[i] = t
      BY <1>1, <2>2 DEF Has
    <3>2. i - 1 \in 1..(Len(q) - 1) /\ r[i - 1] = q[(i - 1) + 1] /\ (i - 1) + 1 = i
      BY <1>1, <1>3, <2>2, <3>1
    <3> QED BY <1>3, <3>1, <3>2 DEF Has
  <2> QED BY <2>1, <2>2
<1> QED BY <1>3, <1>4, <1>5, <1>6

(* New elements come in together behind the first k.                        *)
LEMMA OthersComeIn ==
  ASSUME NEW S, NEW q \in Seq(S), NEW m \in Seq(S), NEW k \in 0..Len(q),
         Distinct(q), Distinct(m), \A t \in S : Has(m, t) => ~Has(q, t)
  PROVE  LET r == SubSeq(q, 1, k) \o m \o SubSeq(q, k + 1, Len(q))
         IN /\ r \in Seq(S) /\ Len(r) = Len(q) + Len(m)
            /\ \A i \in 1..k : r[i] = q[i]
            /\ \A i \in 1..Len(m) : r[k + i] = m[i]
            /\ Distinct(r)
            /\ \A t \in S : Has(r, t) <=> Has(q, t) \/ Has(m, t)
<1> DEFINE front == SubSeq(q, 1, k)
           back == SubSeq(q, k + 1, Len(q))
           r == front \o m \o back
<1>1. /\ Len(q) \in Nat /\ DOMAIN q = 1..Len(q) /\ \A i \in 1..Len(q) : q[i] \in S
      /\ Len(m) \in Nat /\ DOMAIN m = 1..Len(m) /\ \A i \in 1..Len(m) : m[i] \in S
      /\ k \in Nat /\ k <= Len(q)
  OBVIOUS
<1>2. front \in Seq(S) /\ Len(front) = k /\ \A i \in 1..k : front[i] = q[i]
  BY <1>1, SubSeqProperties
<1>3. back \in Seq(S) /\ Len(back) = Len(q) - k /\ \A i \in 1..(Len(q) - k) : back[i] = q[k + i]
  <2>1. \A i \in (k + 1)..Len(q) : q[i] \in S
    BY <1>1
  <2>2. /\ back \in Seq(S)
        /\ Len(back) = IF k + 1 <= Len(q) THEN Len(q) - (k + 1) + 1 ELSE 0
        /\ \A i \in 1..(Len(q) - (k + 1) + 1) : back[i] = q[(k + 1) + i - 1]
    BY <1>1, <2>1, SubSeqProperties
  <2> HIDE DEF back
  <2>3. Len(back) = Len(q) - k /\ Len(q) - (k + 1) + 1 = Len(q) - k
    <3>1. \A n, j \in Nat : j <= n =>
            (IF j + 1 <= n THEN n - (j + 1) + 1 ELSE 0) = n - j /\ n - (j + 1) + 1 = n - j
      OBVIOUS
    <3> QED BY <1>1, <2>2, <3>1, Zenon
  <2>4. \A i \in 1..(Len(q) - k) : (k + 1) + i - 1 = k + i
    BY <1>1
  <2> QED BY <2>2, <2>3, <2>4
<1> HIDE DEF front, back
<1>4. /\ front \o m \in Seq(S) /\ Len(front \o m) = k + Len(m)
      /\ \A i \in 1..(k + Len(m)) : (front \o m)[i] = IF i <= k THEN front[i] ELSE m[i - k]
  BY <1>1, <1>2, ConcatProperties
<1>5. /\ r \in Seq(S) /\ Len(r) = Len(q) + Len(m) /\ DOMAIN r = 1..(Len(q) + Len(m))
      /\ \A i \in 1..(Len(q) + Len(m)) :
           r[i] = IF i <= k + Len(m) THEN (front \o m)[i] ELSE back[i - (k + Len(m))]
  <2>1. /\ r \in Seq(S) /\ Len(r) = (k + Len(m)) + (Len(q) - k)
        /\ \A i \in 1..((k + Len(m)) + (Len(q) - k)) :
             r[i] = IF i <= k + Len(m) THEN (front \o m)[i] ELSE back[i - (k + Len(m))]
    <3> DEFINE fm == front \o m
    <3> HIDE DEF fm
    <3>1. fm \in Seq(S) /\ Len(fm) = k + Len(m)
      BY <1>4 DEF fm
    <3>2. /\ fm \o back \in Seq(S) /\ Len(fm \o back) = Len(fm) + Len(back)
          /\ \A i \in 1..(Len(fm) + Len(back)) :
               (fm \o back)[i] = IF i <= Len(fm) THEN fm[i] ELSE back[i - Len(fm)]
      BY <1>3, <3>1, ConcatProperties
    <3> QED BY <1>3, <3>1, <3>2 DEF fm
  <2>2. (k + Len(m)) + (Len(q) - k) = Len(q) + Len(m)
    BY <1>1
  <2> QED BY <2>1, <2>2, LenProperties
<1> HIDE DEF r
<1>6. ASSUME NEW i \in 1..k PROVE i \in DOMAIN r /\ r[i] = q[i]
  BY <1>1, <1>2, <1>4, <1>5
<1>7. ASSUME NEW i \in 1..Len(m) PROVE k + i \in DOMAIN r /\ r[k + i] = m[i]
  <2>1. k + i \in 1..(k + Len(m)) /\ ~(k + i <= k) /\ (k + i) - k = i
    BY <1>1
  <2>2. k + i \in 1..(Len(q) + Len(m)) /\ k + i <= k + Len(m)
    BY <1>1
  <2> QED BY <1>4, <1>5, <2>1, <2>2
<1>8. ASSUME NEW i \in (k + 1)..Len(q) PROVE i + Len(m) \in DOMAIN r /\ r[i + Len(m)] = q[i]
  <2>1. /\ i + Len(m) \in 1..(Len(q) + Len(m)) /\ ~(i + Len(m) <= k + Len(m))
        /\ i - k \in 1..(Len(q) - k) /\ (i + Len(m)) - (k + Len(m)) = i - k /\ k + (i - k) = i
    BY <1>1
  <2> QED BY <1>3, <1>5, <2>1
<1>9. ASSUME NEW i \in DOMAIN r
      PROVE  \/ i \in 1..k
             \/ \E j \in 1..Len(m) : i = k + j
             \/ \E j \in (k + 1)..Len(q) : i = j + Len(m)
  <2>1. CASE i <= k
    BY <1>1, <1>5, <2>1
  <2>2. CASE k < i /\ i <= k + Len(m)
    <3>1. i - k \in 1..Len(m) /\ i = k + (i - k)
      BY <1>1, <1>5, <2>2
    <3> QED BY <3>1
  <2>3. CASE k + Len(m) < i
    <3>1. i - Len(m) \in (k + 1)..Len(q) /\ i = (i - Len(m)) + Len(m)
      BY <1>1, <1>5, <2>3
    <3> QED BY <3>1
  <2> QED BY <1>1, <1>5, <2>1, <2>2, <2>3
<1>10. \A i \in DOMAIN m, j \in DOMAIN q : m[i] # q[j]
  BY <1>1 DEF Has
<1>11. Distinct(r)
  <2> SUFFICES ASSUME NEW i \in DOMAIN r, NEW j \in DOMAIN r, i # j PROVE r[i] # r[j]
    BY DEF Distinct
  <2>1. \A a, b \in 1..k : a # b => r[a] # r[b]
    BY <1>1, <1>6 DEF Distinct
  <2>2. \A a \in 1..k, b \in 1..Len(m) : r[a] # r[k + b]
    BY <1>1, <1>6, <1>7, <1>10
  <2>3. \A a \in 1..k, b \in (k + 1)..Len(q) : r[a] # r[b + Len(m)]
    BY <1>1, <1>6, <1>8 DEF Distinct
  <2>4. \A a, b \in 1..Len(m) : a # b => r[k + a] # r[k + b]
    BY <1>1, <1>7 DEF Distinct
  <2>5. \A a \in 1..Len(m), b \in (k + 1)..Len(q) : r[k + a] # r[b + Len(m)]
    <3> SUFFICES ASSUME NEW a \in 1..Len(m), NEW b \in (k + 1)..Len(q)
                 PROVE  r[k + a] # r[b + Len(m)]
      OBVIOUS
    <3>1. a \in DOMAIN m /\ b \in DOMAIN q
      BY <1>1
    <3> QED BY <1>7, <1>8, <1>10, <3>1
  <2>6. \A a, b \in (k + 1)..Len(q) : a # b => r[a + Len(m)] # r[b + Len(m)]
    BY <1>1, <1>8 DEF Distinct
  <2>7. CASE i \in 1..k
    BY <1>9, <2>1, <2>2, <2>3, <2>7, Zenon
  <2>8. ASSUME NEW a \in 1..Len(m), i = k + a PROVE r[i] # r[j]
    BY <1>9, <2>2, <2>4, <2>5, <2>8, Zenon
  <2>9. ASSUME NEW a \in (k + 1)..Len(q), i = a + Len(m) PROVE r[i] # r[j]
    BY <1>9, <2>3, <2>5, <2>6, <2>9, Zenon
  <2> QED BY <1>9, <2>7, <2>8, <2>9, Zenon
<1>12. ASSUME NEW t \in S PROVE Has(r, t) <=> Has(q, t) \/ Has(m, t)
  <2>1. ASSUME Has(r, t) PROVE Has(q, t) \/ Has(m, t)
    <3>1. PICK i \in DOMAIN r : r[i] = t
      BY <2>1 DEF Has
    <3>2. CASE i \in 1..k
      BY <1>1, <1>6, <3>1, <3>2 DEF Has
    <3>3. ASSUME NEW a \in 1..Len(m), i = k + a PROVE Has(m, t)
      BY <1>1, <1>7, <3>1, <3>3 DEF Has
    <3>4. ASSUME NEW a \in (k + 1)..Len(q), i = a + Len(m) PROVE Has(q, t)
      <4>1. a \in DOMAIN q /\ q[a] = t
        BY <1>1, <1>8, <3>1, <3>4
      <4> QED BY <4>1 DEF Has
    <3> QED BY <1>9, <3>2, <3>3, <3>4, Zenon
  <2>2. ASSUME Has(q, t) PROVE Has(r, t)
    <3>1. PICK i \in 1..Len(q) : q[i] = t
      BY <1>1, <2>2 DEF Has
    <3>2. i \in 1..k \/ i \in (k + 1)..Len(q)
      BY <1>1
    <3> QED BY <1>6, <1>8, <3>1, <3>2 DEF Has
  <2>3. ASSUME Has(m, t) PROVE Has(r, t)
    BY <1>1, <1>7, <2>3 DEF Has
  <2> QED BY <2>1, <2>2, <2>3
<1> QED BY <1>5, <1>6, <1>7, <1>11, <1>12 DEF r, front, back

-----------------------------------------------------------------------------
(* The queue.                                                               *)

LEMMA OrderedById ==
  ASSUME NEW S \in SUBSET Tasks, NEW s \in ById(S)
  PROVE  /\ s \in Seq(Tasks) /\ Len(s) = Cardinality(S) /\ Distinct(s)
         /\ \A t \in Tasks : Has(s, t) <=> t \in S
<1>1. Cardinality(S) \in Nat
  BY PoolAssumption, FS_Subset, FS_CardinalityType
<1>2. /\ s \in [1..Cardinality(S) -> S] /\ Range(s) = S
      /\ \A i, k \in DOMAIN s : i < k => s[i] < s[k]
  BY DEF ById
<1>3. s \in Seq(Tasks) /\ Len(s) = Cardinality(S) /\ DOMAIN s = 1..Cardinality(S)
  BY <1>1, <1>2
<1>4. Distinct(s)
  <2>1. \A i \in DOMAIN s : s[i] \in Nat
    BY <1>2, PoolAssumption
  <2>2. \A i, k \in DOMAIN s : i # k => i < k \/ k < i
    BY <1>1, <1>3
  <2> QED BY <1>2, <2>1, <2>2 DEF Distinct
<1>5. \A t \in Tasks : Has(s, t) <=> t \in S
  BY <1>2 DEF Has, Range
<1> QED BY <1>3, <1>4, <1>5

(* What the queue part of the invariant is about.                           *)
QueueInv == /\ status \in [Tasks -> {"PENDING", "IN_FLIGHT", "SUCCEEDED", "FAILED"}]
            /\ overtook \in [Tasks -> SUBSET Tasks]
            /\ QueueIsPending /\ OvertakenOnce
queueVars == <<status, queue, ready, overtook>>

LEMMA QueueFacts ==
  ASSUME QueueInv
  PROVE  /\ queue \in Seq(Tasks) /\ Len(queue) \in Nat /\ ready \in 0..Len(queue)
         /\ DOMAIN queue = 1..Len(queue) /\ Distinct(queue)
         /\ \A t \in Tasks : status[t] = "PENDING" <=> Has(queue, t)
         /\ \A i \in 1..ready : queue[i] \in Due /\ queue[i] \in Tasks
         /\ \A t \in Due : \E i \in 1..ready : queue[i] = t
<1>1. queue \in Seq(Tasks) /\ ready \in 0..Len(queue)
  BY DEF QueueInv, QueueIsPending
<1>2. Len(queue) \in Nat /\ DOMAIN queue = 1..Len(queue) /\ \A i \in 1..Len(queue) : queue[i] \in Tasks
  BY <1>1
<1>3. Distinct(queue) /\ \A t \in Tasks : status[t] = "PENDING" <=> Has(queue, t)
  BY DEF QueueInv, QueueIsPending, Distinct, Has
<1> QED BY <1>1, <1>2, <1>3 DEF Due

LEMMA ClaimKeepsQueue ==
  ASSUME QueueInv, NEW w \in Workers, ClaimTask(w)
  PROVE  /\ QueueInv'
         /\ queue[1] \in Due /\ queue[1] \in Tasks /\ status[queue[1]] = "PENDING"
<1> DEFINE t == queue[1]
<1> USE QueueFacts
<1>1. /\ ready > 0 /\ queue' = RemoveAt(queue, 1) /\ ready' = ready - 1
      /\ status' = [status EXCEPT ![t] = "IN_FLIGHT"]
      /\ overtook' = [u \in Tasks |-> IF u \in Due \ {t} THEN overtook[u] \cup {t} ELSE {}]
  BY DEF ClaimTask, NextDue
<1>2. t \in Due /\ t \in Tasks /\ Has(queue, t) /\ Len(queue) > 0
  BY <1>1 DEF Has
<1>3. /\ queue' \in Seq(Tasks) /\ Len(queue') = Len(queue) - 1
      /\ \A i \in 1..Len(queue') : queue'[i] = queue[i + 1]
      /\ Distinct(queue')
      /\ \A u \in Tasks : Has(queue', u) <=> Has(queue, u) /\ u # t
  BY <1>1, <1>2, FirstLeaves
<1> HIDE DEF t
<1>4. status' \in [Tasks -> {"PENDING", "IN_FLIGHT", "SUCCEEDED", "FAILED"}]
      /\ overtook' \in [Tasks -> SUBSET Tasks]
  BY <1>1, <1>2 DEF QueueInv
<1>5. QueueIsPending'
  <2>1. \A u \in Tasks : status'[u] = "PENDING" <=> Has(queue', u)
    BY <1>1, <1>2, <1>3 DEF QueueInv
  <2>2. ready' \in 0..Len(queue')
    BY <1>1, <1>3
  <2> QED BY <1>3, <2>1, <2>2 DEF QueueIsPending, Distinct, Has
<1>6. \A i \in 1..ready' : /\ i + 1 \in 1..ready /\ queue'[i] = queue[i + 1]
                           /\ queue'[i] \in Due /\ queue'[i] # t /\ queue'[i] \in Tasks
  <2> SUFFICES ASSUME NEW i \in 1..ready'
               PROVE  /\ i + 1 \in 1..ready /\ queue'[i] = queue[i + 1]
                      /\ queue'[i] \in Due /\ queue'[i] # t /\ queue'[i] \in Tasks
    OBVIOUS
  <2>1. i + 1 \in 1..ready /\ i + 1 \in DOMAIN queue /\ 1 \in DOMAIN queue /\ i + 1 # 1
        /\ i \in 1..Len(queue')
    BY <1>1, <1>3
  <2> QED BY <1>3, <2>1 DEF Distinct, t
<1>7. \A u \in Due \ {t} : \E i \in 1..ready' : queue'[i] = u
  <2> SUFFICES ASSUME NEW u \in Due, u # t PROVE \E i \in 1..ready' : queue'[i] = u
    OBVIOUS
  <2>1. PICK i \in 1..ready : queue[i] = u
    OBVIOUS
  <2>2. i - 1 \in 1..ready' /\ i - 1 \in 1..Len(queue') /\ (i - 1) + 1 = i
    BY <1>1, <1>3, <2>1 DEF t
  <2> QED BY <1>3, <2>1, <2>2
<1>8. OvertakenOnce'
  <2>1. \A u \in Tasks \ Due' : overtook'[u] = {}
    BY <1>1, <1>7 DEF Due
  <2>2. ASSUME NEW i \in 1..ready', NEW k \in 1..i PROVE queue'[k] \notin overtook'[queue'[i]]
    <3>1. k \in 1..ready' /\ k + 1 \in 1..(i + 1)
      BY <1>1
    <3>2. overtook'[queue'[i]] = overtook[queue[i + 1]] \cup {t}
      BY <1>1, <1>6
    <3>3. queue[k + 1] \notin overtook[queue[i + 1]]
      BY <1>6, <3>1 DEF QueueInv, OvertakenOnce
    <3> QED BY <1>6, <3>1, <3>2, <3>3
  <2> QED BY <2>1, <2>2 DEF OvertakenOnce
<1> QED BY <1>2, <1>4, <1>5, <1>8 DEF QueueInv, t

(* Elements that come in behind the due ones, due or not, leave the order   *)
(* of those in front as it was.                                             *)
ComeIn(k, m) ==
  /\ queue' = SubSeq(queue, 1, k) \o m \o SubSeq(queue, k + 1, Len(queue))
  /\ \/ ready' = ready
     \/ k = ready /\ ready' = ready + Len(m)

LEMMA ComingInKeepsQueue ==
  ASSUME QueueInv, NEW k \in ready..Len(queue), NEW come \in SUBSET Tasks,
         NEW m \in Seq(Tasks), Distinct(m), \A t \in Tasks : Has(m, t) <=> t \in come,
         \A t \in come : status[t] # "PENDING",
         ComeIn(k, m),
         status' \in [Tasks -> {"PENDING", "IN_FLIGHT", "SUCCEEDED", "FAILED"}],
         \A t \in Tasks : status'[t] = "PENDING" <=> status[t] = "PENDING" \/ t \in come,
         overtook' = overtook
  PROVE  QueueInv'
<1>1. /\ k \in 0..Len(queue) /\ ready <= k /\ Len(m) \in Nat /\ ready \in Nat
      /\ Len(queue) \in Nat
      /\ ready' = ready \/ (k = ready /\ ready' = ready + Len(m))
  BY QueueFacts DEF ComeIn
<1>2. /\ queue' \in Seq(Tasks) /\ Len(queue') = Len(queue) + Len(m)
      /\ \A i \in 1..k : queue'[i] = queue[i]
      /\ \A i \in 1..Len(m) : queue'[k + i] = m[i]
      /\ Distinct(queue')
      /\ \A t \in Tasks : Has(queue', t) <=> Has(queue, t) \/ Has(m, t)
  <2>1. \A t \in Tasks : Has(m, t) => ~Has(queue, t)
    BY QueueFacts
  <2>2. queue \in Seq(Tasks) /\ Distinct(queue)
    BY QueueFacts
  <2> DEFINE r == SubSeq(queue, 1, k) \o m \o SubSeq(queue, k + 1, Len(queue))
  <2>3. /\ r \in Seq(Tasks) /\ Len(r) = Len(queue) + Len(m)
        /\ \A i \in 1..k : r[i] = queue[i]
        /\ \A i \in 1..Len(m) : r[k + i] = m[i]
        /\ Distinct(r)
        /\ \A t \in Tasks : Has(r, t) <=> Has(queue, t) \/ Has(m, t)
    BY <1>1, <2>1, <2>2, OthersComeIn, Zenon
  <2>4. queue' = r
    BY DEF ComeIn
  <2> HIDE DEF r
  <2> QED BY <2>3, <2>4
<1>3. QueueIsPending'
  <2>1. ready' \in 0..Len(queue')
    <3>1. CASE ready' = ready
      BY <1>1, <1>2, <3>1
    <3>2. CASE k = ready /\ ready' = ready + Len(m)
      BY <1>1, <1>2, <3>2
    <3> QED BY <1>1, <3>1, <3>2
  <2>2. \A t \in Tasks : status'[t] = "PENDING" <=> Has(queue', t)
    BY <1>2, QueueFacts
  <2> QED BY <1>2, <2>1, <2>2 DEF QueueIsPending, Distinct, Has
<1>4. \A i \in 1..ready : queue'[i] = queue[i]
  <2>1. \A i \in 1..ready : i \in 1..k
    BY <1>1
  <2> QED BY <1>2, <2>1
<1>5. ASSUME NEW i \in 1..ready', i \notin 1..ready
      PROVE  queue'[i] \in Tasks /\ overtook[queue'[i]] = {}
  <2>1. k = ready /\ i - ready \in 1..Len(m) /\ i = k + (i - ready)
    <3>1. CASE ready' = ready
      BY <1>1, <1>5, <3>1
    <3>2. CASE k = ready /\ ready' = ready + Len(m)
      BY <1>1, <1>5, <3>2
    <3> QED BY <1>1, <3>1, <3>2
  <2> DEFINE j == i - ready
  <2> HIDE DEF j
  <2>2. j \in 1..Len(m) /\ queue'[i] = m[j] /\ j \in DOMAIN m /\ m[j] \in Tasks
    BY <1>2, <2>1 DEF j
  <2>3. queue'[i] \in come /\ queue'[i] \in Tasks
    BY <2>2 DEF Has
  <2>4. queue'[i] \notin Due
    <3>1. \A t \in Due : Has(queue, t)
      <4>1. 1..ready \subseteq DOMAIN queue
        BY <1>1, QueueFacts
      <4> QED BY <4>1 DEF Has, Due
    <3> QED BY <2>3, <3>1, QueueFacts
  <2> QED BY <2>3, <2>4 DEF QueueInv, OvertakenOnce
<1>6. \A t \in Tasks \ Due' : overtook'[t] = {}
  <2>1. ready <= ready'
    BY <1>1
  <2>2. Due \subseteq Due'
    <3> SUFFICES ASSUME NEW t \in Due PROVE t \in Due'
      OBVIOUS
    <3>1. PICK i \in 1..ready : queue[i] = t
      BY QueueFacts
    <3>2. i \in 1..ready' /\ queue'[i] = t
      BY <1>1, <1>2, <1>4, <2>1, <3>1
    <3> QED BY <3>2 DEF Due
  <2> QED BY <2>2 DEF QueueInv, OvertakenOnce
<1>7. ASSUME NEW i \in 1..ready', NEW l \in 1..i PROVE queue'[l] \notin overtook'[queue'[i]]
  <2>1. CASE i \in 1..ready
    <3>1. l \in 1..ready
      BY <1>1, <2>1
    <3> QED BY <1>4, <2>1, <3>1 DEF QueueInv, OvertakenOnce
  <2>2. CASE i \notin 1..ready
    BY <1>5, <2>2
  <2> QED BY <2>1, <2>2
<1> QED BY <1>3, <1>6, <1>7 DEF QueueInv, OvertakenOnce

LEMMA BecomingDueKeepsQueue ==
  ASSUME QueueInv, RetryBecomesDue PROVE QueueInv'
<1> USE QueueFacts
<1>1. /\ ready < Len(queue) /\ ready' = ready + 1 /\ queue' = queue /\ status' = status
      /\ overtook' = overtook
  BY DEF RetryBecomesDue, rows, history
<1>2. queue[ready + 1] \in Tasks /\ queue[ready + 1] \notin Due
  <2>1. ready + 1 \in DOMAIN queue /\ \A i \in 1..ready : i \in DOMAIN queue /\ i # ready + 1
    BY <1>1
  <2> QED BY <2>1 DEF Distinct
<1>3. QueueIsPending'
  BY <1>1 DEF QueueInv, QueueIsPending
<1>4. Due \subseteq Due'
  BY <1>1 DEF Due
<1>5. ASSUME NEW i \in 1..ready', NEW l \in 1..i PROVE queue'[l] \notin overtook'[queue'[i]]
  <2>1. CASE i \in 1..ready
    BY <1>1, <2>1 DEF QueueInv, OvertakenOnce
  <2>2. CASE i = ready + 1
    BY <1>1, <1>2, <2>2 DEF QueueInv, OvertakenOnce
  <2> QED BY <1>1, <2>1, <2>2
<1> QED BY <1>1, <1>3, <1>4, <1>5 DEF QueueInv, OvertakenOnce

LEMMA SavingKeepsQueue ==
  ASSUME QueueInv, NEW w \in Workers, held[w] \in Tasks, Saved(w),
         pc[w] \in {"saving", "failing", "retrying"}, overtook' = overtook
  PROVE  QueueInv'
<1> DEFINE t == held[w]
<1>1. t \in Tasks /\ status[t] = "IN_FLIGHT"
  BY DEF Saved, HoldsLease
<1>2. CASE pc[w] # "retrying"
  <2>1. queue' = queue /\ ready' = ready
    BY <1>2 DEF Saved
  <2>2. \E s \in {"SUCCEEDED", "FAILED"} : status' = [status EXCEPT ![t] = s]
    BY <1>2 DEF Saved
  <2>3. status' \in [Tasks -> {"PENDING", "IN_FLIGHT", "SUCCEEDED", "FAILED"}]
        /\ \A u \in Tasks : status'[u] = "PENDING" <=> status[u] = "PENDING"
    BY <1>1, <2>2 DEF QueueInv
  <2> QED BY <2>1, <2>3 DEF QueueInv, QueueIsPending, OvertakenOnce, Due
<1>3. CASE pc[w] = "retrying"
  <2>1. status' = [status EXCEPT ![t] = "PENDING"] /\ ready' = ready
    BY <1>3 DEF Saved, Requeue
  <2>2. PICK i \in ready + 1..Len(queue) + 1 : queue' = InsertAt(queue, i, t)
    BY <1>3 DEF Saved, Requeue
  <2>3. i - 1 \in ready..Len(queue) /\ (i - 1) + 1 = i
    BY <2>2, QueueFacts
  <2>4. ComeIn(i - 1, <<t>>)
    BY <2>1, <2>2, <2>3 DEF ComeIn, InsertAt
  <2>5. <<t>> \in Seq(Tasks) /\ Distinct(<<t>>) /\ \A u \in Tasks : Has(<<t>>, u) <=> u \in {t}
    BY <1>1 DEF Distinct, Has
  <2>6. status' \in [Tasks -> {"PENDING", "IN_FLIGHT", "SUCCEEDED", "FAILED"}]
        /\ \A u \in Tasks : status'[u] = "PENDING" <=> status[u] = "PENDING" \/ u \in {t}
    BY <1>1, <2>1 DEF QueueInv
  <2>7. \A u \in {t} : status[u] # "PENDING"
    BY <1>1
  <2>8. {t} \in SUBSET Tasks
    BY <1>1
  <2> HIDE DEF t
  <2> QED BY <2>3, <2>4, <2>5, <2>6, <2>7, <2>8, ComingInKeepsQueue
<1> QED BY <1>2, <1>3

LEMMA ReapKeepsQueue ==
  ASSUME QueueInv, attempts \in [Tasks -> Nat], Reap
  PROVE  QueueInv'
<1> DEFINE requeued == {t \in Expired : attempts[t] < MaxAttempts}
<1>1. /\ status' = [t \in Tasks |-> IF t \in requeued THEN "PENDING"
                                    ELSE IF t \in Expired THEN "FAILED" ELSE status[t]]
      /\ ready' = ready + Cardinality(requeued)
      /\ \E reclaimed \in ById(requeued) :
           queue' = SubSeq(queue, 1, ready) \o reclaimed \o SubSeq(queue, ready + 1, Len(queue))
      /\ overtook' = overtook
  BY DEF Reap
<1>2. requeued \in SUBSET Tasks /\ \A t \in requeued \cup Expired : t \in Tasks /\ status[t] = "IN_FLIGHT"
  BY DEF Expired
<1> HIDE DEF requeued
<1>3. PICK m \in ById(requeued) :
        queue' = SubSeq(queue, 1, ready) \o m \o SubSeq(queue, ready + 1, Len(queue))
  BY <1>1
<1>4. /\ m \in Seq(Tasks) /\ Len(m) = Cardinality(requeued) /\ Distinct(m)
      /\ \A t \in Tasks : Has(m, t) <=> t \in requeued
  BY <1>2, OrderedById
<1>5. ComeIn(ready, m)
  BY <1>1, <1>3, <1>4 DEF ComeIn
<1>6. status' \in [Tasks -> {"PENDING", "IN_FLIGHT", "SUCCEEDED", "FAILED"}]
      /\ \A t \in Tasks : status'[t] = "PENDING" <=> status[t] = "PENDING" \/ t \in requeued
  BY <1>1, <1>2 DEF QueueInv
<1>7. ready \in ready..Len(queue) /\ \A t \in requeued : status[t] # "PENDING"
  BY <1>2, QueueFacts
<1> QED BY <1>1, <1>2, <1>4, <1>5, <1>6, <1>7, ComingInKeepsQueue

LEMMA StandingQueue ==
  ASSUME QueueInv, UNCHANGED queueVars PROVE QueueInv'
BY DEF QueueInv, queueVars, QueueIsPending, OvertakenOnce, Due

(* The steps that touch the queue.                                          *)
LEMMA QueueSteps ==
  ASSUME Next
  PROVE  \/ UNCHANGED queueVars
         \/ RetryBecomesDue
         \/ Reap
         \/ \E w \in Workers : ClaimTask(w)
         \/ \E w \in Workers : Saved(w) /\ pc[w] \in {"saving", "failing", "retrying"} /\ overtook' = overtook
<1> USE DEF queueVars, rows, history
<1>1. ASSUME NEW w \in Workers, LoopStep(w) \/ LoopError(w)
      PROVE  \/ UNCHANGED queueVars
             \/ ClaimTask(w)
             \/ Saved(w) /\ pc[w] \in {"saving", "failing", "retrying"} /\ overtook' = overtook
  <2>1. CASE SlotAcquired(w)
    BY <2>1 DEF SlotAcquired
  <2>2. CASE ClaimNext(w)
    BY <2>2 DEF ClaimNext, ClaimNothing
  <2>3. CASE CallAnswered(w)
    BY <2>3 DEF CallAnswered
  <2>4. CASE RecordOutcome(w)
    BY <2>4 DEF RecordOutcome, Stale
  <2>5. CASE CloseJobs(w)
    BY <2>5 DEF CloseJobs
  <2>6. CASE LoopError(w)
    BY <2>6 DEF LoopError
  <2> QED BY <1>1, <2>1, <2>2, <2>3, <2>4, <2>5, <2>6 DEF LoopStep
<1>2. CASE ReaperStep \/ ReaperError
  BY <1>2 DEF ReaperStep, ReaperError, ReaperTop, ReaperCloses
<1>3. ASSUME NEW t \in Tasks, LeaseExpires(t) PROVE UNCHANGED queueVars
  BY <1>3 DEF LeaseExpires
<1>4. CASE Receive \/ FirstRead \/ Respond \/ StreamDone \/ StreamMissesEnd \/ ClientLeaves
  BY <1>4 DEF Receive, FirstRead, Respond, StreamDone, StreamMissesEnd, ClientLeaves, requestsLeave
<1>5. CASE Listen \/ StartWorkers \/ CloseStep
  BY <1>5 DEF Listen, StartWorkers, CloseStep, EndStreams, CloseHub
<1>6. ASSUME NEW s \in Signals, Signal(s) \/ ShutdownStep(s) PROVE UNCHANGED queueVars
  BY <1>6 DEF Signal, ShutdownStep, AppClosed, PoolStopped, Exit
<1> QED BY <1>1, <1>2, <1>3, <1>4, <1>5, <1>6 DEF Next, Step

LEMMA QueueNext ==
  ASSUME PoolTypeOK, QueueInv, StopsInOrder, [Next]_vars
  PROVE  QueueInv'
<1>1. CASE UNCHANGED vars
  BY <1>1, StandingQueue DEF vars, queueVars, rows, history
<1>2. CASE Next
  <2>1. ASSUME NEW w \in Workers, Saved(w), pc[w] \in {"saving", "failing", "retrying"}, overtook' = overtook
        PROVE  QueueInv'
    BY <2>1, SavingKeepsQueue DEF StopsInOrder, Calling
  <2> QED BY <1>2, <2>1, QueueSteps, StandingQueue, BecomingDueKeepsQueue, ReapKeepsQueue,
             ClaimKeepsQueue DEF PoolTypeOK
<1> QED BY <1>1, <1>2

-----------------------------------------------------------------------------
(* The loops, the reaper and the shutdowns: one lemma for each of them.     *)

LoopInv == PoolTypeOK /\ ClosedIsSettled /\ LeaseHasOwner /\ StopsInOrder

(* Once the connections are gone every loop is at rest.                     *)
LEMMA AtRest ==
  ASSUME LoopInv, NEW w \in Workers, pc[w] \notin {"absent", "idle", "ended"}
  PROVE  ~destroyed /\ main = "running"
BY DEF LoopInv, StopsInOrder

LEMMA ClaimKeepsInv ==
  ASSUME LoopInv, QueueInv, NEW w \in Workers, ClaimNext(w)
  PROVE  LoopInv'
<1>1. pc[w] = "claiming" /\ UNCHANGED <<reaper, http, process, faults>>
  BY DEF ClaimNext
<1>2. ~destroyed /\ main = "running"
  BY <1>1, AtRest
<1>3. CASE ClaimNothing(w)
  <2>1. /\ pc' = [pc EXCEPT ![w] = "closing"]
        /\ UNCHANGED <<held, attemptOf, rows, history>>
    BY <1>3 DEF ClaimNothing, Goto
  <2>2. PoolTypeOK'
    BY <1>1, <2>1 DEF LoopInv, PoolTypeOK, rows, history, http, process
  <2>3. ClosedIsSettled' /\ StopsInOrder'
    BY <1>1, <1>2, <2>1 DEF LoopInv, PoolTypeOK, ClosedIsSettled, StopsInOrder, Calling, rows, history, http, process
  <2>4. LeaseHasOwner'
    BY <1>1, <2>1 DEF LoopInv, PoolTypeOK, LeaseHasOwner, Calling, rows, history
  <2> QED BY <2>2, <2>3, <2>4 DEF LoopInv
<1>4. CASE ClaimTask(w)
  <2> DEFINE t == queue[1]
  <2>1. t \in Tasks /\ status[t] = "PENDING"
    BY <1>4, ClaimKeepsQueue
  <2>2. /\ status' = [status EXCEPT ![t] = "IN_FLIGHT"]
        /\ attempts' = [attempts EXCEPT ![t] = attempts[t] + 1]
        /\ expired' = [expired EXCEPT ![t] = FALSE]
        /\ pc' = [pc EXCEPT ![w] = "calling"]
        /\ held' = [held EXCEPT ![w] = t]
        /\ attemptOf' = [attemptOf EXCEPT ![w] = attempts[t] + 1]
        /\ lost' = lost \ {t}
        /\ overtook' = [u \in Tasks |-> IF u \in Due \ {t} THEN overtook[u] \cup {t} ELSE {}]
        /\ job' = job
    BY <1>4 DEF ClaimTask, NextDue
  <2> HIDE DEF t
  <2>3. PoolTypeOK'
    <3>1. overtook' \in [Tasks -> SUBSET Tasks] /\ lost' \in SUBSET Tasks
      BY <2>1, <2>2 DEF LoopInv, PoolTypeOK
    <3>2. /\ status' \in [Tasks -> {"PENDING", "IN_FLIGHT", "SUCCEEDED", "FAILED"}]
          /\ attempts' \in [Tasks -> Nat] /\ expired' \in [Tasks -> BOOLEAN]
      BY <2>1, <2>2 DEF LoopInv, PoolTypeOK
    <3>3. /\ pc' \in [Workers -> Calling \cup {"absent", "idle", "claiming", "closing", "ended"}]
          /\ held' \in [Workers -> Tasks \cup {NoTask}] /\ attemptOf' \in [Workers -> Nat]
      BY <2>1, <2>2 DEF LoopInv, PoolTypeOK, Calling
    <3> QED BY <1>1, <2>2, <3>1, <3>2, <3>3 DEF LoopInv, PoolTypeOK, http, process
  <2>4. ClosedIsSettled'
    BY <2>1, <2>2 DEF LoopInv, ClosedIsSettled
  <2>5. LeaseHasOwner'
    BY <1>1, <2>1, <2>2 DEF LoopInv, PoolTypeOK, LeaseHasOwner, Calling
  <2>6. StopsInOrder'
    BY <1>1, <1>2, <2>1, <2>2 DEF LoopInv, PoolTypeOK, StopsInOrder, Calling, http, process
  <2> QED BY <2>3, <2>4, <2>5, <2>6 DEF LoopInv
<1> QED BY <1>3, <1>4 DEF ClaimNext

LEMMA OutcomeKeepsInv ==
  ASSUME LoopInv, NEW w \in Workers, CallAnswered(w) \/ RecordOutcome(w) \/ LoopError(w)
  PROVE  LoopInv'
<1>1. pc[w] \notin {"absent", "idle", "ended"} /\ UNCHANGED <<job, attempts, expired, reaper, http, process, overtook>>
  BY DEF CallAnswered, RecordOutcome, LoopError, rows, history
<1>2. ~destroyed /\ main = "running"
  BY <1>1, AtRest
<1>3. CASE RecordOutcome(w) /\ Saved(w)
  <2> DEFINE t == held[w]
  <2>1. t \in Tasks /\ status[t] = "IN_FLIGHT"
    BY <1>3 DEF RecordOutcome, Saved, HoldsLease, LoopInv, StopsInOrder, Calling
  <2>2. PICK s \in {"SUCCEEDED", "FAILED", "PENDING"} : status' = [status EXCEPT ![t] = s]
    BY <1>3 DEF RecordOutcome, Saved
  <2>3. PICK step \in {"idle", "closing"} :
          /\ pc' = [pc EXCEPT ![w] = step] /\ held' = [held EXCEPT ![w] = NoTask]
          /\ attemptOf' = [attemptOf EXCEPT ![w] = 0]
          /\ lost' = lost /\ faults' = faults
    BY <1>3 DEF RecordOutcome, Saved, Release, history
  <2>4. PoolTypeOK'
    BY <1>1, <2>1, <2>2, <2>3 DEF LoopInv, PoolTypeOK, http, process
  <2>5. ClosedIsSettled'
    BY <1>1, <2>1, <2>2 DEF LoopInv, ClosedIsSettled
  <2>6. LeaseHasOwner'
    BY <1>1, <2>1, <2>2, <2>3 DEF LoopInv, PoolTypeOK, LeaseHasOwner, Calling
  <2>7. StopsInOrder'
    BY <1>1, <1>2, <2>3 DEF LoopInv, PoolTypeOK, StopsInOrder, Calling, http, process
  <2> QED BY <2>4, <2>5, <2>6, <2>7 DEF LoopInv
<1>4. CASE RecordOutcome(w) /\ Stale(w)
  <2>1. /\ pc' = [pc EXCEPT ![w] = "idle"] /\ held' = [held EXCEPT ![w] = NoTask]
        /\ attemptOf' = [attemptOf EXCEPT ![w] = 0]
        /\ lost' = lost /\ faults' = faults /\ status' = status
        /\ ~(status[held[w]] = "IN_FLIGHT" /\ attempts[held[w]] = attemptOf[w])
    BY <1>4 DEF RecordOutcome, Stale, Release, history, HoldsLease
  <2>2. PoolTypeOK'
    BY <1>1, <2>1 DEF LoopInv, PoolTypeOK, http, process
  <2>3. LeaseHasOwner'
    BY <1>1, <2>1 DEF LoopInv, PoolTypeOK, LeaseHasOwner, Calling
  <2>4. ClosedIsSettled' /\ StopsInOrder'
    BY <1>1, <1>2, <2>1 DEF LoopInv, PoolTypeOK, ClosedIsSettled, StopsInOrder, Calling, http, process
  <2> QED BY <2>2, <2>3, <2>4 DEF LoopInv
<1>5. CASE CallAnswered(w)
  <2>1. /\ pc[w] = "calling" /\ status' = status /\ faults' = faults
        /\ \/ /\ pc' = [pc EXCEPT ![w] = "idle"] /\ held' = [held EXCEPT ![w] = NoTask]
              /\ attemptOf' = [attemptOf EXCEPT ![w] = 0]
              /\ lost' = lost \cup {held[w]}
           \/ /\ UNCHANGED <<held, attemptOf, lost>>
              /\ \E step \in {"saving", "retrying", "failing"} : pc' = [pc EXCEPT ![w] = step]
    BY <1>5 DEF CallAnswered, Release, Goto, Recording, rows
  <2>2. held[w] \in Tasks
    BY <2>1 DEF LoopInv, StopsInOrder, Calling
  <2>3. PoolTypeOK'
    BY <1>1, <2>1, <2>2 DEF LoopInv, PoolTypeOK, http, process, Calling
  <2>4. LeaseHasOwner'
    BY <1>1, <2>1, <2>2 DEF LoopInv, PoolTypeOK, LeaseHasOwner, Calling
  <2>5. ClosedIsSettled' /\ StopsInOrder'
    BY <1>1, <1>2, <2>1, <2>2 DEF LoopInv, PoolTypeOK, ClosedIsSettled, StopsInOrder, Calling, http, process
  <2> QED BY <2>3, <2>4, <2>5 DEF LoopInv
<1>6. CASE LoopError(w)
  <2>1. /\ pc' = [pc EXCEPT ![w] = "idle"] /\ held' = [held EXCEPT ![w] = NoTask]
        /\ attemptOf' = [attemptOf EXCEPT ![w] = 0]
        /\ lost' = lost \cup ({held[w]} \ {NoTask})
        /\ faults < MaxFaults /\ faults' = faults + 1 /\ status' = status
    BY <1>6 DEF LoopError, Release, rows
  <2>2. PoolTypeOK'
    <3>1. lost' \in SUBSET Tasks
      BY <2>1 DEF LoopInv, PoolTypeOK
    <3>2. faults' \in 0..MaxFaults
      BY <2>1, PoolAssumption DEF LoopInv, PoolTypeOK
    <3> QED BY <1>1, <2>1, <3>1, <3>2 DEF LoopInv, PoolTypeOK, http, process
  <2>3. LeaseHasOwner'
    BY <1>1, <2>1, PoolAssumption DEF LoopInv, PoolTypeOK, LeaseHasOwner, Calling
  <2>4. ClosedIsSettled' /\ StopsInOrder'
    BY <1>1, <1>2, <2>1 DEF LoopInv, PoolTypeOK, ClosedIsSettled, StopsInOrder, Calling, http, process
  <2> QED BY <2>2, <2>3, <2>4 DEF LoopInv
<1> QED BY <1>3, <1>4, <1>5, <1>6 DEF RecordOutcome

LEMMA LoopTopKeepsInv ==
  ASSUME LoopInv, NEW w \in Workers, SlotAcquired(w) \/ CloseJobs(w)
  PROVE  LoopInv'
<1>1. CASE SlotAcquired(w)
  <2>1. /\ pc[w] = "idle" /\ UNCHANGED <<held, attemptOf, rows, reaper, http, process, faults, history>>
        /\ pc' = [pc EXCEPT ![w] = IF aborted THEN "ended" ELSE "claiming"]
    BY <1>1 DEF SlotAcquired, Goto
  <2>2. PoolTypeOK' /\ ClosedIsSettled'
    BY <2>1 DEF LoopInv, PoolTypeOK, ClosedIsSettled, rows, http, process, history
  <2>3. LeaseHasOwner'
    BY <2>1 DEF LoopInv, PoolTypeOK, LeaseHasOwner, Calling, rows, history
  <2>4. StopsInOrder'
    BY <2>1 DEF LoopInv, PoolTypeOK, StopsInOrder, Calling, http, process
  <2> QED BY <2>2, <2>3, <2>4 DEF LoopInv
<1>2. CASE CloseJobs(w)
  <2>1. /\ pc[w] = "closing" /\ pc' = [pc EXCEPT ![w] = "idle"]
        /\ UNCHANGED <<held, attemptOf, status, attempts, expired, queue, ready, reaper, http,
                       process, faults, history>>
        /\ \/ job' = job
           \/ job' = "CLOSED" /\ \A t \in Tasks : status[t] \notin {"PENDING", "IN_FLIGHT"}
    BY <1>2 DEF CloseJobs, Goto, FinalizeFinishedJobs
  <2>2. PoolTypeOK' /\ ClosedIsSettled'
    BY <2>1 DEF LoopInv, PoolTypeOK, ClosedIsSettled, http, process, history
  <2>3. LeaseHasOwner'
    BY <2>1 DEF LoopInv, PoolTypeOK, LeaseHasOwner, Calling, history
  <2>4. StopsInOrder'
    BY <2>1 DEF LoopInv, PoolTypeOK, StopsInOrder, Calling, http, process
  <2> QED BY <2>2, <2>3, <2>4 DEF LoopInv
<1> QED BY <1>1, <1>2

LEMMA ReaperKeepsInv ==
  ASSUME LoopInv, ReaperStep \/ ReaperError \/ \E t \in Tasks : LeaseExpires(t)
  PROVE  LoopInv'
<1> USE DEF LoopInv
<1>1. CASE ReaperTop
  <2>1. /\ reaper = "idle" /\ reaper' = IF aborted THEN "ended" ELSE "reaping"
        /\ UNCHANGED <<rows, loops, http, process, faults, history>>
    BY <1>1 DEF ReaperTop
  <2>2. PoolTypeOK' /\ ClosedIsSettled' /\ LeaseHasOwner'
    BY <2>1 DEF PoolTypeOK, ClosedIsSettled, LeaseHasOwner, rows, loops, http, process, history
  <2>3. StopsInOrder'
    BY <2>1 DEF PoolTypeOK, StopsInOrder, loops, http, process
  <2> QED BY <2>2, <2>3
<1>2. CASE Reap
  <2>1. /\ reaper = "reaping" /\ reaper' \in {"idle", "closing"}
        /\ \A t \in Expired : t \in Tasks /\ status[t] = "IN_FLIGHT"
        /\ lost' = lost \ Expired /\ expired' = [t \in Tasks |-> FALSE]
        /\ UNCHANGED <<job, attempts, loops, http, process, faults, overtook>>
    BY <1>2 DEF Reap, Expired
  <2>2. PICK requeued \in SUBSET Expired :
          status' = [t \in Tasks |-> IF t \in requeued THEN "PENDING"
                                     ELSE IF t \in Expired THEN "FAILED" ELSE status[t]]
    BY <1>2 DEF Reap
  <2>3. PoolTypeOK'
    BY <2>1, <2>2 DEF PoolTypeOK, loops, http, process
  <2>4. ClosedIsSettled' /\ LeaseHasOwner'
    BY <2>1, <2>2 DEF PoolTypeOK, ClosedIsSettled, LeaseHasOwner, loops
  <2>5. StopsInOrder'
    BY <2>1 DEF PoolTypeOK, StopsInOrder, loops, http, process
  <2> QED BY <2>3, <2>4, <2>5
<1>3. CASE ReaperCloses
  <2>1. /\ reaper = "closing" /\ reaper' = "idle"
        /\ UNCHANGED <<status, attempts, expired, queue, ready, loops, http, process, faults, history>>
        /\ \/ job' = job
           \/ job' = "CLOSED" /\ \A t \in Tasks : status[t] \notin {"PENDING", "IN_FLIGHT"}
    BY <1>3 DEF ReaperCloses, FinalizeFinishedJobs
  <2>2. PoolTypeOK' /\ ClosedIsSettled' /\ LeaseHasOwner'
    BY <2>1 DEF PoolTypeOK, ClosedIsSettled, LeaseHasOwner, loops, http, process, history
  <2>3. StopsInOrder'
    BY <2>1 DEF PoolTypeOK, StopsInOrder, loops, http, process
  <2> QED BY <2>2, <2>3
<1>4. CASE ReaperError
  <2>1. /\ reaper \in {"reaping", "closing"} /\ reaper' = "idle"
        /\ faults < MaxFaults /\ faults' = faults + 1
        /\ UNCHANGED <<rows, loops, http, process, history>>
    BY <1>4 DEF ReaperError
  <2>2. faults' \in 0..MaxFaults
    BY <2>1, PoolAssumption DEF PoolTypeOK
  <2>3. PoolTypeOK' /\ ClosedIsSettled' /\ LeaseHasOwner'
    BY <2>1, <2>2 DEF PoolTypeOK, ClosedIsSettled, LeaseHasOwner, rows, loops, http, process, history
  <2>4. StopsInOrder'
    BY <2>1 DEF PoolTypeOK, StopsInOrder, loops, http, process
  <2> QED BY <2>3, <2>4
<1>5. ASSUME NEW t \in Tasks, LeaseExpires(t) PROVE LoopInv'
  BY <1>5 DEF LeaseExpires, PoolTypeOK, ClosedIsSettled, LeaseHasOwner, StopsInOrder,
              loops, http, process, history
<1> QED BY <1>1, <1>2, <1>3, <1>4, <1>5 DEF ReaperStep

LEMMA RequestKeepsInv ==
  ASSUME LoopInv,
         \/ Receive \/ FirstRead \/ Respond \/ StreamDone \/ StreamMissesEnd \/ ClientLeaves
         \/ RetryBecomesDue
  PROVE  LoopInv'
<1> USE DEF LoopInv
<1>1. /\ UNCHANGED <<job, status, attempts, expired, loops, reaper, closing, hooks, process, history>>
      /\ faults' = faults \/ (faults < MaxFaults /\ faults' = faults + 1)
      /\ stream' = stream \/ ~(closing = "server" /\ stream = "none")
      /\ stream' \in {"none", "asking", "starting", "open", "deaf"}
  BY DEF Receive, FirstRead, Respond, StreamDone, StreamMissesEnd, ClientLeaves, requestsLeave,
         RetryBecomesDue, rows, http, PoolTypeOK
<1>2. faults' \in 0..MaxFaults
  BY <1>1, PoolAssumption DEF PoolTypeOK
<1>3. PoolTypeOK' /\ ClosedIsSettled' /\ LeaseHasOwner'
  BY <1>1, <1>2 DEF PoolTypeOK, ClosedIsSettled, LeaseHasOwner, loops, process, history
<1>4. StopsInOrder'
  BY <1>1 DEF PoolTypeOK, StopsInOrder, loops, process
<1> QED BY <1>3, <1>4

LEMMA MainKeepsInv ==
  ASSUME LoopInv, Listen \/ StartWorkers \/ CloseStep
  PROVE  LoopInv'
<1> USE DEF LoopInv
<1>1. UNCHANGED <<rows, held, attemptOf, aborted, shutdown, destroyed, faults, history>>
  BY DEF Listen, StartWorkers, CloseStep, EndStreams, CloseHub, loops, process
<1>2. CASE Listen
  BY <1>1, <1>2 DEF Listen, PoolTypeOK, ClosedIsSettled, LeaseHasOwner, StopsInOrder, rows, loops,
                    http, history
<1>3. CASE StartWorkers
  <2>1. /\ main = "waiting" /\ main' = "running" /\ reaper' = "idle" /\ exited' = exited
        /\ pc' = [w \in Workers |-> "idle"] /\ UNCHANGED http
    BY <1>3 DEF StartWorkers
  <2>2. PoolTypeOK' /\ ClosedIsSettled'
    BY <1>1, <2>1 DEF PoolTypeOK, ClosedIsSettled, rows, http, history
  <2>3. LeaseHasOwner'
    BY <1>1, <2>1 DEF LeaseHasOwner, StopsInOrder, Calling, rows, history
  <2>4. StopsInOrder'
    BY <1>1, <2>1 DEF StopsInOrder, Calling, http
  <2> QED BY <2>2, <2>3, <2>4
<1>4. CASE CloseStep
  <2>1. /\ UNCHANGED <<rows, loops, reaper, process, faults, history>>
        /\ closing = "hooks" /\ closing' \in {"hooks", "server"}
        /\ hooks' \in SUBSET OnCloseHooks
        /\ stream' \in {"none", "asking", "starting", "open", "deaf"}
    BY <1>4 DEF CloseStep, EndStreams, CloseHub, RunHook, OnCloseHooks, PoolTypeOK
  <2>2. PoolTypeOK' /\ ClosedIsSettled' /\ LeaseHasOwner'
    BY <2>1 DEF PoolTypeOK, ClosedIsSettled, LeaseHasOwner, rows, loops, process, history
  <2>3. StopsInOrder'
    BY <2>1 DEF StopsInOrder, loops, process
  <2> QED BY <2>2, <2>3
<1> QED BY <1>2, <1>3, <1>4

LEMMA ShutdownKeepsInv ==
  ASSUME LoopInv, NEW s \in Signals, Signal(s) \/ ShutdownStep(s)
  PROVE  LoopInv'
<1> USE DEF LoopInv
<1>1. UNCHANGED <<rows, loops, reaper, stream, main, faults, history>>
  BY DEF Signal, ShutdownStep, AppClosed, PoolStopped, Exit, http
<1>2. ClosedIsSettled' /\ LeaseHasOwner'
  BY <1>1 DEF ClosedIsSettled, LeaseHasOwner, rows, loops, history
<1>3. PoolTypeOK'
  <2>1. /\ aborted' \in BOOLEAN /\ destroyed' \in BOOLEAN
        /\ closing' \in {"no", "hooks", "server"} /\ hooks' \in SUBSET OnCloseHooks
        /\ exited' \in {"no", "failed", "killed", "clean"}
    BY DEF Signal, SignalArrives, ShutdownStep, AppClosed, PoolStopped, Exit, http, PoolTypeOK
  <2>2. shutdown' \in [Signals -> {"none", "closing", "stopping", "destroying"}]
    BY DEF Signal, SignalArrives, ShutdownStep, AppClosed, PoolStopped, Exit, PoolTypeOK
  <2> QED BY <1>1, <2>1, <2>2 DEF PoolTypeOK, rows, loops, history
<1>4. StopsInOrder'
  <2>1. CASE Signal(s)
    BY <1>1, <2>1 DEF Signal, SignalArrives, PoolTypeOK, StopsInOrder, loops
  <2>2. CASE AppClosed(s)
    BY <1>1, <2>2 DEF AppClosed, PoolTypeOK, StopsInOrder, loops, http
  <2>3. CASE PoolStopped(s)
    <3>1. /\ shutdown[s] = "stopping" /\ shutdown' = [shutdown EXCEPT ![s] = "destroying"]
          /\ UNCHANGED <<aborted, closing>>
      BY <2>3 DEF PoolStopped, http
    <3>2. /\ \A w \in Workers : pc[w] \in {"absent", "idle", "ended"}
          /\ reaper \in {"absent", "idle", "ended"}
      BY <2>3 DEF PoolStopped, LoopsEnded, StopsInOrder
    <3> QED BY <1>1, <3>1, <3>2 DEF PoolTypeOK, StopsInOrder, loops
  <2>4. CASE Exit(s)
    BY <1>1, <2>4 DEF Exit, PoolTypeOK, StopsInOrder, loops, http
  <2> QED BY <2>1, <2>2, <2>3, <2>4 DEF ShutdownStep
<1> QED BY <1>2, <1>3, <1>4

-----------------------------------------------------------------------------
(* The invariant.                                                           *)

LEMMA PoolByParts == PoolInv <=> LoopInv /\ QueueInv
BY DEF PoolInv, LoopInv, QueueInv, PoolTypeOK

LEMMA InitInv == Init => PoolInv
<1> SUFFICES ASSUME Init PROVE PoolInv
  OBVIOUS
<1>1. /\ lost \in SUBSET Tasks /\ Tasks \ lost \in SUBSET Tasks
      /\ status = [t \in Tasks |-> IF t \in lost THEN "IN_FLIGHT" ELSE "PENDING"]
      /\ overtook = [t \in Tasks |-> {}]
  BY DEF Init
<1>2. queue \in ById(Tasks \ lost) /\ ready = Len(queue)
  BY DEF Init
<1>3. QueueIsPending
  <2>1. /\ queue \in Seq(Tasks) /\ Distinct(queue)
        /\ \A t \in Tasks : Has(queue, t) <=> t \in Tasks \ lost
    BY <1>1, <1>2, OrderedById
  <2> QED BY <1>1, <1>2, <2>1 DEF QueueIsPending, Distinct, Has
<1>4. OvertakenOnce
  <2>1. \A i \in 1..ready : queue[i] \in Tasks
    BY <1>2, <1>3 DEF QueueIsPending
  <2> QED BY <1>1, <2>1 DEF OvertakenOnce
<1>5. PoolTypeOK
  <2>1. /\ status \in [Tasks -> {"PENDING", "IN_FLIGHT", "SUCCEEDED", "FAILED"}]
        /\ attempts \in [Tasks -> Nat] /\ expired \in [Tasks -> BOOLEAN]
        /\ overtook \in [Tasks -> SUBSET Tasks]
    BY DEF Init
  <2>2. /\ pc \in [Workers -> Calling \cup {"absent", "idle", "claiming", "closing", "ended"}]
        /\ held \in [Workers -> Tasks \cup {NoTask}] /\ attemptOf \in [Workers -> Nat]
        /\ shutdown \in [Signals -> {"none", "closing", "stopping", "destroying"}]
    BY DEF Init, Calling
  <2>3. faults \in 0..MaxFaults
    BY PoolAssumption DEF Init
  <2> QED BY <1>1, <2>1, <2>2, <2>3 DEF Init, PoolTypeOK
<1>6. ClosedIsSettled /\ LeaseHasOwner /\ StopsInOrder
  BY <1>1 DEF Init, ClosedIsSettled, LeaseHasOwner, StopsInOrder, Calling
<1> QED BY <1>3, <1>4, <1>5, <1>6 DEF PoolInv

LEMMA NextInv == PoolInv /\ [Next]_vars => PoolInv'
<1> SUFFICES ASSUME LoopInv, QueueInv, [Next]_vars PROVE LoopInv' /\ QueueInv'
  BY DEF PoolInv, LoopInv, QueueInv, PoolTypeOK
<1>1. QueueInv'
  BY QueueNext DEF LoopInv
<1>2. CASE UNCHANGED vars
  BY <1>1, <1>2 DEF vars, rows, loops, http, process, history, LoopInv, PoolTypeOK, ClosedIsSettled,
              LeaseHasOwner, StopsInOrder
<1>3. CASE Next
  <2>1. ASSUME NEW w \in Workers, LoopStep(w) \/ LoopError(w) PROVE LoopInv'
    BY <2>1, ClaimKeepsInv, OutcomeKeepsInv, LoopTopKeepsInv DEF LoopStep
  <2> QED BY <1>1, <1>3, <2>1, ReaperKeepsInv, RequestKeepsInv, MainKeepsInv, ShutdownKeepsInv
          DEF Next, Step
<1> QED BY <1>2, <1>3

(* However many loops, stores and signals there are, the queue, the leases  *)
(* and the order of the shutdown are as the code takes them to be.          *)
THEOREM Invariance == Spec => []PoolInv
BY InitInv, NextInv, PTL DEF Spec

(* When the connections are closed nothing is under way any more.           *)
THEOREM Drained == Spec => []DrainedAtExit
<1>1. PoolInv => DrainedAtExit
  BY DEF PoolInv, PoolTypeOK, StopsInOrder, LeaseHasOwner, Calling, DrainedAtExit
<1> QED BY <1>1, Invariance, PTL

(* No store is claimed twice while another one is due.                      *)
THEOREM NobodyStarves == Spec => NoStarvation
<1> DEFINE Fair == \A t, u \in Tasks :
                     t \in Due \ {u} /\ attempts'[u] > attempts[u] => u \notin overtook[t]
<1>1. PoolInv /\ [Next]_vars => [Fair]_vars
  <2> SUFFICES ASSUME PoolInv, Next,
                      NEW t \in Tasks, NEW u \in Tasks, t \in Due, t # u, attempts'[u] > attempts[u]
               PROVE  u \notin overtook[t]
    OBVIOUS
  <2>1. QueueInv /\ LoopInv
    BY PoolByParts
  <2>2. attempts[u] \in Nat /\ attempts' # attempts
    BY <2>1 DEF LoopInv, PoolTypeOK
  <2>3. PICK w \in Workers : ClaimTask(w)
    BY <2>2 DEF Next, Step, LoopStep, LoopError, SlotAcquired, ClaimNext, ClaimNothing, CallAnswered,
                RecordOutcome, CloseJobs, ReaperStep, ReaperError, ReaperTop, Reap, ReaperCloses,
                RetryBecomesDue, LeaseExpires, Receive, FirstRead, Respond, StreamDone,
                StreamMissesEnd, ClientLeaves, requestsLeave, Listen, StartWorkers, CloseStep,
                EndStreams, CloseHub, Signal, ShutdownStep, AppClosed,
                PoolStopped, Exit, rows
  <2>4. attempts' = [attempts EXCEPT ![queue[1]] = attempts[queue[1]] + 1]
    BY <2>3 DEF ClaimTask, NextDue
  <2>5. u = queue[1]
    BY <2>1, <2>2, <2>4 DEF LoopInv, PoolTypeOK
  <2>6. PICK i \in 1..ready : queue[i] = t
    BY <2>1, QueueFacts
  <2>7. 1 \in 1..i
    BY <2>1, <2>6, QueueFacts
  <2> QED BY <2>1, <2>5, <2>6, <2>7 DEF QueueInv, OvertakenOnce
<1> QED BY <1>1, Invariance, PTL DEF Spec, NoStarvation
=============================================================================
