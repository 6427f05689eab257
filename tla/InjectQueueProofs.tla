-------------------------- MODULE InjectQueueProofs --------------------------
(***************************************************************************)
(* Proofs about InjectQueue, for any messages, any number of functions     *)
(* under way, and any number of faults.                                    *)
(***************************************************************************)
EXTENDS InjectQueue, FiniteSetTheorems, SequenceTheorems, TLAPS

-----------------------------------------------------------------------------
(* The inductive invariant.                                                *)

Places == {"end", "toast", "append", "submit", "submitted", "resolve", "look",
           "prompt", "prompted", "summary"}
Task == [kind : {"free", "inject", "flush"}, msg : SUBSET Messages,
         busy : BOOLEAN, at : Places]

\* What a function under way holds: an injection its message, a flush one from
\* its first look at the queue on.
TasksShaped ==
  /\ task \in [Tasks -> Task]
  /\ \A t \in Tasks :
       /\ task[t].kind = "free" => task[t] = Free
       /\ task[t].kind = "inject" => \E m \in Messages : task[t].msg = {m}
       /\ task[t].kind # "free" => task[t].at # "end" /\ live # "stopped"
       /\ task[t].kind = "flush" /\ task[t].at \notin {"summary", "resolve"} =>
            \E m \in Messages : task[t].msg = {m}

\* The queue holds each message at most once, and none that is delivered.
QueueShaped ==
  /\ queue \in Seq(Messages \ delivered)
  /\ \A i, j \in DOMAIN queue : queue[i] = queue[j] => i = j

\* Every message that the process works on is one that the store has seen, and
\* the store knows that those it calls delivered are done with.
StoreKnows ==
  /\ \A t \in Tasks : \A m \in task[t].msg : store[m] # "absent"
  /\ \A i \in DOMAIN queue : store[queue[i]] # "absent"
  /\ \A m \in delivered : store[m] \in {"injected", "delivered"}

\* A function that has its answer from OpenCode has made a turn; without a
\* terminal nothing passes through the terminal's prompt.
AnswersHaveTurns ==
  /\ \A t \in Tasks : task[t].at = "prompted" => \A m \in task[t].msg : turns[m] > 0
  /\ ~tui => \A t \in Tasks : task[t].at \notin {"append", "submit", "submitted"}

RestTyped ==
  /\ tui \in BOOLEAN /\ active \in BOOLEAN /\ flushing \in BOOLEAN
  /\ store \in [Messages -> {"absent", "pending", "injected", "delivered"}]
  /\ live \in {"stopped", "started", "connected"}
  /\ status \in {"idle", "busy"} /\ host \in {"none", "idle", "busy"}
  /\ delivered \subseteq Messages /\ box \subseteq Messages /\ stranded \subseteq Messages
  /\ turns \in [Messages -> 0..MaxTurns] /\ faults \in 0..MaxFaults

InjectInv ==
  /\ RestTyped /\ TasksShaped /\ QueueShaped /\ StoreKnows /\ AnswersHaveTurns
  /\ StoredIsAttended /\ MarkedHasTurn

-----------------------------------------------------------------------------
(* The queue.                                                              *)

\* A sequence without repetition over a finite set is no longer than the set.
LEMMA LengthBound ==
  ASSUME NEW M, IsFiniteSet(M), NEW q \in Seq(M),
         \A i, j \in DOMAIN q : q[i] = q[j] => i = j
  PROVE  Len(q) <= Cardinality(M)
<1>1. DOMAIN q = 1..Len(q) /\ q \in [1..Len(q) -> M] /\ Len(q) \in Nat
  BY LenProperties
<1>2. q \in Injection(1..Len(q), M)
  BY <1>1 DEF Injection, IsInjective
<1>3. Cardinality(1..Len(q)) <= Cardinality(M)
  BY <1>2, FS_Injection
<1>4. Cardinality(1..Len(q)) = IF 1 > Len(q) THEN 0 ELSE Len(q) - 1 + 1
  BY <1>1, FS_Interval, 1 \in Int, Len(q) \in Int
<1> QED
  BY <1>3, <1>4

\* markDelivered takes exactly its message out.
LEMMA WithoutShape ==
  ASSUME QueueShaped, NEW m \in Messages
  PROVE  /\ Without(m) \in Seq(Messages \ (delivered \cup {m}))
         /\ \A i, j \in DOMAIN Without(m) : Without(m)[i] = Without(m)[j] => i = j
         /\ \A n \in Messages :
              (\E i \in DOMAIN Without(m) : Without(m)[i] = n)
                <=> (\E i \in DOMAIN queue : queue[i] = n) /\ n # m
<1> DEFINE q == Without(m)
<1>1. /\ queue \in Seq(Messages) /\ Len(queue) \in Nat /\ DOMAIN queue = 1..Len(queue)
      /\ \A i \in 1..Len(queue) : queue[i] \in Messages \ delivered
  BY LenProperties DEF QueueShaped
<1>2. CASE ~\E i \in DOMAIN queue : queue[i] = m
  <2>1. q = queue
    BY <1>2 DEF Without
  <2>2. queue \in Seq(Messages \ (delivered \cup {m}))
    BY <1>1, <1>2, IsASeq
  <2> QED
    BY <2>1, <2>2, <1>2 DEF QueueShaped
<1>3. CASE \E i \in DOMAIN queue : queue[i] = m
  <2> DEFINE p == Place(m)
  <2>1. p \in 1..Len(queue) /\ queue[p] = m
    BY <1>1, <1>3 DEF Place
  <2>2. q = SubSeq(queue, 1, p - 1) \o SubSeq(queue, p + 1, Len(queue))
    BY <1>3 DEF Without
  <2>3. /\ q \in Seq(Messages)
        /\ Len(q) = Len(queue) - 1 /\ DOMAIN q = 1..(Len(queue) - 1)
        /\ \A i \in 1..(Len(queue) - 1) : q[i] = IF i < p THEN queue[i] ELSE queue[i + 1]
    <3> HIDE DEF p
    <3> DEFINE before == SubSeq(queue, 1, p - 1)
               after == SubSeq(queue, p + 1, Len(queue))
    <3>1. /\ before \in Seq(Messages)
          /\ Len(before) = p - 1
          /\ \A i \in 1..(p - 1) : before[i] = queue[i]
      BY <1>1, <2>1, SMT
    <3>2. /\ p + 1 \in Int /\ Len(queue) \in Int
          /\ \A i \in (p + 1)..Len(queue) : queue[i] \in Messages
      BY <1>1, <2>1
    <3>3. /\ after \in Seq(Messages)
          /\ Len(after) = IF p + 1 <= Len(queue) THEN Len(queue) - (p + 1) + 1 ELSE 0
          /\ \A i \in 1..(Len(queue) - (p + 1) + 1) : after[i] = queue[(p + 1) + i - 1]
      BY <3>2, SubSeqProperties
    <3>4. /\ Len(after) = Len(queue) - p
          /\ \A i \in 1..(Len(queue) - p) : after[i] = queue[p + i]
      <4> DEFINE n == Len(queue)
      <4>1. n \in Nat /\ p \in 1..n
        BY <1>1, <2>1
      <4>2. /\ Len(after) = IF p + 1 <= n THEN n - (p + 1) + 1 ELSE 0
            /\ \A i \in 1..(n - (p + 1) + 1) : after[i] = queue[(p + 1) + i - 1]
        BY <3>3
      <4> HIDE DEF n, p, after
      <4>3. Len(after) = n - p
        BY <4>1, <4>2
      <4>4. ASSUME NEW i \in 1..(n - p)
            PROVE  after[i] = queue[p + i]
        <5>1. i \in 1..(n - (p + 1) + 1) /\ (p + 1) + i - 1 = p + i
          BY <4>1
        <5> QED
          BY <4>2, <5>1
      <4> QED
        BY <4>3, <4>4 DEF n
    <3> HIDE DEF before, after
    <3>5. /\ before \o after \in Seq(Messages)
          /\ Len(before \o after) = Len(before) + Len(after)
          /\ \A i \in 1..(Len(before) + Len(after)) :
               (before \o after)[i] = IF i <= Len(before) THEN before[i] ELSE after[i - Len(before)]
      BY <3>1, <3>3, ConcatProperties
    <3>6. q = before \o after
      BY <2>2 DEF before, after
    <3>7. q \in Seq(Messages) /\ Len(q) = Len(queue) - 1
      <4> DEFINE n == Len(queue)
      <4>1. Len(q) = (p - 1) + (n - p)
        BY <3>1, <3>4, <3>5, <3>6
      <4>2. n \in Nat /\ p \in 1..n
        BY <1>1, <2>1
      <4> HIDE DEF n
      <4>3. Len(q) = n - 1
        BY <4>1, <4>2
      <4> QED
        BY <3>5, <3>6, <4>3 DEF n
    <3>8. DOMAIN q = 1..(Len(queue) - 1)
      BY <3>7, LenProperties
    <3>9. ASSUME NEW i \in 1..(Len(queue) - 1)
          PROVE  q[i] = IF i < p THEN queue[i] ELSE queue[i + 1]
      <4>1. q[i] = IF i <= p - 1 THEN before[i] ELSE after[i - (p - 1)]
        BY <1>1, <2>1, <3>1, <3>4, <3>5, <3>6
      <4>2. CASE i < p
        BY <2>1, <3>1, <4>1, <4>2
      <4>3. CASE ~(i < p)
        <5>1. i - (p - 1) \in 1..(Len(queue) - p) /\ p + (i - (p - 1)) = i + 1
          BY <1>1, <2>1, <4>3
        <5>2. q[i] = after[i - (p - 1)]
          BY <2>1, <4>1, <4>3
        <5>3. after[i - (p - 1)] = queue[p + (i - (p - 1))]
          BY <3>4, <5>1
        <5> QED
          BY <4>3, <5>1, <5>2, <5>3
      <4> QED
        BY <4>2, <4>3
    <3> QED
      BY <3>7, <3>8, <3>9
  <2> HIDE DEF p, q
  <2>4. \A i \in 1..(Len(queue) - 1) : q[i] \in Messages \ (delivered \cup {m})
    <3> SUFFICES ASSUME NEW i \in 1..(Len(queue) - 1)
                 PROVE  q[i] \in Messages \ delivered /\ q[i] # m
      OBVIOUS
    <3>1. CASE i < p
      BY <1>1, <2>1, <2>3, <3>1 DEF QueueShaped
    <3>2. CASE ~(i < p)
      BY <1>1, <2>1, <2>3, <3>2 DEF QueueShaped
    <3> QED
      BY <3>1, <3>2
  <2>5. q \in Seq(Messages \ (delivered \cup {m}))
    BY <2>3, <2>4, IsASeq, LenProperties
  <2>6. ASSUME NEW i \in DOMAIN q, NEW j \in DOMAIN q, q[i] = q[j]
        PROVE  i = j
    <3>1. /\ i \in 1..(Len(queue) - 1) /\ j \in 1..(Len(queue) - 1)
          /\ q[i] = IF i < p THEN queue[i] ELSE queue[i + 1]
          /\ q[j] = IF j < p THEN queue[j] ELSE queue[j + 1]
      BY <2>3
    <3>2. \A a, b \in 1..Len(queue) : queue[a] = queue[b] => a = b
      BY <1>1 DEF QueueShaped
    <3> DEFINE n == Len(queue)
    <3>3. /\ n \in Nat /\ p \in 1..n /\ i \in 1..(n - 1) /\ j \in 1..(n - 1)
          /\ \A a, b \in 1..n : queue[a] = queue[b] => a = b
      BY <1>1, <2>1, <3>1, <3>2
    <3> HIDE DEF n
    <3>4. /\ i \in 1..n /\ j \in 1..n /\ i + 1 \in 1..n /\ j + 1 \in 1..n
          /\ i < p => i # j + 1 \/ j < p
          /\ j < p => j # i + 1 \/ i < p
      BY <3>3
    <3>5. \/ i < p /\ j < p /\ queue[i] = queue[j]
          \/ i < p /\ ~(j < p) /\ queue[i] = queue[j + 1]
          \/ ~(i < p) /\ j < p /\ queue[i + 1] = queue[j]
          \/ ~(i < p) /\ ~(j < p) /\ queue[i + 1] = queue[j + 1]
      BY <2>6, <3>1
    <3>6. i = j \/ i + 1 = j + 1
      BY <3>3, <3>4, <3>5
    <3> QED
      BY <3>3, <3>6
  <2>7. ASSUME NEW n \in Messages, NEW i \in DOMAIN queue, queue[i] = n, n # m
        PROVE  \E j \in DOMAIN q : q[j] = n
    <3>1. CASE i < p
      <4>1. i \in 1..(Len(queue) - 1) /\ q[i] = n
        BY <1>1, <2>1, <2>3, <2>7, <3>1
      <4> QED
        BY <2>3, <4>1
    <3>2. CASE i > p
      <4>1. i - 1 \in 1..(Len(queue) - 1) /\ q[i - 1] = n
        BY <1>1, <2>1, <2>3, <2>7, <3>2
      <4> QED
        BY <2>3, <4>1
    <3> QED
      BY <1>1, <2>1, <2>7, <3>1, <3>2
  <2>8. ASSUME NEW i \in DOMAIN q
        PROVE  \E j \in DOMAIN queue : queue[j] = q[i]
    BY <1>1, <2>1, <2>3, SMT
  <2>9. \A n \in Messages :
          (\E i \in DOMAIN q : q[i] = n) <=> (\E i \in DOMAIN queue : queue[i] = n) /\ n # m
    BY <2>3, <2>4, <2>7, <2>8
  <2> QED
    BY <2>5, <2>6, <2>9 DEF q
<1> QED
  BY <1>2, <1>3

\* enqueuePendingInject adds its message, unless it is there or delivered.
LEMMA EnqueuedShape ==
  ASSUME QueueShaped, NEW m \in Messages
  PROVE  /\ Enqueued(queue, m) \in Seq(Messages \ delivered)
         /\ \A i, j \in DOMAIN Enqueued(queue, m) :
              Enqueued(queue, m)[i] = Enqueued(queue, m)[j] => i = j
         /\ \A n \in Messages :
              (\E i \in DOMAIN Enqueued(queue, m) : Enqueued(queue, m)[i] = n)
                <=> (\E i \in DOMAIN queue : queue[i] = n) \/ (n = m /\ m \notin delivered)
<1>1. CASE m \in delivered \/ \E i \in DOMAIN queue : queue[i] = m
  <2>1. Enqueued(queue, m) = queue
    BY <1>1 DEF Enqueued
  <2> QED
    BY <1>1, <2>1 DEF QueueShaped
<1>2. CASE m \notin delivered /\ ~\E i \in DOMAIN queue : queue[i] = m
  <2> DEFINE q == Enqueued(queue, m)
  <2>1. q = Append(queue, m)
    BY <1>2 DEF Enqueued
  <2>2. queue \in Seq(Messages \ delivered) /\ DOMAIN queue = 1..Len(queue) /\ Len(queue) \in Nat
    BY LenProperties DEF QueueShaped
  <2>3. /\ q \in Seq(Messages \ delivered) /\ DOMAIN q = 1..(Len(queue) + 1)
        /\ \A i \in 1..Len(queue) : q[i] = queue[i]
        /\ q[Len(queue) + 1] = m
    BY <1>2, <2>1, <2>2, AppendProperties, LenProperties
  <2> HIDE DEF q
  <2>4. \A i, j \in DOMAIN q : q[i] = q[j] => i = j
    BY <1>2, <2>2, <2>3, SMT DEF QueueShaped
  <2>5. \A n \in Messages :
          (\E i \in DOMAIN q : q[i] = n) <=> (\E i \in DOMAIN queue : queue[i] = n) \/ n = m
    BY <2>2, <2>3, SMT
  <2> QED
    BY <1>2, <2>3, <2>4, <2>5 DEF q
<1> QED
  BY <1>1, <1>2

\* What injections that begin with the session busy add to the queue.
LEMMA LateShape ==
  ASSUME QueueShaped, NEW late \in SUBSET (Messages \ delivered), IsFiniteSet(late),
         \A m \in late : \A i \in DOMAIN queue : queue[i] # m,
         NEW order \in [1..Cardinality(late) -> late],
         \A m \in late : \E i \in DOMAIN order : order[i] = m
  PROVE  /\ queue \o order \in Seq(Messages \ delivered)
         /\ \A i, j \in DOMAIN (queue \o order) :
              (queue \o order)[i] = (queue \o order)[j] => i = j
         /\ \A n \in Messages :
              (\E i \in DOMAIN (queue \o order) : (queue \o order)[i] = n)
                <=> (\E i \in DOMAIN queue : queue[i] = n) \/ n \in late
<1> DEFINE k == Cardinality(late)
           n == Len(queue)
           q == queue \o order
<1>1. k \in Nat
  BY FS_CardinalityType
<1>2. IsFiniteSet(1..k) /\ Cardinality(1..k) = k
  <2>1. IsFiniteSet(1..k) /\ Cardinality(1..k) = IF 1 > k THEN 0 ELSE k - 1 + 1
    BY <1>1, FS_Interval
  <2> HIDE DEF k
  <2> QED
    BY <1>1, <2>1
<1>3. order \in Surjection(1..k, late)
  BY DEF Surjection
<1>4. \A i, j \in 1..k : order[i] = order[j] => i = j
  <2>1. k = Cardinality(late)
    OBVIOUS
  <2> HIDE DEF k
  <2>2. order \in Injection(1..k, late)
    BY <1>2, <1>3, <2>1, FS_SurjSameCardinalityImpliesInj
  <2> QED
    BY <2>2 DEF Injection, IsInjective
<1>5. order \in Seq(Messages \ delivered) /\ Len(order) = k
  <2>1. order \in [1..k -> Messages \ delivered]
    OBVIOUS
  <2> HIDE DEF k
  <2> QED
    BY <1>1, <2>1
<1>6. /\ queue \in Seq(Messages \ delivered) /\ n \in Nat /\ DOMAIN queue = 1..n
      /\ \A i, j \in 1..n : queue[i] = queue[j] => i = j
  BY LenProperties DEF QueueShaped
<1>7. /\ q \in Seq(Messages \ delivered) /\ Len(q) = n + k
      /\ \A i \in 1..(n + k) : q[i] = IF i <= n THEN queue[i] ELSE order[i - n]
  <2>1. /\ queue \o order \in Seq(Messages \ delivered)
        /\ Len(queue \o order) = Len(queue) + Len(order)
        /\ \A i \in 1..(Len(queue) + Len(order)) : (queue \o order)[i] =
              IF i <= Len(queue) THEN queue[i] ELSE order[i - Len(queue)]
    <3> DEFINE D == Messages \ delivered
    <3>1. queue \in Seq(D) /\ order \in Seq(D)
      BY <1>5, <1>6
    <3> HIDE DEF D
    <3>2. /\ queue \o order \in Seq(D)
          /\ Len(queue \o order) = Len(queue) + Len(order)
          /\ \A i \in 1..(Len(queue) + Len(order)) : (queue \o order)[i] =
                IF i <= Len(queue) THEN queue[i] ELSE order[i - Len(queue)]
      BY <3>1, ConcatProperties, Zenon
    <3> QED
      BY <3>2, Zenon DEF D
  <2>2. Len(queue) = n /\ Len(order) = k
    BY <1>5
  <2> HIDE DEF n, k
  <2> QED
    BY <2>1, <2>2
<1>8. DOMAIN q = 1..(n + k)
  BY <1>7, LenProperties
<1>9. \A i \in 1..n, j \in 1..k : queue[i] # order[j]
  BY <1>6
<1>10. DOMAIN order = 1..k
  OBVIOUS
<1> HIDE DEF k, n, q
<1>11. ASSUME NEW i \in 1..(n + k), NEW j \in 1..(n + k), q[i] = q[j]
       PROVE  i = j
  <2>1. CASE i <= n /\ j <= n
    BY <1>1, <1>6, <1>7, <1>11, <2>1
  <2>2. CASE i <= n /\ ~(j <= n)
    <3>1. i \in 1..n /\ j - n \in 1..k /\ q[i] = queue[i] /\ q[j] = order[j - n]
      BY <1>1, <1>6, <1>7, <2>2
    <3> QED
      BY <1>9, <1>11, <3>1
  <2>3. CASE ~(i <= n) /\ j <= n
    <3>1. j \in 1..n /\ i - n \in 1..k /\ q[j] = queue[j] /\ q[i] = order[i - n]
      BY <1>1, <1>6, <1>7, <2>3
    <3> QED
      BY <1>9, <1>11, <3>1
  <2>4. CASE ~(i <= n) /\ ~(j <= n)
    <3>1. i - n \in 1..k /\ j - n \in 1..k /\ q[i] = order[i - n] /\ q[j] = order[j - n]
      BY <1>1, <1>6, <1>7, <2>4
    <3>2. i - n = j - n
      BY <1>4, <1>11, <3>1
    <3> QED
      BY <1>1, <1>6, <3>2
  <2> QED
    BY <2>1, <2>2, <2>3, <2>4
<1>12. ASSUME NEW m \in Messages, NEW i \in 1..(n + k), q[i] = m
       PROVE  (\E j \in 1..n : queue[j] = m) \/ m \in late
  <2>1. CASE i <= n
    <3>1. i \in 1..n /\ queue[i] = m
      BY <1>1, <1>6, <1>7, <1>12, <2>1
    <3> QED
      BY <3>1
  <2>2. CASE ~(i <= n)
    <3>1. i - n \in 1..k /\ order[i - n] = m
      BY <1>1, <1>6, <1>7, <1>12, <2>2
    <3> QED
      BY <3>1 DEF k
  <2> QED
    BY <2>1, <2>2
<1>13. ASSUME NEW m \in Messages, NEW j \in 1..n, queue[j] = m
       PROVE  \E i \in 1..(n + k) : q[i] = m
  <2>1. j \in 1..(n + k) /\ q[j] = m
    BY <1>1, <1>6, <1>7, <1>13
  <2> QED
    BY <2>1
<1>14. ASSUME NEW m \in late
       PROVE  \E i \in 1..(n + k) : q[i] = m
  <2>1. PICK j \in 1..k : order[j] = m
    BY <1>10
  <2>2. n + j \in 1..(n + k) /\ ~(n + j <= n) /\ (n + j) - n = j
    BY <1>1, <1>6, <2>1
  <2>3. q[n + j] = m
    BY <1>7, <2>1, <2>2
  <2> QED
    BY <2>2, <2>3
<1> QED
  BY <1>6, <1>7, <1>8, <1>11, <1>12, <1>13, <1>14 DEF q

-----------------------------------------------------------------------------
(* The functions under way.                                                *)

\* Begin gives every member of S a free place and leaves the others alone.
LEMMA BeginShape ==
  ASSUME NEW S, Begin(S), task \in [Tasks -> Task]
  PROVE  /\ task' = [t \in Tasks |-> task'[t]]
         /\ \A t \in Tasks : task'[t] = task[t] \/ (task[t] = Free /\ task'[t] \in S)
         /\ \A x \in S : \E t \in Tasks : task'[t] = x
<1>1. PICK f \in [S -> Idle] :
        /\ \A x, y \in S : f[x] = f[y] => x = y
        /\ task' = [t \in Tasks |-> IF \E x \in S : f[x] = t
                                   THEN CHOOSE x \in S : f[x] = t ELSE task[t]]
  BY DEF Begin
<1>2. ASSUME NEW t \in Tasks, \E x \in S : f[x] = t
      PROVE  task[t] = Free /\ task'[t] \in S
  BY <1>1, <1>2 DEF Idle
<1>3. ASSUME NEW x \in S
      PROVE  f[x] \in Tasks /\ task'[f[x]] = x
  BY <1>1 DEF Idle
<1> QED
  BY <1>1, <1>2, <1>3

\* A function moves on, or ends.
LEMMA GoesToShape ==
  ASSUME TasksShaped, NEW t \in Tasks, NEW at \in Places, GoesTo(t, at)
  PROVE  /\ task' \in [Tasks -> Task]
         /\ \A u \in Tasks \ {t} : task'[u] = task[u]
         /\ task'[t].at = at /\ task'[t].kind = task[t].kind
         /\ task'[t].msg = task[t].msg /\ task'[t].busy = task[t].busy
  BY DEF TasksShaped, GoesTo, Task

LEMMA EndsShape ==
  ASSUME TasksShaped, NEW t \in Tasks, Ends(t)
  PROVE  /\ task' \in [Tasks -> Task]
         /\ \A u \in Tasks \ {t} : task'[u] = task[u]
         /\ task'[t] = Free
  BY DEF TasksShaped, Ends, Task, Free, Places

\* A flush goes on with the head of q, which is a message of q, or ends.
LEMMA ContinuesShape ==
  ASSUME TasksShaped, NEW t \in Tasks, NEW q \in Seq(Messages), Continues(t, q)
  PROVE  /\ task' \in [Tasks -> Task] /\ flushing' \in BOOLEAN
         /\ \A u \in Tasks \ {t} : task'[u] = task[u]
         /\ \/ task'[t] = Free
            \/ /\ task'[t].at = "look" /\ task'[t].kind = task[t].kind
               /\ \E m \in Messages : /\ task'[t].msg = {m}
                                     /\ \E i \in DOMAIN q : q[i] = m
<1>1. CASE q = <<>>
  BY <1>1, EndsShape DEF Continues
<1>2. CASE q # <<>>
  <2>1. Head(q) \in Messages /\ 1 \in DOMAIN q /\ Head(q) = q[1]
    BY <1>2
  <2>2. task' = [task EXCEPT ![t].at = "look", ![t].msg = {Head(q)}] /\ flushing' = TRUE
    BY <1>2 DEF Continues
  <2>3. task' \in [Tasks -> Task]
    <3> DEFINE r == [kind |-> task[t].kind, msg |-> {Head(q)}, busy |-> task[t].busy, at |-> "look"]
    <3>1. task'[t] = r
      BY <2>2 DEF TasksShaped, Task
    <3>2. r \in Task
      BY <2>1 DEF TasksShaped, Task, Places
    <3>3. DOMAIN task' = Tasks /\ task' = [u \in Tasks |-> task'[u]]
      BY <2>2 DEF TasksShaped
    <3>4. \A u \in Tasks : task'[u] \in Task
      BY <2>2, <3>1, <3>2 DEF TasksShaped
    <3> QED
      BY <3>3, <3>4
  <2>4. /\ \A u \in Tasks \ {t} : task'[u] = task[u]
        /\ task'[t].at = "look" /\ task'[t].kind = task[t].kind
        /\ task'[t].msg = {Head(q)}
    BY <2>2 DEF TasksShaped, Task
  <2> QED
    BY <2>1, <2>2, <2>3, <2>4
<1> QED
  BY <1>1, <1>2

\* What the first step of injectInbound does for the messages of S.
LEMMA BeginInjectingShape ==
  ASSUME RestTyped, TasksShaped, QueueShaped, NEW S \in SUBSET Messages, BeginInjecting(S)
  PROVE  /\ task' \in [Tasks -> Task]
         /\ \A t \in Tasks :
              \/ task'[t] = task[t]
              \/ /\ task[t] = Free /\ task'[t].kind = "inject" /\ task'[t].at = "toast"
                 /\ \E m \in S : task'[t].msg = {m}
         /\ \A m \in S \ delivered : \E t \in Tasks : task'[t].kind = "inject" /\ m \in task'[t].msg
         /\ queue' \in Seq(Messages \ delivered)
         /\ \A i, j \in DOMAIN queue' : queue'[i] = queue'[j] => i = j
         /\ \A n \in Messages :
              /\ (\E i \in DOMAIN queue : queue[i] = n) => (\E i \in DOMAIN queue' : queue'[i] = n)
              /\ (\E i \in DOMAIN queue' : queue'[i] = n) =>
                   (\E i \in DOMAIN queue : queue[i] = n) \/ n \in S
<1> DEFINE fresh == S \ delivered
           late == {m \in fresh : \A i \in DOMAIN queue : queue[i] # m}
           busy == status # "idle"
           new == {Injecting(m, busy) : m \in fresh}
<1>1. Begin(new)
  BY Zenon DEF BeginInjecting
<1>0. ASSUME NEW m \in fresh
      PROVE  LET x == Injecting(m, busy)
             IN  x \in Task /\ x.kind = "inject" /\ x.at = "toast" /\ x.msg = {m}
  <2>1. busy \in BOOLEAN
    OBVIOUS
  <2> HIDE DEF busy
  <2> QED
    BY <2>1 DEF Injecting, Task, Places
<1>2. \A x \in new : /\ x \in Task /\ x.kind = "inject" /\ x.at = "toast"
                     /\ \E m \in S : x.msg = {m}
  <2> HIDE DEF busy
  <2> QED
    BY <1>0
<1>3. \A m \in fresh : \E x \in new : m \in x.msg
  <2> HIDE DEF busy
  <2> QED
    BY <1>0
<1>4. /\ task' = [t \in Tasks |-> task'[t]]
      /\ \A t \in Tasks : task'[t] = task[t] \/ (task[t] = Free /\ task'[t] \in new)
      /\ \A x \in new : \E t \in Tasks : task'[t] = x
  <2> HIDE DEF new
  <2> QED
    BY <1>1, BeginShape DEF TasksShaped
<1>5. QueueShaped /\ late \in SUBSET (Messages \ delivered) /\ IsFiniteSet(late)
  BY FS_Subset, InjectAssumption
<1>6. CASE status = "idle"
  <2>1. queue' = queue
    BY <1>6 DEF BeginInjecting
  <2> HIDE DEF new
  <2> QED
    BY <1>2, <1>3, <1>4, <2>1 DEF TasksShaped, QueueShaped
<1>7. CASE status # "idle"
  <2>1. PICK order \in [1..Cardinality(late) -> late] :
          /\ \A m \in late : \E i \in DOMAIN order : order[i] = m
          /\ queue' = queue \o order
    BY <1>7 DEF BeginInjecting
  <2>2. \A m \in late : \A i \in DOMAIN queue : queue[i] # m
    OBVIOUS
  <2>3. late \subseteq S
    OBVIOUS
  <2> HIDE DEF late
  <2>4. /\ queue' \in Seq(Messages \ delivered)
        /\ \A i, j \in DOMAIN queue' : queue'[i] = queue'[j] => i = j
        /\ \A n \in Messages :
              (\E i \in DOMAIN queue' : queue'[i] = n)
                <=> (\E i \in DOMAIN queue : queue[i] = n) \/ n \in late
    <3> DEFINE q == queue \o order
    <3>1. /\ q \in Seq(Messages \ delivered)
          /\ \A i, j \in DOMAIN q : q[i] = q[j] => i = j
          /\ \A n \in Messages :
                (\E i \in DOMAIN q : q[i] = n) <=> (\E i \in DOMAIN queue : queue[i] = n) \/ n \in late
      BY <1>5, <2>1, <2>2, LateShape
    <3> HIDE DEF q
    <3>2. queue' = q
      BY <2>1 DEF q
    <3> QED
      BY <3>1, <3>2
  <2> HIDE DEF new
  <2> QED
    BY <1>2, <1>3, <1>4, <2>3, <2>4 DEF TasksShaped
<1> QED
  BY <1>6, <1>7

-----------------------------------------------------------------------------
(* Every step preserves the invariant.                                     *)

LEMMA InitInv == InjectInit => InjectInv
<1> SUFFICES ASSUME InjectInit
             PROVE  InjectInv
  OBVIOUS
<1>0. RestTyped
  <2>1. 0 \in 0..MaxTurns /\ 0 \in 0..MaxFaults
    BY InjectAssumption
  <2> QED
    BY <2>1 DEF InjectInit, RestTyped
<1>1. TasksShaped
  <2>1. Free \in Task
    BY DEF Free, Task, Places
  <2>2. task \in [Tasks -> Task] /\ \A t \in Tasks : task[t] = Free
    BY <2>1 DEF InjectInit
  <2> QED
    BY <2>2 DEF TasksShaped, Free
<1>2. QueueShaped /\ StoreKnows /\ AnswersHaveTurns
  BY DEF InjectInit, QueueShaped, StoreKnows, AnswersHaveTurns, Free
<1>3. StoredIsAttended /\ MarkedHasTurn
  BY InjectAssumption DEF InjectInit, StoredIsAttended, MarkedHasTurn
<1> QED
  BY <1>0, <1>1, <1>2, <1>3 DEF InjectInv

\* A step of function t only, which ends or goes on with the message it has.
OneMoves(t) ==
  /\ task' \in [Tasks -> Task]
  /\ \A u \in Tasks \ {t} : task'[u] = task[u]
  /\ \/ task'[t] = Free
     \/ /\ task[t].kind # "free" /\ task'[t].kind = task[t].kind
        /\ task'[t].msg = task[t].msg /\ task'[t].at # "end"
        /\ task[t].kind = "flush" /\ task'[t].at \notin {"summary", "resolve"} =>
             task[t].at \notin {"summary", "resolve"}

\* Such a step that leaves queue, store and delivered alone: the message has been
\* found no session if the function was an injection and ends.
LEMMA OneMovesInv ==
  ASSUME InjectInv, NEW t \in Tasks, OneMoves(t), RestTyped',
         UNCHANGED <<tui, live, store, queue, delivered>>,
         stranded \subseteq stranded',
         task[t].kind = "inject" /\ task'[t] = Free =>
           task[t].msg \subseteq stranded' \cup {m \in Messages : Queued(m)}
                                \cup {m \in Messages : store[m] # "pending"},
         \A m \in Messages : turns'[m] >= turns[m],
         task'[t].at = "prompted" => \A m \in task[t].msg : turns'[m] > 0,
         ~tui => task'[t].at \notin {"append", "submit", "submitted"}
  PROVE  InjectInv'
<1> USE DEF InjectInv
<1>1. TasksShaped'
  BY DEF OneMoves, TasksShaped, Free
<1>2. QueueShaped'
  BY DEF QueueShaped
<1>3. StoreKnows'
  BY DEF StoreKnows, OneMoves, Free
<1>4. AnswersHaveTurns'
  <2>1. \A m \in Messages : turns[m] \in Nat /\ turns'[m] \in Nat
    BY InjectAssumption DEF RestTyped
  <2>2. \A u \in Tasks : task[u].msg \subseteq Messages /\ task'[u].msg \subseteq Messages
    BY DEF OneMoves, TasksShaped, Task
  <2>3. ASSUME NEW u \in Tasks, task'[u].at = "prompted", NEW m \in task'[u].msg
        PROVE  turns'[m] > 0
    <3>1. CASE u = t
      BY <2>3, <3>1 DEF OneMoves, Free
    <3>2. CASE u # t
      BY <2>1, <2>2, <2>3, <3>2 DEF OneMoves, AnswersHaveTurns
    <3> QED
      BY <3>1, <3>2
  <2>4. ASSUME ~tui, NEW u \in Tasks
        PROVE  task'[u].at \notin {"append", "submit", "submitted"}
    BY <2>4 DEF OneMoves, AnswersHaveTurns
  <2> QED
    BY <2>3, <2>4 DEF AnswersHaveTurns
<1>5. StoredIsAttended'
  <2> SUFFICES ASSUME live = "connected", NEW m \in Messages, store[m] = "pending"
               PROVE  UnderWay(m)' \/ Queued(m)' \/ m \in stranded'
    BY DEF StoredIsAttended
  <2>1. CASE Queued(m) \/ m \in stranded
    BY <2>1 DEF Queued
  <2>2. CASE UnderWay(m)
    <3>1. PICK u \in Tasks : task[u].kind = "inject" /\ m \in task[u].msg
      BY <2>2 DEF UnderWay
    <3>2. CASE u # t \/ task'[t] # Free
      BY <3>1, <3>2 DEF OneMoves, UnderWay
    <3>3. CASE u = t /\ task'[t] = Free
      BY <3>1, <3>3 DEF Queued
    <3> QED
      BY <3>2, <3>3
  <2> QED
    BY <2>1, <2>2 DEF StoredIsAttended
<1>6. MarkedHasTurn'
  <2>1. \A m \in Messages : turns[m] > 0 => turns'[m] > 0
    BY InjectAssumption DEF RestTyped
  <2> QED
    BY <2>1, InjectAssumption DEF MarkedHasTurn, RestTyped
<1> QED
  BY <1>1, <1>2, <1>3, <1>4, <1>5, <1>6

\* markDelivered, by the function t: of the two conjuncts of MarkedHasTurn, the
\* message must have its turn.
LEMMA MarkInv ==
  ASSUME InjectInv, NEW t \in Tasks, NEW m \in Messages, MarkDelivered(m), RestTyped',
         task[t].msg = {m}, ~tui => turns[m] > 0,
         UNCHANGED <<tui, live, turns, stranded>>,
         task' \in [Tasks -> Task], \A u \in Tasks \ {t} : task'[u] = task[u],
         \/ task'[t] = Free
         \/ /\ task[t].kind = "flush" /\ task'[t].kind = "flush" /\ task'[t].at = "look"
            /\ \E n \in Messages : /\ task'[t].msg = {n}
                                  /\ \E i \in DOMAIN queue : queue[i] = n
  PROVE  InjectInv'
<1> USE DEF InjectInv
<1>1. store[m] # "absent"
  BY DEF StoreKnows
<1>2. /\ \A n \in Messages \ {m} : store'[n] = store[n]
      /\ store'[m] = IF store[m] = "delivered" THEN "delivered"
                     ELSE IF m \in Asks THEN "injected" ELSE "delivered"
  BY <1>1 DEF MarkDelivered, Marked, RestTyped
<1>3. delivered' = delivered \cup {m} /\ queue' = Without(m)
  BY DEF MarkDelivered
<1>4. QueueShaped'
  BY <1>3, WithoutShape DEF QueueShaped
<1>5. \A n \in Messages : Queued(n)' <=> Queued(n) /\ n # m
  <2> DEFINE q == Without(m)
  <2>1. \A n \in Messages : (\E i \in DOMAIN q : q[i] = n) <=> (\E i \in DOMAIN queue : queue[i] = n) /\ n # m
    BY WithoutShape
  <2> HIDE DEF q
  <2>2. queue' = q
    BY <1>3 DEF q
  <2> QED
    BY <2>1, <2>2 DEF Queued
<1>6. TasksShaped'
  BY DEF TasksShaped, Free
<1>7. StoreKnows'
  <2>1. \A n \in Messages : store[n] # "absent" => store'[n] # "absent"
    BY <1>2
  <2>2. \A u \in Tasks : task[u].msg \subseteq Messages
    BY DEF TasksShaped, Task
  <2>3. ASSUME NEW u \in Tasks, NEW n \in task'[u].msg
        PROVE  store'[n] # "absent"
    BY <2>1, <2>2, <2>3 DEF StoreKnows, Free
  <2>4. ASSUME NEW i \in DOMAIN queue'
        PROVE  store'[queue'[i]] # "absent"
    <3>1. queue'[i] \in Messages
      BY <1>4, <2>4, LenProperties DEF QueueShaped
    <3>2. Queued(queue'[i])
      BY <1>5, <3>1 DEF Queued
    <3> QED
      BY <2>1, <3>1, <3>2 DEF Queued, StoreKnows
  <2>5. \A n \in delivered' : store'[n] \in {"injected", "delivered"}
    BY <1>2, <1>3 DEF StoreKnows, RestTyped
  <2> QED
    BY <2>3, <2>4, <2>5 DEF StoreKnows
<1>8. AnswersHaveTurns'
  BY DEF AnswersHaveTurns, Free
<1>9. StoredIsAttended'
  <2> SUFFICES ASSUME live = "connected", NEW n \in Messages, store'[n] = "pending"
               PROVE  UnderWay(n)' \/ Queued(n)' \/ n \in stranded'
    BY DEF StoredIsAttended
  <2>1. n # m /\ store[n] = "pending"
    BY <1>2
  <2>2. CASE Queued(n) \/ n \in stranded
    BY <1>5, <2>1, <2>2
  <2>3. CASE UnderWay(n)
    BY <2>1, <2>3 DEF UnderWay
  <2> QED
    BY <2>1, <2>2, <2>3 DEF StoredIsAttended
<1>10. MarkedHasTurn'
  <2> SUFFICES ASSUME ~tui
               PROVE  /\ \A n \in delivered' : turns[n] > 0
                      /\ \A n \in Asks : store'[n] = "injected" => turns[n] > 0
                      /\ \A n \in Messages \ Asks : store'[n] = "delivered" => turns[n] > 0
    BY DEF MarkedHasTurn
  <2>1. turns[m] > 0
    OBVIOUS
  <2>2. /\ \A n \in delivered : turns[n] > 0
        /\ \A n \in Asks : store[n] = "injected" => turns[n] > 0
        /\ \A n \in Messages \ Asks : store[n] = "delivered" => turns[n] > 0
    BY DEF MarkedHasTurn
  <2>3. Asks \subseteq Messages
    BY InjectAssumption
  <2> QED
    BY <1>2, <1>3, <2>1, <2>2, <2>3
<1> QED
  BY <1>4, <1>6, <1>7, <1>8, <1>9, <1>10

\* A flush marks the message it looks at and goes on.
LEMMA FlushMarks ==
  ASSUME InjectInv, NEW t \in Tasks, NEW m \in Messages, task[t].kind = "flush",
         task[t].msg = {m}, turns[m] > 0, MarkDelivered(m), Continues(t, Without(m)),
         UNCHANGED <<tui, live, status, active, openCode, stranded, faults>>
  PROVE  InjectInv'
<1>1. RestTyped /\ TasksShaped /\ QueueShaped
  BY DEF InjectInv
<1>2. Without(m) \in Seq(Messages \ (delivered \cup {m}))
      /\ \A n \in Messages : (\E i \in DOMAIN Without(m) : Without(m)[i] = n) =>
                              \E i \in DOMAIN queue : queue[i] = n
  BY <1>1, WithoutShape
<1>3. Without(m) \in Seq(Messages)
  BY <1>2, LenProperties
<1>4. /\ task' \in [Tasks -> Task] /\ flushing' \in BOOLEAN
      /\ \A u \in Tasks \ {t} : task'[u] = task[u]
      /\ \/ task'[t] = Free
         \/ /\ task'[t].at = "look" /\ task'[t].kind = task[t].kind
            /\ \E n \in Messages : task'[t].msg = {n} /\ \E i \in DOMAIN queue : queue[i] = n
  <2> DEFINE q == Without(m)
  <2>1. q \in Seq(Messages) /\ Continues(t, q)
    BY <1>3
  <2>2. \A n \in Messages : (\E i \in DOMAIN q : q[i] = n) => \E i \in DOMAIN queue : queue[i] = n
    BY <1>2
  <2> HIDE DEF q
  <2> QED
    BY <1>1, <2>1, <2>2, ContinuesShape
<1>5. RestTyped'
  BY <1>1, <1>4 DEF RestTyped, openCode, MarkDelivered, Marked
<1> QED
  BY <1>4, <1>5, MarkInv DEF openCode

LEMMA ProcessSteps ==
  ASSUME InjectInv, StartProcess \/ Connects \/ Disconnects \/ Killed
  PROVE  InjectInv'
<1> USE DEF InjectInv
<1>1. CASE StartProcess
  <2>1. RestTyped'
    BY <1>1 DEF StartProcess, RestTyped, openCode
  <2>2. TasksShaped' /\ QueueShaped' /\ StoreKnows' /\ AnswersHaveTurns' /\ MarkedHasTurn'
    BY <1>1 DEF StartProcess, openCode, TasksShaped, QueueShaped, StoreKnows, AnswersHaveTurns,
                MarkedHasTurn
  <2>3. StoredIsAttended'
    BY <1>1 DEF StartProcess, StoredIsAttended
  <2> QED
    BY <2>1, <2>2, <2>3
<1>2. CASE Connects
  <2>1. Replayed \in SUBSET Messages /\ BeginInjecting(Replayed)
    BY <1>2 DEF Connects, Replayed
  <2>2. /\ task' \in [Tasks -> Task]
        /\ \A t \in Tasks :
             \/ task'[t] = task[t]
             \/ /\ task[t] = Free /\ task'[t].kind = "inject" /\ task'[t].at = "toast"
                /\ \E m \in Replayed : task'[t].msg = {m}
        /\ \A m \in Replayed \ delivered : \E t \in Tasks : task'[t].kind = "inject" /\ m \in task'[t].msg
        /\ queue' \in Seq(Messages \ delivered)
        /\ \A i, j \in DOMAIN queue' : queue'[i] = queue'[j] => i = j
        /\ \A n \in Messages :
              /\ (\E i \in DOMAIN queue : queue[i] = n) => (\E i \in DOMAIN queue' : queue'[i] = n)
              /\ (\E i \in DOMAIN queue' : queue'[i] = n) =>
                   (\E i \in DOMAIN queue : queue[i] = n) \/ n \in Replayed
    BY <2>1, BeginInjectingShape
  <2>3. /\ live = "started" /\ live' = "connected" /\ stranded' \subseteq stranded
        /\ UNCHANGED <<tui, store, status, active, delivered, flushing, host, box, turns, faults>>
    BY <1>2 DEF Connects, BeginInjecting, openCode
  <2>4. RestTyped'
    BY <2>3 DEF RestTyped
  <2>5. TasksShaped'
    BY <2>2, <2>3 DEF TasksShaped, Free, Replayed
  <2>6. QueueShaped'
    BY <2>2, <2>3 DEF QueueShaped
  <2>7. \A i \in DOMAIN queue' : queue'[i] \in Messages
    BY <2>2, LenProperties
  <2>8. StoreKnows'
    <3>1. \A t \in Tasks : \A m \in task'[t].msg : store[m] # "absent"
      BY <2>2 DEF StoreKnows, Replayed
    <3>2. \A i \in DOMAIN queue' : store[queue'[i]] # "absent"
      BY <2>2, <2>7 DEF StoreKnows, Replayed
    <3> QED
      BY <2>3, <3>1, <3>2 DEF StoreKnows
  <2>9. AnswersHaveTurns'
    BY <2>2, <2>3 DEF AnswersHaveTurns
  <2>10. StoredIsAttended'
    BY <2>2, <2>3 DEF StoredIsAttended, UnderWay, StoreKnows, Replayed
  <2>11. MarkedHasTurn'
    BY <2>3 DEF MarkedHasTurn
  <2> QED
    BY <2>4, <2>5, <2>6, <2>8, <2>9, <2>10, <2>11
<1>3. CASE Disconnects
  <2>1. RestTyped'
    BY <1>3, InjectAssumption DEF Disconnects, RestTyped, openCode, plugin, Fault
  <2>2. TasksShaped' /\ QueueShaped' /\ StoreKnows' /\ AnswersHaveTurns' /\ MarkedHasTurn'
    BY <1>3 DEF Disconnects, openCode, plugin, TasksShaped, QueueShaped, StoreKnows,
                AnswersHaveTurns, MarkedHasTurn
  <2>3. StoredIsAttended'
    BY <1>3 DEF Disconnects, StoredIsAttended
  <2> QED
    BY <2>1, <2>2, <2>3
<1>4. CASE Killed
  <2>1. RestTyped'
    <3>1. faults' \in 0..MaxFaults
      BY <1>4, InjectAssumption DEF Killed, RestTyped, Fault
    <3>2. host' \in {"none", "idle", "busy"}
      BY <1>4 DEF Killed, RestTyped
    <3> QED
      BY <1>4, <3>1, <3>2 DEF Killed, RestTyped
  <2>2. TasksShaped'
    <3>1. Free \in Task
      BY DEF Free, Task, Places
    <3>2. task' \in [Tasks -> Task] /\ \A t \in Tasks : task'[t] = Free
      BY <1>4, <3>1 DEF Killed
    <3> QED
      BY <3>2 DEF TasksShaped, Free
  <2>3. QueueShaped' /\ StoreKnows' /\ AnswersHaveTurns' /\ MarkedHasTurn'
    BY <1>4 DEF Killed, QueueShaped, StoreKnows, AnswersHaveTurns, MarkedHasTurn, Free
  <2>4. StoredIsAttended'
    BY <1>4 DEF Killed, StoredIsAttended
  <2> QED
    BY <2>1, <2>2, <2>3, <2>4
<1> QED
  BY <1>1, <1>2, <1>3, <1>4

LEMMA MessageSteps ==
  ASSUME InjectInv, NEW m \in Messages, Receives(m) \/ Replies(m)
  PROVE  InjectInv'
<1> USE DEF InjectInv
<1>1. CASE Receives(m)
  <2>1. {m} \in SUBSET Messages /\ BeginInjecting({m})
    BY <1>1 DEF Receives
  <2>2. /\ task' \in [Tasks -> Task]
        /\ \A t \in Tasks :
             \/ task'[t] = task[t]
             \/ /\ task[t] = Free /\ task'[t].kind = "inject" /\ task'[t].at = "toast"
                /\ \E n \in {m} : task'[t].msg = {n}
        /\ \A n \in {m} \ delivered : \E t \in Tasks : task'[t].kind = "inject" /\ n \in task'[t].msg
        /\ queue' \in Seq(Messages \ delivered)
        /\ \A i, j \in DOMAIN queue' : queue'[i] = queue'[j] => i = j
        /\ \A n \in Messages :
              /\ (\E i \in DOMAIN queue : queue[i] = n) => (\E i \in DOMAIN queue' : queue'[i] = n)
              /\ (\E i \in DOMAIN queue' : queue'[i] = n) =>
                   (\E i \in DOMAIN queue : queue[i] = n) \/ n \in {m}
    BY <2>1, BeginInjectingShape
  <2>3. /\ live = "connected" /\ store[m] = "absent"
        /\ store' = [store EXCEPT ![m] = "pending"]
        /\ stranded' = stranded \ ({m} \ delivered)
        /\ UNCHANGED <<tui, live, status, active, delivered, flushing, host, box, turns, faults>>
    BY <1>1 DEF Receives, BeginInjecting, openCode
  <2>4. RestTyped'
    BY <2>3 DEF RestTyped
  <2>5. TasksShaped'
    BY <2>2, <2>3 DEF TasksShaped, Free
  <2>6. QueueShaped'
    BY <2>2, <2>3 DEF QueueShaped
  <2>7. \A i \in DOMAIN queue' : queue'[i] \in Messages
    BY <2>2, LenProperties
  <2>8. StoreKnows'
    <3>1. \A n \in Messages : store'[n] = IF n = m THEN "pending" ELSE store[n]
      BY <2>3 DEF RestTyped
    <3>2. \A t \in Tasks : task[t].msg \subseteq Messages
      BY DEF TasksShaped, Task
    <3>3. ASSUME NEW t \in Tasks, NEW n \in task'[t].msg
          PROVE  store'[n] # "absent"
      BY <2>2, <3>1, <3>2, <3>3 DEF StoreKnows
    <3>4. \A i \in DOMAIN queue' : store'[queue'[i]] # "absent"
      BY <2>2, <2>7, <3>1 DEF StoreKnows
    <3>5. \A n \in delivered : n # m
      BY <2>3 DEF StoreKnows
    <3>6. \A n \in delivered' : store'[n] \in {"injected", "delivered"}
      BY <2>3, <3>1, <3>5 DEF StoreKnows, RestTyped
    <3> QED
      BY <3>3, <3>4, <3>6 DEF StoreKnows
  <2>9. AnswersHaveTurns'
    BY <2>2, <2>3 DEF AnswersHaveTurns
  <2>10. StoredIsAttended'
    <3>1. m \notin delivered
      BY <2>3 DEF StoreKnows
    <3>2. ASSUME NEW n \in Messages, store'[n] = "pending", n # m
          PROVE  UnderWay(n)' \/ Queued(n)' \/ n \in stranded'
      <4>1. store[n] = "pending"
        BY <2>3, <3>2 DEF RestTyped
      <4>2. UnderWay(n) => UnderWay(n)'
        BY <2>2 DEF UnderWay, Free
      <4>3. Queued(n) => Queued(n)'
        BY <2>2 DEF Queued
      <4> QED
        BY <2>3, <3>2, <4>1, <4>2, <4>3 DEF StoredIsAttended
    <3>3. UnderWay(m)'
      BY <2>2, <3>1 DEF UnderWay
    <3> QED
      BY <3>2, <3>3 DEF StoredIsAttended
  <2>11. MarkedHasTurn'
    BY <2>3, InjectAssumption DEF MarkedHasTurn, RestTyped
  <2> QED
    BY <2>4, <2>5, <2>6, <2>8, <2>9, <2>10, <2>11
<1>2. CASE Replies(m)
  <2>1. /\ m \in Asks /\ store' = [store EXCEPT ![m] = "delivered"]
        /\ UNCHANGED <<tui, live, status, active, queue, delivered, flushing, task, host, box,
                       turns, stranded, faults>>
    BY <1>2 DEF Replies, plugin, openCode
  <2>2. RestTyped'
    BY <2>1 DEF RestTyped
  <2>3. TasksShaped' /\ QueueShaped' /\ AnswersHaveTurns'
    BY <2>1 DEF TasksShaped, QueueShaped, AnswersHaveTurns
  <2>4. StoreKnows'
    BY <2>1 DEF StoreKnows, RestTyped
  <2>5. StoredIsAttended'
    BY <2>1 DEF StoredIsAttended, Queued, UnderWay, RestTyped
  <2>6. MarkedHasTurn'
    BY <2>1, InjectAssumption DEF MarkedHasTurn, RestTyped
  <2> QED
    BY <2>2, <2>3, <2>4, <2>5, <2>6
<1> QED
  BY <1>1, <1>2

LEMMA SessionSteps ==
  ASSUME InjectInv, SessionWorks \/ SessionEvent \/ SessionIdle
  PROVE  InjectInv'
<1> USE DEF InjectInv
<1>1. CASE SessionWorks \/ SessionEvent
  <2>1. RestTyped'
    BY <1>1 DEF SessionWorks, SessionEvent, plugin, openCode, RestTyped
  <2>2. UNCHANGED <<tui, store, live, queue, delivered, task, turns, stranded>>
    BY <1>1 DEF SessionWorks, SessionEvent, plugin, openCode
  <2> QED
    BY <2>1, <2>2 DEF TasksShaped, QueueShaped, StoreKnows, AnswersHaveTurns, StoredIsAttended,
                      MarkedHasTurn, Queued, UnderWay
<1>2. CASE SessionIdle
  <2>1. Begin({Flush}) /\ live # "stopped"
        /\ UNCHANGED <<tui, store, live, queue, delivered, flushing, box, turns, stranded, faults>>
    BY <1>2 DEF SessionIdle
  <2>2. /\ task' = [t \in Tasks |-> task'[t]]
        /\ \A t \in Tasks : task'[t] = task[t] \/ (task[t] = Free /\ task'[t] \in {Flush})
    BY <2>1, BeginShape DEF TasksShaped
  <2>3. Flush \in Task
    BY DEF Flush, Task, Places
  <2>4. RestTyped'
    BY <1>2 DEF SessionIdle, RestTyped
  <2>5. TasksShaped'
    <3>1. task' \in [Tasks -> Task]
      BY <2>2, <2>3 DEF TasksShaped
    <3>2. Flush.kind = "flush" /\ Flush.at = "summary"
      BY DEF Flush
    <3> QED
      BY <2>1, <2>2, <3>1, <3>2 DEF TasksShaped
  <2>6. QueueShaped' /\ StoreKnows' /\ AnswersHaveTurns' /\ MarkedHasTurn'
    BY <2>1, <2>2 DEF QueueShaped, StoreKnows, AnswersHaveTurns, MarkedHasTurn, Flush
  <2>7. StoredIsAttended'
    BY <2>1, <2>2 DEF StoredIsAttended, Queued, UnderWay, Free
  <2> QED
    BY <2>4, <2>5, <2>6, <2>7
<1> QED
  BY <1>1, <1>2

\* The steps of injectInbound after its first.
LEMMA InjectionSteps ==
  ASSUME InjectInv, NEW t \in Tasks,
         \/ AfterToast(t) \/ Appends(t) \/ Submits(t) \/ AfterSubmit(t)
         \/ InjectionResolves(t) \/ InjectionStrands(t) \/ InjectionLooks(t)
         \/ Prompted(t) \/ InjectionPrompted(t) \/ InjectionRejected(t)
  PROVE  InjectInv'
<1> USE DEF InjectInv
<1>0. /\ task[t] \in Task /\ task[t].msg \subseteq Messages
      /\ TasksShaped /\ Free.kind = "free" /\ Free.at = "end"
      /\ \A m \in Messages : turns[m] \in 0..MaxTurns
  BY DEF TasksShaped, Task, Free, RestTyped
<1>1. CASE AfterToast(t)
  <2>1. PICK at \in {"append", "resolve"} : GoesTo(t, at) /\ (~tui => at = "resolve")
    BY <1>1 DEF AfterToast
  <2>2. On(t, "inject", "toast") /\ UNCHANGED <<tui, store, live, plugin, openCode, stranded, faults>>
    BY <1>1 DEF AfterToast
  <2>3. OneMoves(t) /\ task'[t].at = at /\ task'[t].kind = "inject"
    BY <1>0, <2>1, <2>2, GoesToShape DEF OneMoves, On, Places
  <2>4. RestTyped'
    BY <2>2 DEF RestTyped, plugin, openCode
  <2> QED
    BY <1>0, <2>1, <2>2, <2>3, <2>4, OneMovesInv, InjectAssumption DEF plugin, openCode
<1>2. CASE Appends(t)
  <2>1. PICK at \in {"submit", "resolve"} : GoesTo(t, at)
    BY <1>2 DEF Appends
  <2>2. On(t, "inject", "append") /\ UNCHANGED <<tui, store, live, plugin, host, turns, stranded>>
    BY <1>2 DEF Appends
  <2>3. OneMoves(t) /\ task'[t].at = at /\ task'[t].kind = "inject"
    BY <1>0, <2>1, <2>2, GoesToShape DEF OneMoves, On, Places
  <2>4. RestTyped'
    <3>1. box' \subseteq Messages /\ faults' \in 0..MaxFaults
      BY <1>0, <1>2, InjectAssumption DEF Appends, Fault, RestTyped
    <3> QED
      BY <2>2, <3>1 DEF RestTyped, plugin
  <2>5. tui
    BY <2>2 DEF AnswersHaveTurns, On
  <2> QED
    BY <1>0, <2>1, <2>2, <2>3, <2>4, <2>5, OneMovesInv, InjectAssumption DEF plugin
<1>3. CASE Submits(t)
  <2>1. PICK at \in {"submitted", "resolve"} : GoesTo(t, at)
    BY <1>3 DEF Submits
  <2>2. On(t, "inject", "submit") /\ UNCHANGED <<tui, store, live, plugin, stranded>>
    BY <1>3 DEF Submits
  <2>3. OneMoves(t) /\ task'[t].at = at /\ task'[t].kind = "inject"
    BY <1>0, <2>1, <2>2, GoesToShape DEF OneMoves, On, Places
  <2>4. tui
    BY <2>2 DEF AnswersHaveTurns, On
  <2>5. turns' = turns \/ turns' = Taken(box)
    BY <1>3 DEF Submits, openCode
  <2>6. /\ turns' \in [Messages -> 0..MaxTurns]
        /\ \A m \in Messages : turns'[m] >= turns[m]
    BY <1>0, <2>5, InjectAssumption DEF Taken, RestTyped
  <2>7. RestTyped'
    <3>1. box' \subseteq Messages /\ host' \in {"none", "idle", "busy"}
      BY <1>3 DEF Submits, openCode, RestTyped
    <3>2. faults' \in 0..MaxFaults
      BY <1>3, InjectAssumption DEF Submits, Fault, RestTyped
    <3> QED
      BY <2>2, <2>6, <3>1, <3>2 DEF RestTyped, plugin
  <2> QED
    BY <1>0, <2>1, <2>2, <2>3, <2>4, <2>6, <2>7, OneMovesInv, InjectAssumption DEF plugin
<1>4. CASE AfterSubmit(t)
  <2>1. On(t, "inject", "submitted") /\ UNCHANGED <<tui, live, status, active, flushing, openCode, stranded, faults>>
    BY <1>4 DEF AfterSubmit
  <2>2. tui
    BY <2>1 DEF AnswersHaveTurns, On
  <2>3. CASE task[t].busy
    <3>1. GoesTo(t, "resolve") /\ UNCHANGED <<store, queue, delivered>>
      BY <1>4, <2>3 DEF AfterSubmit
    <3>2. OneMoves(t) /\ task'[t].at = "resolve" /\ task'[t].kind = "inject"
      BY <1>0, <2>1, <3>1, GoesToShape DEF OneMoves, On, Places
    <3>3. RestTyped'
      BY <2>1, <3>1 DEF RestTyped, openCode
    <3> QED
      BY <1>0, <2>1, <2>2, <3>1, <3>2, <3>3, OneMovesInv, InjectAssumption DEF openCode
  <2>4. CASE ~task[t].busy
    <3>1. PICK m \in task[t].msg : MarkDelivered(m)
      BY <1>4, <2>4 DEF AfterSubmit
    <3>2. Ends(t)
      BY <1>4, <2>4 DEF AfterSubmit
    <3>3. m \in Messages /\ task[t].msg = {m}
      BY <1>0, <2>1, <3>1 DEF TasksShaped, On
    <3>4. RestTyped'
      BY <2>1, <3>1, <3>3 DEF RestTyped, openCode, MarkDelivered, Marked
    <3> QED
      BY <2>1, <2>2, <3>1, <3>2, <3>3, <3>4, EndsShape, MarkInv DEF openCode
  <2> QED
    BY <2>3, <2>4
<1>5. CASE InjectionResolves(t)
  <2>1. /\ On(t, "inject", "resolve") /\ GoesTo(t, "look") /\ active' = TRUE
        /\ UNCHANGED <<tui, store, live, status, queue, delivered, flushing, openCode, stranded, faults>>
    BY <1>5 DEF InjectionResolves
  <2>2. OneMoves(t) /\ task'[t].at = "look" /\ task'[t].kind = "inject"
    BY <1>0, <2>1, GoesToShape DEF OneMoves, On, Places
  <2>3. RestTyped'
    BY <2>1 DEF RestTyped, openCode
  <2> QED
    BY <1>0, <2>1, <2>2, <2>3, OneMovesInv, InjectAssumption DEF openCode
<1>6. CASE InjectionStrands(t)
  <2>1. /\ On(t, "inject", "resolve") /\ Ends(t) /\ stranded' = stranded \cup task[t].msg
        /\ UNCHANGED <<tui, store, live, plugin, openCode>>
    BY <1>6 DEF InjectionStrands
  <2>2. OneMoves(t) /\ task'[t] = Free
    BY <1>0, <2>1, EndsShape DEF OneMoves
  <2>3. RestTyped'
    BY <1>0, <1>6, <2>1, InjectAssumption DEF InjectionStrands, Fault, RestTyped, openCode, plugin
  <2> QED
    BY <1>0, <2>1, <2>2, <2>3, OneMovesInv, InjectAssumption DEF openCode, plugin
<1>7. CASE InjectionLooks(t)
  <2>1. On(t, "inject", "look") /\ UNCHANGED <<tui, live, status, active, flushing, openCode, stranded>>
    BY <1>7 DEF InjectionLooks
  <2>2. PICK m \in task[t].msg :
          \/ turns[m] > 0 /\ MarkDelivered(m) /\ Ends(t) /\ UNCHANGED faults
          \/ /\ IF turns[m] = 0 THEN UNCHANGED faults ELSE Fault
             /\ GoesTo(t, "prompt") /\ UNCHANGED <<store, queue, delivered>>
    BY <1>7 DEF InjectionLooks
  <2>3. m \in Messages /\ task[t].msg = {m}
    BY <1>0, <2>1, <2>2 DEF TasksShaped, On
  <2>4. CASE turns[m] > 0 /\ MarkDelivered(m) /\ Ends(t) /\ UNCHANGED faults
    <3>1. RestTyped'
      BY <2>1, <2>3, <2>4 DEF RestTyped, openCode, MarkDelivered, Marked
    <3> QED
      BY <2>1, <2>3, <2>4, <3>1, EndsShape, MarkInv DEF openCode
  <2>5. CASE /\ IF turns[m] = 0 THEN UNCHANGED faults ELSE Fault
             /\ GoesTo(t, "prompt") /\ UNCHANGED <<store, queue, delivered>>
    <3>1. OneMoves(t) /\ task'[t].at = "prompt" /\ task'[t].kind = "inject"
      BY <1>0, <2>1, <2>5, GoesToShape DEF OneMoves, On, Places
    <3>2. faults' \in 0..MaxFaults
      BY <2>5, InjectAssumption DEF Fault, RestTyped
    <3>3. RestTyped'
      BY <2>1, <2>5, <3>2 DEF RestTyped, openCode
    <3> QED
      BY <1>0, <2>1, <2>5, <3>1, <3>3, OneMovesInv, InjectAssumption DEF openCode
  <2> QED
    BY <2>2, <2>4, <2>5
<1>8. CASE Prompted(t)
  <2>1. /\ task[t].at = "prompt" /\ GoesTo(t, "prompted")
        /\ turns' = Taken(task[t].msg) /\ host' = "busy"
        /\ UNCHANGED <<tui, store, live, plugin, box, stranded, faults>>
    BY <1>8 DEF Prompted
  <2>2. task[t].kind # "free"
    BY <1>0, <2>1 DEF TasksShaped
  <2>3. OneMoves(t) /\ task'[t].at = "prompted" /\ task'[t].kind = task[t].kind
    BY <1>0, <2>1, <2>2, GoesToShape DEF OneMoves, Places
  <2>4. /\ turns' \in [Messages -> 0..MaxTurns]
        /\ \A m \in Messages : turns'[m] >= turns[m]
        /\ \A m \in task[t].msg : turns'[m] > 0
    BY <1>0, <2>1, InjectAssumption DEF Taken, RestTyped
  <2>5. RestTyped'
    BY <2>1, <2>4 DEF RestTyped, plugin
  <2> QED
    BY <1>0, <2>1, <2>2, <2>3, <2>4, <2>5, OneMovesInv DEF plugin
<1>9. CASE InjectionPrompted(t)
  <2>1. /\ On(t, "inject", "prompted") /\ Ends(t)
        /\ UNCHANGED <<tui, live, status, active, flushing, openCode, stranded, faults>>
    BY <1>9 DEF InjectionPrompted
  <2>2. PICK m \in task[t].msg : MarkDelivered(m)
    BY <1>9 DEF InjectionPrompted
  <2>3. m \in Messages /\ task[t].msg = {m} /\ turns[m] > 0
    BY <1>0, <2>1, <2>2 DEF TasksShaped, On, AnswersHaveTurns
  <2>4. RestTyped'
    BY <2>1, <2>2, <2>3 DEF RestTyped, openCode, MarkDelivered, Marked
  <2> QED
    BY <2>1, <2>2, <2>3, <2>4, EndsShape, MarkInv DEF openCode
<1>10. CASE InjectionRejected(t)
  <2>1. /\ On(t, "inject", "prompt") /\ Ends(t) /\ Fault
        /\ UNCHANGED <<tui, store, live, status, active, delivered, flushing, openCode, stranded>>
    BY <1>10 DEF InjectionRejected
  <2>2. PICK m \in task[t].msg : queue' = Enqueued(queue, m)
    BY <1>10 DEF InjectionRejected
  <2>3. m \in Messages /\ task[t].msg = {m} /\ store[m] # "absent"
    BY <1>0, <2>1, <2>2 DEF TasksShaped, On, StoreKnows
  <2>4. /\ queue' \in Seq(Messages \ delivered)
        /\ \A i, j \in DOMAIN queue' : queue'[i] = queue'[j] => i = j
        /\ \A n \in Messages :
              (\E i \in DOMAIN queue' : queue'[i] = n)
                <=> (\E i \in DOMAIN queue : queue[i] = n) \/ (n = m /\ m \notin delivered)
    <3> DEFINE q == Enqueued(queue, m)
    <3>1. /\ q \in Seq(Messages \ delivered)
          /\ \A i, j \in DOMAIN q : q[i] = q[j] => i = j
          /\ \A n \in Messages :
                (\E i \in DOMAIN q : q[i] = n)
                  <=> (\E i \in DOMAIN queue : queue[i] = n) \/ (n = m /\ m \notin delivered)
      BY <2>3, EnqueuedShape
    <3> HIDE DEF q
    <3>2. queue' = q
      BY <2>2 DEF q
    <3> QED
      BY <3>1, <3>2
  <2>5. RestTyped'
    BY <2>1, InjectAssumption DEF RestTyped, openCode, Fault
  <2>6. /\ task' \in [Tasks -> Task] /\ task'[t] = Free
        /\ \A u \in Tasks \ {t} : task'[u] = task[u]
    BY <2>1, EndsShape
  <2>7. TasksShaped'
    BY <2>1, <2>6 DEF TasksShaped, Free
  <2>8. QueueShaped'
    BY <2>1, <2>4 DEF QueueShaped
  <2>9. StoreKnows'
    <3>1. \A i \in DOMAIN queue' : queue'[i] \in Messages
      BY <2>4, LenProperties
    <3>2. \A i \in DOMAIN queue' : store[queue'[i]] # "absent"
      BY <2>3, <2>4, <3>1 DEF StoreKnows
    <3>3. \A u \in Tasks : \A n \in task'[u].msg : store[n] # "absent"
      BY <2>6 DEF StoreKnows, Free
    <3> QED
      BY <2>1, <3>2, <3>3 DEF StoreKnows
  <2>10. AnswersHaveTurns'
    BY <2>1, <2>6 DEF AnswersHaveTurns, Free, openCode
  <2>11. StoredIsAttended'
    <3> SUFFICES ASSUME live = "connected", NEW n \in Messages, store[n] = "pending"
                 PROVE  UnderWay(n)' \/ Queued(n)' \/ n \in stranded'
      BY <2>1 DEF StoredIsAttended
    <3>1. n = m => m \notin delivered
      BY DEF StoreKnows
    <3>2. CASE n = m
      BY <2>4, <3>1, <3>2 DEF Queued
    <3>3. CASE n # m
      <4>1. UnderWay(n) => UnderWay(n)'
        BY <2>3, <2>6, <3>3 DEF UnderWay
      <4>2. Queued(n) => Queued(n)'
        BY <2>4 DEF Queued
      <4> QED
        BY <2>1, <4>1, <4>2 DEF StoredIsAttended
    <3> QED
      BY <3>2, <3>3
  <2>12. MarkedHasTurn'
    BY <2>1 DEF MarkedHasTurn, openCode
  <2> QED
    BY <2>5, <2>7, <2>8, <2>9, <2>10, <2>11, <2>12
<1> QED
  BY <1>1, <1>2, <1>3, <1>4, <1>5, <1>6, <1>7, <1>8, <1>9, <1>10

\* The steps of flushPendingInjectQueue.
LEMMA FlushSteps ==
  ASSUME InjectInv, NEW t \in Tasks,
         FlushCalled(t) \/ FlushBegins(t) \/ FlushLooks(t) \/ FlushPrompted(t) \/ FlushRejected(t)
  PROVE  InjectInv'
<1> USE DEF InjectInv
<1>0. /\ task[t] \in Task /\ task[t].msg \subseteq Messages
      /\ TasksShaped /\ Free.kind = "free" /\ Free.at = "end"
      /\ \A m \in Messages : turns[m] \in 0..MaxTurns
      /\ queue \in Seq(Messages)
      /\ \A m \in Messages : turns[m] >= turns[m]
  BY InjectAssumption, LenProperties DEF TasksShaped, Task, Free, RestTyped, QueueShaped
<1>1. CASE FlushCalled(t)
  <2>1. /\ On(t, "flush", "summary") /\ (Ends(t) \/ GoesTo(t, "resolve"))
        /\ UNCHANGED <<tui, store, live, plugin, openCode, stranded>>
    BY <1>1 DEF FlushCalled
  <2>2. OneMoves(t) /\ task'[t].at \notin {"prompted", "append", "submit", "submitted"}
    BY <1>0, <2>1, GoesToShape, EndsShape DEF OneMoves, On, Places
  <2>3. RestTyped'
    <3>1. faults' = faults \/ Fault
      BY <1>1 DEF FlushCalled
    <3>2. faults' \in 0..MaxFaults
      BY <3>1, InjectAssumption DEF Fault, RestTyped
    <3> QED
      BY <2>1, <3>2 DEF RestTyped, openCode, plugin
  <2> QED
    BY <1>0, <2>1, <2>2, <2>3, OneMovesInv DEF plugin, openCode, On
<1>2. CASE FlushBegins(t)
  <2>1. /\ On(t, "flush", "resolve") /\ Continues(t, queue)
        /\ UNCHANGED <<tui, store, live, status, active, queue, delivered, openCode, stranded, faults>>
    BY <1>2 DEF FlushBegins
  <2>2. /\ task' \in [Tasks -> Task] /\ flushing' \in BOOLEAN
        /\ \A u \in Tasks \ {t} : task'[u] = task[u]
        /\ \/ task'[t] = Free
           \/ /\ task'[t].at = "look" /\ task'[t].kind = task[t].kind
              /\ \E m \in Messages : task'[t].msg = {m} /\ \E i \in DOMAIN queue : queue[i] = m
    BY <1>0, <2>1, ContinuesShape
  <2>3. RestTyped'
    BY <2>1, <2>2 DEF RestTyped, openCode
  <2>4. TasksShaped'
    BY <2>1, <2>2 DEF TasksShaped, Free, On
  <2>5. QueueShaped' /\ MarkedHasTurn' /\ AnswersHaveTurns'
    BY <2>1, <2>2 DEF QueueShaped, MarkedHasTurn, AnswersHaveTurns, openCode, Free
  <2>6. StoreKnows'
    BY <2>1, <2>2 DEF StoreKnows, Free
  <2>7. StoredIsAttended'
    BY <2>1, <2>2 DEF StoredIsAttended, Queued, UnderWay, On
  <2> QED
    BY <2>3, <2>4, <2>5, <2>6, <2>7
<1>3. CASE FlushLooks(t)
  <2>1. On(t, "flush", "look") /\ UNCHANGED <<tui, live, status, active, openCode, stranded>>
    BY <1>3 DEF FlushLooks
  <2>2. PICK m \in task[t].msg :
          \/ /\ turns[m] > 0 /\ UNCHANGED faults
             /\ MarkDelivered(m) /\ Continues(t, Without(m))
          \/ /\ IF turns[m] = 0 THEN UNCHANGED faults ELSE Fault
             /\ GoesTo(t, "prompt") /\ UNCHANGED <<store, queue, delivered, flushing>>
    BY <1>3 DEF FlushLooks
  <2>3. m \in Messages /\ task[t].msg = {m}
    BY <1>0, <2>1, <2>2 DEF TasksShaped, On
  <2>4. CASE /\ turns[m] > 0 /\ UNCHANGED faults
             /\ MarkDelivered(m) /\ Continues(t, Without(m))
    BY <2>1, <2>3, <2>4, FlushMarks DEF On
  <2>5. CASE /\ IF turns[m] = 0 THEN UNCHANGED faults ELSE Fault
             /\ GoesTo(t, "prompt") /\ UNCHANGED <<store, queue, delivered, flushing>>
    <3>1. OneMoves(t) /\ task'[t].at = "prompt" /\ task'[t].kind = "flush"
      BY <1>0, <2>1, <2>5, GoesToShape DEF OneMoves, On, Places
    <3>2. faults' \in 0..MaxFaults
      BY <2>5, InjectAssumption DEF Fault, RestTyped
    <3>3. RestTyped'
      BY <2>1, <2>5, <3>2 DEF RestTyped, openCode
    <3> QED
      BY <1>0, <2>1, <2>5, <3>1, <3>3, OneMovesInv DEF openCode
  <2> QED
    BY <2>2, <2>4, <2>5
<1>4. CASE FlushPrompted(t)
  <2>1. /\ On(t, "flush", "prompted")
        /\ UNCHANGED <<tui, live, status, active, openCode, stranded, faults>>
    BY <1>4 DEF FlushPrompted
  <2>2. PICK m \in task[t].msg : MarkDelivered(m) /\ Continues(t, Without(m))
    BY <1>4 DEF FlushPrompted
  <2>3. m \in Messages /\ task[t].msg = {m} /\ turns[m] > 0
    BY <1>0, <2>1, <2>2 DEF TasksShaped, On, AnswersHaveTurns
  <2> QED
    BY <2>1, <2>2, <2>3, FlushMarks DEF On
<1>5. CASE FlushRejected(t)
  <2>1. /\ On(t, "flush", "prompt") /\ Fault /\ Ends(t) /\ flushing' = FALSE
        /\ UNCHANGED <<tui, store, live, status, active, queue, delivered, openCode, stranded>>
    BY <1>5 DEF FlushRejected
  <2>2. OneMoves(t) /\ task'[t] = Free
    BY <2>1, EndsShape DEF OneMoves
  <2>3. RestTyped'
    <3>1. faults' \in 0..MaxFaults
      BY <2>1, InjectAssumption DEF Fault, RestTyped
    <3> QED
      BY <2>1, <3>1 DEF RestTyped, openCode
  <2> QED
    BY <1>0, <2>1, <2>2, <2>3, OneMovesInv DEF openCode, On
<1> QED
  BY <1>1, <1>2, <1>3, <1>4, <1>5

LEMMA NextInv == InjectInv /\ [InjectNext]_vars => InjectInv'
<1> SUFFICES ASSUME InjectInv, [InjectNext]_vars
             PROVE  InjectInv'
  OBVIOUS
<1>1. CASE StartProcess \/ Connects \/ Disconnects \/ Killed
  BY <1>1, ProcessSteps
<1>2. CASE \E m \in Messages : Receives(m) \/ Replies(m)
  BY <1>2, MessageSteps
<1>3. CASE SessionWorks \/ SessionEvent \/ SessionIdle
  BY <1>3, SessionSteps
<1>4. CASE \E t \in Tasks : Proceeds(t)
  BY <1>4, InjectionSteps, FlushSteps DEF Proceeds
<1>5. CASE UNCHANGED vars
  BY <1>5 DEF vars, plugin, openCode, InjectInv, RestTyped, TasksShaped, QueueShaped, StoreKnows,
              AnswersHaveTurns, StoredIsAttended, MarkedHasTurn, Queued, UnderWay
<1> QED
  BY <1>1, <1>2, <1>3, <1>4, <1>5 DEF InjectNext

LEMMA InjectInvariant == InjectSpec => []InjectInv
<1> QED
  BY InitInv, NextInv, PTL DEF InjectSpec

-----------------------------------------------------------------------------
(* The theorems.                                                           *)

\* The variables keep their types: among others the queue never holds a message
\* twice, nor one that has been delivered (plugin.ts:151-167).
THEOREM InjectTypeCorrect == InjectSpec => []InjectTypeOK
<1>1. InjectInv => InjectTypeOK
  <2> SUFFICES ASSUME InjectInv
               PROVE  InjectTypeOK
    OBVIOUS
  <2>1. RestTyped /\ TasksShaped /\ QueueShaped
    BY DEF InjectInv
  <2>2. queue \in UNION {[1..n -> Messages \ delivered] : n \in 0..Cardinality(Messages)}
    <3>1. /\ queue \in [1..Len(queue) -> Messages \ delivered] /\ Len(queue) \in Nat
          /\ queue \in Seq(Messages)
      BY <2>1, LenProperties DEF QueueShaped
    <3>2. Len(queue) <= Cardinality(Messages)
      BY <2>1, <3>1, LengthBound, InjectAssumption DEF QueueShaped
    <3>3. Cardinality(Messages) \in Nat
      BY FS_CardinalityType, InjectAssumption
    <3> DEFINE n == Len(queue)
    <3>4. n \in 0..Cardinality(Messages) /\ queue \in [1..n -> Messages \ delivered]
      BY <3>1, <3>2, <3>3
    <3> HIDE DEF n
    <3> QED
      BY <3>4
  <2>3. \A t \in Tasks :
          /\ task[t] = Free <=> task[t].kind = "free"
          /\ task[t].kind = "inject" => task[t].msg \in {{m} : m \in Messages}
          /\ task[t].kind # "free" => live # "stopped"
    BY <2>1 DEF TasksShaped, Free
  <2> QED
    BY <2>1, <2>2, <2>3 DEF InjectTypeOK, RestTyped, TasksShaped, QueueShaped
<1> QED
  BY <1>1, InjectInvariant, PTL

\* While it is connected, the process never forgets a message that it has
\* acknowledged and not yet shown to OpenCode.
THEOREM StoredAreAttended == InjectSpec => []StoredIsAttended
<1>1. InjectInv => StoredIsAttended
  BY DEF InjectInv
<1> QED
  BY <1>1, InjectInvariant, PTL

\* Without a terminal, what the plugin calls delivered has become a turn.
THEOREM MarkedHaveTurns == InjectSpec => []MarkedHasTurn
<1>1. InjectInv => MarkedHasTurn
  BY DEF InjectInv
<1> QED
  BY <1>1, InjectInvariant, PTL

\* What a step does to the queue: it drops nothing, or the message that the store
\* learns to be done with, or the process ends.
LEMMA QueueSteps ==
  ASSUME InjectInv, InjectNext
  PROVE  \/ live' = "stopped"
         \/ \A m \in Messages : Queued(m) => Queued(m)'
         \/ \E m \in Messages : store[m] # "absent" /\ MarkDelivered(m)
<1> USE DEF InjectInv
<1>1. ASSUME NEW S \in SUBSET Messages, BeginInjecting(S)
      PROVE  \A m \in Messages : Queued(m) => Queued(m)'
  BY <1>1, BeginInjectingShape DEF Queued
<1>2. ASSUME NEW t \in Tasks, NEW m \in task[t].msg
      PROVE  m \in Messages /\ store[m] # "absent"
  BY <1>2 DEF TasksShaped, Task, StoreKnows
<1>3. ASSUME queue' = queue
      PROVE  \A m \in Messages : Queued(m) => Queued(m)'
  BY <1>3 DEF Queued
<1>4. CASE StartProcess \/ Disconnects \/ Killed \/ Connects
  <2>1. Replayed \in SUBSET Messages
    BY DEF Replayed
  <2> QED
    BY <1>1, <1>3, <1>4, <2>1 DEF StartProcess, Disconnects, Killed, Connects, plugin
<1>5. ASSUME NEW m \in Messages, Receives(m) \/ Replies(m)
      PROVE  \A n \in Messages : Queued(n) => Queued(n)'
  <2>1. {m} \in SUBSET Messages
    OBVIOUS
  <2> QED
    BY <1>1, <1>3, <1>5, <2>1 DEF Receives, Replies, plugin
<1>6. CASE SessionWorks \/ SessionEvent \/ SessionIdle
  BY <1>3, <1>6 DEF SessionWorks, SessionEvent, SessionIdle, plugin
<1>7. ASSUME NEW t \in Tasks, Proceeds(t)
      PROVE  \/ \A m \in Messages : Queued(m) => Queued(m)'
             \/ \E m \in Messages : store[m] # "absent" /\ MarkDelivered(m)
  <2>1. CASE InjectionRejected(t)
    <3>1. PICK m \in task[t].msg : queue' = Enqueued(queue, m)
      BY <2>1 DEF InjectionRejected
    <3> DEFINE q == Enqueued(queue, m)
    <3>2. \A n \in Messages : (\E i \in DOMAIN queue : queue[i] = n) => \E i \in DOMAIN q : q[i] = n
      BY <1>2, EnqueuedShape
    <3> HIDE DEF q
    <3>3. queue' = q
      BY <3>1 DEF q
    <3> QED
      BY <3>2, <3>3 DEF Queued
  <2>2. CASE \/ AfterToast(t) \/ Appends(t) \/ Submits(t) \/ InjectionResolves(t)
             \/ InjectionStrands(t) \/ Prompted(t) \/ FlushCalled(t) \/ FlushBegins(t)
             \/ FlushRejected(t)
    <3>1. queue' = queue
      BY <2>2 DEF AfterToast, Appends, Submits, InjectionResolves, InjectionStrands, Prompted,
                  FlushCalled, FlushBegins, FlushRejected, plugin
    <3> QED
      BY <1>3, <3>1
  <2>3. CASE \/ AfterSubmit(t) \/ InjectionLooks(t) \/ InjectionPrompted(t)
             \/ FlushLooks(t) \/ FlushPrompted(t)
    <3>1. queue' = queue \/ \E m \in task[t].msg : MarkDelivered(m)
      BY <2>3 DEF AfterSubmit, InjectionLooks, InjectionPrompted, FlushLooks, FlushPrompted
    <3> QED
      BY <1>2, <1>3, <3>1
  <2> QED
    BY <1>7, <2>1, <2>2, <2>3 DEF Proceeds
<1> QED
  BY <1>4, <1>5, <1>6, <1>7 DEF InjectNext

\* Whatever flushes and injections overlap, a message leaves the queue of a living
\* process only when the store knows that it is done with.
THEOREM QueueDropsOnlyDone == InjectSpec => QueueDropsDone
<1>1. InjectInv /\ [InjectNext]_vars =>
        [live' # "stopped" =>
           \A m \in Messages : Queued(m) /\ ~Queued(m)' => store'[m] \in {"injected", "delivered"}]_vars
  <2> SUFFICES ASSUME InjectInv, InjectNext, live' # "stopped",
                      NEW n \in Messages, Queued(n), ~Queued(n)'
               PROVE  store'[n] \in {"injected", "delivered"}
    BY DEF vars, plugin
  <2>1. PICK m \in Messages : store[m] # "absent" /\ MarkDelivered(m)
    BY QueueSteps
  <2>2. queue' = Without(m) /\ store' = Marked(m)
    BY <2>1 DEF MarkDelivered
  <2>3. Queued(n)' <=> Queued(n) /\ n # m
    <3> DEFINE q == Without(m)
    <3>1. (\E i \in DOMAIN q : q[i] = n) <=> (\E i \in DOMAIN queue : queue[i] = n) /\ n # m
      BY WithoutShape DEF InjectInv
    <3> HIDE DEF q
    <3>2. queue' = q
      BY <2>2 DEF q
    <3> QED
      BY <3>1, <3>2 DEF Queued
  <2> QED
    BY <2>1, <2>2, <2>3 DEF Marked, InjectInv, RestTyped
<1> QED
  BY <1>1, InjectInvariant, PTL DEF InjectSpec, QueueDropsDone
=============================================================================
