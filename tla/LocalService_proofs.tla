-------------------------- MODULE LocalService_proofs --------------------------
(***************************************************************************)
(* Machine-checked proof that the local client, as module LocalClient has  *)
(* it, implements the service of module LocalService: every step of a call *)
(* is a step of the service or changes nothing the callers rely on.        *)
(***************************************************************************)
EXTENDS LocalClient_proofs

-----------------------------------------------------------------------------
\* The lock's queue

\* Exactly the calls that wait for the lock are queued, none of them twice.
Queued ==
  /\ \A i \in DOMAIN waiters : task[waiters[i]].pc = "lock"
  /\ \A i, j \in DOMAIN waiters : waiters[i] = waiters[j] => i = j

\* Putting a call in front of others, and taking it off again.
LEMMA Prefixed ==
  ASSUME NEW S, NEW s \in Seq(S), NEW h \in S
  PROVE  LET q == <<h>> \o s
         IN q \in Seq(S) /\ q # <<>> /\ Head(q) = h /\ Tail(q) = s
<1> DEFINE q == <<h>> \o s
<1>1. /\ q \in Seq(S) /\ Len(q) = Len(s) + 1 /\ q[1] = h
      /\ \A k \in 1 .. Len(s) : q[k + 1] = s[k]
  OBVIOUS
<1> HIDE DEF q
<1>2. q # <<>> /\ Head(q) = h
  BY <1>1
<1>3. /\ Tail(q) \in Seq(S) /\ Len(Tail(q)) = Len(s)
      /\ \A k \in 1 .. Len(s) : Tail(q)[k] = s[k]
  BY <1>1, <1>2
<1>4. Tail(q) = s
  BY <1>3, SeqEqual
<1> QED BY <1>1, <1>2, <1>4 DEF q

LEMMA HeadAndTail ==
  ASSUME NEW S, NEW s \in Seq(S), s # <<>>
  PROVE  Tail(s) \in Seq(S) /\ <<Head(s)>> \o Tail(s) = s
<1> DEFINE q == <<Head(s)>> \o Tail(s)
<1>1. /\ Len(s) \in Nat /\ Len(s) > 0
      /\ Head(s) \in S /\ Head(s) = s[1]
      /\ Tail(s) \in Seq(S) /\ Len(Tail(s)) = Len(s) - 1
      /\ \A k \in 1 .. Len(s) - 1 : Tail(s)[k] = s[k + 1]
  OBVIOUS
<1>2. /\ q \in Seq(S) /\ Len(q) = 1 + Len(Tail(s)) /\ q[1] = Head(s)
      /\ \A k \in 1 .. Len(Tail(s)) : q[1 + k] = Tail(s)[k]
  <2> DEFINE r == Tail(s)
             h == Head(s)
  <2>1. r \in Seq(S) /\ h \in S
    BY <1>1
  <2> HIDE DEF r, h
  <2>2. LET u == <<h>> \o r
        IN /\ u \in Seq(S) /\ Len(u) = 1 + Len(r) /\ u[1] = h
           /\ \A k \in 1 .. Len(r) : u[1 + k] = r[k]
    BY <2>1
  <2> QED BY <2>2 DEF r, h
<1> HIDE DEF q
<1>3. ASSUME NEW k \in 1 .. Len(s) PROVE q[k] = s[k]
  <2>1. CASE k = 1
    BY <2>1, <1>1, <1>2
  <2>2. CASE k # 1
    <3>1. k - 1 \in 1 .. Len(s) - 1 /\ 1 + (k - 1) = k /\ (k - 1) + 1 = k
      BY <1>1, <2>2
    <3> QED BY <3>1, <1>1, <1>2
  <2> QED BY <2>1, <2>2
<1>4. Len(q) = Len(s)
  BY <1>1, <1>2
<1>5. q = s
  BY <1>2, <1>3, <1>4, SeqEqual
<1> QED BY <1>1, <1>5 DEF q

\* What the queue of a client looks like when the lock is free and when held.
LEMMA QueueShape ==
  ASSUME IInv
  PROVE  /\ holder = NoTask => Queue = waiters
         /\ holder \in Tasks => /\ Queue = <<holder>> \o waiters
                                /\ Queue # <<>>
                                /\ Head(Queue) = holder
                                /\ Tail(Queue) = waiters
<1>1. waiters \in Seq(Tasks)
  BY DEF IInv, TypeOK
<1>2. holder = NoTask => Queue = waiters
  BY DEF Queue
<1>3. ASSUME holder \in Tasks
      PROVE  /\ Queue = <<holder>> \o waiters
             /\ Queue # <<>> /\ Head(Queue) = holder /\ Tail(Queue) = waiters
  <2>1. Queue = <<holder>> \o waiters
    BY <1>3, TaskAssumption DEF Queue
  <2>2. LET q == <<holder>> \o waiters
        IN q # <<>> /\ Head(q) = holder /\ Tail(q) = waiters
    BY <1>1, <1>3, Prefixed
  <2> QED BY <2>1, <2>2
<1> QED BY <1>2, <1>3

\* A call that takes the lock stays the first of the queue.
LEMMA TakenOver ==
  ASSUME IInv, NEW t \in Tasks, Acquire(t)
  PROVE  Queue' = Queue /\ Queue # <<>> /\ Head(Queue) = t
<1>1. /\ waiters \in Seq(Tasks) /\ waiters # <<>> /\ Head(waiters) = t
      /\ holder = NoTask /\ holder' = t /\ waiters' = Tail(waiters)
  BY DEF IInv, TypeOK, Acquire, Granted
<1>2. Queue = waiters /\ Queue' = <<t>> \o Tail(waiters)
  BY <1>1, TaskAssumption DEF Queue
<1> QED BY <1>1, <1>2, HeadAndTail

\* Leaving out a call behind the one that holds the lock.
LEMMA LeftOut ==
  ASSUME NEW S, NEW s \in Seq(S), NEW h \in S, NEW i \in DOMAIN s
  PROVE  LET q == <<h>> \o s
         IN <<h>> \o (SubSeq(s, 1, i - 1) \o SubSeq(s, i + 1, Len(s)))
              = SubSeq(q, 1, i) \o SubSeq(q, i + 2, Len(q))
<1> DEFINE q == <<h>> \o s
           a == SubSeq(s, 1, i - 1)
           b == SubSeq(s, i + 1, Len(s))
           c == SubSeq(q, 1, i)
           d == SubSeq(q, i + 2, Len(q))
<1>1. /\ q \in Seq(S) /\ Len(q) = Len(s) + 1 /\ q[1] = h
      /\ \A k \in 1 .. Len(s) : q[k + 1] = s[k]
  OBVIOUS
<1>2. /\ a \in Seq(S) /\ Len(a) = i - 1
      /\ \A k \in 1 .. i - 1 : a[k] = s[k]
  OBVIOUS
<1>3. /\ b \in Seq(S) /\ Len(b) = Len(s) - i
      /\ \A k \in 1 .. Len(s) - i : b[k] = s[i + k]
  OBVIOUS
<1>4. c = <<h>> \o a
  <2>1. c \in Seq(S) /\ Len(c) = i /\ \A k \in 1 .. i : c[k] = q[k]
    BY <1>1
  <2>2. <<h>> \o a \in Seq(S) /\ Len(<<h>> \o a) = i
        /\ \A k \in 1 .. i : (<<h>> \o a)[k] = IF k = 1 THEN h ELSE a[k - 1]
    BY <1>2
  <2> HIDE DEF a, c, q
  <2>3. \A k \in 1 .. i : c[k] = (<<h>> \o a)[k]
    <3>1. ASSUME NEW k \in 1 .. i, k # 1 PROVE c[k] = a[k - 1]
      <4>1. k - 1 \in 1 .. i - 1 /\ k - 1 \in 1 .. Len(s) /\ (k - 1) + 1 = k
        BY <3>1
      <4>2. q[(k - 1) + 1] = s[k - 1] /\ a[k - 1] = s[k - 1]
        BY <1>1, <1>2, <4>1
      <4> QED
        BY <2>1, <4>1, <4>2
    <3>2. 1 \in 1 .. i => c[1] = h
      BY <1>1, <2>1
    <3> QED
      BY <2>2, <3>1, <3>2
  <2> QED BY <2>1, <2>2, <2>3, SeqEqual
<1>5. d = b
  <2>1. d \in Seq(S) /\ Len(d) = Len(s) - i
        /\ \A k \in 1 .. Len(s) - i : d[k] = q[i + 1 + k]
    <3>1. PICK n \in Nat : n = Len(s) /\ Len(q) = n + 1 /\ i \in 1 .. n
      BY <1>1
    <3> HIDE DEF q
    <3>2. d = SubSeq(q, i + 2, n + 1)
      BY <3>1
    <3> HIDE DEF d
    <3>3. /\ d \in Seq(S) /\ Len(d) = n - i
          /\ \A k \in 1 .. n - i : d[k] = q[i + 1 + k]
      BY <1>1, <3>1, <3>2
    <3> QED
      BY <3>1, <3>3
  <2> HIDE DEF b, d, q
  <2>2. ASSUME NEW k \in 1 .. Len(s) - i PROVE d[k] = b[k]
    <3>1. i + k \in 1 .. Len(s) /\ i + 1 + k = (i + k) + 1
      OBVIOUS
    <3> QED BY <1>1, <1>3, <2>1, <3>1
  <2> QED BY <1>3, <2>1, <2>2, SeqEqual
<1>6. <<h>> \o (a \o b) = (<<h>> \o a) \o b
  <2>1. <<h>> \in Seq(S)
    OBVIOUS
  <2> HIDE DEF a, b
  <2>2. a \in Seq(S) /\ b \in Seq(S)
    BY <1>2, <1>3
  <2> QED BY <2>1, <2>2, ConcatAssociative
<1> QED BY <1>4, <1>5, <1>6

\* A step of a call takes the lock for it, or the call is past the lock.
LEMMA StepLock ==
  ASSUME NEW t \in Tasks, Step(t)
  PROVE  \/ Granted(t) /\ waiters' = Tail(waiters)
         \/ task[t].pc \notin {"idle", "lock"} /\ waiters' = waiters
BY DEF Step, Progress, Failure, BeginReuse, BeginConnect, BeginUnavailable,
   BeginClose, Connected, ConnectedUnusable, ConnectFails, Retry, NotifyStarted,
   SeedRead, Written, Answered, ChargerFails, StepRaises, Disconnected, Abort,
   FinishRead, Send, Continue, Acquire, SessionSteps

LEMMA CancelLock ==
  ASSUME NEW t \in Tasks, Cancel(t)
  PROVE  \/ /\ task' = [task EXCEPT ![t] = Rest]
            /\ \E i \in DOMAIN waiters :
                 /\ waiters[i] = t
                 /\ waiters' = SubSeq(waiters, 1, i - 1)
                               \o SubSeq(waiters, i + 1, Len(waiters))
         \/ task[t].pc \notin {"idle", "lock"} /\ waiters' = waiters
BY DEF Cancel, Abort, Continue, SessionSteps

LEMMA Concatenated ==
  ASSUME NEW S, NEW a \in Seq(S), NEW b \in Seq(S)
  PROVE  /\ DOMAIN (a \o b) = 1 .. Len(a) + Len(b)
         /\ \A i \in 1 .. Len(a) : (a \o b)[i] = a[i]
         /\ \A i \in 1 .. Len(b) : (a \o b)[Len(a) + i] = b[i]
<1>1. a \o b \in Seq(S) /\ Len(a \o b) = Len(a) + Len(b)
  OBVIOUS
<1>2. \A i \in 1 .. Len(a) : (a \o b)[i] = a[i]
  OBVIOUS
<1>3. \A i \in 1 .. Len(b) : (a \o b)[Len(a) + i] = b[i]
  OBVIOUS
<1> QED BY <1>1, <1>2, <1>3

\* What is left of a queue without its first or one of its calls: calls of it,
\* each at most once if it was so before.
LEMMA Thinned ==
  ASSUME NEW S, NEW s \in Seq(S), \A i, j \in DOMAIN s : s[i] = s[j] => i = j,
         NEW k \in DOMAIN s
  PROVE  LET r == SubSeq(s, 1, k - 1) \o SubSeq(s, k + 1, Len(s))
         IN /\ \A i, j \in DOMAIN r : r[i] = r[j] => i = j
            /\ \A i \in DOMAIN r : \E j \in DOMAIN s : j # k /\ r[i] = s[j]
<1> DEFINE a == SubSeq(s, 1, k - 1)
           b == SubSeq(s, k + 1, Len(s))
           r == a \o b
           at(i) == IF i < k THEN i ELSE i + 1
<1>1. /\ a \in Seq(S) /\ Len(a) = k - 1
      /\ \A i \in 1 .. k - 1 : a[i] = s[i]
  OBVIOUS
<1>2. /\ b \in Seq(S) /\ Len(b) = Len(s) - k
      /\ \A i \in 1 .. Len(s) - k : b[i] = s[k + i]
  OBVIOUS
<1>3. /\ DOMAIN r = 1 .. Len(a) + Len(b)
      /\ \A i \in 1 .. Len(a) : r[i] = a[i]
      /\ \A i \in 1 .. Len(b) : r[Len(a) + i] = b[i]
  <2>1. a \in Seq(S) /\ b \in Seq(S)
    BY <1>1, <1>2
  <2> HIDE DEF a, b
  <2> QED BY <2>1, Concatenated
<1> HIDE DEF r, a, b
<1>4. DOMAIN r = 1 .. Len(s) - 1
  BY <1>1, <1>2, <1>3
<1>5. ASSUME NEW i \in DOMAIN r
      PROVE  at(i) \in DOMAIN s /\ at(i) # k /\ r[i] = s[at(i)]
  <2>1. CASE i < k
    BY <2>1, <1>1, <1>3, <1>4
  <2>2. CASE i >= k
    <3>1. /\ i - k + 1 \in 1 .. Len(b) /\ i = Len(a) + (i - k + 1)
          /\ k + (i - k + 1) = i + 1
      <4>1. /\ Len(s) \in Nat /\ k \in 1 .. Len(s) /\ i \in 1 .. Len(s) - 1
            /\ Len(a) = k - 1 /\ Len(b) = Len(s) - k
        BY <1>1, <1>2, <1>4
      <4>2. i - k + 1 \in 1 .. Len(s) - k
        BY <2>2, <4>1
      <4>3. i = k - 1 + (i - k + 1) /\ k + (i - k + 1) = i + 1
        <5>1. i \in Int /\ k \in Int
          BY <4>1
        <5> QED BY <5>1
      <4> QED BY <4>1, <4>2, <4>3
    <3>2. r[i] = b[i - k + 1]
      BY <3>1, <1>3
    <3>3. b[i - k + 1] = s[i + 1]
      BY <3>1, <1>2
    <3> QED BY <2>2, <3>2, <3>3, <1>4
  <2> QED BY <2>1, <2>2, <1>4
<1>6. \A i, j \in DOMAIN r : at(i) = at(j) => i = j
  BY <1>4
<1>7. \A i, j \in DOMAIN r : r[i] = r[j] => i = j
  <2> HIDE DEF at
  <2> QED BY <1>5, <1>6
<1> QED BY <1>5, <1>7 DEF r, a, b

LEMMA NextQueued == IInv /\ Queued /\ [Next]_vars => Queued'
<1> SUFFICES ASSUME IInv, Queued, [Next]_vars PROVE Queued'
  OBVIOUS
<1>1. /\ waiters \in Seq(Tasks) /\ task \in [Tasks -> TaskType]
      /\ \A i \in DOMAIN waiters : waiters[i] \in Tasks
  BY DEF IInv, TypeOK
<1>2. CASE waiters' = waiters /\ task' = task
  BY <1>2 DEF Queued
<1>3. ASSUME NEW t \in Tasks, Call(t) PROVE Queued'
  <2>1. /\ task[t].pc = "idle" /\ task'[t].pc = "lock"
        /\ waiters' = Append(waiters, t)
        /\ \A u \in Tasks \ {t} : task'[u] = task[u]
    BY <1>1, <1>3 DEF Call, TaskType
  <2>2. /\ DOMAIN waiters' = 1 .. Len(waiters) + 1
        /\ \A i \in DOMAIN waiters : waiters'[i] = waiters[i]
        /\ waiters'[Len(waiters) + 1] = t
    BY <1>1, <2>1
  <2>3. \A i \in DOMAIN waiters : waiters[i] # t
    BY <2>1 DEF Queued
  <2> QED BY <1>1, <2>1, <2>2, <2>3 DEF Queued
<1>4. ASSUME NEW t \in Tasks, task[t].pc \notin {"idle", "lock"},
             waiters' = waiters, Step(t) \/ Cancel(t)
      PROVE  Queued'
  <2>1. \A u \in Tasks \ {t} : task'[u] = task[u]
    BY <1>4, OwnTaskOnly DEF IInv
  <2>2. \A i \in DOMAIN waiters : waiters[i] # t
    BY <1>4 DEF Queued
  <2> QED BY <1>1, <1>4, <2>1, <2>2 DEF Queued
<1>5. ASSUME NEW t \in Tasks, NEW k \in DOMAIN waiters, waiters[k] = t,
             waiters' = SubSeq(waiters, 1, k - 1)
                        \o SubSeq(waiters, k + 1, Len(waiters)),
             Step(t) \/ Cancel(t)
      PROVE  Queued'
  <2>1. \A u \in Tasks \ {t} : task'[u] = task[u]
    BY <1>5, OwnTaskOnly DEF IInv
  <2>2. /\ \A i, j \in DOMAIN waiters' : waiters'[i] = waiters'[j] => i = j
        /\ \A i \in DOMAIN waiters' :
             \E j \in DOMAIN waiters : j # k /\ waiters'[i] = waiters[j]
    <3> DEFINE r == SubSeq(waiters, 1, k - 1) \o SubSeq(waiters, k + 1, Len(waiters))
    <3>1. /\ \A i, j \in DOMAIN r : r[i] = r[j] => i = j
          /\ \A i \in DOMAIN r : \E j \in DOMAIN waiters : j # k /\ r[i] = waiters[j]
      BY <1>1, Thinned DEF Queued
    <3>2. waiters' = r
      BY <1>5
    <3> HIDE DEF r
    <3> QED BY <3>1, <3>2
  <2>3. \A j \in DOMAIN waiters : j # k => waiters[j] \in Tasks \ {t}
    BY <1>1, <1>5 DEF Queued
  <2> QED BY <2>1, <2>2, <2>3 DEF Queued
<1>6. ASSUME NEW t \in Tasks, Step(t) PROVE Queued'
  <2>1. CASE Granted(t) /\ waiters' = Tail(waiters)
    <3>1. waiters # <<>> /\ 1 \in DOMAIN waiters /\ waiters[1] = t
      BY <1>1, <2>1 DEF Granted
    <3>2. Tail(waiters) = SubSeq(waiters, 1, 0) \o SubSeq(waiters, 2, Len(waiters))
      BY <1>1, <3>1
    <3> QED BY <1>5, <1>6, <2>1, <3>1, <3>2
  <2> QED BY <1>4, <1>6, <2>1, StepLock
<1>7. ASSUME NEW t \in Tasks, Cancel(t) PROVE Queued'
  BY <1>4, <1>5, <1>7, CancelLock
<1> QED
  BY <1>2, <1>3, <1>6, <1>7 DEF Next, vars, LinkDrops, RetryDelayElapses

\* No call is queued twice, whatever is called, cancelled or fails.
THEOREM CallsQueueOnce == Spec => [](IInv /\ Queued)
<1>1. Init => Queued
  BY DEF Init, Queued
<1>2. IInv /\ Queued /\ [Next]_vars => Queued'
  BY NextQueued
<1> QED BY <1>1, <1>2, Invariance, PTL DEF Spec

-----------------------------------------------------------------------------
\* Steps of the client as steps of the service

\* An await between taking and leaving the lock: at most the session is given up.
LEMMA Within ==
  ASSUME IInv, holder \in Tasks, Queue' = Queue,
         client' = client \/ client' = NoLink, diag'.result = diag.result
  PROVE  [Service!Next]_Service!vars
<1>1. Queue # <<>> /\ Head(Queue) \in Service!Callers
  BY QueueShape DEF Service!Callers, Tasks
<1>2. CASE client' = client
  BY <1>2 DEF Service!vars
<1>3. CASE client' = NoLink
  BY <1>1, <1>3 DEF Service!Next, Service!GiveUp, Service!First
<1> QED BY <1>2, <1>3

\* The call that holds the lock returns.
LEMMA Leaving ==
  ASSUME IInv, holder \in Tasks, holder' = NoTask, waiters' = waiters,
         \/ diag'.result = "success" /\ holder \in Polls
         \/ /\ diag'.result = "temporarily_unavailable" /\ client' = NoLink
            /\ holder \in Polls
         \/ /\ diag'.result = diag.result /\ client' = client /\ holder \in Polls
         \/ diag'.result = diag.result /\ client' = NoLink /\ holder \in Closers
  PROVE  Service!Next
<1>1. /\ Queue # <<>> /\ Head(Queue) = holder /\ Queue' = Tail(Queue)
      /\ Queue \in Seq(Tasks)
  <2>1. waiters \in Seq(Tasks)
    BY DEF IInv, TypeOK
  <2>2. Queue' = waiters
    BY DEF Queue
  <2> QED BY <2>1, <2>2, QueueShape, Prefixed
<1>2. CASE diag'.result = "success" /\ holder \in Polls
  BY <1>1, <1>2
     DEF Service!Next, Service!Succeed, Service!First, Service!Leave
<1>3. CASE /\ diag'.result = "temporarily_unavailable" /\ client' = NoLink
           /\ holder \in Polls
  BY <1>1, <1>3 DEF Service!Next, Service!Fail, Service!First, Service!Leave
<1>4. CASE diag'.result = diag.result /\ client' = NoLink /\ holder \in Closers
  BY <1>1, <1>4 DEF Service!Next, Service!Close, Service!First, Service!Leave
<1>5. CASE diag'.result = diag.result /\ client' = client /\ holder \in Polls
  <2>1. 1 \in DOMAIN Queue /\ Queue[1] = holder
    BY <1>1
  <2>2. Tail(Queue) = SubSeq(Queue, 1, 0) \o SubSeq(Queue, 2, Len(Queue))
    BY <1>1
  <2>3. Queue' = Service!Without(1)
    BY <1>1, <2>2 DEF Service!Without
  <2> QED BY <1>5, <2>1, <2>3 DEF Service!Next, Service!Cancel
<1> QED BY <1>2, <1>3, <1>4, <1>5

LEMMA CallServed ==
  ASSUME IInv, Queued, NEW t \in Tasks, Call(t)
  PROVE  Service!Next
<1>1. /\ waiters \in Seq(Tasks) /\ task[t].pc = "idle"
      /\ waiters' = Append(waiters, t) /\ holder' = holder
      /\ client' = client /\ diag' = diag
  BY DEF IInv, TypeOK, Call, session
<1>2. \A i \in DOMAIN waiters : waiters[i] # t
  BY <1>1 DEF Queued
<1>3. CASE holder = NoTask
  <2>1. Queue = waiters /\ Queue' = Append(Queue, t)
    BY <1>1, <1>3 DEF Queue
  <2> QED
    BY <1>1, <1>2, <2>1
       DEF Service!Next, Service!Call, Service!Calling, Service!Callers, Tasks
<1>4. CASE holder \in Tasks
  <2>1. Queue = <<holder>> \o waiters /\ Queue' = <<holder>> \o Append(waiters, t)
    BY <1>1, <1>4, TaskAssumption DEF Queue
  <2>2. Queue' = Append(Queue, t)
    BY <1>1, <1>4, <2>1
  <2>3. holder # t
    BY <1>1, <1>4 DEF IInv, MutualExclusion
  <2>4. ~ \E i \in DOMAIN Queue : Queue[i] = t
    BY <1>1, <1>2, <1>4, <2>1, <2>3
  <2> QED
    BY <1>1, <2>2, <2>4
       DEF Service!Next, Service!Call, Service!Calling, Service!Callers, Tasks
<1> QED BY <1>3, <1>4 DEF IInv, TypeOK

LEMMA BeginServed ==
  ASSUME IInv, NEW t \in Tasks,
         BeginReuse(t) \/ BeginConnect(t) \/ BeginUnavailable(t) \/ BeginClose(t)
  PROVE  [Service!Next]_Service!vars
<1>0. /\ t \in Service!Callers
      /\ diag \in DiagType
  BY DEF Service!Callers, Tasks, IInv, TypeOK
<1>1. CASE BeginReuse(t) \/ BeginConnect(t)
  <2>1. Acquire(t) /\ t \in Polls /\ client' = client /\ diag'.result = "running"
    BY <1>0, <1>1 DEF BeginReuse, BeginConnect, session, Begun, DiagType
  <2> QED BY <2>1, TakenOver DEF Service!Next, Service!Begin, Service!First
<1>2. ASSUME Granted(t), waiters' = Tail(waiters), holder' = NoTask
      PROVE  Queue # <<>> /\ Head(Queue) = t /\ Queue' = Tail(Queue)
  BY <1>2 DEF Granted, Queue
<1>3. CASE BeginUnavailable(t)
  <2>1. /\ Granted(t) /\ waiters' = Tail(waiters) /\ holder' = NoTask
        /\ t \in Polls /\ client' = NoLink
        /\ diag'.result = "temporarily_unavailable"
    BY <1>0, <1>3 DEF BeginUnavailable, Return, Failed, Begun, session, DiagType
  <2> QED
    BY <1>2, <2>1 DEF Service!Next, Service!Fail, Service!First, Service!Leave
<1>4. CASE BeginClose(t)
  <2>1. t \in Closers /\ client' = NoLink /\ diag'.result = diag.result
    BY <1>0, <1>4 DEF BeginClose, DiagType
  <2>2. CASE Acquire(t)
    BY <1>0, <2>1, <2>2, TakenOver
       DEF Service!Next, Service!GiveUp, Service!First
  <2>3. CASE Granted(t) /\ waiters' = Tail(waiters) /\ Return(t)
    BY <1>2, <2>1, <2>3
       DEF Return, Service!Next, Service!Close, Service!First, Service!Leave
  <2> QED BY <1>4, <2>2, <2>3 DEF BeginClose
<1> QED BY <1>1, <1>3, <1>4
\* A call past the lock is the one that holds it.
LEMMA Holds ==
  ASSUME IInv, NEW t \in Tasks, task[t].pc \notin {"idle", "lock"}
  PROVE  holder = t /\ holder \in Tasks /\ diag \in DiagType
BY DEF IInv, MutualExclusion, TypeOK

LEMMA SameQueue ==
  ASSUME UNCHANGED <<holder, waiters>> PROVE Queue' = Queue
BY DEF Queue

\* The end of an attempt retries, fails or passes a cancellation on.
LEMMA EndAttemptServed ==
  ASSUME IInv, NEW t \in Polls, task[t].pc \notin {"idle", "lock"},
         client = NoLink, NEW err, NEW d \in DiagType, d.result = diag.result,
         EndAttempt(t, err, d), UNCHANGED <<waiters, client>>
  PROVE  [Service!Next]_Service!vars
<1>1. t \in Tasks /\ holder = t /\ holder \in Tasks
  BY Holds DEF Tasks
<1>2. CASE diag' = d /\ UNCHANGED holder
  BY <1>1, <1>2, SameQueue, Within
<1>3. CASE diag' = Failed(d) /\ Return(t)
  <2>1. diag'.result = "temporarily_unavailable"
    BY <1>3 DEF Failed, DiagType
  <2> QED BY <1>1, <1>3, <2>1, Leaving DEF Return
<1>4. CASE diag' = d /\ Return(t)
  BY <1>1, <1>4, Leaving DEF Return
<1> QED BY <1>2, <1>3, <1>4 DEF EndAttempt

LEMMA FinishServed ==
  ASSUME IInv, NEW t \in Polls, task[t].pc \notin {"idle", "lock"},
         NEW closing, FinishRead(t, closing)
  PROVE  [Service!Next]_Service!vars
<1>1. t \in Tasks /\ holder = t /\ holder \in Tasks /\ diag \in DiagType
  BY Holds DEF Tasks
<1>2. CASE diag' = Succeeded(diag) /\ Return(t)
  <2>1. diag'.result = "success" /\ holder' = NoTask /\ waiters' = waiters
    BY <1>1, <1>2 DEF Succeeded, DiagType, FinishRead, Return
  <2> QED BY <1>1, <2>1, Leaving
<1>3. CASE /\ client' = NoLink /\ UNCHANGED holder
           /\ diag' = [diag EXCEPT !.stage = "disconnect"]
  <2>1. diag'.result = diag.result /\ waiters' = waiters
    BY <1>1, <1>3 DEF DiagType, FinishRead
  <2> QED BY <1>1, <1>3, <2>1, SameQueue, Within
<1>4. CASE UNCHANGED <<client, diag, holder>>
  BY <1>1, <1>4, SameQueue, Within DEF FinishRead
<1> QED BY <1>2, <1>3, <1>4 DEF FinishRead

LEMMA AbortServed ==
  ASSUME IInv, NEW t \in Tasks, task[t].pc \notin {"idle", "lock"},
         NEW err, Abort(t, err)
  PROVE  [Service!Next]_Service!vars
<1>1. holder \in Tasks /\ diag \in DiagType
  BY Holds
<1>2. /\ UNCHANGED <<holder, waiters>> /\ diag'.result = diag.result
      /\ client' = client \/ client' = NoLink
  BY <1>1 DEF Abort, Forget, Continue, DiagType
<1> QED BY <1>1, <1>2, SameQueue, Within

\* Opening a session and sending requests on it.
LEMMA SessionServed ==
  ASSUME IInv, NEW t \in Tasks,
         \/ Connected(t) \/ Retry(t) \/ NotifyStarted(t) \/ SeedRead(t) \/ Written(t)
         \/ \E err \in Errors : ConnectedUnusable(t, err)
         \/ \E r : Send(t, r) /\ client' = client /\ task[t].pc = "respond"
  PROVE  [Service!Next]_Service!vars
<1>1. task[t].pc \notin {"idle", "lock"}
  BY DEF Connected, Retry, NotifyStarted, SeedRead, Written, ConnectedUnusable
<1>2. holder \in Tasks /\ diag \in DiagType
  BY <1>1, Holds
<1>3. UNCHANGED <<holder, waiters, client>> /\ diag'.result = diag.result
  BY <1>2
     DEF Connected, Retry, NotifyStarted, SeedRead, Written, ConnectedUnusable,
     Send, Continue, session, DiagType
<1> QED BY <1>2, <1>3, SameQueue, Within

LEMMA AnswerServed ==
  ASSUME IInv, NEW t \in Tasks,
         Answered(t) \/ \E err \in Errors : ChargerFails(t, err)
  PROVE  [Service!Next]_Service!vars
<1>1. task[t].pc = "respond" /\ t \in Polls
  BY DEF Answered, ChargerFails, IInv, ClosersClose, Tasks
<1>2. CASE Send(t, task[t].read + 1) /\ UNCHANGED <<session, radio>>
  BY <1>1, <1>2, SessionServed DEF session
<1>3. CASE \E closing : FinishRead(t, closing)
  BY <1>1, <1>3, FinishServed
<1> QED BY <1>2, <1>3 DEF Answered, ChargerFails

LEMMA DisconnectServed ==
  ASSUME IInv, NEW t \in Tasks, NEW raised \in BOOLEAN, Disconnected(t, raised)
  PROVE  [Service!Next]_Service!vars
<1> DEFINE d == [diag EXCEPT !.warning = @ \/ raised]
           restored == [d EXCEPT !.stage = task[t].stage]
<1>1. /\ task[t].pc \in {"drop", "close"} /\ holder = t /\ holder \in Tasks
      /\ diag \in DiagType /\ client = NoLink /\ client' = client
      /\ waiters' = waiters
  BY Holds DEF Disconnected, session, IInv, Working
<1>2. d \in DiagType /\ restored \in DiagType
  <2>1. diag.warning \/ raised \in BOOLEAN
    BY <1>1 DEF DiagType
  <2>2. d \in DiagType
    BY <1>1, <2>1, DiagField
  <2>3. task[t].stage \in Stages
    BY DEF IInv, TypeOK, TaskType
  <2> HIDE DEF d
  <2> QED BY <2>2, <2>3, DiagField
<1>3. d.result = diag.result /\ restored.result = diag.result
  BY <1>1 DEF DiagType
<1> HIDE DEF d, restored
<1>4. CASE t \in Closers /\ diag' = d /\ Return(t)
  BY <1>1, <1>3, <1>4, Leaving DEF Return
<1>5. CASE t \in Polls /\ diag' = Succeeded(d) /\ Return(t)
  <2>1. diag'.result = "success"
    BY <1>2, <1>5 DEF Succeeded, DiagType
  <2> QED BY <1>1, <1>5, <2>1, Leaving DEF Return
<1>6. CASE t \in Polls /\ diag' = Failed(restored) /\ Return(t)
  <2>1. diag'.result = "temporarily_unavailable"
    BY <1>2, <1>6 DEF Failed, DiagType
  <2> QED BY <1>1, <1>6, <2>1, Leaving DEF Return
<1>7. CASE t \in Polls /\ EndAttempt(t, task[t].err, restored)
  BY <1>1, <1>2, <1>3, <1>7, EndAttemptServed
<1>8. task[t].pc = "drop" => t \in Polls
  BY DEF IInv, ClosersClose, Tasks
<1> QED
  BY <1>4, <1>5, <1>6, <1>7, <1>8 DEF Disconnected, d, restored

LEMMA CancelServed ==
  ASSUME IInv, NEW t \in Tasks, Cancel(t)
  PROVE  [Service!Next]_Service!vars
<1>1. t \in Polls
  BY DEF Cancel
<1>2. CASE /\ task[t].pc = "lock"
           /\ \E i \in DOMAIN waiters :
                /\ waiters[i] = t
                /\ waiters' = SubSeq(waiters, 1, i - 1)
                              \o SubSeq(waiters, i + 1, Len(waiters))
           /\ UNCHANGED <<holder, diag, session>>
  <2>1. PICK i \in DOMAIN waiters :
          /\ waiters[i] = t
          /\ waiters' = SubSeq(waiters, 1, i - 1)
                        \o SubSeq(waiters, i + 1, Len(waiters))
    BY <1>2
  <2>2. waiters \in Seq(Tasks) /\ i \in 1 .. Len(waiters)
    BY DEF IInv, TypeOK
  <2>3. CASE holder = NoTask
    <3>1. Queue = waiters /\ Queue' = Service!Without(i)
      BY <1>2, <2>1, <2>3 DEF Queue, Service!Without
    <3> QED BY <1>1, <1>2, <2>1, <3>1 DEF Service!Next, Service!Cancel, session
  <2>4. CASE holder \in Tasks
    <3>1. /\ Queue = <<holder>> \o waiters
          /\ Queue' = <<holder>> \o (SubSeq(waiters, 1, i - 1)
                                     \o SubSeq(waiters, i + 1, Len(waiters)))
      BY <1>2, <2>1, <2>4, TaskAssumption DEF Queue
    <3>2. Queue' = SubSeq(Queue, 1, i) \o SubSeq(Queue, i + 2, Len(Queue))
      BY <2>2, <2>4, <3>1, LeftOut
    <3>3. (i + 1) - 1 = i /\ (i + 1) + 1 = i + 2
      BY <2>2
    <3>4. Queue' = Service!Without(i + 1)
      BY <3>2, <3>3 DEF Service!Without
    <3>5. i + 1 \in DOMAIN Queue /\ Queue[i + 1] = t
      BY <2>1, <2>2, <2>4, <3>1
    <3> QED
      BY <1>1, <1>2, <3>4, <3>5 DEF Service!Next, Service!Cancel, session
  <2> QED BY <2>3, <2>4 DEF IInv, TypeOK
<1>3. CASE /\ task[t].pc \notin {"idle", "lock"}
           /\ Return(t)
           /\ UNCHANGED <<waiters, diag, client>>
  <2>1. holder = t /\ holder \in Tasks
    BY <1>3, Holds
  <2> QED BY <1>1, <1>3, <2>1, Leaving DEF Return
<1>4. CASE task[t].pc \in SessionSteps /\ Abort(t, "cancelled")
  BY <1>4, AbortServed DEF SessionSteps
<1> QED BY <1>2, <1>3, <1>4 DEF Cancel, session, SessionSteps

LEMMA StepServed ==
  ASSUME IInv, NEW t \in Tasks, Step(t)
  PROVE  [Service!Next]_Service!vars
<1>1. CASE ConnectFails(t)
  <2>1. /\ task[t].pc = "connect" /\ t \in Polls /\ client = NoLink
        /\ diag \in DiagType
    BY <1>1 DEF ConnectFails, IInv, TypeOK, ClosersClose, Working, Tasks
  <2>2. EndAttempt(t, "other", diag) /\ UNCHANGED <<waiters, client>>
    BY <1>1 DEF ConnectFails, session
  <2> QED BY <2>1, <2>2, EndAttemptServed
<1>2. ASSUME NEW err \in Errors, StepRaises(t, err)
      PROVE  [Service!Next]_Service!vars
  BY <1>2, AbortServed DEF StepRaises, SessionSteps
<1> QED
  BY <1>1, <1>2, BeginServed, SessionServed, AnswerServed, DisconnectServed
     DEF Step, Progress, Failure

\* The service's callers see nothing of connections that drop or of the charger
\* query's pause.
LEMMA QuietServed ==
  ASSUME UNCHANGED <<holder, waiters, client, diag>>
  PROVE  UNCHANGED Service!vars
BY SameQueue DEF Service!vars

\* The local client implements the service its callers rely on, for any number
\* of overlapping polls and closes, connections and core reads.
THEOREM ClientIsService == Spec => ImplementsService
<1>1. Init => Service!Init
  BY DEF Init, Service!Init, Queue
<1>2. IInv /\ Queued /\ [Next]_vars => [Service!Next]_Service!vars
  <2> SUFFICES ASSUME IInv, Queued, [Next]_vars
               PROVE  [Service!Next]_Service!vars
    OBVIOUS
  <2>1. CASE UNCHANGED vars
    BY <2>1, QuietServed DEF vars
  <2>2. ASSUME NEW l \in Links, LinkDrops(l) PROVE [Service!Next]_Service!vars
    BY <2>2, QuietServed DEF LinkDrops, session
  <2>3. CASE RetryDelayElapses
    BY <2>3, QuietServed DEF RetryDelayElapses
  <2> QED
    BY <2>1, <2>2, <2>3, CallServed, StepServed, CancelServed DEF Next
<1> QED
  BY <1>1, <1>2, CallsQueueOnce, PTL DEF Spec, ImplementsService, Service!Spec
=============================================================================
