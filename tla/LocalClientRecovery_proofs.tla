----------------------- MODULE LocalClientRecovery_proofs -----------------------
(***************************************************************************)
(* Theorems about LocalClientRecovery, for any sets of polls, closers and  *)
(* connections: the invariants of LocalClient go on holding, and once the  *)
(* faults have ended at most one more poll fails.                          *)
(***************************************************************************)
EXTENDS LocalClientRecovery, LocalClient_proofs

-----------------------------------------------------------------------------
\* The inductive invariant

\* The session a call works on is dead, or its poll is about to report an error.
Doomed(t) ==
  \/ task[t].pc \in SessionSteps /\ task[t].link \notin up
  \/ /\ t \in Polls /\ task[t].pc \in {"drop", "close"}
     /\ task[t].err \notin {"none", "cancelled"}

\* No failure is left in the client: its retained session is alive, and so is the one
\* in use.
Sane ==
  /\ client # NoLink => client \in up
  /\ \A t \in Tasks : ~Doomed(t)

\* The one failure that is counted takes the last trace of the faults with it.
Recovering ==
  /\ healed \in BOOLEAN
  /\ spent \in {0, 1}
  /\ spent = 1 => healed /\ Sane

RInv == IInv /\ Traced /\ Recovering

-----------------------------------------------------------------------------
\* A step of a call when nothing goes wrong any more

USE TaskAssumption, LinkAssumption, SizeAssumption

LEMMA HealthySteps ==
  ASSUME NEW t \in Tasks, Progress(t) \/ SeveredFails(t)
  PROVE  Step(t)
BY DEF Step, Failure, SeveredFails

\* The call that takes it has the lock, so every other call is at rest.
LEMMA OthersRest ==
  ASSUME IInv, NEW t \in Tasks, NEW u \in Tasks \ {t}, Progress(t) \/ SeveredFails(t)
  PROVE  task'[u] = task[u] /\ task[u].pc \in {"idle", "lock"} /\ ~Doomed(u)'
<1>1. task'[u] = task[u]
  BY OwnTaskOnly, HealthySteps DEF IInv
<1>2. Granted(t) \/ task[t].pc \notin {"idle", "lock"}
  BY DEF Progress, SeveredFails, BeginReuse, BeginConnect, BeginClose, Connected,
         Retry, NotifyStarted, SeedRead, Written, Answered, Disconnected,
         ChargerFails, StepRaises, SessionSteps, Acquire
<1>3. holder \in {t, NoTask}
  BY <1>2 DEF Granted, IInv, MutualExclusion
<1>4. task[u].pc \in {"idle", "lock"}
  BY <1>3 DEF IInv, MutualExclusion
<1> QED
  BY <1>1, <1>4 DEF Doomed, SessionSteps

\* Every other step leaves the outcome alone or improves it.
LEMMA NoOtherFailure ==
  ASSUME IInv, NEW t \in Tasks, Progress(t) \/ SeveredFails(t), ~Disconnected(t, FALSE)
  PROVE  SameRecord(diag') \/ diag'.result \in {"running", "success"}
<1>1. diag \in DiagType
  BY DEF IInv, TypeOK
<1>2. ASSUME NEW s \in Stages
      PROVE  /\ \A n : [Begun(s) EXCEPT !.requests = n].result = "running"
             /\ \A n : [Begun(s) EXCEPT !.attempts = n].result = "running"
  <2>1. PICK b \in DiagType : b = Begun(s)
    BY DiagSteps DEF IInv
  <2>2. b.result = "running"
    BY <2>1, RecordSteps
  <2> QED
    BY <2>1, <2>2 DEF DiagType
<1>3. "core_read" \in Stages /\ "connect" \in Stages
  BY DEF Stages, ConnectStages, RequestStages
<1>4. CASE BeginReuse(t) \/ BeginConnect(t)
  <2>1. CASE BeginReuse(t)
    <3>1. diag' = [Begun("core_read") EXCEPT !.requests = Begun("core_read").requests + 1]
      BY <2>1 DEF BeginReuse
    <3>2. PICK n : n = Begun("core_read").requests + 1
      OBVIOUS
    <3>3. diag' = [Begun("core_read") EXCEPT !.requests = n]
      BY <3>1, <3>2
    <3> QED
      BY <3>3, <1>2, <1>3
  <2>2. CASE BeginConnect(t)
    <3>1. diag' = [Begun("connect") EXCEPT !.attempts = 1]
      BY <2>2 DEF BeginConnect
    <3> QED
      BY <3>1, <1>2, <1>3
  <2> QED
    BY <1>4, <2>1, <2>2
<1>5. CASE BeginClose(t) \/ Connected(t) \/ Retry(t) \/ NotifyStarted(t)
  BY <1>1, <1>5 DEF BeginClose, Connected, Retry, NotifyStarted, DiagType, SameRecord
<1>6. ASSUME NEW closing, FinishRead(t, closing)
      PROVE  SameRecord(diag') \/ diag'.result = "success"
  BY <1>1, <1>6, RecordSteps DEF FinishRead, DiagType, SameRecord
<1>7. ASSUME NEW r, Send(t, r) PROVE SameRecord(diag')
  BY <1>1, <1>7 DEF Send, DiagType, SameRecord
<1>8. CASE SeedRead(t) \/ Written(t) \/ Answered(t)
  BY <1>6, <1>7, <1>8 DEF SeedRead, Written, Answered, SameRecord
<1>9. CASE SeveredFails(t)
  <2>1. ASSUME NEW err, Abort(t, err) PROVE SameRecord(diag')
    BY <1>1, <2>1 DEF Abort, DiagType, SameRecord
  <2> QED
    BY <1>6, <1>9, <2>1 DEF SeveredFails, ChargerFails, StepRaises
<1> QED
  BY <1>4, <1>5, <1>8, <1>9 DEF Progress

\* A poll that ends with a failure was bound to, and leaves nothing behind.
LEMMA FailureIsTheLast ==
  ASSUME IInv, Traced, NEW t \in Tasks, Progress(t) \/ SeveredFails(t), FailureRecorded
  PROVE  Doomed(t) /\ Sane'
<1>1. Disconnected(t, FALSE)
  BY NoOtherFailure DEF FailureRecorded, SameRecord
<1>2. PICK d \in DiagType : d = [diag EXCEPT !.warning = @ \/ FALSE]
                            /\ SameRecord(d)
  BY DEF IInv, TypeOK, DiagType, SameRecord
<1>3. PICK e \in DiagType : e = [d EXCEPT !.stage = task[t].stage]
                            /\ SameRecord(e)
  <2> DEFINE f == [d EXCEPT !.stage = task[t].stage]
  <2>1. task[t].stage \in Stages
    BY DEF IInv, TypeOK, TaskType
  <2>2. f \in DiagType /\ SameRecord(f)
    BY <1>2, <2>1 DEF DiagType, SameRecord
  <2> HIDE DEF f
  <2>3. f = [d EXCEPT !.stage = task[t].stage]
    BY DEF f
  <2> QED
    BY <2>2, <2>3
<1>4. /\ client' = client
      /\ task[t].pc \in {"drop", "close"}
      /\ \/ t \in Closers /\ diag' = d /\ Return(t)
         \/ /\ t \in Polls /\ task[t].err = "none" /\ diag' = Succeeded(d)
            /\ Return(t)
         \/ /\ t \in Polls /\ task[t].pc = "close" /\ task[t].err # "none"
            /\ diag' = Failed(e) /\ Return(t)
         \/ /\ task[t].pc = "drop" /\ task[t].err # "none"
            /\ EndAttempt(t, task[t].err, e)
  BY <1>1, <1>2, <1>3, Zenon DEF Disconnected, session
<1>5. ~SameRecord(diag') /\ diag'.result # "success"
  BY DEF FailureRecorded, SameRecord
<1>6. /\ t \in Polls /\ task[t].err \notin {"none", "cancelled"} /\ Return(t)
  <2>1. CASE t \in Closers /\ diag' = d /\ Return(t)
    BY <1>2, <1>5, <2>1
  <2>2. CASE t \in Polls /\ task[t].err = "none" /\ diag' = Succeeded(d) /\ Return(t)
    BY <1>5, <2>2, RecordSteps
  <2>3. CASE /\ t \in Polls /\ task[t].pc = "close" /\ task[t].err # "none"
             /\ diag' = Failed(e) /\ Return(t)
    BY <2>3 DEF Traced, Trace
  <2>4. CASE /\ task[t].pc = "drop" /\ task[t].err # "none"
             /\ EndAttempt(t, task[t].err, e)
    <3>1. t \in Polls
      BY <2>4 DEF IInv, ClosersClose, Tasks
    <3>2. diag' # e
      BY <1>3, <1>5
    <3> QED
      BY <2>4, <3>1, <3>2 DEF EndAttempt
  <2> QED
    BY <1>4, <2>1, <2>2, <2>3, <2>4
<1>7. Doomed(t)
  BY <1>4, <1>6 DEF Doomed
<1>8. client' = NoLink
  BY <1>4 DEF IInv, Working
<1>9. \A u \in Tasks : ~Doomed(u)'
  <2>1. task'[t].pc = "idle"
    BY <1>6, Returned
  <2>2. ~Doomed(t)'
    BY <2>1 DEF Doomed, SessionSteps
  <2> QED
    BY <2>2, OthersRest
<1> QED
  BY <1>7, <1>8, <1>9 DEF Sane

\* A step of a call leaves nothing that fails later if nothing was there before.
LEMMA SaneStays ==
  ASSUME IInv, Traced, Sane, NEW t \in Tasks, Progress(t) \/ SeveredFails(t)
  PROVE  Sane' /\ ~FailureRecorded
<1>1. task[t] \in TaskType /\ ~Doomed(t) /\ Trace(t)
  BY DEF IInv, TypeOK, Sane, Traced
<1>2. Progress(t) /\ ~FailureRecorded
  BY <1>1, FailureIsTheLast DEF SeveredFails, ChargerFails, StepRaises, Doomed, SessionSteps
<1> SUFFICES Sane'
  BY <1>2
<1>3. ASSUME client' = client, up \subseteq up', ~Doomed(t)' PROVE Sane'
  BY <1>3, OthersRest DEF Sane
<1>4. ASSUME client' = NoLink, ~Doomed(t)' PROVE Sane'
  BY <1>4, OthersRest DEF Sane
<1>5. ASSUME NEW r, task' = [task EXCEPT ![t] = r],
             r.pc \in SessionSteps => r.link \in up',
             r.pc \in {"drop", "close"} => r.err = "none"
      PROVE  ~Doomed(t)'
  <2>1. task'[t] = r
    BY <1>5, OwnRecord
  <2> QED
    BY <2>1, <1>5 DEF Doomed
<1>6. CASE BeginReuse(t)
  <2> DEFINE r == [Rest EXCEPT !.pc = "write", !.link = client, !.reused = TRUE,
                               !.read = Discovery + 1]
  <2>1. r.pc = "write" /\ r.link = client
    BY DEF Rest
  <2>2. task' = [task EXCEPT ![t] = r] /\ client' = client /\ up' = up /\ client \in up
    BY <1>6 DEF BeginReuse, session, radio, Sane
  <2> HIDE DEF r
  <2> QED
    BY <2>1, <2>2, <1>3, <1>5
<1>7. CASE BeginConnect(t)
  <2> DEFINE r == [Rest EXCEPT !.pc = "connect"]
  <2>1. r.pc = "connect"
    BY DEF Rest
  <2>2. task' = [task EXCEPT ![t] = r] /\ client' = client /\ up' = up
    BY <1>7 DEF BeginConnect, session, radio
  <2> HIDE DEF r
  <2> QED
    BY <2>1, <2>2, <1>3, <1>5 DEF SessionSteps
<1>8. CASE BeginClose(t)
  <2>1. t \notin Polls /\ client' = NoLink
    BY <1>8 DEF BeginClose
  <2>2. task'[t].pc \in {"idle", "close"}
    <3>1. CASE Return(t)
      BY <3>1, Returned
    <3>2. CASE task' = [task EXCEPT ![t] = [Rest EXCEPT !.pc = "close", !.link = client]]
      <4>1. task'[t] = [Rest EXCEPT !.pc = "close", !.link = client]
        BY <3>2, OwnRecord
      <4> QED
        BY <4>1 DEF Rest
    <3> QED
      BY <1>8, <3>1, <3>2 DEF BeginClose
  <2> QED
    BY <2>1, <2>2, <1>4 DEF Doomed, SessionSteps
<1>9. CASE Connected(t)
  <2>1. PICK l \in Links :
          /\ up' = up \cup {l}
          /\ task' = [task EXCEPT ![t] = [task[t] EXCEPT !.pc = "notify", !.link = l]]
    BY <1>9 DEF Connected, Continue
  <2>2. client' = client
    BY <1>9 DEF Connected
  <2>3. PICK r : r = [task[t] EXCEPT !.pc = "notify", !.link = l]
    OBVIOUS
  <2>4. r.pc = "notify" /\ r.link = l
    BY <1>1, <2>3 DEF TaskType
  <2>5. task' = [task EXCEPT ![t] = r] /\ l \in up' /\ up \subseteq up'
    BY <2>1, <2>3
  <2>6. ~Doomed(t)'
    BY <2>4, <2>5, <1>5
  <2> QED
    BY <2>2, <2>5, <2>6, <1>3
<1>10. CASE Retry(t)
  <2>1. PICK r : r = [task[t] EXCEPT !.pc = "connect"]
    OBVIOUS
  <2>2. r.pc = "connect"
    BY <1>1, <2>1, RecordSteps
  <2>3. task' = [task EXCEPT ![t] = r] /\ client' = client /\ up' = up
    BY <1>10, <2>1 DEF Retry, Continue, session, radio
  <2> QED
    BY <2>2, <2>3, <1>3, <1>5 DEF SessionSteps
<1>11. ASSUME NEW r \in TaskType, task' = [task EXCEPT ![t] = r], r.link = task[t].link,
              r.pc \in SessionSteps, task[t].pc \in SessionSteps,
              client' = client, up' = up
       PROVE  Sane'
  <2>1. r.link \in up'
    BY <1>1, <1>11 DEF Doomed
  <2> QED
    BY <2>1, <1>3, <1>5, <1>11 DEF SessionSteps
<1>12. CASE NotifyStarted(t)
  <2>1. PICK r : r = [task[t] EXCEPT !.pc = "seed"]
    OBVIOUS
  <2>2. r \in TaskType /\ r.pc = "seed" /\ r.link = task[t].link
    BY <1>1, <2>1 DEF TaskType, Steps, SessionSteps
  <2>3. task' = [task EXCEPT ![t] = r] /\ client' = client /\ up' = up
        /\ task[t].pc = "notify"
    BY <1>12, <2>1 DEF NotifyStarted, Continue, session, radio
  <2> QED
    BY <2>2, <2>3, <1>11 DEF SessionSteps
<1>13. CASE Written(t)
  <2>1. PICK r : r = [task[t] EXCEPT !.pc = "respond"]
    OBVIOUS
  <2>2. r \in TaskType /\ r.pc = "respond" /\ r.link = task[t].link
    BY <1>1, <2>1 DEF TaskType, Steps, SessionSteps
  <2>3. task' = [task EXCEPT ![t] = r] /\ client' = client /\ up' = up
        /\ task[t].pc = "write"
    BY <1>13, <2>1 DEF Written, Continue, session, radio
  <2> QED
    BY <2>2, <2>3, <1>11 DEF SessionSteps
<1>14. ASSUME NEW n \in 0 .. Charger, Send(t, n), UNCHANGED <<session, radio>>,
              task[t].pc \in SessionSteps
       PROVE  Sane'
  <2>1. PICK r : r = [task[t] EXCEPT !.pc = "write", !.read = n]
    OBVIOUS
  <2>2. r \in TaskType /\ r.pc = "write" /\ r.link = task[t].link
    BY <1>1, <2>1 DEF TaskType, Steps, SessionSteps
  <2>3. task' = [task EXCEPT ![t] = r] /\ client' = client /\ up' = up
    BY <1>14, <2>1 DEF Send, Continue, session, radio
  <2> QED
    BY <2>2, <2>3, <1>11, <1>14 DEF SessionSteps
<1>15. CASE SeedRead(t)
  <2>1. Send(t, Sinfo) /\ Sinfo \in 0 .. Charger /\ task[t].pc \in SessionSteps
        /\ UNCHANGED <<session, radio>>
    BY <1>15, Numbers DEF SeedRead, SessionSteps
  <2> QED
    BY <2>1, <1>14
<1>16. ASSUME FinishRead(t, mustClose), task[t].pc = "respond" PROVE Sane'
  <2>1. task[t].link \in up /\ task[t].err = "none" /\ up' = up
    BY <1>1, <1>16 DEF Doomed, Trace, SessionSteps, FinishRead, radio
  <2>2. CASE client' = task[t].link /\ Return(t)
    <3>1. task'[t].pc = "idle"
      BY <2>2, Returned
    <3>2. ~Doomed(t)'
      BY <3>1 DEF Doomed, SessionSteps
    <3> QED
      BY <2>1, <2>2, <3>2, OthersRest DEF Sane
  <2>3. ASSUME NEW p \in {"close", "drop"}, task' = [task EXCEPT ![t].pc = p]
        PROVE  ~Doomed(t)'
    <3>1. PICK r : r = [task[t] EXCEPT !.pc = p]
      OBVIOUS
    <3>2. r.pc = p /\ r.err = "none"
      BY <1>1, <2>1, <3>1, RecordSteps
    <3>3. task' = [task EXCEPT ![t] = r]
      BY <2>3, <3>1
    <3> QED
      BY <3>2, <3>3, <1>5 DEF SessionSteps
  <2> QED
    BY <1>16, <2>1, <2>2, <2>3, <1>3, <1>4 DEF FinishRead
<1>17. CASE Answered(t)
  <2>1. task[t].pc = "respond" /\ task[t].read \in 0 .. Charger
    BY <1>1, <1>17 DEF Answered, TaskType
  <2>2. CASE /\ task[t].read < LastCore \/ (task[t].read = LastCore /\ ~chargerPaused)
             /\ Send(t, task[t].read + 1)
             /\ UNCHANGED <<session, radio>>
    <3>1. task[t].read + 1 \in 0 .. Charger
      BY <2>1, <2>2, Numbers
    <3> QED
      BY <2>1, <2>2, <3>1, <1>14 DEF SessionSteps
  <2> QED
    BY <1>17, <2>1, <2>2, <1>16 DEF Answered
<1>18. CASE Disconnected(t, FALSE)
  <2>1. client' = NoLink
    BY <1>18 DEF Disconnected, IInv, Working, session
  <2>2. Return(t) \/ task' = [task EXCEPT ![t] = [Rest EXCEPT !.pc = "sleep"]]
    BY <1>18 DEF Disconnected, EndAttempt
  <2>3. task'[t].pc \in {"idle", "sleep"}
    <3>1. CASE Return(t)
      BY <3>1, Returned
    <3>2. CASE task' = [task EXCEPT ![t] = [Rest EXCEPT !.pc = "sleep"]]
      <4>1. task'[t] = [Rest EXCEPT !.pc = "sleep"]
        BY <3>2, OwnRecord
      <4> QED
        BY <4>1 DEF Rest
    <3> QED
      BY <2>2, <3>1, <3>2
  <2> QED
    BY <2>1, <2>3, <1>4 DEF Doomed, SessionSteps
<1> QED
  BY <1>2, <1>6, <1>7, <1>8, <1>9, <1>10, <1>12, <1>13, <1>15, <1>17, <1>18
     DEF Progress

-----------------------------------------------------------------------------
\* Every step

\* The steps of the client itself keep what LocalClient has proved.
LEMMA ClientInv ==
  ASSUME IInv, Traced, [Next]_vars
  PROVE  IInv' /\ Traced'
BY NextInv, NextTrace

\* A healed step of a call.
LEMMA HealthyInv ==
  ASSUME RInv, NEW t \in Tasks, Healthy(t)
  PROVE  RInv'
<1>1. /\ healed /\ healed' = healed /\ (Progress(t) \/ SeveredFails(t))
      /\ spent' = IF FailureRecorded /\ spent < 2 THEN spent + 1 ELSE spent
  BY DEF Healthy, Behave
<1>2. IInv' /\ Traced'
  BY <1>1, ClientInv, HealthySteps DEF RInv, Next
<1>3. CASE FailureRecorded
  <2>1. Sane' /\ ~Sane
    BY <1>1, <1>3, FailureIsTheLast DEF RInv, Sane
  <2>2. spent = 0
    BY <2>1 DEF RInv, Recovering
  <2>3. spent' = 1
    BY <1>1, <1>3, <2>2
  <2>4. healed' /\ healed' \in BOOLEAN
    BY <1>1 DEF RInv, Recovering
  <2> QED
    BY <1>2, <2>1, <2>3, <2>4 DEF RInv, Recovering
<1>4. CASE ~FailureRecorded
  <2>1. Sane => Sane'
    BY <1>1, SaneStays DEF RInv
  <2>2. spent' = spent
    BY <1>1, <1>4
  <2>3. healed' /\ healed' \in BOOLEAN
    BY <1>1 DEF RInv, Recovering
  <2> QED
    BY <1>2, <2>1, <2>2, <2>3 DEF RInv, Recovering
<1> QED
  BY <1>3, <1>4

\* A new call, an abandoned connection that ends and the charger's pause neither fail
\* a poll nor touch a session in use.
LEMMA QuietStep ==
  ASSUME RInv,
         \/ \E p \in Polls : Ask(p)
         \/ AbandonedDrops
         \/ Behave(RetryDelayElapses)
  PROVE  RInv'
<1>1. healed /\ healed' = healed /\ diag' = diag
      /\ client' = client
  BY DEF Ask, AbandonedDrops, Behave, Call, LinkDrops, RetryDelayElapses, session
<1>2. spent' = spent
  BY <1>1 DEF Ask, AbandonedDrops, Behave, FailureRecorded
<1>3. Next
  BY DEF Ask, AbandonedDrops, Behave, Next, Tasks, RInv, IInv, TypeOK
<1>4. IInv' /\ Traced'
  BY <1>3, ClientInv DEF RInv
<1>5. ASSUME Sane PROVE Sane'
  <2>1. CASE \E p \in Polls : Ask(p)
    <3>1. PICK p \in Polls : Call(p)
      BY <2>1 DEF Ask, Behave
    <3>2. p \in Tasks /\ up' = up
      BY <3>1 DEF Call, radio, Tasks
    <3>3. task'[p].pc = "lock"
      BY <3>1, <3>2 DEF Call, RInv, IInv, TypeOK, TaskType
    <3>4. ASSUME NEW u \in Tasks PROVE ~Doomed(u)'
      <4>1. CASE u = p
        BY <3>3, <4>1 DEF Doomed, SessionSteps
      <4>2. CASE u # p
        <5>1. task'[u] = task[u]
          BY <3>1, <3>2, <4>2, OwnTaskOnly DEF RInv, IInv
        <5> QED
          BY <5>1, <3>2, <1>5 DEF Sane, Doomed
      <4> QED
        BY <4>1, <4>2
    <3> QED
      BY <3>2, <3>4, <1>1, <1>5 DEF Sane
  <2>2. CASE AbandonedDrops
    <3>1. PICK l \in abandoned : up' = up \ {l} /\ task' = task
      BY <2>2 DEF AbandonedDrops, Behave, LinkDrops
    <3>2. client # NoLink => client \in up'
      BY <1>5, <3>1 DEF Sane, RInv, IInv, RetainedIsOwned
    <3>3. \A u \in Tasks : task[u].pc \in SessionSteps => task[u].link # l
      BY <3>1 DEF RInv, IInv, Working
    <3> QED
      BY <1>1, <1>5, <3>1, <3>2, <3>3 DEF Sane, Doomed
  <2>3. CASE Behave(RetryDelayElapses)
    BY <1>1, <1>5, <2>3 DEF Behave, RetryDelayElapses, radio, Sane, Doomed
  <2> QED
    BY <2>1, <2>2, <2>3
<1> QED
  BY <1>1, <1>2, <1>4, <1>5 DEF RInv, Recovering

LEMMA RecoveryStep == RInv /\ [RecoveryNext]_recoveryVars => RInv'
<1> SUFFICES ASSUME RInv, [RecoveryNext]_recoveryVars PROVE RInv'
  OBVIOUS
<1>1. CASE Heal
  <2>1. UNCHANGED vars /\ spent' = spent /\ healed' = TRUE /\ spent # 1
    BY <1>1 DEF Heal, RInv, Recovering
  <2>2. IInv' /\ Traced'
    BY <2>1, ClientInv DEF RInv
  <2> QED
    BY <2>1, <2>2 DEF RInv, Recovering
<1>2. CASE Misbehave
  <2>1. Next /\ spent' = spent /\ healed' = healed /\ spent # 1
    BY <1>2 DEF Misbehave, RInv, Recovering
  <2>2. IInv' /\ Traced'
    BY <2>1, ClientInv DEF RInv
  <2> QED
    BY <2>1, <2>2 DEF RInv, Recovering
<1>3. CASE \E t \in Tasks : Healthy(t)
  BY <1>3, HealthyInv
<1>4. CASE \/ \E p \in Polls : Ask(p)
           \/ AbandonedDrops
           \/ Behave(RetryDelayElapses)
  BY <1>4, QuietStep
<1>5. CASE UNCHANGED recoveryVars
  <2>1. UNCHANGED vars /\ spent' = spent /\ healed' = healed
    BY <1>5 DEF recoveryVars
  <2>2. IInv' /\ Traced'
    BY <2>1, ClientInv DEF RInv
  <2>3. Sane => Sane'
    BY <2>1 DEF vars, Sane, Doomed
  <2> QED
    BY <2>1, <2>2, <2>3 DEF RInv, Recovering
<1> QED
  BY <1>1, <1>2, <1>3, <1>4, <1>5 DEF RecoveryNext

\* The client's invariants hold before and after the faults have ended, and what one
\* failed poll leaves behind makes no other fail.
THEOREM RecoveryInvariance == RecoverySpec => []RInv
<1>1. RecoveryInit => RInv
  <2> SUFFICES ASSUME RecoveryInit PROVE RInv
    OBVIOUS
  <2>1. healed \in BOOLEAN /\ IInv /\ Traced
    BY InitInv, InitTrace DEF RecoveryInit
  <2>2. spent \in {0, 1} /\ spent # 1
    BY DEF RecoveryInit
  <2> QED
    BY <2>1, <2>2 DEF RInv, Recovering
<1> QED
  BY <1>1, RecoveryStep, PTL DEF RecoverySpec

\* Once the faults have ended at most one more poll fails, whatever they left behind:
\* a dead retained session, an exchange under way, a cleanup that is to report an
\* error (local_client.py:127-150, 236-262).
THEOREM AtMostOneMoreFailure == RecoverySpec => []OneMoreFailure
<1>1. RInv => OneMoreFailure
  BY DEF RInv, Recovering, OneMoreFailure
<1> QED
  BY <1>1, RecoveryInvariance, PTL
=============================================================================
