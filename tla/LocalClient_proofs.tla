-------------------------- MODULE LocalClient_proofs --------------------------
(***************************************************************************)
(* Machine-checked proofs about module LocalClient, for any sets of polls, *)
(* closers and connections and any number of core reads.                   *)
(***************************************************************************)
EXTENDS LocalClient, TLAPS, SequenceTheorems

-----------------------------------------------------------------------------
\* The inductive invariant

\* A call that does not hold the lock has nothing in hand.
Parked(t) ==
  task[t].pc \in {"idle", "lock"} => task[t].link = NoLink /\ ~task[t].reused

\* Requests counted so far, relative to the request under way.
Skipped(t) == IF task[t].reused THEN Discovery ELSE 0

\* What the holder of the lock has in hand, by the await it is at.
Working(t) ==
  /\ t \in Polls /\ task[t].pc \notin {"idle", "lock"} => diag.result = "running"
  /\ task[t].pc \in {"connect", "sleep"} =>
       /\ task[t].link = NoLink
       /\ ~task[t].reused
       /\ client = NoLink
       /\ diag.requests = 0
       /\ diag.attempts # 0
       /\ task[t].pc = "sleep" => diag.attempts = 1
  /\ task[t].pc \in SessionSteps =>
       /\ task[t].link \in Links \ abandoned
       /\ client = IF task[t].reused THEN task[t].link ELSE NoLink
       /\ task[t].reused => ~mustClose
       /\ task[t].reused <=> diag.attempts = 0
  /\ task[t].pc \in {"notify", "seed"} =>
       ~task[t].reused /\ diag.requests = 0
  /\ task[t].pc \in {"write", "respond"} =>
       /\ task[t].read > Skipped(t)
       /\ diag.requests = task[t].read - Skipped(t)
  /\ task[t].pc \in {"drop", "close"} =>
       /\ task[t].link \in Links \ abandoned
       /\ client = NoLink
       /\ t \in Polls => (task[t].reused <=> diag.attempts = 0)
       /\ t \in Polls /\ task[t].err = "none" =>
            diag.requests \in {LastCore - Skipped(t), Charger - Skipped(t)}

\* Closers never poll.
ClosersClose ==
  \A c \in Closers : task[c].pc \in {"idle", "lock", "close"}

\* A retained session is not one given up before.
RetainedIsOwned == client \notin abandoned

IInv ==
  /\ TypeOK
  /\ MutualExclusion
  /\ \A t \in Tasks : Parked(t) /\ Working(t)
  /\ ClosersClose
  /\ RetainedIsOwned
  /\ NoOrphanLink
  /\ RetainedSessionUsable
  /\ CompleteCycle

-----------------------------------------------------------------------------
\* Steps shared by several actions

USE TaskAssumption, LinkAssumption, SizeAssumption

\* The request numbers, which stay folded from here on.
LEMMA Numbers ==
  /\ Charger \in Nat /\ LastCore \in Nat
  /\ Charger >= 4 /\ LastCore = Charger - 1
  /\ Discovery = 2 /\ Sinfo = 1
  /\ LastCore - Discovery = CoreReads
  /\ Charger - Discovery = CoreReads + 1
  /\ 0 \in 0 .. Charger /\ 1 \in 0 .. Charger /\ 3 \in 0 .. Charger
  /\ 1 \in 0 .. 2 /\ 2 \in 0 .. 2 /\ 0 \in 0 .. 2 /\ 0 \in 0 .. MaxFailures
BY DEF Charger, LastCore, Discovery, Sinfo

\* A parked task is of the right type.
LEMMA RestType == Rest \in TaskType
BY Numbers DEF Rest, TaskType, Steps, Stages

\* A call that leaves the lock preserves the invariant when what it leaves
\* behind is in order.
LEMMA ReturnInv ==
  ASSUME IInv, NEW t \in Tasks, holder \in {t, NoTask}, Return(t),
         waiters' \in Seq(Tasks), diag' \in DiagType, CompleteCycle',
         client' \in Links \cup {NoLink},
         mustClose' \in BOOLEAN, chargerPaused' \in BOOLEAN,
         up' \subseteq Links, abandoned' \subseteq up',
         client' # NoLink => ~mustClose' /\ client' \notin abandoned',
         up' \ abandoned' \subseteq {client'}
  PROVE  IInv'
<1>1. /\ task' \in [Tasks -> TaskType]
      /\ task'[t] = Rest
      /\ \A u \in Tasks \ {t} : task'[u] = task[u]
  BY RestType DEF IInv, TypeOK, Return
<1>2. \A u \in Tasks : task'[u].pc \in {"idle", "lock"}
  BY <1>1 DEF IInv, MutualExclusion, TypeOK, Rest
<1>3. TypeOK'
  BY <1>1 DEF TypeOK, Return
<1>4. MutualExclusion'
  BY <1>2 DEF MutualExclusion, Return
<1>5. ASSUME NEW u \in Tasks PROVE Parked(u)' /\ Working(u)'
  BY <1>1, <1>2 DEF IInv, Parked, Working, SessionSteps, Rest
<1>6. ClosersClose' /\ RetainedIsOwned'
  BY <1>2 DEF ClosersClose, RetainedIsOwned, Tasks
<1>7. NoOrphanLink' /\ RetainedSessionUsable'
  BY DEF NoOrphanLink, RetainedSessionUsable
<1> QED BY <1>3, <1>4, <1>5, <1>6, <1>7 DEF IInv

\* A call that keeps the lock, or has just got it, preserves the invariant
\* when what it has in hand is in order.
LEMMA HoldInv ==
  ASSUME IInv, NEW t \in Tasks, NEW changed \in TaskType,
         holder \in {t, NoTask}, holder' = t,
         task' = [task EXCEPT ![t] = changed],
         changed.pc \notin {"idle", "lock"},
         t \in Closers => changed.pc = "close",
         waiters' \in Seq(Tasks), diag' \in DiagType, CompleteCycle',
         client' \in Links \cup {NoLink}, client' \notin abandoned',
         mustClose' \in BOOLEAN, chargerPaused' \in BOOLEAN,
         up' \subseteq Links, abandoned' \subseteq up',
         Working(t)',
         up' \ abandoned' \subseteq {client', changed.link}
  PROVE  IInv'
<1>1. /\ task' \in [Tasks -> TaskType]
      /\ task'[t] = changed
      /\ \A u \in Tasks \ {t} : task'[u] = task[u]
  BY DEF IInv, TypeOK
<1>2. \A u \in Tasks \ {t} : task'[u].pc \in {"idle", "lock"}
  BY <1>1 DEF IInv, MutualExclusion
<1>3. TypeOK'
  BY <1>1 DEF TypeOK
<1>4. MutualExclusion'
  BY <1>1, <1>2 DEF MutualExclusion
<1>5. ASSUME NEW u \in Tasks PROVE Parked(u)' /\ Working(u)'
  <2>1. CASE u = t
    BY <2>1, <1>1 DEF Parked
  <2>2. CASE u # t
    BY <2>2, <1>1, <1>2 DEF IInv, Parked, Working, SessionSteps
  <2> QED BY <2>1, <2>2
<1>6. ClosersClose' /\ RetainedIsOwned'
  BY <1>1, <1>2 DEF ClosersClose, RetainedIsOwned, Tasks
<1>7. NoOrphanLink' /\ RetainedSessionUsable'
  BY <1>1 DEF NoOrphanLink, RetainedSessionUsable
<1> QED BY <1>3, <1>4, <1>5, <1>6, <1>7 DEF IInv

\* Removing the head, or a cancelled waiter, leaves a queue of calls.
LEMMA QueueType ==
  ASSUME TypeOK
  PROVE  /\ waiters # <<>> => Tail(waiters) \in Seq(Tasks)
         /\ \A t \in Tasks : Append(waiters, t) \in Seq(Tasks)
         /\ \A i \in DOMAIN waiters :
              SubSeq(waiters, 1, i - 1) \o SubSeq(waiters, i + 1, Len(waiters))
                \in Seq(Tasks)
<1>1. waiters \in Seq(Tasks)
  BY DEF TypeOK
<1>2. \A i \in DOMAIN waiters :
        /\ SubSeq(waiters, 1, i - 1) \in Seq(Tasks)
        /\ SubSeq(waiters, i + 1, Len(waiters)) \in Seq(Tasks)
  BY <1>1
<1> QED BY <1>1, <1>2

\* Setting one field of the diagnostics to a value of its type keeps their type.
LEMMA DiagField ==
  ASSUME NEW d \in DiagType
  PROVE  /\ \A v \in Stages : [d EXCEPT !.stage = v] \in DiagType
         /\ \A v \in 0 .. Charger : [d EXCEPT !.requests = v] \in DiagType
         /\ \A v \in 0 .. 2 : [d EXCEPT !.attempts = v] \in DiagType
         /\ \A v \in {"running", "success", "temporarily_unavailable"} :
              [d EXCEPT !.result = v] \in DiagType
         /\ \A v \in 0 .. MaxFailures : [d EXCEPT !.failures = v] \in DiagType
         /\ \A v \in BOOLEAN : [d EXCEPT !.warning = v] \in DiagType
BY DEF DiagType

\* The same for what a call is doing.
LEMMA TaskField ==
  ASSUME NEW r \in TaskType
  PROVE  /\ \A v \in Steps : [r EXCEPT !.pc = v] \in TaskType
         /\ \A v \in Links \cup {NoLink} : [r EXCEPT !.link = v] \in TaskType
         /\ \A v \in 0 .. Charger : [r EXCEPT !.read = v] \in TaskType
         /\ \A v \in Errors \cup {"none", "cancelled"} :
              [r EXCEPT !.err = v] \in TaskType
         /\ \A v \in Stages : [r EXCEPT !.stage = v] \in TaskType
BY DEF TaskType

\* The diagnostics of a call that begins, succeeds or fails are of their type.
LEMMA DiagSteps ==
  ASSUME TypeOK
  PROVE  /\ \A stage \in Stages : Begun(stage) \in DiagType
         /\ \A d \in DiagType : Succeeded(d) \in DiagType /\ Failed(d) \in DiagType
<1>1. ASSUME NEW stage \in Stages PROVE Begun(stage) \in DiagType
  <2> DEFINE a == [diag EXCEPT !.stage = stage]
             b == [a EXCEPT !.requests = 0]
             c == [b EXCEPT !.attempts = 0]
             e == [c EXCEPT !.result = "running"]
  <2> HIDE DEF a, b, c, e
  <2>1. a \in DiagType
    BY DiagField DEF TypeOK, a
  <2>2. b \in DiagType
    BY <2>1, DiagField, Numbers DEF b
  <2>3. c \in DiagType
    BY <2>2, DiagField, Numbers DEF c
  <2>4. e \in DiagType
    BY <2>3, DiagField DEF e
  <2>5. [e EXCEPT !.warning = FALSE] \in DiagType
    BY <2>4, DiagField
  <2> QED BY <2>5 DEF Begun, a, b, c, e
<1>2. ASSUME NEW d \in DiagType PROVE Succeeded(d) \in DiagType
  <2> DEFINE a == [d EXCEPT !.stage = "complete"]
             b == [a EXCEPT !.result = "success"]
  <2> HIDE DEF a, b
  <2>1. a \in DiagType
    BY DiagField DEF Stages, a
  <2>2. b \in DiagType
    BY <2>1, DiagField DEF b
  <2>3. [b EXCEPT !.failures = 0] \in DiagType
    BY <2>2, DiagField, Numbers
  <2> QED BY <2>3 DEF Succeeded, a, b
<1>3. ASSUME NEW d \in DiagType PROVE Failed(d) \in DiagType
  <2> DEFINE a == [d EXCEPT !.result = "temporarily_unavailable"]
             n == IF a.failures < MaxFailures THEN a.failures + 1 ELSE a.failures
  <2>1. a \in DiagType
    BY DiagField
  <2>2. a.failures \in 0 .. MaxFailures
    BY <2>1 DEF DiagType
  <2>3. n \in 0 .. MaxFailures
    BY <2>2
  <2> HIDE DEF n
  <2>4. [a EXCEPT !.failures = n] \in DiagType
    BY <2>1, <2>3, DiagField
  <2> QED BY <2>4 DEF Failed, n
<1> QED BY <1>1, <1>2, <1>3

-----------------------------------------------------------------------------
\* The actions

LEMMA InitInv == Init => IInv
<1> SUFFICES ASSUME Init PROVE IInv
  OBVIOUS
<1>1. TypeOK
  <2>1. task \in [Tasks -> TaskType]
    BY RestType DEF Init
  <2>2. diag \in DiagType
    BY Numbers DEF Init, DiagType, Stages
  <2>3. <<>> \in Seq(Tasks)
    OBVIOUS
  <2> QED BY <2>1, <2>2, <2>3 DEF Init, TypeOK
<1>2. \A t \in Tasks : task[t] = Rest
  BY DEF Init
<1> QED
  BY <1>1, <1>2 DEF IInv, Init, Rest, MutualExclusion, Parked, Working, SessionSteps,
     ClosersClose, Tasks, RetainedIsOwned, NoOrphanLink, RetainedSessionUsable,
     CompleteCycle

LEMMA CallInv ==
  ASSUME IInv, NEW t \in Tasks, Call(t)
  PROVE  IInv'
<1> USE DEF Call, session, radio
<1>1. TypeOK'
  <2>1. [task[t] EXCEPT !.pc = "lock"] \in TaskType
    BY ZenonT(60) DEF IInv, TypeOK, TaskType, Steps
  <2>2. task' \in [Tasks -> TaskType]
    BY <2>1 DEF IInv, TypeOK
  <2> QED BY <2>2, QueueType DEF IInv, TypeOK
<1>2. \A u \in Tasks : task'[u] = IF u = t THEN [task[u] EXCEPT !.pc = "lock"]
                                           ELSE task[u]
  BY DEF IInv, TypeOK
<1>3. MutualExclusion' /\ ClosersClose'
  BY <1>2 DEF IInv, TypeOK, TaskType, MutualExclusion, ClosersClose, Tasks
<1>4. ASSUME NEW u \in Tasks PROVE Parked(u)' /\ Working(u)'
  BY <1>2 DEF IInv, TypeOK, TaskType, Parked, Working, SessionSteps, Skipped
<1>5. RetainedIsOwned' /\ RetainedSessionUsable' /\ CompleteCycle'
  BY DEF IInv, RetainedIsOwned, RetainedSessionUsable, CompleteCycle
<1>6. NoOrphanLink'
  BY <1>2 DEF IInv, TypeOK, TaskType, NoOrphanLink
<1> QED BY <1>1, <1>3, <1>4, <1>5, <1>6 DEF IInv

\* While the lock is free every open connection is retained or abandoned.
LEMMA FreeLock ==
  ASSUME IInv, holder = NoTask
  PROVE  up \ abandoned \subseteq {client}
BY DEF IInv, NoOrphanLink

LEMMA BeginReuseInv ==
  ASSUME IInv, NEW t \in Tasks, BeginReuse(t)
  PROVE  IInv'
<1> USE DEF BeginReuse, Acquire, Granted, session, radio
<1> DEFINE r == [Rest EXCEPT !.pc = "write", !.link = client, !.reused = TRUE,
                             !.read = Discovery + 1]
<1>1. r \in TaskType
  <2>1. /\ client \in Links \cup {NoLink}
        /\ Discovery + 1 \in 0 .. Charger
        /\ "write" \in Steps
    BY Numbers DEF IInv, TypeOK, Steps, SessionSteps
  <2> QED BY <2>1, RestType DEF TaskType
<1>2. diag' \in DiagType
  <2>1. Begun("core_read") \in DiagType
    BY DiagSteps DEF IInv, Stages, RequestStages
  <2>2. diag' = [Begun("core_read") EXCEPT !.requests = 1]
    BY DEF IInv, TypeOK, Begun, DiagType
  <2> QED BY <2>1, <2>2, DiagField, Numbers, ZenonT(60)
<1>5. CompleteCycle'
  BY DEF IInv, TypeOK, Begun, DiagType, CompleteCycle
<1>3. Working(t)'
  BY DEF IInv, TypeOK, Working, Rest, SessionSteps, Skipped, Begun, DiagType,
     RetainedSessionUsable, RetainedIsOwned, Discovery
<1>4. t \notin Closers
  BY DEF Tasks
<1> QED
  BY <1>1, <1>2, <1>3, <1>4, <1>5, HoldInv, QueueType, FreeLock
     DEF IInv, TypeOK, RetainedIsOwned, Rest

LEMMA BeginConnectInv ==
  ASSUME IInv, NEW t \in Tasks, BeginConnect(t)
  PROVE  IInv'
<1> USE DEF BeginConnect, Acquire, Granted, session, radio
<1> DEFINE r == [Rest EXCEPT !.pc = "connect"]
<1>1. r \in TaskType
  BY RestType DEF TaskType, Steps
<1>2. diag' \in DiagType
  <2>1. Begun("connect") \in DiagType
    BY DiagSteps DEF IInv, Stages, ConnectStages
  <2> QED BY <2>1, DiagField, Numbers
<1>5. CompleteCycle'
  BY DEF IInv, TypeOK, Begun, DiagType, CompleteCycle
<1>3. Working(t)'
  BY DEF IInv, TypeOK, Working, Rest, SessionSteps, Begun, DiagType
<1>4. t \notin Closers
  BY DEF Tasks
<1> QED
  BY <1>1, <1>2, <1>3, <1>4, <1>5, HoldInv, QueueType, FreeLock
     DEF IInv, TypeOK, RetainedIsOwned, Rest

LEMMA BeginUnavailableInv ==
  ASSUME IInv, NEW t \in Tasks, BeginUnavailable(t)
  PROVE  IInv'
<1> USE DEF BeginUnavailable, Granted, session, radio
<1>1. diag' \in DiagType
  BY DiagSteps DEF IInv, Stages
<1>2. CompleteCycle'
  BY DEF IInv, TypeOK, DiagType, Begun, Failed, CompleteCycle
<1> QED
  BY <1>1, <1>2, ReturnInv, QueueType, FreeLock DEF IInv, TypeOK

LEMMA BeginCloseInv ==
  ASSUME IInv, NEW t \in Tasks, BeginClose(t)
  PROVE  IInv'
<1> USE DEF BeginClose, session, radio
<1>1. CASE client = NoLink
  BY <1>1, ReturnInv, QueueType, FreeLock
     DEF Granted, IInv, TypeOK, CompleteCycle
<1>2. CASE client # NoLink
  <2> USE DEF Acquire, Granted
  <2> DEFINE r == [Rest EXCEPT !.pc = "close", !.link = client]
  <2>1. r \in TaskType
    BY RestType DEF IInv, TypeOK, TaskType, Steps
  <2>2. diag' \in DiagType /\ CompleteCycle'
    BY <1>2 DEF IInv, TypeOK, DiagType, Stages, CompleteCycle
  <2>3. task'[t].pc = "close" /\ task'[t].link = client
    <3>1. task' = [task EXCEPT ![t] = r]
      BY <1>2
    <3>2. task'[t] = r
      BY <3>1 DEF IInv, TypeOK
    <3> QED BY <3>2 DEF Rest
  <2>4. client \in Links \ abandoned
    BY <1>2 DEF IInv, TypeOK, RetainedIsOwned
  <2>5. t \notin Polls
    OBVIOUS
  <2>6. client' = NoLink /\ abandoned' = abandoned
    OBVIOUS
  <2>7. Working(t)'
    BY <2>3, <2>4, <2>5, <2>6 DEF Working, SessionSteps
  <2> QED
    BY <1>2, <2>1, <2>2, <2>7, HoldInv, QueueType, FreeLock, ZenonT(60)
       DEF IInv, TypeOK, RetainedIsOwned, Rest
<1> QED BY <1>1, <1>2

LEMMA ConnectedInv ==
  ASSUME IInv, NEW t \in Tasks, Connected(t)
  PROVE  IInv'
<1> USE DEF Connected, Continue
<1>1. PICK l \in Links :
        /\ Fresh(l)
        /\ up' = up \cup {l}
        /\ task' = [task EXCEPT ![t] = [task[t] EXCEPT !.pc = "notify", !.link = l]]
  OBVIOUS
<1> DEFINE r == [task[t] EXCEPT !.pc = "notify", !.link = l]
<1>2. r \in TaskType
  <2>1. [task[t] EXCEPT !.pc = "notify"] \in TaskType
    BY TaskField DEF IInv, TypeOK, Steps, SessionSteps
  <2> QED BY <2>1, TaskField
<1>3. diag' \in DiagType /\ CompleteCycle'
  <2>1. diag' \in DiagType
    BY DiagField DEF IInv, TypeOK, Stages, ConnectStages
  <2>2. CompleteCycle'
    BY DEF IInv, TypeOK, DiagType, CompleteCycle
  <2> QED BY <2>1, <2>2
<1>4. holder = t /\ t \notin Closers
  BY DEF IInv, MutualExclusion, ClosersClose
<1>5. /\ task'[t].pc = "notify" /\ task'[t].link = l
      /\ task'[t].reused = task[t].reused
  <2>1. task[t] \in TaskType /\ task'[t] = r
    BY <1>1 DEF IInv, TypeOK
  <2> QED BY <2>1 DEF TaskType
<1>6. l \notin abandoned /\ client = NoLink
  BY <1>1 DEF IInv, TypeOK, Fresh, Working
<1>7. Working(t)'
  BY <1>5, <1>6 DEF IInv, TypeOK, DiagType, Working, SessionSteps
<1>8. up \subseteq abandoned
  BY <1>4, <1>6 DEF IInv, TypeOK, NoOrphanLink, Working
<1> QED
  BY <1>1, <1>2, <1>3, <1>4, <1>5, <1>6, <1>7, <1>8, HoldInv, ZenonT(60)
     DEF IInv, TypeOK, TaskType

LEMMA ConnectedUnusableInv ==
  ASSUME IInv, NEW t \in Tasks, NEW err \in Errors, ConnectedUnusable(t, err)
  PROVE  IInv'
<1> USE DEF ConnectedUnusable, Continue
<1>1. PICK l \in Links :
        /\ Fresh(l)
        /\ up' = up \cup {l}
        /\ task' = [task EXCEPT ![t] =
             [task[t] EXCEPT !.pc = "drop", !.link = l, !.err = err,
                             !.stage = "gatt_service_discovery"]]
  OBVIOUS
<1> DEFINE r == [task[t] EXCEPT !.pc = "drop", !.link = l, !.err = err,
                                !.stage = "gatt_service_discovery"]
<1>2. r \in TaskType
  <2>1. [task[t] EXCEPT !.pc = "drop"] \in TaskType
    BY TaskField DEF IInv, TypeOK, Steps
  <2>2. [task[t] EXCEPT !.pc = "drop", !.link = l] \in TaskType
    BY <2>1, TaskField
  <2>3. [task[t] EXCEPT !.pc = "drop", !.link = l, !.err = err] \in TaskType
    BY <2>2, TaskField
  <2> QED BY <2>3, TaskField DEF Stages, ConnectStages
<1>3. diag' \in DiagType /\ CompleteCycle'
  <2>1. diag' \in DiagType
    BY DiagField DEF IInv, TypeOK, Stages
  <2>2. CompleteCycle'
    BY DEF IInv, TypeOK, DiagType, CompleteCycle
  <2> QED BY <2>1, <2>2
<1>4. holder = t /\ t \notin Closers
  BY DEF IInv, MutualExclusion, ClosersClose
<1>5. /\ task'[t].pc = "drop" /\ task'[t].link = l /\ task'[t].err = err
      /\ task'[t].reused = task[t].reused
  <2>1. task[t] \in TaskType /\ task'[t] = r
    BY <1>1 DEF IInv, TypeOK
  <2> QED BY <2>1 DEF TaskType
<1>6. l \notin abandoned /\ client = NoLink
  BY <1>1 DEF IInv, TypeOK, Fresh, Working
<1>7. Working(t)'
  BY <1>5, <1>6 DEF IInv, TypeOK, DiagType, Working, SessionSteps, Errors
<1>8. up \subseteq abandoned
  BY <1>4, <1>6 DEF IInv, TypeOK, NoOrphanLink, Working
<1> QED
  BY <1>1, <1>2, <1>3, <1>4, <1>5, <1>6, <1>7, <1>8, HoldInv, ZenonT(60)
     DEF IInv, TypeOK, TaskType

\* The end of an attempt, whatever ended it.
LEMMA EndAttemptInv ==
  ASSUME IInv, NEW t \in Polls, NEW err, NEW d \in DiagType,
         EndAttempt(t, err, d), holder = t, client = NoLink,
         d.requests = diag.requests, d.attempts = diag.attempts,
         d.result = diag.result,
         UNCHANGED <<waiters, session>>,
         up' \subseteq abandoned', abandoned' \subseteq up', up' \subseteq Links
  PROVE  IInv'
<1> USE DEF session
<1>0. t \in Tasks /\ t \notin Closers
  BY DEF Tasks
<1>1. CASE task' = [task EXCEPT ![t] = [Rest EXCEPT !.pc = "sleep"]]
           /\ Retryable(d) /\ diag' = d /\ UNCHANGED holder
  <2>1. [Rest EXCEPT !.pc = "sleep"] \in TaskType
    BY RestType, TaskField DEF Steps
  <2>2. task'[t] = [Rest EXCEPT !.pc = "sleep"]
    BY <1>0, <1>1 DEF IInv, TypeOK
  <2>3. diag.result = "running"
    BY <1>0 DEF IInv, MutualExclusion, Working
  <2>5. Working(t)'
    BY <1>1, <2>2, <2>3 DEF Working, Rest, SessionSteps, Retryable
  <2>4. CompleteCycle'
    BY <1>1 DEF IInv, CompleteCycle
  <2> QED
    BY <1>0, <1>1, <2>1, <2>4, <2>5, HoldInv DEF IInv, TypeOK, Rest
<1>2. CASE diag' = Failed(d) /\ Return(t)
  <2>1. CompleteCycle'
    BY <1>2 DEF Failed, DiagType, CompleteCycle
  <2> QED
    BY <1>0, <1>2, <2>1, DiagSteps, ReturnInv DEF IInv, TypeOK
<1>3. CASE diag' = d /\ Return(t)
  <2>1. CompleteCycle'
    BY <1>3 DEF IInv, CompleteCycle
  <2> QED
    BY <1>0, <1>3, <2>1, ReturnInv DEF IInv, TypeOK
<1> QED BY <1>1, <1>2, <1>3 DEF EndAttempt

LEMMA ConnectFailsInv ==
  ASSUME IInv, NEW t \in Tasks, ConnectFails(t)
  PROVE  IInv'
<1> USE DEF ConnectFails, radio
<1>1. holder = t /\ t \in Polls /\ client = NoLink
  BY DEF IInv, MutualExclusion, ClosersClose, Tasks, Working
<1>2. up \subseteq abandoned
  BY <1>1 DEF IInv, TypeOK, NoOrphanLink, Working
<1> QED
  BY <1>1, <1>2, EndAttemptInv DEF IInv, TypeOK

LEMMA RetryInv ==
  ASSUME IInv, NEW t \in Tasks, Retry(t)
  PROVE  IInv'
<1> USE DEF Retry, Continue, session, radio
<1>1. [task[t] EXCEPT !.pc = "connect"] \in TaskType
  BY TaskField DEF IInv, TypeOK, Steps
<1>2. diag' \in DiagType
  <2>1. [diag EXCEPT !.stage = "connect"] \in DiagType
    BY DiagField DEF IInv, TypeOK, Stages, ConnectStages
  <2> QED BY <2>1, DiagField, Numbers
<1>3. holder = t /\ t \notin Closers
  BY DEF IInv, MutualExclusion, ClosersClose
<1>4. Working(t)'
  <2>1. /\ task'[t].pc = "connect" /\ task'[t].link = task[t].link
        /\ task'[t].reused = task[t].reused
    BY DEF IInv, TypeOK, TaskType
  <2>2. /\ diag'.requests = diag.requests /\ diag'.attempts = 2
        /\ diag'.result = diag.result
    BY DEF IInv, TypeOK, DiagType
  <2> QED BY <2>1, <2>2 DEF IInv, Working, SessionSteps
<1>5. CompleteCycle'
  BY Numbers DEF IInv, TypeOK, DiagType, CompleteCycle, Working
<1>6. up \ abandoned \subseteq {client}
  BY <1>3 DEF IInv, TypeOK, NoOrphanLink, Working
<1> QED
  BY <1>1, <1>2, <1>3, <1>4, <1>5, <1>6, HoldInv
     DEF IInv, TypeOK, TaskType, RetainedIsOwned

LEMMA NotifyStartedInv ==
  ASSUME IInv, NEW t \in Tasks, NotifyStarted(t)
  PROVE  IInv'
<1> USE DEF NotifyStarted, Continue, session, radio
<1>1. [task[t] EXCEPT !.pc = "seed"] \in TaskType
  BY TaskField DEF IInv, TypeOK, Steps, SessionSteps
<1>2. diag' \in DiagType
  BY DiagField DEF IInv, TypeOK, Stages
<1>3. holder = t /\ t \notin Closers
  BY DEF IInv, MutualExclusion, ClosersClose
<1>4. Working(t)'
  <2>1. /\ task'[t].pc = "seed" /\ task'[t].link = task[t].link
        /\ task'[t].reused = task[t].reused
    BY DEF IInv, TypeOK, TaskType
  <2>2. /\ diag'.requests = diag.requests /\ diag'.attempts = diag.attempts
        /\ diag'.result = diag.result
    BY DEF IInv, TypeOK, DiagType
  <2> QED BY <2>1, <2>2 DEF IInv, Working, SessionSteps
<1>5. CompleteCycle'
  BY DEF IInv, TypeOK, DiagType, CompleteCycle
<1>6. up \ abandoned \subseteq {client, task[t].link}
  BY <1>3 DEF IInv, NoOrphanLink
<1> QED
  BY <1>1, <1>2, <1>3, <1>4, <1>5, <1>6, HoldInv
     DEF IInv, TypeOK, TaskType, RetainedIsOwned

\* A request under way has not all requests behind it.
LEMMA SendInv ==
  ASSUME IInv, NEW t \in Tasks, NEW r \in 1 .. Charger, Send(t, r),
         task[t].pc \in {"seed", "respond"},
         r > Skipped(t), diag.requests + 1 = r - Skipped(t),
         UNCHANGED <<session, radio>>
  PROVE  IInv'
<1> USE DEF Send, Continue, session, radio
<1>1. [task[t] EXCEPT !.pc = "write", !.read = r] \in TaskType
  <2>1. [task[t] EXCEPT !.pc = "write"] \in TaskType
    BY TaskField DEF IInv, TypeOK, Steps, SessionSteps
  <2>2. r \in 0 .. Charger
    BY Numbers
  <2> QED BY <2>1, <2>2, TaskField
<1>2. task[t] \in TaskType /\ task'[t] = [task[t] EXCEPT !.pc = "write", !.read = r]
  BY DEF IInv, TypeOK
<1>3. /\ task'[t].pc = "write" /\ task'[t].read = r
      /\ task'[t].link = task[t].link /\ task'[t].reused = task[t].reused
  BY <1>2, ZenonT(60) DEF TaskType
<1>4. diag \in DiagType /\ diag.requests \in 0 .. Charger
  BY DEF IInv, TypeOK, DiagType
<1>5. /\ diag'.requests = r - Skipped(t)
      /\ diag'.attempts = diag.attempts /\ diag'.result = diag.result
  BY <1>4 DEF DiagType
<1>6. diag' \in DiagType
  <2> DEFINE d == [diag EXCEPT !.stage = RequestStage(r)]
             n == diag.requests + 1
  <2>1. d \in DiagType
    BY <1>4, DiagField DEF RequestStage, Stages, RequestStages
  <2>2. n \in 0 .. Charger
    BY <1>4, Numbers DEF Skipped
  <2>3. diag' = [d EXCEPT !.requests = n]
    OBVIOUS
  <2> HIDE DEF d, n
  <2>4. [d EXCEPT !.requests = n] \in DiagType
    BY <2>1, <2>2 DEF DiagType
  <2> QED BY <2>3, <2>4
<1>7. holder = t /\ t \notin Closers
  BY DEF IInv, MutualExclusion, ClosersClose
<1>8. Working(t)'
  BY <1>3, <1>5 DEF IInv, Working, SessionSteps, Skipped
<1>9. CompleteCycle'
  BY <1>5, <1>7 DEF IInv, CompleteCycle, Working, Tasks
<1>10. up \ abandoned \subseteq {client, task[t].link}
  BY <1>7 DEF IInv, NoOrphanLink
<1> QED
  BY <1>1, <1>2, <1>3, <1>6, <1>7, <1>8, <1>9, <1>10, HoldInv
     DEF IInv, TypeOK, RetainedIsOwned

LEMMA SeedReadInv ==
  ASSUME IInv, NEW t \in Tasks, SeedRead(t)
  PROVE  IInv'
<1>1. Sinfo \in 1 .. Charger
  BY Numbers
<1>2. Sinfo > Skipped(t) /\ diag.requests + 1 = Sinfo - Skipped(t)
  BY Numbers DEF SeedRead, IInv, Working, Skipped
<1> QED BY <1>1, <1>2, SendInv DEF SeedRead

LEMMA WrittenInv ==
  ASSUME IInv, NEW t \in Tasks, Written(t)
  PROVE  IInv'
<1> USE DEF Written, Continue, session, radio
<1>1. [task[t] EXCEPT !.pc = "respond"] \in TaskType
  BY TaskField DEF IInv, TypeOK, Steps, SessionSteps
<1>2. holder = t /\ t \notin Closers
  BY DEF IInv, MutualExclusion, ClosersClose
<1>3. Working(t)'
  <2>1. /\ task'[t].pc = "respond" /\ task'[t].link = task[t].link
        /\ task'[t].reused = task[t].reused /\ task'[t].read = task[t].read
    BY DEF IInv, TypeOK, TaskType
  <2> QED BY <2>1 DEF IInv, Working, SessionSteps, Skipped
<1>4. up \ abandoned \subseteq {client, task[t].link}
  BY <1>2 DEF IInv, NoOrphanLink
<1> QED
  BY <1>1, <1>2, <1>3, <1>4, HoldInv
     DEF IInv, TypeOK, TaskType, CompleteCycle, RetainedIsOwned

\* The end of a cycle's last read, with what the charger query changed.
LEMMA FinishReadInv ==
  ASSUME IInv, NEW t \in Tasks, task[t].pc = "respond",
         task[t].read \in {LastCore, Charger},
         mustClose' \in BOOLEAN, chargerPaused' \in BOOLEAN,
         FinishRead(t, mustClose')
  PROVE  IInv'
<1> USE DEF radio
<1>1. holder = t /\ t \in Polls /\ t \notin Closers
  BY DEF IInv, MutualExclusion, ClosersClose, Tasks
<1>2. /\ task[t].link \in Links \ abandoned
      /\ client = IF task[t].reused THEN task[t].link ELSE NoLink
      /\ task[t].reused <=> diag.attempts = 0
      /\ diag.requests \in {LastCore - Skipped(t), Charger - Skipped(t)}
      /\ diag.result = "running"
  BY <1>1 DEF IInv, Working, SessionSteps
<1>3. up \ abandoned \subseteq {task[t].link}
  BY <1>1, <1>2 DEF IInv, TypeOK, NoOrphanLink
<1>4. CASE ~mustClose' /\ client' = task[t].link /\ diag' = Succeeded(diag)
           /\ Return(t) /\ UNCHANGED <<waiters, radio>>
  <2>1. CompleteCycle'
    BY <1>2, <1>4, Numbers, SMTT(30) DEF IInv, TypeOK, Succeeded, DiagType, CompleteCycle, Skipped
  <2> QED
    BY <1>1, <1>2, <1>3, <1>4, <2>1, DiagSteps, ReturnInv DEF IInv, TypeOK
<1>5. CASE task[t].reused /\ client' = NoLink
           /\ task' = [task EXCEPT ![t].pc = "close"]
           /\ diag' = [diag EXCEPT !.stage = "disconnect"]
           /\ UNCHANGED <<holder, waiters, radio>>
  <2>1. [task[t] EXCEPT !.pc = "close"] \in TaskType
    BY TaskField DEF IInv, TypeOK, Steps
  <2>2. diag' \in DiagType
    BY <1>5, DiagField DEF IInv, TypeOK, Stages
  <2>3. /\ diag'.requests = diag.requests /\ diag'.attempts = diag.attempts
        /\ diag'.result = diag.result
    BY <1>5 DEF IInv, TypeOK, DiagType
  <2>4. /\ task'[t].pc = "close" /\ task'[t].link = task[t].link
        /\ task'[t].reused = task[t].reused
    BY <1>5 DEF IInv, TypeOK, TaskType
  <2>5. Working(t)'
    BY <1>2, <1>5, <2>3, <2>4 DEF Working, SessionSteps, Skipped
  <2>6. CompleteCycle'
    BY <1>2, <2>3 DEF CompleteCycle
  <2> QED
    BY <1>1, <1>3, <1>5, <2>1, <2>2, <2>5, <2>6, HoldInv DEF IInv, TypeOK, TaskType
<1>6. CASE ~task[t].reused /\ task' = [task EXCEPT ![t].pc = "drop"]
           /\ UNCHANGED <<client, diag, holder, waiters, radio>>
  <2>1. [task[t] EXCEPT !.pc = "drop"] \in TaskType
    BY TaskField DEF IInv, TypeOK, Steps
  <2>2. /\ task'[t].pc = "drop" /\ task'[t].link = task[t].link
        /\ task'[t].reused = task[t].reused
    BY <1>6 DEF IInv, TypeOK, TaskType
  <2>3. Working(t)'
    BY <1>2, <1>6, <2>2 DEF Working, SessionSteps, Skipped
  <2> QED
    BY <1>1, <1>2, <1>3, <1>6, <2>1, <2>3, HoldInv
       DEF IInv, TypeOK, TaskType, CompleteCycle
<1> QED BY <1>4, <1>5, <1>6 DEF FinishRead

LEMMA AnsweredInv ==
  ASSUME IInv, NEW t \in Tasks, Answered(t)
  PROVE  IInv'
<1>1. /\ task[t].read \in 0 .. Charger /\ task[t].read > Skipped(t)
      /\ diag.requests = task[t].read - Skipped(t)
  BY DEF Answered, IInv, TypeOK, TaskType, Working
<1>2. CASE task[t].read <= LastCore /\ Send(t, task[t].read + 1)
           /\ UNCHANGED <<session, radio>>
  <2>1. task[t].read + 1 \in 1 .. Charger
    BY <1>1, <1>2, Numbers
  <2>2. /\ task[t].read + 1 > Skipped(t)
        /\ diag.requests + 1 = (task[t].read + 1) - Skipped(t)
    BY <1>1, Numbers DEF Skipped
  <2> QED BY <1>2, <2>1, <2>2, SendInv DEF Answered
<1>3. CASE /\ task[t].read \in {LastCore, Charger}
           /\ FinishRead(t, mustClose)
           /\ mustClose' = mustClose
           /\ chargerPaused' \in {chargerPaused, FALSE}
  <2>1. FinishRead(t, mustClose')
    BY <1>3
  <2>2. mustClose' \in BOOLEAN /\ chargerPaused' \in BOOLEAN
    BY <1>3 DEF IInv, TypeOK
  <2>3. task[t].pc = "respond"
    BY DEF Answered
  <2> QED BY <1>3, <2>1, <2>2, <2>3, FinishReadInv
<1>4. task[t].read < LastCore \/ task[t].read = LastCore
        => task[t].read <= LastCore
  BY <1>1, Numbers
<1>5. UNCHANGED <<mustClose, chargerPaused>>
        => mustClose' = mustClose /\ chargerPaused' = chargerPaused
  OBVIOUS
<1> QED BY <1>2, <1>3, <1>4, <1>5, Zenon DEF Answered

LEMMA ChargerFailsInv ==
  ASSUME IInv, NEW t \in Tasks, NEW err \in Errors, ChargerFails(t, err)
  PROVE  IInv'
<1>1. mustClose' \in BOOLEAN /\ chargerPaused' \in BOOLEAN
  BY DEF ChargerFails, IInv, TypeOK
<1> QED BY <1>1, FinishReadInv DEF ChargerFails

LEMMA AbortInv ==
  ASSUME IInv, NEW t \in Tasks, NEW err \in Errors \cup {"cancelled"},
         task[t].pc \in SessionSteps, Abort(t, err)
  PROVE  IInv'
<1> USE DEF Abort, Forget, FailingStage, Continue, radio
<1> DEFINE step == IF task[t].reused THEN "close" ELSE "drop"
           r == [task[t] EXCEPT !.pc = step, !.err = err, !.stage = diag.stage]
<1>1. r \in TaskType
  <2>1. step \in Steps
    BY DEF Steps
  <2>2. diag.stage \in Stages
    BY DEF IInv, TypeOK, DiagType
  <2> HIDE DEF step
  <2>3. [task[t] EXCEPT !.pc = step] \in TaskType
    BY <2>1, TaskField DEF IInv, TypeOK
  <2>4. [task[t] EXCEPT !.pc = step, !.err = err] \in TaskType
    BY <2>3, TaskField
  <2> QED BY <2>2, <2>4, TaskField
<1>2. task[t] \in TaskType /\ task' = [task EXCEPT ![t] = r] /\ task'[t] = r
  BY DEF IInv, TypeOK
<1>3. /\ task'[t].pc = step /\ task'[t].link = task[t].link
      /\ task'[t].reused = task[t].reused /\ task'[t].err = err
  BY <1>2 DEF TaskType
<1>4. diag' \in DiagType
  BY DiagField DEF IInv, TypeOK, Stages
<1>5. /\ diag'.requests = diag.requests /\ diag'.attempts = diag.attempts
      /\ diag'.result = diag.result
  BY DEF IInv, TypeOK, DiagType
<1>6. holder = t /\ t \notin Closers
  BY DEF IInv, MutualExclusion, ClosersClose, SessionSteps
<1>7. /\ client' = NoLink
      /\ task[t].link \in Links \ abandoned
      /\ up \ abandoned \subseteq {task[t].link}
      /\ task[t].reused <=> diag.attempts = 0
      /\ t \in Polls => diag.result = "running"
  BY <1>6 DEF IInv, TypeOK, Working, SessionSteps, NoOrphanLink
<1>8. Working(t)'
  BY <1>3, <1>5, <1>7 DEF Working, SessionSteps, Errors
<1>9. CompleteCycle'
  BY <1>5 DEF IInv, CompleteCycle
<1>10. r.pc \notin {"idle", "lock"} /\ r.link = task[t].link
  BY <1>2, <1>3
<1> HIDE DEF r
<1> QED
  BY <1>1, <1>2, <1>4, <1>6, <1>7, <1>8, <1>9, <1>10, HoldInv, ZenonT(60) DEF IInv, TypeOK

LEMMA StepRaisesInv ==
  ASSUME IInv, NEW t \in Tasks, NEW err \in Errors, StepRaises(t, err)
  PROVE  IInv'
BY AbortInv DEF StepRaises

LEMMA DisconnectedInv ==
  ASSUME IInv, NEW t \in Tasks, NEW raised \in BOOLEAN, Disconnected(t, raised)
  PROVE  IInv'
<1> DEFINE d == [diag EXCEPT !.warning = @ \/ raised]
           restored == [d EXCEPT !.stage = task[t].stage]
<1>1. /\ task[t].link \in Links \ abandoned /\ client = NoLink
      /\ task[t].pc \in {"drop", "close"}
      /\ UNCHANGED <<waiters, session>>
  BY DEF Disconnected, IInv, Working
<1>2. holder = t
  BY DEF Disconnected, IInv, MutualExclusion
<1>3. up' \subseteq abandoned' /\ abandoned' \subseteq up' /\ up' \subseteq Links
  BY <1>1, <1>2 DEF Disconnected, IInv, TypeOK, NoOrphanLink
<1>4. d \in DiagType /\ d.requests = diag.requests /\ d.attempts = diag.attempts
      /\ d.result = diag.result
  <2>1. diag \in DiagType
    BY DEF IInv, TypeOK
  <2>2. (diag.warning \/ raised) \in BOOLEAN
    OBVIOUS
  <2> QED BY <2>1, <2>2 DEF DiagType
<1>5. restored \in DiagType /\ restored.requests = diag.requests
      /\ restored.attempts = diag.attempts /\ restored.result = diag.result
  <2>1. task[t].stage \in Stages
    BY DEF IInv, TypeOK, TaskType
  <2> HIDE DEF d
  <2> QED BY <1>4, <2>1 DEF DiagType
<1> HIDE DEF d, restored
<1>6. CASE t \in Closers /\ diag' = d /\ Return(t)
  <2>1. CompleteCycle'
    BY <1>4, <1>6 DEF IInv, CompleteCycle
  <2> QED
    BY <1>1, <1>2, <1>3, <1>4, <1>6, <2>1, ReturnInv DEF IInv, TypeOK, session
<1>7. CASE t \in Polls /\ task[t].err = "none" /\ diag' = Succeeded(d) /\ Return(t)
  <2>1. /\ diag.requests \in {LastCore - Skipped(t), Charger - Skipped(t)}
        /\ task[t].reused <=> diag.attempts = 0
    BY <1>1, <1>7 DEF IInv, Working
  <2>2. /\ diag'.requests = diag.requests /\ diag'.attempts = diag.attempts
    BY <1>4, <1>7 DEF Succeeded, DiagType
  <2>3. CompleteCycle'
    BY <2>1, <2>2, Numbers DEF CompleteCycle, Skipped
  <2> QED
    BY <1>1, <1>2, <1>3, <1>4, <1>7, <2>3, DiagSteps, ReturnInv
       DEF IInv, TypeOK, session
<1>8. CASE diag' = Failed(restored) /\ Return(t)
  <2>1. CompleteCycle'
    BY <1>5, <1>8 DEF Failed, DiagType, CompleteCycle
  <2> QED
    BY <1>1, <1>2, <1>3, <1>5, <1>8, <2>1, DiagSteps, ReturnInv
       DEF IInv, TypeOK, session
<1>9. CASE task[t].pc = "drop" /\ EndAttempt(t, task[t].err, restored)
  <2>1. t \in Polls
    BY <1>9 DEF IInv, ClosersClose, Tasks
  <2> QED BY <1>1, <1>2, <1>3, <1>5, <1>9, <2>1, EndAttemptInv
<1> QED
  BY <1>6, <1>7, <1>8, <1>9, Zenon DEF Disconnected, d, restored

LEMMA CancelInv ==
  ASSUME IInv, NEW t \in Tasks, Cancel(t)
  PROVE  IInv'
<1> USE DEF session, radio
<1>1. CASE /\ task[t].pc = "lock"
           /\ \E i \in DOMAIN waiters :
                waiters' = SubSeq(waiters, 1, i - 1)
                           \o SubSeq(waiters, i + 1, Len(waiters))
           /\ task' = [task EXCEPT ![t] = Rest]
           /\ UNCHANGED <<holder, diag, session, radio>>
  <2>1. waiters' \in Seq(Tasks)
    BY <1>1, QueueType DEF IInv
  <2>2. /\ task' \in [Tasks -> TaskType]
        /\ \A u \in Tasks : task'[u] = IF u = t THEN Rest ELSE task[u]
    BY <1>1, RestType DEF IInv, TypeOK
  <2>3. TypeOK'
    BY <1>1, <2>1, <2>2 DEF IInv, TypeOK
  <2>4. MutualExclusion' /\ ClosersClose'
    BY <1>1, <2>2 DEF IInv, MutualExclusion, ClosersClose, Rest, Tasks
  <2>5. ASSUME NEW u \in Tasks PROVE Parked(u)' /\ Working(u)'
    BY <1>1, <2>2 DEF IInv, Parked, Working, SessionSteps, Skipped, Rest
  <2>6. RetainedIsOwned' /\ RetainedSessionUsable' /\ CompleteCycle'
    BY <1>1 DEF IInv, RetainedIsOwned, RetainedSessionUsable, CompleteCycle
  <2>7. NoOrphanLink'
    BY <1>1, <2>2 DEF IInv, TypeOK, NoOrphanLink, MutualExclusion
  <2> QED BY <2>3, <2>4, <2>5, <2>6, <2>7 DEF IInv
<1>2. CASE /\ \/ task[t].pc \in {"connect", "sleep"}
              \/ task[t].pc \in SessionSteps /\ task[t].reused
           /\ Return(t)
           /\ UNCHANGED <<waiters, diag, session, radio>>
  <2>1. holder = t
    BY <1>2 DEF IInv, MutualExclusion, SessionSteps
  <2>2. up \ abandoned \subseteq {client}
    BY <1>2, <2>1 DEF IInv, TypeOK, NoOrphanLink, Working, SessionSteps
  <2>3. client # NoLink => ~mustClose
    BY <1>2 DEF IInv, Working, SessionSteps
  <2> QED
    BY <1>2, <2>1, <2>2, <2>3, ReturnInv
       DEF IInv, TypeOK, CompleteCycle, RetainedIsOwned
<1>3. CASE task[t].pc \in SessionSteps /\ Abort(t, "cancelled")
  BY <1>3, AbortInv
<1>4. CASE /\ task[t].pc \in {"drop", "close"}
           /\ Return(t)
           /\ abandoned' = abandoned \cup ({task[t].link} \cap up)
           /\ UNCHANGED <<waiters, diag, session, up>>
  <2>1. holder = t /\ client = NoLink
    BY <1>4 DEF IInv, MutualExclusion, Working
  <2>2. up \ abandoned' = {}
    BY <1>4, <2>1 DEF IInv, TypeOK, NoOrphanLink
  <2> QED
    BY <1>4, <2>1, <2>2, ReturnInv DEF IInv, TypeOK, CompleteCycle
<1> QED
  BY <1>1, <1>2, <1>3, <1>4 DEF Cancel

LEMMA LinkDropsInv ==
  ASSUME IInv, NEW l \in Links, LinkDrops(l)
  PROVE  IInv'
<1> USE DEF LinkDrops, session
<1>1. TypeOK'
  BY DEF IInv, TypeOK
<1>2. MutualExclusion' /\ ClosersClose' /\ CompleteCycle'
  BY DEF IInv, MutualExclusion, ClosersClose, CompleteCycle
<1>3. ASSUME NEW u \in Tasks PROVE Parked(u)' /\ Working(u)'
  BY DEF IInv, Parked, Working, Skipped
<1>4. RetainedIsOwned' /\ RetainedSessionUsable' /\ NoOrphanLink'
  BY DEF IInv, RetainedIsOwned, RetainedSessionUsable, NoOrphanLink
<1> QED BY <1>1, <1>2, <1>3, <1>4 DEF IInv

\* A step that changes at most the charger's pause.
LEMMA QuietInv ==
  ASSUME IInv, chargerPaused' \in BOOLEAN,
         UNCHANGED <<task, holder, waiters, client, mustClose, diag, radio>>
  PROVE  IInv'
<1> USE DEF radio
<1>1. TypeOK'
  BY DEF IInv, TypeOK
<1>2. MutualExclusion' /\ ClosersClose' /\ CompleteCycle'
  BY DEF IInv, MutualExclusion, ClosersClose, CompleteCycle
<1>3. ASSUME NEW u \in Tasks PROVE Parked(u)' /\ Working(u)'
  BY DEF IInv, Parked, Working, Skipped
<1>4. RetainedIsOwned' /\ RetainedSessionUsable' /\ NoOrphanLink'
  BY DEF IInv, RetainedIsOwned, RetainedSessionUsable, NoOrphanLink
<1> QED BY <1>1, <1>2, <1>3, <1>4 DEF IInv

LEMMA NextInv == IInv /\ [Next]_vars => IInv'
<1> SUFFICES ASSUME IInv, [Next]_vars PROVE IInv'
  OBVIOUS
<1>1. ASSUME NEW t \in Tasks, Progress(t) PROVE IInv'
  BY <1>1, BeginReuseInv, BeginConnectInv, BeginCloseInv, ConnectedInv, RetryInv,
     NotifyStartedInv, SeedReadInv, WrittenInv, AnsweredInv, DisconnectedInv
     DEF Progress
<1>2. ASSUME NEW t \in Tasks, Failure(t) PROVE IInv'
  BY <1>2, BeginUnavailableInv, ConnectFailsInv, DisconnectedInv,
     ConnectedUnusableInv, ChargerFailsInv, StepRaisesInv
     DEF Failure
<1>3. CASE RetryDelayElapses
  BY <1>3, QuietInv DEF RetryDelayElapses
<1>4. CASE UNCHANGED vars
  BY <1>4, QuietInv DEF vars, radio, IInv, TypeOK
<1> QED
  BY <1>1, <1>2, <1>3, <1>4, CallInv, CancelInv, LinkDropsInv DEF Next, Step

-----------------------------------------------------------------------------
\* What follows for every behaviour of the client

\* IInv is an invariant: the lock, the connection in hand, the retained session
\* and the request count agree at every await of every call.
THEOREM Invariance == Spec => []IInv
<1>1. Init => IInv
  BY InitInv
<1>2. IInv /\ [Next]_vars => IInv'
  BY NextInv
<1> QED BY <1>1, <1>2, PTL DEF Spec

\* The fields of the client keep their types; no poll connects a third time and
\* none counts more requests than its cycle has.
THEOREM TypeCorrect == Spec => []TypeOK
<1>1. IInv => TypeOK
  BY DEF IInv
<1> QED BY <1>1, Invariance, PTL

\* One call at a time is past the lock, across all its awaits.
THEOREM CallsExclude == Spec => []MutualExclusion
<1>1. IInv => MutualExclusion
  BY DEF IInv
<1> QED BY <1>1, Invariance, PTL

\* No path through a poll, its error handlers, its cancellation or a close
\* forgets an open connection.
THEOREM NoLinkForgotten == Spec => []NoOrphanLink
<1>1. IInv => NoOrphanLink
  BY DEF IInv
<1> QED BY <1>1, Invariance, PTL

\* The integration never holds two connections to the eManager.
THEOREM OneSession == Spec => []SingleSession
<1>1. IInv => SingleSession
  <2> SUFFICES ASSUME IInv, NEW k \in up \ abandoned, NEW l \in up \ abandoned
               PROVE  k = l
    BY DEF SingleSession
  <2>1. CASE holder = NoTask
    BY <2>1, FreeLock
  <2>2. CASE holder # NoTask
    <3>1. holder \in Tasks /\ task[holder].pc \notin {"idle", "lock"}
      BY <2>2 DEF IInv, TypeOK, MutualExclusion
    <3>2. task[holder].pc \in {"connect", "sleep", "drop", "close"} \cup SessionSteps
      BY <3>1 DEF IInv, TypeOK, TaskType, Steps
    <3>3. client = NoLink \/ client = task[holder].link
      BY <3>1, <3>2 DEF IInv, Working
    <3>4. k # NoLink /\ l # NoLink
      BY DEF IInv, TypeOK
    <3> QED BY <3>3, <3>4 DEF IInv, NoOrphanLink
  <2> QED BY <2>1, <2>2
<1> QED BY <1>1, Invariance, PTL

\* No later poll inherits a session on which a charger answer may still arrive.
THEOREM RetainedUsable == Spec => []RetainedSessionUsable
<1>1. IInv => RetainedSessionUsable
  BY DEF IInv
<1> QED BY <1>1, Invariance, PTL

\* The delayed reconnect starts from nothing.
THEOREM RetryClean == Spec => []RetryIsClean
<1>1. IInv => RetryIsClean
  <2> SUFFICES ASSUME IInv, NEW t \in Tasks, task[t].pc = "sleep"
               PROVE  /\ diag.requests = 0
                      /\ diag.attempts = 1
                      /\ client = NoLink
                      /\ up \subseteq abandoned
    BY DEF RetryIsClean
  <2>1. /\ diag.requests = 0 /\ diag.attempts = 1 /\ client = NoLink
        /\ task[t].link = NoLink /\ holder = t
    BY DEF IInv, Working, MutualExclusion
  <2> QED BY <2>1 DEF IInv, TypeOK, NoOrphanLink
<1> QED BY <1>1, Invariance, PTL

\* A success was counted with every core request made exactly once.
THEOREM CyclesComplete == Spec => []CompleteCycle
<1>1. IInv => CompleteCycle
  BY DEF IInv
<1> QED BY <1>1, Invariance, PTL

-----------------------------------------------------------------------------
\* What a close leaves behind

\* A step of a call touches no other call.
LEMMA OwnTaskOnly ==
  ASSUME TypeOK, NEW t \in Tasks, NEW u \in Tasks \ {t},
         Call(t) \/ Step(t) \/ Cancel(t)
  PROVE  task'[u] = task[u]
<1>1. SUFFICES ASSUME NEW r, task' = [task EXCEPT ![t] = r] \/ task' = task
               PROVE  task'[u] = task[u]
  BY DEF Call, Step, Progress, Failure, Cancel, BeginReuse, BeginConnect,
     BeginUnavailable, BeginClose, Connected, ConnectedUnusable, ConnectFails,
     Retry, NotifyStarted, SeedRead, Written, Answered, ChargerFails, StepRaises,
     Disconnected, Abort, FinishRead, Send, EndAttempt, Continue, Return
<1> QED BY <1>1 DEF TypeOK

\* When a close returns, nothing is retained and every connection still open is
\* one whose disconnect failed.
THEOREM CloseLeavesNothing == Spec => CloseReleases
<1> DEFINE Released(c) == client' = NoLink /\ up' \subseteq abandoned'
<1>1. ASSUME IInv, [Next]_vars, NEW c \in Closers,
             task[c].pc # "idle", task'[c].pc = "idle"
      PROVE  Released(c)
  <2>1. IInv'
    BY <1>1, NextInv
  <2>2. c \in Tasks /\ c \notin Polls /\ task[c].pc \in {"lock", "close"}
    BY <1>1, TaskAssumption DEF IInv, ClosersClose, Tasks
  <2>3. task'[c] # task[c]
    BY <1>1
  <2>4. Call(c) \/ Step(c) \/ Cancel(c)
    BY <1>1, <2>2, <2>3, OwnTaskOnly
       DEF IInv, Next, vars, LinkDrops, RetryDelayElapses
  <2>5. client' = NoLink /\ holder' = NoTask
    <3>1. CASE BeginClose(c)
      <4>1. task' # [task EXCEPT ![c] = [Rest EXCEPT !.pc = "close", !.link = client]]
        BY <1>1, <2>2 DEF IInv, TypeOK, Rest
      <4> QED BY <3>1, <4>1 DEF BeginClose, Return
    <3>2. CASE \E raised \in BOOLEAN : Disconnected(c, raised)
      BY <2>2, <3>2, <1>1
         DEF Disconnected, Return, EndAttempt, IInv, Working, session
    <3> QED
      BY <1>1, <2>2, <2>4, <3>1, <3>2
         DEF Call, Step, Progress, Failure, Cancel, BeginReuse, BeginConnect,
         BeginUnavailable, Connected, ConnectedUnusable, ConnectFails, Retry,
         NotifyStarted, SeedRead, Written, Answered, ChargerFails, StepRaises,
         SessionSteps
  <2>6. up' \ abandoned' \subseteq {client'}
    BY <2>1, <2>5 DEF IInv, NoOrphanLink
  <2> QED BY <2>1, <2>5, <2>6 DEF IInv, TypeOK
<1>2. IInv /\ [Next]_vars =>
        [\A c \in Closers : task[c].pc # "idle" /\ task'[c].pc = "idle"
           => client' = NoLink /\ up' \subseteq abandoned']_vars
  BY <1>1
<1> QED BY <1>2, Invariance, PTL DEF Spec, CloseReleases

-----------------------------------------------------------------------------
\* Where a failure is reported

\* A stage that a failure after n requests may name.
Names(n, stage) ==
  IF n > 0 THEN stage \in RequestStages
           ELSE stage \in ConnectStages \cup {"resolve_route", "session_seed"}

\* What a call at each await would report, and with which error it cleans up.
Trace(t) ==
  /\ task[t].pc \in {"connect", "sleep"} \cup SessionSteps => task[t].err = "none"
  /\ task[t].pc = "close" => task[t].err # "cancelled"
  /\ task[t].pc \in {"connect"} \cup SessionSteps => Names(diag.requests, diag.stage)
  /\ task[t].pc \in {"drop", "close"} /\ task[t].err # "none" =>
       Names(diag.requests, task[t].stage)

Traced == \A t \in Tasks : Trace(t)

\* A call at rest has nothing to report.
LEMMA RestTrace ==
  ASSUME NEW t \in Tasks, task'[t].pc \in {"idle", "lock"}
  PROVE  Trace(t)'
BY DEF Trace, SessionSteps

\* The calls that a step of t leaves alone.
LEMMA OthersTrace ==
  ASSUME IInv, Traced, NEW t \in Tasks, NEW u \in Tasks \ {t},
         Call(t) \/ Step(t) \/ Cancel(t)
  PROVE  Trace(u)'
<1>1. task'[u] = task[u]
  BY OwnTaskOnly DEF IInv
<1>2. CASE diag' = diag
  BY <1>1, <1>2 DEF Traced, Trace
<1>3. CASE diag' # diag
  <2>1. holder \in {t, NoTask}
    <3>1. CASE Granted(t)
      BY <3>1 DEF Granted
    <3>2. CASE task[t].pc \notin {"idle", "lock"}
      BY <3>2 DEF IInv, MutualExclusion
    <3> QED
      BY <1>3, <3>1, <3>2
         DEF Call, Step, Progress, Failure, Cancel, BeginReuse, BeginConnect,
             BeginUnavailable, BeginClose, Connected, ConnectedUnusable,
             ConnectFails, Retry, NotifyStarted, SeedRead, Written, Answered,
             ChargerFails, StepRaises, Disconnected, SessionSteps, Acquire
  <2>2. task[u].pc \in {"idle", "lock"}
    BY <2>1 DEF IInv, MutualExclusion
  <2> QED
    BY <1>1, <2>2, RestTrace
<1> QED
  BY <1>2, <1>3

\* The fields that a step of a call sets.
LEMMA RecordSteps ==
  /\ \A r \in TaskType : \A p : /\ [r EXCEPT !.pc = p].pc = p
                                /\ [r EXCEPT !.pc = p].err = r.err
                                /\ [r EXCEPT !.pc = p].stage = r.stage
  /\ \A d \in DiagType : /\ Succeeded(d).result = "success"
                         /\ Failed(d).stage = d.stage
                         /\ Failed(d).requests = d.requests
  /\ \A s : /\ Begun(s).result = "running"
            /\ Begun(s).stage = s /\ Begun(s).requests = 0
BY DEF TaskType, DiagType, Succeeded, Failed, Begun

LEMMA OwnRecord ==
  ASSUME IInv, NEW t \in Tasks, NEW r, task' = [task EXCEPT ![t] = r]
  PROVE  task'[t] = r
BY DEF IInv, TypeOK

LEMMA Returned ==
  ASSUME IInv, NEW t \in Tasks, Return(t) \/ task' = [task EXCEPT ![t] = Rest]
  PROVE  task'[t].pc = "idle"
<1>1. task'[t] = Rest
  BY OwnRecord DEF Return
<1> QED
  BY <1>1 DEF Rest

\* A failure that is recorded by this step names its stage.
Reported == FailureRecorded => Names(diag'.requests, diag'.stage)

\* No failure is recorded between diag and d.
SameRecord(d) == d.result = diag.result /\ d.failures = diag.failures

LEMMA Unreported ==
  ASSUME SameRecord(diag') \/ diag'.result \in {"running", "success"}
  PROVE  Reported
BY DEF Reported, FailureRecorded, SameRecord

LEMMA BeginTrace ==
  ASSUME IInv, NEW t \in Tasks,
         BeginReuse(t) \/ BeginConnect(t) \/ BeginUnavailable(t) \/ BeginClose(t)
  PROVE  Trace(t)' /\ Reported
<1> USE DEF Acquire, Return, Names, ConnectStages, RequestStages
<1>1. CASE BeginReuse(t)
  <2>1. PICK r : task' = [task EXCEPT ![t] = r] /\ r.pc = "write" /\ r.err = "none"
    <3> DEFINE r == [Rest EXCEPT !.pc = "write", !.link = client, !.reused = TRUE,
                                 !.read = Discovery + 1]
    <3>1. r.pc = "write" /\ r.err = "none"
      BY DEF Rest
    <3>2. task' = [task EXCEPT ![t] = r]
      BY <1>1 DEF BeginReuse
    <3> HIDE DEF r
    <3> QED
      BY <3>1, <3>2
  <2>2. task'[t] = r
    BY <2>1, OwnRecord
  <2>3. PICK b \in DiagType : b = Begun("core_read")
    BY DiagSteps DEF IInv, TypeOK, Stages, RequestStages
  <2>4. b.stage = "core_read" /\ b.requests = 0 /\ b.result = "running"
    BY <2>3, RecordSteps
  <2>5. diag' = [b EXCEPT !.requests = @ + 1]
    BY <1>1, <2>3 DEF BeginReuse
  <2>6. diag'.stage = "core_read" /\ diag'.requests = 1 /\ diag'.result = "running"
    BY <2>4, <2>5 DEF DiagType
  <2> QED
    BY <2>1, <2>2, <2>6, Unreported DEF Trace, SessionSteps
<1>2. CASE BeginConnect(t)
  <2>1. PICK r : task' = [task EXCEPT ![t] = r] /\ r.pc = "connect" /\ r.err = "none"
    <3> DEFINE r == [Rest EXCEPT !.pc = "connect"]
    <3>1. r.pc = "connect" /\ r.err = "none"
      BY DEF Rest
    <3>2. task' = [task EXCEPT ![t] = r]
      BY <1>2 DEF BeginConnect
    <3> HIDE DEF r
    <3> QED
      BY <3>1, <3>2
  <2>2. task'[t] = r
    BY <2>1, OwnRecord
  <2>3. PICK b \in DiagType : b = Begun("connect")
    BY DiagSteps DEF IInv, TypeOK, Stages
  <2>4. b.stage = "connect" /\ b.requests = 0 /\ b.result = "running"
    BY <2>3, RecordSteps
  <2>5. diag' = [b EXCEPT !.attempts = 1]
    BY <1>2, <2>3 DEF BeginConnect
  <2>6. diag'.stage = "connect" /\ diag'.requests = 0 /\ diag'.result = "running"
    BY <2>4, <2>5 DEF DiagType
  <2> QED
    BY <2>1, <2>2, <2>6, Unreported DEF Trace, SessionSteps
<1>3. CASE BeginUnavailable(t)
  <2>1. task'[t] = Rest
    BY <1>3, OwnRecord DEF BeginUnavailable
  <2>2. PICK b \in DiagType : b = Begun("resolve_route")
    BY DiagSteps DEF IInv, TypeOK, Stages
  <2>3. diag' = Failed(b) /\ b.stage = "resolve_route" /\ b.requests = 0
    BY <1>3, <2>2, RecordSteps DEF BeginUnavailable
  <2>4. diag'.stage = "resolve_route" /\ diag'.requests = 0
    BY <2>3, RecordSteps
  <2> QED
    BY <2>1, <2>4, RestTrace DEF Rest, Reported
<1>4. CASE BeginClose(t)
  <2>1. PICK r : task' = [task EXCEPT ![t] = r] /\ r.pc \in {"idle", "close"}
                 /\ r.err = "none"
    <3>1. Rest.pc = "idle" /\ Rest.err = "none"
      BY DEF Rest
    <3>2. [Rest EXCEPT !.pc = "close", !.link = client].pc = "close"
          /\ [Rest EXCEPT !.pc = "close", !.link = client].err = "none"
      BY DEF Rest
    <3> QED
      BY <1>4, <3>1, <3>2 DEF BeginClose
  <2>2. task'[t] = r
    BY <2>1, OwnRecord
  <2>3. SameRecord(diag')
    BY <1>4 DEF BeginClose, IInv, TypeOK, DiagType, SameRecord
  <2> QED
    BY <2>1, <2>2, <2>3, Unreported DEF Trace, SessionSteps
<1> QED
  BY <1>1, <1>2, <1>3, <1>4

\* The end of an attempt, with the diagnostics d that report it.
LEMMA EndAttemptTrace ==
  ASSUME IInv, NEW t \in Tasks, NEW err, NEW d \in DiagType,
         EndAttempt(t, err, d), SameRecord(d),
         err # "cancelled" => Names(d.requests, d.stage)
  PROVE  Trace(t)' /\ Reported
<1>1. CASE task' = [task EXCEPT ![t] = [Rest EXCEPT !.pc = "sleep"]] /\ diag' = d
  <2> DEFINE r == [Rest EXCEPT !.pc = "sleep"]
  <2>1. r.pc = "sleep" /\ r.err = "none"
    BY DEF Rest
  <2>2. task'[t] = r
    BY <1>1, OwnRecord
  <2> HIDE DEF r
  <2> QED
    BY <1>1, <2>1, <2>2, Unreported DEF Trace, SessionSteps
<1>2. CASE diag' = Failed(d) /\ Return(t) /\ err # "cancelled"
  <2>1. task'[t].pc = "idle"
    BY <1>2, Returned
  <2> QED
    BY <1>2, <2>1, RestTrace, RecordSteps DEF Reported
<1>3. CASE diag' = d /\ Return(t)
  <2>1. task'[t].pc = "idle"
    BY <1>3, Returned
  <2> QED
    BY <1>3, <2>1, RestTrace, Unreported
<1> QED
  BY <1>1, <1>2, <1>3 DEF EndAttempt

LEMMA OpenTrace ==
  ASSUME IInv, Traced, NEW t \in Tasks,
         \/ Connected(t) \/ ConnectFails(t) \/ Retry(t) \/ NotifyStarted(t)
         \/ \E err \in Errors : ConnectedUnusable(t, err)
  PROVE  Trace(t)' /\ Reported
<1> USE DEF Continue, Names, ConnectStages, RequestStages
<1>1. /\ task[t] \in TaskType /\ diag \in DiagType
      /\ task[t].pc \notin {"idle", "lock"} => Working(t) /\ Trace(t)
  BY DEF IInv, TypeOK, Traced
<1>2. CASE Connected(t)
  <2>1. PICK l \in Links : task' = [task EXCEPT ![t] = [task[t] EXCEPT !.pc = "notify",
                                                                     !.link = l]]
    BY <1>2 DEF Connected
  <2>2. task'[t].pc = "notify" /\ task'[t].err = task[t].err
    <3>1. task'[t] = [task[t] EXCEPT !.pc = "notify", !.link = l]
      BY <2>1, OwnRecord
    <3> QED
      BY <1>1, <3>1 DEF TaskType
  <2>3. task[t].err = "none" /\ diag.requests = 0
    BY <1>1, <1>2 DEF Connected, Trace, Working
  <2>4. diag'.stage = "notify_setup" /\ diag'.requests = 0 /\ SameRecord(diag')
    BY <1>1, <1>2, <2>3 DEF Connected, DiagType, SameRecord
  <2> QED
    BY <2>2, <2>3, <2>4, Unreported DEF Trace
<1>3. CASE ConnectFails(t)
  <2>1. /\ EndAttempt(t, "other", diag) /\ Names(diag.requests, diag.stage)
        /\ SameRecord(diag)
    BY <1>1, <1>3 DEF ConnectFails, Trace, SameRecord
  <2> QED
    BY <1>1, <2>1, EndAttemptTrace
<1>4. CASE Retry(t)
  <2>1. task'[t] = [task[t] EXCEPT !.pc = "connect"]
    BY <1>4, OwnRecord DEF Retry
  <2>2. task'[t].pc = "connect" /\ task'[t].err = task[t].err
    BY <1>1, <2>1, RecordSteps
  <2>3. task[t].err = "none" /\ diag.requests = 0
    BY <1>1, <1>4 DEF Retry, Trace, Working
  <2>4. diag'.stage = "connect" /\ diag'.requests = 0 /\ SameRecord(diag')
    BY <1>1, <1>4, <2>3 DEF Retry, DiagType, SameRecord
  <2> QED
    BY <2>2, <2>3, <2>4, Unreported DEF Trace
<1>5. CASE NotifyStarted(t)
  <2>1. task'[t] = [task[t] EXCEPT !.pc = "seed"]
    BY <1>5, OwnRecord DEF NotifyStarted
  <2>2. task'[t].pc = "seed" /\ task'[t].err = task[t].err
    BY <1>1, <2>1, RecordSteps
  <2>3. task[t].err = "none" /\ diag.requests = 0
    BY <1>1, <1>5 DEF NotifyStarted, Trace, Working, SessionSteps
  <2>4. /\ diag'.stage = "session_seed" /\ diag'.requests = 0
        /\ SameRecord(diag')
    BY <1>1, <1>5, <2>3 DEF NotifyStarted, DiagType, SameRecord
  <2> QED
    BY <2>2, <2>3, <2>4, Unreported DEF Trace
<1>6. ASSUME NEW err \in Errors, ConnectedUnusable(t, err)
      PROVE  Trace(t)' /\ Reported
  <2>1. PICK l \in Links :
          task' = [task EXCEPT ![t] = [task[t] EXCEPT !.pc = "drop", !.link = l,
                                         !.err = err,
                                         !.stage = "gatt_service_discovery"]]
    BY <1>6 DEF ConnectedUnusable
  <2>2. task'[t].pc = "drop" /\ task'[t].stage = "gatt_service_discovery"
    <3>1. task'[t] = [task[t] EXCEPT !.pc = "drop", !.link = l, !.err = err,
                                     !.stage = "gatt_service_discovery"]
      BY <2>1, OwnRecord
    <3> QED
      BY <1>1, <3>1 DEF TaskType
  <2>3. diag.requests = 0
    BY <1>1, <1>6 DEF ConnectedUnusable, Working
  <2>4. diag'.requests = 0 /\ SameRecord(diag')
    BY <1>1, <1>6, <2>3 DEF ConnectedUnusable, DiagType, SameRecord
  <2> QED
    BY <2>2, <2>4, Unreported DEF Trace, SessionSteps
<1> QED
  BY <1>2, <1>3, <1>4, <1>5, <1>6

\* A request goes out: the cycle has one more and is at that request.
LEMMA SendTrace ==
  ASSUME IInv, NEW t \in Tasks, NEW r \in 1 .. Charger, Send(t, r), task[t].err = "none"
  PROVE  Trace(t)' /\ Reported
<1>1. task[t] \in TaskType /\ diag \in DiagType
  BY DEF IInv, TypeOK
<1>2. task'[t] = [task[t] EXCEPT !.pc = "write", !.read = r]
  BY OwnRecord DEF Send, Continue
<1>3. task'[t].pc = "write" /\ task'[t].err = "none"
  BY <1>1, <1>2 DEF TaskType
<1>4. RequestStage(r) \in RequestStages
  BY DEF RequestStage, RequestStages
<1>5. diag'.requests = diag.requests + 1 /\ diag.requests \in Nat
      /\ diag'.stage = RequestStage(r) /\ SameRecord(diag')
  BY <1>1, Numbers DEF Send, DiagType, SameRecord
<1> QED
  BY <1>3, <1>4, <1>5, Unreported DEF Trace, Names

LEMMA FinishReadTrace ==
  ASSUME IInv, NEW t \in Tasks, NEW closing \in BOOLEAN, FinishRead(t, closing),
         task[t].err = "none"
  PROVE  Trace(t)' /\ Reported
<1>1. task[t] \in TaskType /\ diag \in DiagType
  BY DEF IInv, TypeOK
<1>2. SameRecord(diag') \/ diag'.result = "success"
  BY <1>1, RecordSteps DEF FinishRead, DiagType, SameRecord
<1>3. task'[t].pc = "idle" \/ (task'[t].pc \in {"close", "drop"} /\ task'[t].err = "none")
  <2>1. task'[t] = Rest \/ \E p \in {"close", "drop"} : task'[t] = [task[t] EXCEPT !.pc = p]
    BY <1>1 DEF IInv, TypeOK, FinishRead, Return
  <2>2. Rest.pc = "idle"
    BY DEF Rest
  <2>3. ASSUME NEW p \in {"close", "drop"}, task'[t] = [task[t] EXCEPT !.pc = p]
        PROVE  task'[t].pc = p /\ task'[t].err = "none"
    BY <1>1, <2>3, RecordSteps
  <2> QED
    BY <2>1, <2>2, <2>3
<1> QED
  BY <1>2, <1>3, Unreported DEF Trace, SessionSteps

LEMMA ReadTrace ==
  ASSUME IInv, Traced, NEW t \in Tasks,
         \/ SeedRead(t) \/ Written(t) \/ Answered(t)
         \/ \E err \in Errors : ChargerFails(t, err)
  PROVE  Trace(t)' /\ Reported
<1>1. /\ task[t] \in TaskType /\ diag \in DiagType /\ mustClose \in BOOLEAN
      /\ task[t].err = "none"
  BY DEF IInv, TypeOK, Traced, Trace, SeedRead, Written, Answered, ChargerFails,
         SessionSteps
<1>2. CASE SeedRead(t)
  <2>1. Send(t, Sinfo) /\ Sinfo \in 1 .. Charger
    BY <1>2, Numbers DEF SeedRead
  <2> QED
    BY <2>1, <1>1, SendTrace
<1>3. CASE Written(t)
  <2>1. task'[t] = [task[t] EXCEPT !.pc = "respond"] /\ diag' = diag
    BY <1>3, OwnRecord DEF Written, Continue
  <2>2. task'[t].pc = "respond" /\ task'[t].err = "none"
    BY <1>1, <2>1, RecordSteps
  <2>3. Names(diag.requests, diag.stage)
    BY <1>3 DEF Written, Traced, Trace, SessionSteps
  <2> QED
    BY <2>1, <2>2, <2>3, Unreported DEF Trace, SameRecord
<1>4. CASE Answered(t)
  <2>1. CASE /\ task[t].read < LastCore \/ (task[t].read = LastCore /\ ~chargerPaused)
             /\ Send(t, task[t].read + 1)
    <3>1. task[t].read \in 0 .. Charger
      BY <1>1 DEF TaskType
    <3>2. task[t].read + 1 \in 1 .. Charger
      BY <2>1, <3>1, Numbers
    <3> QED
      BY <2>1, <3>2, <1>1, SendTrace
  <2>2. CASE FinishRead(t, mustClose)
    BY <2>2, <1>1, FinishReadTrace
  <2> QED
    BY <1>4, <2>1, <2>2 DEF Answered
<1>5. ASSUME NEW err \in Errors, ChargerFails(t, err)
      PROVE  Trace(t)' /\ Reported
  <2>1. PICK closing \in BOOLEAN : closing = (mustClose \/ err = "connection")
    OBVIOUS
  <2>2. FinishRead(t, closing)
    BY <1>1, <1>5, <2>1 DEF ChargerFails
  <2> QED
    BY <2>2, <1>1, FinishReadTrace
<1> QED
  BY <1>2, <1>3, <1>4, <1>5

\* An abandoned read keeps the stage it was at.
LEMMA AbortTrace ==
  ASSUME IInv, Traced, NEW t \in Tasks, NEW err, Abort(t, err),
         task[t].pc \in SessionSteps, task[t].reused => err # "cancelled"
  PROVE  Trace(t)' /\ Reported
<1>1. task[t] \in TaskType /\ diag \in DiagType /\ Names(diag.requests, diag.stage)
  BY DEF IInv, TypeOK, Traced, Trace
<1>2. PICK p : p = IF task[t].reused THEN "close" ELSE "drop"
  OBVIOUS
<1>3. task'[t] = [task[t] EXCEPT !.pc = p, !.err = err, !.stage = diag.stage]
  BY <1>2, OwnRecord DEF Abort, Continue, FailingStage
<1>4. task'[t].pc = p /\ task'[t].err = err /\ task'[t].stage = diag.stage
  BY <1>1, <1>3 DEF TaskType
<1>5. diag'.requests = diag.requests /\ SameRecord(diag')
  BY <1>1 DEF Abort, DiagType, SameRecord
<1> QED
  BY <1>1, <1>2, <1>4, <1>5, Unreported DEF Trace, SessionSteps

LEMMA DisconnectedTrace ==
  ASSUME IInv, Traced, NEW t \in Tasks, NEW raised \in BOOLEAN, Disconnected(t, raised)
  PROVE  Trace(t)' /\ Reported
<1> DEFINE d == [diag EXCEPT !.warning = @ \/ raised]
           restored == [d EXCEPT !.stage = task[t].stage]
<1>1. task[t] \in TaskType /\ diag \in DiagType /\ task[t].pc \in {"drop", "close"}
  BY DEF IInv, TypeOK, Disconnected
<1>2. d \in DiagType /\ SameRecord(d) /\ d.requests = diag.requests
  BY <1>1 DEF DiagType, SameRecord
<1>3. restored \in DiagType /\ SameRecord(restored)
      /\ restored.requests = diag.requests /\ restored.stage = task[t].stage
  <2> HIDE DEF d
  <2>1. task[t].stage \in Stages
    BY <1>1 DEF TaskType
  <2> QED
    BY <1>2, <2>1 DEF DiagType, SameRecord
<1>4. task[t].err # "none" => Names(restored.requests, restored.stage)
  BY <1>1, <1>3 DEF Traced, Trace
<1> HIDE DEF d, restored
<1>5. CASE diag' \in {d, Succeeded(d)} /\ Return(t)
  <2>1. task'[t].pc = "idle"
    BY <1>5, Returned
  <2>2. SameRecord(diag') \/ diag'.result = "success"
    BY <1>2, <1>5, RecordSteps
  <2> QED
    BY <2>1, <2>2, RestTrace, Unreported
<1>6. CASE diag' = Failed(restored) /\ Return(t) /\ task[t].err # "none"
  <2>1. task'[t].pc = "idle"
    BY <1>6, Returned
  <2> QED
    BY <1>3, <1>4, <1>6, <2>1, RestTrace, RecordSteps DEF Reported
<1>7. CASE task[t].err # "none" /\ EndAttempt(t, task[t].err, restored)
  BY <1>3, <1>4, <1>7, EndAttemptTrace
<1> QED
  BY <1>5, <1>6, <1>7, Zenon DEF Disconnected, d, restored

LEMMA CancelTrace ==
  ASSUME IInv, Traced, NEW t \in Tasks, Cancel(t)
  PROVE  Trace(t)' /\ Reported
<1>1. CASE (task' = [task EXCEPT ![t] = Rest] \/ Return(t)) /\ diag' = diag
  <2>1. task'[t].pc = "idle"
    BY <1>1, Returned
  <2> QED
    BY <1>1, <2>1, RestTrace, Unreported DEF SameRecord
<1>2. CASE task[t].pc \in SessionSteps /\ ~task[t].reused /\ Abort(t, "cancelled")
  BY <1>2, AbortTrace
<1> QED
  BY <1>1, <1>2 DEF Cancel

LEMMA CallTrace ==
  ASSUME IInv, NEW t \in Tasks, Call(t)
  PROVE  Trace(t)' /\ Reported
<1>1. task' = [task EXCEPT ![t] = [task[t] EXCEPT !.pc = "lock"]]
  BY DEF Call
<1>2. task'[t] = [task[t] EXCEPT !.pc = "lock"]
  BY <1>1, OwnRecord
<1>3. task[t] \in TaskType
  BY DEF IInv, TypeOK
<1>4. task'[t].pc = "lock"
  BY <1>2, <1>3, RecordSteps
<1> QED
  BY <1>4, RestTrace, Unreported DEF Call, SameRecord

LEMMA NextTrace == IInv /\ Traced /\ [Next]_vars => Traced' /\ Reported
<1> SUFFICES ASSUME IInv, Traced, [Next]_vars PROVE Traced' /\ Reported
  OBVIOUS
<1>1. ASSUME NEW t \in Tasks, Call(t) \/ Step(t) \/ Cancel(t)
      PROVE  Traced' /\ Reported
  <2>1. ASSUME Step(t) PROVE Trace(t)' /\ Reported
    <3>1. ASSUME NEW err \in Errors, StepRaises(t, err)
          PROVE  Trace(t)' /\ Reported
      <4>1. Abort(t, err) /\ task[t].pc \in SessionSteps /\ err # "cancelled"
        BY <3>1 DEF StepRaises, Errors
      <4> QED
        BY <4>1, AbortTrace
    <3>2. CASE BeginReuse(t) \/ BeginConnect(t) \/ BeginUnavailable(t) \/ BeginClose(t)
      BY <3>2, BeginTrace
    <3>3. CASE \/ Connected(t) \/ ConnectFails(t) \/ Retry(t) \/ NotifyStarted(t)
               \/ \E err \in Errors : ConnectedUnusable(t, err)
      BY <3>3, OpenTrace
    <3>4. CASE \/ SeedRead(t) \/ Written(t) \/ Answered(t)
               \/ \E err \in Errors : ChargerFails(t, err)
      BY <3>4, ReadTrace
    <3>5. CASE Disconnected(t, TRUE) \/ Disconnected(t, FALSE)
      BY <3>5, DisconnectedTrace
    <3> QED
      BY <2>1, <3>1, <3>2, <3>3, <3>4, <3>5 DEF Step, Progress, Failure
  <2>2. Trace(t)' /\ Reported
    BY <1>1, <2>1, CallTrace, CancelTrace
  <2> QED
    BY <1>1, <2>2, OthersTrace DEF Traced
<1>2. CASE (\E l \in Links : LinkDrops(l)) \/ RetryDelayElapses \/ UNCHANGED vars
  <2>1. task' = task /\ diag' = diag
    BY <1>2 DEF LinkDrops, RetryDelayElapses, vars
  <2> QED
    BY <2>1, Unreported DEF Traced, Trace, SameRecord
<1> QED
  BY <1>1, <1>2 DEF Next

LEMMA InitTrace == Init => Traced
  BY DEF Init, Traced, Trace, Rest, SessionSteps

\* A cleanup never hides where a poll failed: with requests counted the diagnostics
\* name a request, without any an earlier stage (local_client.py:134-141, 238-251).
THEOREM FailuresNameTheirStage == Spec => FailureNamesItsStage
<1>1. IInv /\ Traced /\ [Next]_vars => (IInv /\ Traced)'
  BY NextInv, NextTrace
<1>2. IInv /\ Traced /\ [Next]_vars =>
        [FailureRecorded =>
           IF diag'.requests > 0
             THEN diag'.stage \in RequestStages
             ELSE diag'.stage \in ConnectStages \cup {"resolve_route", "session_seed"}
        ]_vars
  BY NextTrace DEF Reported, Names
<1> QED
  BY <1>1, <1>2, InitInv, InitTrace, PTL DEF Spec, FailureNamesItsStage
=============================================================================
