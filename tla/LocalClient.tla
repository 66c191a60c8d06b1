------------------------------ MODULE LocalClient ------------------------------
(***************************************************************************)
(* SajLocalClient of custom_components/saj_hs3/local_client.py: one object *)
(* per config entry that serialises every poll behind an asyncio.Lock,     *)
(* keeps one BLE/GATT/BSaj session between polls, reconnects once when a   *)
(* first attempt failed early, and closes the session on unload.           *)
(*                                                                         *)
(* A poll is a call of async_read_confirmed_fields, a closer a call of     *)
(* async_close.  One step of a task is the code between two awaits; the    *)
(* outcome of the await is the choice between actions.  Frames, encryption *)
(* and the answers' contents are left to module SajSession.                *)
(***************************************************************************)
EXTENDS Naturals, Sequences

CONSTANTS
  Polls,        \* calls of async_read_confirmed_fields
  Closers,      \* calls of async_close
  Links,        \* BLE connections (one client object each)
  NoLink,       \* `None` for self._client
  NoTask,       \* nobody holds self._lock
  CoreReads,    \* EMS batches and transModbus blocks of a cycle (2 + 5)
  MaxFailures   \* where the model's consecutive-failure counter saturates

Tasks == Polls \cup Closers

ASSUME TaskAssumption == Polls \cap Closers = {} /\ NoTask \notin Tasks
ASSUME LinkAssumption == NoLink \notin Links
ASSUME SizeAssumption == CoreReads \in Nat \ {0} /\ MaxFailures \in Nat \ {0}

VARIABLES
  task,           \* what each call is doing, see TaskType
  holder,         \* owner of self._lock
  waiters,        \* FIFO queue of self._lock
  client,         \* self._client, set and cleared with _active_batch_reader
  mustClose,      \* self._session_must_close
  chargerPaused,  \* time.monotonic() < self._charger_retry_after
  diag,           \* the cycle diagnostics
  up,             \* connections that are physically open
  abandoned       \* open connections whose disconnect raised or was cancelled

vars == <<task, holder, waiters, client, mustClose, chargerPaused, diag, up,
          abandoned>>
session == <<client, mustClose, chargerPaused>>
radio == <<up, abandoned>>

-----------------------------------------------------------------------------
\* Requests are numbered in the order a new session sends them.
Sinfo == 1
Discovery == 2
LastCore == CoreReads + 2
Charger == CoreReads + 3

RequestStage(r) ==
  CASE r = Sinfo -> "sinfo"
    [] r = Discovery -> "device_discovery"
    [] r = Charger -> "charger_info"
    [] OTHER -> "core_read"

ConnectStages == {"connect", "gatt_service_discovery", "notify_setup"}
RequestStages == {"sinfo", "device_discovery", "core_read", "charger_info"}
Stages == ConnectStages \cup RequestStages
          \cup {"idle", "resolve_route", "session_seed", "disconnect", "complete"}

\* "connection" is SajLocalConnectionError (only a timeout raises it inside a
\* session), "protocol" SajLocalProtocolError, "other" every other Exception.
Errors == {"connection", "protocol", "other"}

SessionSteps == {"notify", "seed", "write", "respond"}
Steps == {"idle", "lock", "connect", "sleep", "drop", "close"} \cup SessionSteps

TaskType == [pc : Steps, link : Links \cup {NoLink}, reused : BOOLEAN,
             read : 0 .. Charger, err : Errors \cup {"none", "cancelled"},
             stage : Stages]

Rest == [pc |-> "idle", link |-> NoLink, reused |-> FALSE, read |-> 0,
         err |-> "none", stage |-> "idle"]

DiagType == [stage : Stages, requests : 0 .. Charger, attempts : 0 .. 2,
             result : {"not_started", "running", "success",
                       "temporarily_unavailable"},
             failures : 0 .. MaxFailures, warning : BOOLEAN]

Init ==
  /\ task = [t \in Tasks |-> Rest]
  /\ holder = NoTask
  /\ waiters = <<>>
  /\ client = NoLink
  /\ mustClose = FALSE
  /\ chargerPaused = FALSE
  /\ diag = [stage |-> "idle", requests |-> 0, attempts |-> 0,
             result |-> "not_started", failures |-> 0, warning |-> FALSE]
  /\ up = {}
  /\ abandoned = {}

-----------------------------------------------------------------------------
\* The lock and the end of a call

\* Variants that break the code, for testing the properties: a call that does
\* not wait for the lock, and an async_close without it.
GrantedUnlocked(t) ==
  task[t].pc = "lock" /\ waiters # <<>> /\ Head(waiters) = t

GrantedToClosers(t) ==
  GrantedUnlocked(t) /\ (holder = NoTask \/ t \in Closers)

Granted(t) ==
  /\ task[t].pc = "lock"
  /\ holder = NoTask
  /\ waiters # <<>>
  /\ Head(waiters) = t

\* Variant: the lock covers only the beginning of the call.
AcquireBriefly(t) ==
  Granted(t) /\ holder' = NoTask /\ waiters' = Tail(waiters)

Acquire(t) ==
  /\ Granted(t)
  /\ holder' = t
  /\ waiters' = Tail(waiters)

Return(t) ==
  /\ task' = [task EXCEPT ![t] = Rest]
  /\ holder' = NoTask

Continue(t, changed) ==
  /\ task' = [task EXCEPT ![t] = changed]
  /\ UNCHANGED <<holder, waiters>>

\* Variant: the request count survives from the last cycle.
BegunCounting(stage) ==
  [diag EXCEPT !.stage = stage, !.attempts = 0, !.result = "running",
               !.warning = FALSE]

\* Diagnostics of a call that has just begun.
Begun(stage) ==
  [diag EXCEPT !.stage = stage, !.requests = 0, !.attempts = 0,
               !.result = "running", !.warning = FALSE]

Succeeded(d) == [d EXCEPT !.stage = "complete", !.result = "success",
                          !.failures = 0]

Failed(d) == [d EXCEPT !.result = "temporarily_unavailable",
                       !.failures = IF @ < MaxFailures THEN @ + 1 ELSE @]

\* Variants: a retry after any first failure, and a retry without a bound.
RetryableAnyway(d) == d.attempts = 1

RetryableForever(d) == d.requests = 0 /\ d.stage \in ConnectStages

Retryable(d) ==
  d.attempts = 1 /\ d.requests = 0 /\ d.stage \in ConnectStages

\* An attempt of the retry loop ended with err; nothing of it is left open.
EndAttempt(t, err, d) ==
  \/ /\ err \in {"connection", "other"}
     /\ Retryable(d)
     /\ task' = [task EXCEPT ![t] = [Rest EXCEPT !.pc = "sleep"]]
     /\ diag' = d
     /\ UNCHANGED holder
  \/ /\ err = "protocol" \/ ~Retryable(d)
     /\ err # "cancelled"
     /\ diag' = Failed(d)
     /\ Return(t)
  \/ /\ err = "cancelled"
     /\ diag' = d
     /\ Return(t)

-----------------------------------------------------------------------------
\* Beginning a call

\* Somebody calls the method; asyncio queues the call on the lock.
Call(t) ==
  /\ task[t].pc = "idle"
  /\ task' = [task EXCEPT ![t].pc = "lock"]
  /\ waiters' = Append(waiters, t)
  /\ UNCHANGED <<holder, diag, session, radio>>

\* A retained session: go straight to the first core read on it.
BeginReuse(t) ==
  /\ t \in Polls
  /\ client # NoLink
  /\ Acquire(t)
  /\ task' = [task EXCEPT ![t] = [Rest EXCEPT !.pc = "write", !.link = client,
                                    !.reused = TRUE, !.read = Discovery + 1]]
  /\ diag' = [Begun("core_read") EXCEPT !.requests = @ + 1]
  /\ UNCHANGED <<session, radio>>

BeginConnect(t) ==
  /\ t \in Polls
  /\ client = NoLink
  /\ Acquire(t)
  /\ task' = [task EXCEPT ![t] = [Rest EXCEPT !.pc = "connect"]]
  /\ diag' = [Begun("connect") EXCEPT !.attempts = 1]
  /\ UNCHANGED <<session, radio>>

\* Variant: this early return forgets to release the lock.
BeginUnavailableLocked(t) ==
  /\ t \in Polls /\ client = NoLink /\ Acquire(t)
  /\ task' = [task EXCEPT ![t] = Rest]
  /\ diag' = Failed(Begun("resolve_route"))
  /\ UNCHANGED <<session, radio>>

\* Home Assistant knows no connectable path to the eManager.
BeginUnavailable(t) ==
  /\ t \in Polls
  /\ client = NoLink
  /\ Granted(t)
  /\ waiters' = Tail(waiters)
  /\ Return(t)
  /\ diag' = Failed(Begun("resolve_route"))
  /\ UNCHANGED <<session, radio>>

\* Variant: the session is forgotten, not disconnected.
BeginCloseForgetting(t) ==
  /\ t \in Closers /\ Granted(t) /\ waiters' = Tail(waiters) /\ Return(t)
  /\ client' = NoLink
  /\ UNCHANGED <<diag, mustClose, chargerPaused, radio>>

BeginClose(t) ==
  /\ t \in Closers
  /\ UNCHANGED <<mustClose, chargerPaused, radio>>
  /\ client' = NoLink
  /\ \/ /\ client = NoLink
        /\ Granted(t)
        /\ waiters' = Tail(waiters)
        /\ Return(t)
        /\ UNCHANGED diag
     \/ /\ client # NoLink
        /\ Acquire(t)
        /\ task' = [task EXCEPT ![t] = [Rest EXCEPT !.pc = "close",
                                                    !.link = client]]
        /\ diag' = [diag EXCEPT !.stage = "disconnect"]

-----------------------------------------------------------------------------
\* Opening a session

\* No client object, past or present, stands for link l.
Fresh(l) == /\ l \notin up
            /\ l # client
            /\ \A t \in Tasks : task[t].link # l

Connected(t) ==
  /\ task[t].pc = "connect"
  /\ \E l \in Links :
       /\ Fresh(l)
       /\ up' = up \cup {l}
       /\ Continue(t, [task[t] EXCEPT !.pc = "notify", !.link = l])
  /\ mustClose' = FALSE
  /\ diag' = [diag EXCEPT !.stage = "notify_setup"]
  /\ UNCHANGED <<client, chargerPaused, abandoned>>

\* Connected, but `services` is unreadable or lacks what the client needs.
ConnectedUnusable(t, err) ==
  /\ task[t].pc = "connect"
  /\ err \in {"protocol", "other"}
  /\ \E l \in Links :
       /\ Fresh(l)
       /\ up' = up \cup {l}
       /\ Continue(t, [task[t] EXCEPT !.pc = "drop", !.link = l, !.err = err,
                                      !.stage = "gatt_service_discovery"])
  /\ mustClose' = FALSE
  /\ diag' = [diag EXCEPT !.stage = "disconnect"]
  /\ UNCHANGED <<client, chargerPaused, abandoned>>

ConnectFails(t) ==
  /\ task[t].pc = "connect"
  /\ EndAttempt(t, "other", diag)
  /\ UNCHANGED <<waiters, session, radio>>

\* The five-second delay has passed; the second attempt connects.
Retry(t) ==
  /\ task[t].pc = "sleep"
  /\ Continue(t, [task[t] EXCEPT !.pc = "connect"])
  /\ diag' = [diag EXCEPT !.stage = "connect", !.attempts = 2]
  /\ UNCHANGED <<session, radio>>

NotifyStarted(t) ==
  /\ task[t].pc = "notify"
  /\ task[t].link \in up
  /\ Continue(t, [task[t] EXCEPT !.pc = "seed"])
  /\ diag' = [diag EXCEPT !.stage = "session_seed"]
  /\ UNCHANGED <<session, radio>>

-----------------------------------------------------------------------------
\* Requests on a session

Send(t, r) ==
  /\ Continue(t, [task[t] EXCEPT !.pc = "write", !.read = r])
  /\ diag' = [diag EXCEPT !.stage = RequestStage(r), !.requests = @ + 1]

\* Variant: a session is retained whatever happened on it.
FinishReadRetaining(t, closing) ==
  /\ client' = task[t].link
  /\ diag' = Succeeded(diag)
  /\ Return(t)
  /\ UNCHANGED <<waiters, radio>>

\* Every read of the cycle has ended: retain the session or close it.
FinishRead(t, closing) ==
  /\ UNCHANGED <<waiters, radio>>
  /\ \/ /\ ~closing
        /\ client' = task[t].link
        /\ diag' = Succeeded(diag)
        /\ Return(t)
     \/ /\ closing
        /\ task[t].reused
        /\ client' = NoLink
        /\ task' = [task EXCEPT ![t].pc = "close"]
        /\ diag' = [diag EXCEPT !.stage = "disconnect"]
        /\ UNCHANGED holder
     \/ /\ closing
        /\ ~task[t].reused
        /\ task' = [task EXCEPT ![t].pc = "drop"]
        /\ UNCHANGED <<client, diag, holder>>

SeedRead(t) ==
  /\ task[t].pc = "seed"
  /\ task[t].link \in up
  /\ Send(t, Sinfo)
  /\ UNCHANGED <<session, radio>>

Written(t) ==
  /\ task[t].pc = "write"
  /\ task[t].link \in up
  /\ Continue(t, [task[t] EXCEPT !.pc = "respond"])
  /\ UNCHANGED <<diag, session, radio>>

Answered(t) ==
  /\ task[t].pc = "respond"
  /\ task[t].link \in up
  /\ \/ /\ task[t].read < LastCore \/ (task[t].read = LastCore /\ ~chargerPaused)
        /\ Send(t, task[t].read + 1)
        /\ UNCHANGED <<session, radio>>
     \/ /\ task[t].read = LastCore
        /\ chargerPaused
        /\ FinishRead(t, mustClose)
        /\ UNCHANGED <<mustClose, chargerPaused>>
     \/ /\ task[t].read = Charger
        /\ chargerPaused' = FALSE
        /\ FinishRead(t, mustClose)
        /\ UNCHANGED mustClose

\* A timeout or an unusable answer of the optional charger query is tolerated;
\* a timeout leaves the request in flight, so the session has to go.
ChargerFails(t, err) ==
  /\ task[t].pc = "respond"
  /\ task[t].read = Charger
  /\ err \in {"connection", "protocol"}
  /\ chargerPaused' = TRUE
  /\ mustClose' = (mustClose \/ err = "connection")
  /\ FinishRead(t, mustClose')

\* Variants: the failing stage is read after the cleanup has begun; a failed
\* session stays retained.
FailingStageLate == "disconnect"

ForgetRetaining(t) == UNCHANGED client

\* The stage an exception is reported under.
FailingStage == diag.stage

\* _async_close_session clears self._client before it disconnects; a new
\* session was never in it.
Forget(t) == client' = IF task[t].reused THEN NoLink ELSE client

\* An operation of the session raised and the read is abandoned: a new session
\* is dropped by _async_read_once, a retained one by _async_close_session.
Abort(t, err) ==
  /\ Forget(t)
  /\ Continue(t, [task[t] EXCEPT !.pc = IF task[t].reused THEN "close" ELSE "drop",
                                 !.err = err, !.stage = FailingStage])
  /\ diag' = [diag EXCEPT !.stage = "disconnect"]
  /\ UNCHANGED <<mustClose, chargerPaused, radio>>

StepRaises(t, err) ==
  /\ task[t].pc \in SessionSteps
  /\ \/ err = "other"
     \/ /\ task[t].pc = "respond"
        /\ task[t].read # Charger
        /\ err \in {"connection", "protocol"}
  /\ Abort(t, err)

-----------------------------------------------------------------------------
\* Cleaning up

\* client.disconnect() of a drop or a close came back, with an exception that
\* is swallowed when raised is TRUE.
Disconnected(t, raised) ==
  /\ task[t].pc \in {"drop", "close"}
  /\ up' = IF raised THEN up ELSE up \ {task[t].link}
  /\ abandoned' = IF raised THEN abandoned \cup ({task[t].link} \cap up)
                            ELSE abandoned
  /\ UNCHANGED <<waiters, session>>
  /\ LET d == [diag EXCEPT !.warning = @ \/ raised]
         restored == [d EXCEPT !.stage = task[t].stage]
     IN \/ t \in Closers /\ diag' = d /\ Return(t)
        \/ /\ t \in Polls
           /\ task[t].err = "none"
           /\ diag' = Succeeded(d)
           /\ Return(t)
        \/ /\ t \in Polls
           /\ task[t].pc = "close"
           /\ task[t].err # "none"
           /\ diag' = Failed(restored)
           /\ Return(t)
        \/ /\ task[t].pc = "drop"
           /\ task[t].err # "none"
           /\ EndAttempt(t, task[t].err, restored)

\* Home Assistant cancels a poll.  CancelledError is no Exception: only the
\* BaseException handler around a new session's reads cleans up after it.
Cancel(t) ==
  /\ t \in Polls
  /\ \/ /\ task[t].pc = "lock"
        /\ \E i \in DOMAIN waiters :
             /\ waiters[i] = t
             /\ waiters' = SubSeq(waiters, 1, i - 1)
                           \o SubSeq(waiters, i + 1, Len(waiters))
        /\ task' = [task EXCEPT ![t] = Rest]
        /\ UNCHANGED <<holder, diag, session, radio>>
     \/ /\ \/ task[t].pc \in {"connect", "sleep"}
           \/ task[t].pc \in SessionSteps /\ task[t].reused
        /\ Return(t)
        /\ UNCHANGED <<waiters, diag, session, radio>>
     \/ /\ task[t].pc \in SessionSteps
        /\ ~task[t].reused
        /\ Abort(t, "cancelled")
     \/ /\ task[t].pc \in {"drop", "close"}
        /\ Return(t)
        /\ abandoned' = abandoned \cup ({task[t].link} \cap up)
        /\ UNCHANGED <<waiters, diag, session, up>>

-----------------------------------------------------------------------------
\* The environment

LinkDrops(l) ==
  /\ l \in up
  /\ up' = up \ {l}
  /\ abandoned' = abandoned \ {l}
  /\ UNCHANGED <<task, holder, waiters, diag, session>>

RetryDelayElapses ==
  /\ chargerPaused
  /\ chargerPaused' = FALSE
  /\ UNCHANGED <<task, holder, waiters, client, mustClose, diag, radio>>

Progress(t) ==
  \/ BeginReuse(t) \/ BeginConnect(t) \/ BeginClose(t)
  \/ Connected(t) \/ Retry(t) \/ NotifyStarted(t) \/ SeedRead(t)
  \/ Written(t) \/ Answered(t) \/ Disconnected(t, FALSE)

Failure(t) ==
  \/ BeginUnavailable(t)
  \/ ConnectFails(t)
  \/ Disconnected(t, TRUE)
  \/ \E err \in Errors : \/ ConnectedUnusable(t, err)
                         \/ ChargerFails(t, err)
                         \/ StepRaises(t, err)

Step(t) == Progress(t) \/ Failure(t)

Next ==
  \/ \E t \in Tasks : Call(t) \/ Step(t) \/ Cancel(t)
  \/ \E l \in Links : LinkDrops(l)
  \/ RetryDelayElapses

\* Every await of a call comes back: the response wait is bounded by its
\* timeout, the library calls are assumed to return or raise.
Spec == Init /\ [][Next]_vars /\ \A t \in Tasks : WF_vars(Step(t))

-----------------------------------------------------------------------------
\* Properties

\* Types of the client's fields; `attempts` bounded by two is what the tests
\* call no unbounded reconnect storm (local_client.py:170-171).
TypeOK ==
  /\ task \in [Tasks -> TaskType]
  /\ holder \in Tasks \cup {NoTask}
  /\ waiters \in Seq(Tasks)
  /\ client \in Links \cup {NoLink}
  /\ mustClose \in BOOLEAN
  /\ chargerPaused \in BOOLEAN
  /\ diag \in DiagType
  /\ up \subseteq Links
  /\ abandoned \subseteq up

\* The lock serialises the calls across all their awaits
\* (local_client.py:119 and 475).
MutualExclusion ==
  \A t \in Tasks : task[t].pc \notin {"idle", "lock"} <=> holder = t

\* An open connection is retained, in the hands of the call that holds the
\* lock, or one whose disconnect failed: no path through a poll, its error
\* handlers or its cancellation forgets one (local_client.py:127-150, 243-264).
NoOrphanLink ==
  \A l \in up \ abandoned :
    l = client \/ (holder # NoTask /\ task[holder].link = l)

\* The eManager serves one BLE client: the integration never keeps two
\* connections of its own open at once (local_client.py:127, 220, 262).
SingleSession ==
  \A k, l \in up \ abandoned : k = l

\* A session that must close, because a charger answer may still arrive on it,
\* is never left for a later poll (local_client.py:131-132, 255-263, 432-433).
RetainedSessionUsable ==
  holder = NoTask /\ client # NoLink => ~mustClose

\* A delayed reconnect starts clean: no request was sent, no connection is
\* left and no session is retained (local_client.py:180-193).
RetryIsClean ==
  \A t \in Tasks :
    task[t].pc = "sleep" =>
      /\ diag.requests = 0
      /\ diag.attempts = 1
      /\ client = NoLink
      /\ up \subseteq abandoned

\* A successful poll sent each core request once, the identity requests only on
\* a session of its own, and at most one charger query: README.md:203-204.
CompleteCycle ==
  diag.result = "success" =>
    diag.requests - (IF diag.attempts = 0 THEN 0 ELSE Discovery)
      \in {CoreReads, CoreReads + 1}

\* Two failures in a row differ in the count of them.
FailureRecorded ==
  /\ diag'.result = "temporarily_unavailable"
  /\ diag.result # "temporarily_unavailable" \/ diag'.failures # diag.failures

\* The cleanup never hides where a poll failed: a failure with requests names a
\* request and one without names an earlier stage (local_client.py:134-141,
\* 238-251).
FailureNamesItsStage ==
  [][FailureRecorded =>
       IF diag'.requests > 0
         THEN diag'.stage \in RequestStages
         ELSE diag'.stage \in ConnectStages \cup {"resolve_route", "session_seed"}
    ]_vars

\* When async_close returns, no session is retained and no connection is open
\* but those whose disconnect failed (local_client.py:473-489).
CloseReleases ==
  [][\A c \in Closers :
       task[c].pc # "idle" /\ task'[c].pc = "idle"
         => client' = NoLink /\ up' \subseteq abandoned']_vars

\* Every call comes back, whatever fails and whoever else is calling
\* (local_client.py:119-205 and 473-476).
CallsReturn ==
  \A t \in Tasks : task[t].pc # "idle" ~> task[t].pc = "idle"

-----------------------------------------------------------------------------
\* The abstract service

\* Every call under way, the one that holds the lock first.
Queue == IF holder = NoTask THEN waiters ELSE <<holder>> \o waiters

Service == INSTANCE LocalService
  WITH Readers <- Polls, queue <- Queue, retained <- client # NoLink,
       result <- diag.result

\* The client is the service its callers rely on: calls are served one at a time
\* and in order, only a successful poll leaves a session to reuse, a failed one
\* none, and a cancelled one changes nothing for those behind it
\* (local_client.py:113-205, 255-264, 473-489).
ImplementsService == Service!Spec
=============================================================================
