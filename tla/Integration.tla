------------------------------ MODULE Integration ------------------------------
(***************************************************************************)
(* A config entry and what it owns: setup and unload (__init__.py), the    *)
(* coordinator's refreshes (coordinator.py), what a sensor shows           *)
(* (sensor.py) and what the diagnostics show (diagnostics.py).  Each setup *)
(* makes a new coordinator and a new local client, an instance.  The local *)
(* client is the service of module LocalService, which LocalClient         *)
(* implements.  The cloud check is one await with an outcome.              *)
(*                                                                         *)
(* Home Assistant is external: it sets up and unloads an entry one step at *)
(* a time, refreshes on a schedule and on request, with refreshes allowed  *)
(* to overlap, and cancels refreshes of its own.                           *)
(***************************************************************************)
EXTENDS Naturals, Sequences

CONSTANTS
  Refreshes,   \* refreshes on a schedule or on request
  FirstOne,    \* the refresh a setup waits for
  Closer,      \* the unload's call of async_close
  MaxSetups,   \* bound of the model on setups
  MaxReadings, \* bound of the model on local readings
  Refusals     \* {FALSE} for an eManager that refuses no value, else BOOLEAN

ASSUME CallerAssumption ==
  FirstOne \notin Refreshes /\ Closer \notin Refreshes \cup {FirstOne}
ASSUME BoundAssumption ==
  MaxSetups \in Nat /\ MaxReadings \in Nat /\ Refusals \subseteq BOOLEAN

Updates == Refreshes \cup {FirstOne}
Instances == 1 .. MaxSetups

VARIABLES
  sources,   \* the sources enabled when the entry was created
  entry,     \* the state of the config entry
  current,   \* the instance of the last setup, 0 before the first
  runtime,   \* the instance in entry.runtime_data, 0 for none
  calls,     \* per instance: the callers of its local client, in order
  session,   \* per instance: its local client retains a session
  result,    \* per instance: the result of the last read that ended
  data,      \* per instance: coordinator.data
  success,   \* per instance: coordinator.last_update_success
  update,    \* what each refresh is doing, see UpdateType
  readings,  \* history: successful local readings so far, which number them
  unclosed   \* history: instances whose client was used behind its close, or
             \* whose setup failed

service == <<calls, session, result>>
published == <<data, success>>
vars == <<sources, entry, current, runtime, service, published, update, readings,
          unclosed>>

SourceSets == (SUBSET {"local", "cloud"}) \ {{}}

EntryStates == {"unloaded", "setup", "forwarding", "loaded", "closing", "unloading",
                "retry", "error", "stuck"}

Results == {"not_started", "success", "temporarily_unavailable"}

\* A field is the number of the reading it comes from; 0 is a missing field.
\* `code` stands for the EMS values the eManager may refuse in one response and
\* give in the next, `core` for the values it gives in each, EMS and Modbus.
FieldType == [code : Nat, core : Nat, charger : Nat, chargerAvailable : BOOLEAN]

DataType == [fields : FieldType,
             status : [sources -> {"configured", "connected", "unavailable"}]]

UpdateType == [pc : {"idle", "local", "cloud"}, of : Instances \cup {0},
               draft : DataType]

NoData == [fields |-> [code |-> 0, core |-> 0, charger |-> 0,
                      chargerAvailable |-> FALSE],
           status |-> [s \in sources |-> "configured"]]

Idle == [pc |-> "idle", of |-> 0, draft |-> NoData]

Init ==
  /\ sources \in SourceSets
  /\ entry = "unloaded"
  /\ current = 0
  /\ runtime = 0
  /\ calls = [i \in Instances |-> <<>>]
  /\ session = [i \in Instances |-> FALSE]
  /\ result = [i \in Instances |-> "not_started"]
  /\ data = [i \in Instances |-> NoData]
  /\ success = [i \in Instances |-> TRUE]
  /\ update = [u \in Updates |-> Idle]
  /\ readings = 0
  /\ unclosed = {}

-----------------------------------------------------------------------------
\* A refresh begins: _async_update_data copies the published data, then awaits
\* the first of its sources.
Begin(u, i) ==
  /\ update' = [update EXCEPT ![u] =
       [pc |-> IF "local" \in sources THEN "local" ELSE "cloud",
        of |-> i, draft |-> data[i]]]
  /\ calls' = IF "local" \in sources
                THEN [calls EXCEPT ![i] = Append(@, u)] ELSE calls

SetUp ==
  /\ entry \in {"unloaded", "retry", "error"}
  /\ current < MaxSetups
  /\ update[FirstOne].pc = "idle"
  /\ entry' = "setup"
  /\ current' = current + 1
  /\ Begin(FirstOne, current')
  /\ UNCHANGED <<sources, runtime, session, result, published, readings, unclosed>>

\* The sensors keep the coordinator alive until the platforms are unloaded.
Refresh(u) ==
  /\ entry \in {"forwarding", "loaded", "closing", "unloading", "stuck"}
  /\ update[u].pc = "idle"
  /\ Begin(u, current)
  /\ unclosed' = IF "local" \in sources /\ entry \in {"closing", "unloading", "stuck"}
                   THEN unclosed \cup {current} ELSE unclosed
  /\ UNCHANGED <<sources, entry, current, runtime, session, result, published,
                 readings>>

-----------------------------------------------------------------------------
\* A refresh ends

EntryAfter(u, state) == entry' = IF u = FirstOne THEN state ELSE entry

\* async_setup_entry goes on when its first refresh has been published.
SetUpGoesOn(u) == runtime' = IF u = FirstOne THEN current ELSE runtime

Publish(u, d) ==
  /\ data' = [data EXCEPT ![update[u].of] = d]
  /\ success' = [success EXCEPT ![update[u].of] = TRUE]
  /\ update' = [update EXCEPT ![u] = Idle]
  /\ EntryAfter(u, "forwarding")
  /\ SetUpGoesOn(u)
  /\ UNCHANGED unclosed

\* UpdateFailed or ConfigEntryAuthFailed: Home Assistant repeats a failed setup,
\* in the second case after asking for new credentials.
Fail(u, state) ==
  /\ success' = [success EXCEPT ![update[u].of] = FALSE]
  /\ update' = [update EXCEPT ![u] = Idle]
  /\ EntryAfter(u, state)
  /\ unclosed' = IF u = FirstOne THEN unclosed \cup {update[u].of} ELSE unclosed
  /\ UNCHANGED <<runtime, data>>

\* The local client is serving u.
Served(u) ==
  /\ update[u].pc = "local"
  /\ calls[update[u].of] # <<>>
  /\ Head(calls[update[u].of]) = u

\* Variant: a call that ends does not make way for the next.
LeaveHolding(i, retained, outcome) ==
  session' = [session EXCEPT ![i] = retained] /\ UNCHANGED <<calls, result>>

Leave(i, retained, outcome) ==
  /\ calls' = [calls EXCEPT ![i] = Tail(@)]
  /\ session' = [session EXCEPT ![i] = retained]
  /\ result' = [result EXCEPT ![i] = outcome]

\* The local client gives its session up in the middle of a call.
SessionGivenUp(i) ==
  /\ calls[i] # <<>>
  /\ session' = [session EXCEPT ![i] = FALSE]
  /\ UNCHANGED <<sources, entry, current, runtime, calls, result, published, update,
                 readings, unclosed>>

\* fields.update(...) with a reading: a refused value is left out of it, the
\* charger's fields are there or only say that the charger is unavailable.
Merged(d, refused, charger) ==
  [d EXCEPT !.fields.code = IF refused THEN @ ELSE readings + 1,
            !.fields.core = readings + 1,
            !.fields.charger = IF charger THEN readings + 1 ELSE @,
            !.fields.chargerAvailable = charger,
            !.status["local"] = "connected"]

\* Variant: a refresh yields between the reading and its publication.
AfterLocalYielding(u, d) ==
  /\ update' = [update EXCEPT ![u].pc = "cloud", ![u].draft = d]
  /\ UNCHANGED <<entry, runtime, published, unclosed>>

AfterLocal(u, d) ==
  \/ /\ "cloud" \in sources
     /\ update' = [update EXCEPT ![u].pc = "cloud", ![u].draft = d]
     /\ UNCHANGED <<entry, runtime, published, unclosed>>
  \/ "cloud" \notin sources /\ Publish(u, d)

LocalSucceeds(u) ==
  /\ Served(u)
  /\ readings < MaxReadings
  /\ readings' = readings + 1
  /\ \E retained, charger \in BOOLEAN, refused \in Refusals :
       /\ Leave(update[u].of, retained, "success")
       /\ AfterLocal(u, Merged(update[u].draft, refused, charger))
  /\ UNCHANGED <<sources, current>>

\* The status "unavailable" is set in a copy that the exception discards.
LocalFails(u) ==
  /\ Served(u)
  /\ Leave(update[u].of, FALSE, "temporarily_unavailable")
  /\ Fail(u, "retry")
  /\ UNCHANGED <<sources, current, readings>>

WithCloud(u, status) == [update[u].draft EXCEPT !.status["cloud"] = status]

CloudAnswers(u) ==
  /\ update[u].pc = "cloud"
  /\ Publish(u, WithCloud(u, "connected"))
  /\ UNCHANGED <<sources, current, service, readings>>

\* The developer app is not released, or the credentials are refused.
CloudRefuses(u, state) ==
  /\ update[u].pc = "cloud"
  /\ state \in {"retry", "error"}
  /\ Fail(u, state)
  /\ UNCHANGED <<sources, current, service, readings>>

\* Any other error of the API client is tolerated beside a local source.
CloudUnreachable(u) ==
  /\ update[u].pc = "cloud"
  /\ IF "local" \in sources THEN Publish(u, WithCloud(u, "unavailable"))
                            ELSE Fail(u, "retry")
  /\ UNCHANGED <<sources, current, service, readings>>

\* A caller leaves the queue of the local client, wherever it is.
Withdraw(i, u) ==
  \E k \in DOMAIN calls[i] :
    /\ calls[i][k] = u
    /\ calls' = [calls EXCEPT ![i] = SubSeq(@, 1, k - 1) \o SubSeq(@, k + 1, Len(@))]

\* Variant: a cancelled refresh keeps its turn at the local client.
CancelUnqueued(u) ==
  /\ u \in Refreshes
  /\ update[u].pc # "idle"
  /\ update' = [update EXCEPT ![u] = Idle]
  /\ UNCHANGED <<sources, entry, current, runtime, service, published, readings,
                 unclosed>>

\* Home Assistant cancels a refresh.
Cancel(u) ==
  /\ u \in Refreshes
  /\ update[u].pc # "idle"
  /\ update' = [update EXCEPT ![u] = Idle]
  /\ \/ update[u].pc = "local" /\ Withdraw(update[u].of, u)
     \/ update[u].pc = "cloud" /\ UNCHANGED calls
  /\ UNCHANGED <<sources, entry, current, runtime, session, result, published,
                 readings, unclosed>>

-----------------------------------------------------------------------------
\* Platforms and unload

PlatformsForwarded ==
  /\ entry = "forwarding"
  /\ \/ entry' = "loaded" /\ UNCHANGED unclosed
     \/ entry' = "error" /\ unclosed' = unclosed \cup {current}
  /\ UNCHANGED <<sources, current, runtime, service, published, update, readings>>

\* Variant: the unload leaves the local client to itself.
UnloadWithoutClose ==
  /\ entry = "loaded" /\ entry' = "unloading"
  /\ UNCHANGED <<sources, current, runtime, service, published, update, readings,
                 unclosed>>

Unload ==
  /\ entry = "loaded"
  /\ \/ /\ "local" \in sources
        /\ entry' = "closing"
        /\ calls' = [calls EXCEPT ![runtime] = Append(@, Closer)]
     \/ /\ "local" \notin sources
        /\ entry' = "unloading"
        /\ UNCHANGED calls
  /\ UNCHANGED <<sources, current, runtime, session, result, published, update,
                 readings, unclosed>>

Closed ==
  /\ entry = "closing"
  /\ calls[runtime] # <<>>
  /\ Head(calls[runtime]) = Closer
  /\ Leave(runtime, FALSE, result[runtime])
  /\ entry' = "unloading"
  /\ UNCHANGED <<sources, current, runtime, published, update, readings, unclosed>>

\* Home Assistant drops runtime_data with an unload that succeeds.
PlatformsUnloaded ==
  /\ entry = "unloading"
  /\ \/ entry' = "unloaded" /\ runtime' = 0
     \/ entry' = "stuck" /\ UNCHANGED runtime
  /\ UNCHANGED <<sources, current, service, published, update, readings, unclosed>>

Step(u) ==
  \/ LocalSucceeds(u) \/ LocalFails(u)
  \/ CloudAnswers(u) \/ CloudUnreachable(u)
  \/ \E state \in {"retry", "error"} : CloudRefuses(u, state)
  \/ Cancel(u)

Next ==
  \/ SetUp \/ PlatformsForwarded \/ Unload \/ Closed \/ PlatformsUnloaded
  \/ \E i \in Instances : SessionGivenUp(i)
  \/ \E u \in Refreshes : Refresh(u)
  \/ \E u \in Updates : Step(u)

Spec == Init /\ [][Next]_vars

-----------------------------------------------------------------------------
\* What the sensors show

\* Variant: the availability field is ignored.
AvailableChargerIgnoring(i) == success[i] /\ data[i].fields.charger # 0

\* `available` of a core sensor and of a charger sensor of instance i.
AvailableCore(i) == success[i] /\ data[i].fields.core # 0

AvailableCharger(i) ==
  /\ success[i]
  /\ data[i].fields.charger # 0
  /\ data[i].fields.chargerAvailable

\* An EMS value has no availability field: it is shown once it has been read.
AvailableCode(i) == success[i] /\ data[i].fields.code # 0

\* What a download of the diagnostics shows; it raises without runtime_data.
Diagnostics == [source_status |-> data[runtime].status]

-----------------------------------------------------------------------------
\* Properties

\* Types of the coordinator's and the entry's state; a refresh is queued at the
\* local client of its instance exactly while it awaits it.
TypeOK ==
  /\ sources \in SourceSets
  /\ entry \in EntryStates
  /\ current \in Instances \cup {0}
  /\ runtime \in 0 .. current
  /\ entry \in {"forwarding", "loaded", "closing", "unloading", "stuck"} =>
       runtime = current
  /\ calls \in [Instances -> Seq(Updates \cup {Closer})]
  /\ session \in [Instances -> BOOLEAN]
  /\ result \in [Instances -> Results]
  /\ data \in [Instances -> DataType]
  /\ success \in [Instances -> BOOLEAN]
  /\ update \in [Updates -> UpdateType]
  /\ \A i \in Instances, u \in Updates :
       (\E k \in DOMAIN calls[i] : calls[i][k] = u)
         <=> update[u].pc = "local" /\ update[u].of = i
  /\ readings \in 0 .. MaxReadings
  /\ unclosed \subseteq Instances

\* What the Modbus and charger sensors show comes from one reading, though fields
\* of earlier ones stay in the coordinator's data and refreshes overlap (coordinator.py:81-89,
\* sensor.py:325-335; README.md:207-208).
OneReadingShown ==
  \A i \in Instances :
    AvailableCore(i) /\ AvailableCharger(i) =>
      data[i].fields.charger = data[i].fields.core

\* A local client whose entry is not set up holds no session, so the eManager is
\* free for the next one, unless the client was called behind its close or the
\* setup failed (__init__.py:60, 69-71).
QuietUnload ==
  \A i \in Instances :
    session[i] /\ i \notin unclosed =>
      i = current /\ entry \notin {"unloaded", "unloading", "retry", "error"}

\* With the local source alone, overlapping refreshes publish their readings in
\* the order they were taken (coordinator.py:86-89, 115).
ReadingsInOrder ==
  [][sources = {"local"} =>
       \A i \in Instances : data'[i].fields.core >= data[i].fields.core]_vars

-----------------------------------------------------------------------------
\* The local clients are services

Client(i) == INSTANCE LocalService
  WITH Readers <- Updates, Closers <- {Closer}, queue <- calls[i],
       retained <- session[i], result <- result[i]

\* Every instance uses its local client within what the client promises, whatever
\* refreshes, setups and unloads overlap (coordinator.py:86-90, __init__.py:69-71).
ClientsServe ==
  /\ \A i \in Instances : Client(i)!Init
  /\ [][\A i \in Instances : Client(i)!Next \/ UNCHANGED Client(i)!vars]_vars
=============================================================================
