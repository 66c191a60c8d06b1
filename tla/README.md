# Verification of the SAJ HS3 / Elekeeper integration

TLA+ models, TLC runs and machine-checked proofs for the Home Assistant custom
integration in `src/custom_components/saj_hs3` (read-only access to a SAJ
eManager over Bluetooth LE, and a health check of the SAJ Open Platform).

## 1. The system

| Component | State it keeps | Operations | Talks to |
|---|---|---|---|
| Local client (`local_client.py`, `SajLocalClient`) | an `asyncio.Lock`; the retained BLE client and its batch reader; `_session_must_close`; `_charger_retry_after`; cycle diagnostics (stage, request count, attempts, result, failures, cleanup warning) | `async_read_confirmed_fields` (a poll), `async_close`, `cycle_diagnostics` | awaited by the coordinator and by unload; awaits bleak and the connector |
| Local session (closures of `_start_session`) | key, sequence, the current `FrameAssembler`, the current future | `on_notify`, `read_batches`, `read_optional_charger_info`, `_await_response` | bleak calls `on_notify` between any two steps; writes go to the eManager |
| Local protocol (`local_protocol.py`) | a `FrameAssembler`'s buffer, next index and total length | frame codec, request builders, five parsers, register normalisation | pure functions used by the session |
| Coordinator (`coordinator.py`) | the last published `SAJHS3CoordinatorData` | `_async_update_data` | local client, then API client; raises to Home Assistant |
| Entry lifecycle (`__init__.py`) | `entry.runtime_data` | `async_setup_entry`, `async_unload_entry` | creates clients and coordinator; closes the local client |
| Sensors (`sensor.py`) | none of their own | `native_value`, `available`, `async_setup_entry` with its registry cleanup | read the coordinator's data |
| API client (`api.py`) | access token, expiry, an `asyncio.Lock` | `async_authenticate`, `async_get_authorized_plant_count`, `_get_json` | HTTP session; awaited by coordinator and config flow |
| Config flow (`config_flow.py`) | selected sources, entry data, discovery | user, bluetooth, confirm, open_platform, reauth and local_emanager steps | API client for validation; Home Assistant's entry registry |
| Diagnostics (`diagnostics.py`) | none | one read-only rendering | reads all of the above |

`const.py`, `entity.py`, the manifest, the translations, brand images, the
dashboard example and the workflows hold no program state.

### What is hard

Everything runs on one event loop, so a step of a coroutine is the code between
two awaits, and the hazards are at the awaits:

- *Interleaving.* Scheduled and requested refreshes and the unload may overlap.
  One lock is held over every await of a poll; all session state depends on it.
- *Failure anywhere.* Route lookup, connection, service discovery, notification
  setup, the seed read, every write, every answer and every disconnect can fail.
  The eManager serves a single BLE client, so a connection that is forgotten
  blocks the device.
- *Cancellation.* `CancelledError` is a `BaseException`: the handler around a new
  session's reads sees it, the one around a retained session's reads does not.
- *Shared closure variables.* `on_notify` writes into whichever assembler and
  future are current. A late frame of an earlier answer meets a later request.
- *Requests without identity.* SINFO, device discovery and charger answers carry
  no UUID, and the frame's sequence number is never compared.
- *Best effort inside an all-or-nothing cycle.* The charger query may fail
  without costing the poll, but an unanswered one leaves an answer in flight.
- *Values that outlive their reading.* A reading may leave out what the device
  refuses, and the merge keeps the value of an earlier one.
- *Flows side by side.* A discovery, a user and a reauthentication flow for the same
  device or account are under way at once, each checked at a different step.
- *Diagnostics that decide.* The stage and the request count, which the cleanup
  itself overwrites, decide whether a first failure is retried.

PROJECT.json lists each hazard at its line with the properties that cover it.

### What makes each component correct

- Local client: calls exclude each other; no connection is leaked or doubled; a
  retained session is usable; a retry repeats no request; a close leaves nothing;
  failures report where they happened; calls return; service recovers.
- Local session: what is accepted answers the current request, completely; the
  client's own leftovers never fail a poll; a timeout ends the session.
- Protocol: reassembly inverts encoding, and register arithmetic stays in range.
- Coordinator and lifecycle: published data comes from completed cycles; a source
  that fails does not hide the other; nothing runs on an unloaded entry.
- API client: a request uses a token that was not near expiry when checked, a
  rejected token is not used again, concurrent callers authenticate once.
- Config flow: an entry has the data of each source it enables, its credentials were
  verified, and an eManager has one entry, whatever flows run at once.

## 2. Modules

### `LocalClient`

Models `SajLocalClient` for any number of calls. Each element of `Polls` is a
call of `async_read_confirmed_fields`, each of `Closers` a call of `async_close`
(a call that returned may be made again). `task[t].pc` is the await the call is
in:

| `pc` | await |
|---|---|
| `lock` | `async with self._lock` (119, 475) |
| `connect` | `establish_connection` (220) |
| `notify`, `seed` | `start_notify` (310), `read_gatt_char` (312) |
| `write`, `respond` | `write_gatt_char` (327 ...), `_await_response` (328 ...) |
| `drop` | `client.disconnect()` in `_async_read_once` (246, 257) |
| `close` | `client.disconnect()` in `_async_close_session` (486) |
| `sleep` | the delay before the second attempt (192) |

An action is the code from one await to the next; where the await can end in
more than one way there is one action for each. `task[t].read` numbers the
requests of a new session: SINFO, device discovery, `CoreReads` core reads,
charger. `client` stands for `_client` together with `_active_batch_reader`,
which are assigned together. `up` (the connections physically open) and
`abandoned` (those whose `disconnect()` raised or was cancelled) are ghosts about
the radio.

`Answered` and `Written` treat one request as one write: a request has a few
frames and a failure of any of their writes is the same `StepRaises`. Which
exception is which matters and is kept: `connection` (only a timeout raises
`SajLocalConnectionError` within a session), `protocol`
(`SajLocalProtocolError`) and `other` (everything else, e.g. `BleakError`,
`UnicodeDecodeError`, a padding error from decryption).

### `LocalClientRecovery`

Composes `LocalClient` with a switch: until `healed`, every step of `LocalClient`
may happen; afterwards only what a well-behaved device, radio and user do, plus
what a connection that is already dead still inflicts (`SeveredFails`).

### `LocalService`

What `SajLocalClient` promises, without connections, locks or requests: callers are
served one at a time in the order they came (`queue`), a session is `retained` only
by a read that succeeded and may be given up while a call is served, and `result` is
that of the last read. `LocalClient` implements it: `Service` maps `queue` to the
holder of the lock followed by those who wait for it, `retained` to `client # NoLink`
and `result` to the diagnostics' result. `Integration` uses one per setup.

### `SajSession`

Models one open connection at the level of frames. `sent` numbers the requests
of the session (for a core read this number is its UUID), `inbox` holds
requests the eManager has not answered, `air` frames on their way; `assembler`
and `future` are the closure variables `on_notify` uses. A poll that ends with
the session retained leaves `phase = "idle"`, and `NextCycle` is the next poll's
`read_batches`. An answer is `good`, `unusable` (a parser refuses it),
`undecodable` (decryption or UTF-8 decoding raises), or `broken` (its first frame
fails validation). `timedOut`, `blame` and `coreLost` record history for the
properties. `LocalClient` answers for which session exists and who uses it; this
module answers for what happens on it.

The parsers are kept apart (`ParsedSinfo`, `ParsedDiscovery`, `ParsedEms`,
`ParsedModbus`, `ParsedCharger`) because they ask for different evidence: only
readingDevice and transModbus answers carry a UUID, and only transModbus answers
repeat the question.

### `FrameCodec`

Models `encode_frames`, `FrameAssembler.add` and the numbering of a session's frames
where `SajSession` takes a message for a fixed number of parts. A byte is its message
and its place in it, so that a receiver that glues parts of two messages is seen to.
`assembler` and `outcome` are the closure variables of `on_notify`; `TakeUp` gives
both a new value, as the client does before each request. The link loses, repeats and
damages frames and swaps neighbours of one message. Damage is something the
length or the checksum notices; the frame's type byte is outside the checksum and is
taken to arrive.

### `Integration`

Models `__init__.py`, `coordinator.py`, the availability rule of `sensor.py` and
`source_status` of `diagnostics.py`. Each setup makes an instance: a coordinator with
its `data` and `success` (`last_update_success`), and a local client, which is a
`LocalService`: the queue of its callers (`calls`), whether it retains a `session` and
its last `result`; `ClientsServe` checks that every instance uses it as one. `runtime`
is the instance in `entry.runtime_data`, which `async_setup_entry` sets behind the
first refresh and which unload and diagnostics read. `sources` is what the config flow
stored for the entry, chosen once in `Init`, so a run covers local only, cloud only
and both. A refresh takes its snapshot of the published data (`draft`) when it begins,
awaits the local client, then the cloud, and publishes or fails. A field is
represented by the number of the reading it comes from: `code` stands for the EMS
values, each of which the eManager may refuse in a response, `core` for those every
reading has, `charger` for the charger's. `entry` follows the states Home Assistant
puts a config entry in; `closing` is the `await` of `async_close`, `unloading` that of
`async_unload_platforms`. `unclosed` remembers the instances for which a quiet unload
is not to be expected, so that `QuietUnload` is about the rest.

### `ConfigFlow`

Models `config_flow.py` for several flows at once. `flow[f]` is a flow handler: the
form it shows (`step`; `validate` is the `await` of `_validate_cloud`), the unique id
in its context, `_selected_sources`, `_discovery`, the credentials in `_entry_data`
and those submitted. An action handles one form. What Home Assistant does for a flow
is external and modelled from its use: `Taken` and `Configured` are the two checks
behind `async_set_unique_id` and `_abort_if_unique_id_configured`, `Create` stores an
entry and ends the other flows of its id, `Ignore`, `Dismiss` and `Remove` are the
user's. Credentials are an App ID and a secret; which ones the Open Platform
accepts is left open and remembered in `verified`. One form is submitted once at a
time.

### `ApiClient`

Models `api.py`. `token` stands for `_access_token` with `_token`, which are set and
forgotten together. Time is discrete; `Tick` may not outrun the timeout of a request
under way. A token's life at the platform starts when it is issued, which may be as
early as the token request, while the client counts from the arrival of the answer:
`ends` and `dies` keep the two apart.

### Run modules and proofs

The `MC` modules hold the symmetry sets and what the repository's
texts claim; `FrameCodec` needs none. The theorems about a module are in the module of its
name with `_proofs`: `LocalClient`, `LocalClientRecovery`, `LocalService`, `SajSession`,
`FrameCodec`, `Integration`, `ConfigFlow` and `ApiClient` have one. Operators whose comment calls them a variant are used by no
specification: each is a plausible defect in the definition after it, and shows
that the properties notice it.

## 3. What is checked

| Run | Instance | Shows |
|---|---|---|
| `client_safety` | 2 polls, 1 closer, 3 links, 2 core reads, 39,000 states up to symmetry | mutual exclusion, no leaked and no doubled connection, usable retained session, clean retry, complete cycles, honest failure stage, close leaves nothing; `LocalClient` implements `LocalService` |
| `client_recovery` | 2 polls, 1 closer, 2 links, 1 core read, with the switch, 105,000 states | every call returns; after the faults end at most one poll fails, then one succeeds |
| `session_exchange` | 2 EMS batches and 1 transModbus block, two-frame answers, 14 requests (three polls), 2.1 million states | what is accepted answers the current request with all its fragments; exchanges are serial; no self-inflicted losses; a timeout ends the session |
| `integration` | each choice of sources, 2 refreshes besides the first, 2 setups, 3 readings, no refusals, 224,000 states | what is shown of Modbus and charger comes from one reading; a quiet unload leaves no session; with the local source alone, readings are published in order; the local clients are used as services |
| `api_token` | 3 calls, margin 3, timeout 1, lifetimes 3 and 6, 9 ticks, 4 tokens, 315,000 states | one token request at a time, only when needed; a token outlives the request that uses it; none is used after a refusal; no call ends up without one |
| `frame_codec` | limits 20 and 21, lengths around one frame, one chunk and two, first numbers 0 and 255, 2 messages, 2 faults, 60,000 states | frames fit a write and have byte numbers; only whole messages are taken, of one message unless two faults conspire; undisturbed messages arrive with their last frame |
| `config_flow` | 3 flows, 2 eManagers, 2 App IDs, 1 secret, 234,000 states up to symmetry | one entry per eManager, complete and verified entries, one flow per id, creation overwrites nothing but an ignored entry |
| `session_charger` | as `session_exchange`, smaller | violated: see below |
| `integration_unload`, `integration_status`, `integration_stale` | as `integration` | violated: see below |
| `config_manual` | as `config_flow` | violated: see below |

**Bounds.** `CoreReads` is seven in the code; the seven differ in nothing but
their stage name, so two (a first and a last, with room between write and
answer) already show every order. Two polls and a closer give every queue order
and a call waiting behind each kind of holder. Three links let a dead, an
abandoned and a new connection coexist. `MaxFailures` saturates a counter that
nothing but diagnostics reads; at two it still tells two failures in a row apart, which
`FailureNamesItsStage` needs. In `SajSession` two fragments per answer are the
least that can be separated, and `MaxRequests` covers a new session and two
reuses, so that a leftover of one poll can meet the next and its successor. In
`Integration` two refreshes overlap with each other and with the unload, the second
setup follows a failed or an orderly end of the first, and three readings let a
charger field be older than the core fields and be renewed. `Refusals` is `BOOLEAN` in
`integration_stale` alone: only `RealtimeShareResponse` tells `code` from `core`. In `ApiClient` the
lifetime 3 is within the margin, 6 outlives it, and nine ticks see a token age,
expire and be replaced; `MarginAssumption` keeps what matters of 300 and 15 seconds.
In `FrameCodec` the limits are the least the code accepts, where a chunk has seven or
eight bytes: every relation of a length to the limit and to a multiple of the chunk
size that 182 allows is there, and `FramesAlwaysFit` holds for 182 too. Two messages
are a message and a leftover, two faults the least that make one message of two. In
`ConfigFlow` three flows are a discovery, a user's and a reauthentication; two App IDs
let a reauthentication change the account of an entry.
`SajSession`, `Integration`, `ApiClient`, `FrameCodec` and `ConfigFlow` are checked for
safety only: they claim
nothing about what must happen and their runs may stop at a bound.

**Fairness.** `Spec` of `LocalClient` has weak fairness of each call's `Step`:
the event loop runs what is ready, `_await_response` is bounded by
`asyncio.wait_for`, and the library's calls are assumed to return or raise
(bleak and the connector bound them). Nothing is assumed of `Call`, `Cancel`, lost
connections or of which outcome an await has: a device that never answers only
ever takes the failing outcomes. The lock needs no strong fairness because its
queue is FIFO. `RecoverySpec` adds that Home Assistant keeps polling and that an
abandoned connection ends by its supervision timeout; `GoesOn`
has the fairness of `Step` before the switch and of its fault-free part after it.
That the charger pause elapses is not assumed. Safety holds without any of this.

**External behaviour that is assumed.** `establish_connection` gives a new client
object or raises; a disconnect that raises leaves the connection as it was; a
connection may drop at any time and operations on it then raise; the eManager
answers in the order asked or not at all; notifications arrive in order. The UUID of a
request, the wall clock in milliseconds, is another one each time: the clock does not
step back to a value it has had on the same session. Once the faults of `RecoverySpec`
have ended a connection attempt succeeds, even while an abandoned connection is still
open, and answers a cancelled poll has left behind, which are `SajSession`'s subject,
fail no later poll. Polls
may be cancelled, closers are not. Home Assistant sets up and unloads an entry one
step at a time, starts refreshes as long as the platforms exist (a service call can,
even when the timer does not), lets refreshes of one coordinator overlap, and may
cancel those on its schedule but does not cancel every requested one on unload.

### Where the code and its texts part

1. `session_charger`: a charger answer whose first fragment is invalid settles the
   query at once. The session is retained (only a cancelled future marks it for
   closing), the rest of that answer is still on its way, and when the next poll
   is already queued it hits the fresh assembler of that poll's first batch, which
   fails as out of order.
2. `integration_unload`: `async_unload_entry` closes the local client before it
   unloads the platforms. A refresh that begins in between is served behind the close
   and retains a session nothing will close, in spite of the docstring at
   `local_client.py:474`.
3. `integration_status`: the status `unavailable` is assigned at `coordinator.py:91`
   to a copy that the exception discards; `source_status`, which `README.md:302` says
   to inspect, keeps saying `connected`.
4. `integration_stale`: `README.md:209` says that realtime EMS values share one
   response. A value whose `errCode` is not 0 is left out of the reading
   (`local_protocol.py:396`), and the merge keeps the one of an earlier response, which
   is shown as available beside the new ones: a direction code may belong to another
   moment than its magnitude.
5. `config_manual`: `README.md:59` tells the user to choose the local eManager and
   select the discovered device. While the discovery flow that Home Assistant starts
   for the same device waits, that selection is aborted as already in progress, for
   which `strings.json` has no text.

Observed while modelling, with no run of its own:

- The charger query's handler catches a timeout and protocol errors only. A
  `BleakError` of its write, or an error of decryption or decoding, ends the poll at a
  stage where every core field has been read, which the docstring at
  `local_client.py:406` ("without risking core data") does not tell.
- A failed read of the session seed, which is before any BSaj request, is not retried,
  though `tests/test_local_client.py:417` speaks of a failure before any request.
- Refused cloud credentials discard a local reading that has succeeded.
- A setup whose first refresh fails after its local read (refused credentials) abandons
  a local client with its session; `QuietUnload` leaves failed setups out.
- With both sources enabled, a refresh that waits long for the cloud publishes its older
  reading over that of a faster one (`ReadingsInOrder` needs the local source alone).
- A reauthentication may store another App ID under the unique id of the first.
- When the end of one message and the start of the next are lost, fragments of two
  messages of one length fit together; `OnlyWholeMessages` says that it takes two faults.

## 4. What is proved

**The local client.** `LocalClient_proofs` proves, for all sets of polls, closers and links and every
`CoreReads` and `MaxFailures`:

| Theorem | Statement |
|---|---|
| `Invariance` | `Spec => []IInv` |
| `TypeCorrect` | `Spec => []TypeOK` |
| `CallsExclude` | `Spec => []MutualExclusion` |
| `NoLinkForgotten` | `Spec => []NoOrphanLink` |
| `OneSession` | `Spec => []SingleSession` |
| `RetainedUsable` | `Spec => []RetainedSessionUsable` |
| `RetryClean` | `Spec => []RetryIsClean` |
| `CyclesComplete` | `Spec => []CompleteCycle` |
| `CloseLeavesNothing` | `Spec => CloseReleases` |
| `FailuresNameTheirStage` | `Spec => FailureNamesItsStage` |

The assumptions are those `LocalClient` states of its constants: polls and closers
are disjoint, `NoTask` is no call, `NoLink` is no link, the two numbers are
positive.

The listed properties are not inductive: a step of one call could break them if
some other call were past the lock, or if a call at `write` held a link other than
the retained one. `IInv` adds what the lock really protects. It says which calls
are past the lock (exactly the holder), for each `pc` what the holder's record and
the session's fields look like (a reused poll's link is `client` until it closes;
a new session's link is not), that every open connection not given up is the
retained one or the holder's, how the request count follows from the read under way,
and that between calls nothing is marked for closing. `NextInv` has one lemma per
action; actions that end a call, or keep its record and change one field, go
through `ReturnInv` and `HoldInv`. `CloseReleases` follows from `IInv` and from
`OwnTaskOnly`: a step changes no record but that of the call it belongs to.

`FailureNamesItsStage` needs more about the diagnostics, which one call writes while
others wait; a failure is one that follows no other, or that raises the count of failures
in a row. `Traced` says, for each `pc`, which stage a failure there would name
(`Names`: one of a request exactly if a request was sent) and with which error the
cleanup was entered, because the cleanup itself overwrites the stage in the diagnostics
and the call's record keeps the one to be reported.

**Recovery.** `LocalClientRecovery_proofs` proves, under the same assumptions,

| Theorem | Statement |
|---|---|
| `RecoveryInvariance` | `RecoverySpec => []RInv` |
| `AtMostOneMoreFailure` | `RecoverySpec => []OneMoreFailure` |

A step with the switch is a step of `LocalClient`, so `IInv` and `Traced` go on holding.
`Recovering` adds what the one failure that counts takes with it: behind it no call works
on a dead connection, none is about to report an error, and the retained session is alive
(`Sane`). `Sane` is kept as long as nothing goes wrong, and from a `Sane` state no
failure can be recorded.

**The refinement.** `LocalService_proofs` proves, under the same assumptions,

| Theorem | Statement |
|---|---|
| `CallsQueueOnce` | `Spec => [](IInv /\ Queued)` |
| `ClientIsService` | `Spec => ImplementsService` |

`Queued` says that the calls in the lock's queue are at `lock`, each there once; with
`IInv`, which puts the holder past it, no call is under way twice. Each
action of `LocalClient` is then shown to be one of `LocalService` or to leave its three
variables alone: taking the lock and connecting changes nothing, forgetting the
retained client is `GiveUp`, the last step of a read `Succeed` or `Fail`.

**The session.** `SajSession_proofs` proves, for every number of reads and of requests and
every number of frames in an answer, at least one,

| Theorem | Statement |
|---|---|
| `Invariance` | `Spec => []IInv` |
| `TypeCorrect` | `Spec => []TypeOK` |
| `AcceptsCurrent` | `Spec => []AcceptedIsCurrent` |
| `Serial` | `Spec => []SerialExchange` |
| `NoOwnLoss` | `Spec => []NoSelfInflictedLoss` |
| `TimeoutEnds` | `Spec => []TimeoutEndsSession` |

`SizeAssumption` asks that `MaxRequests` allows one poll (`CoreReads + 3`); a smaller
one would be exceeded by the first. `AcceptedIsCurrent` is the hard one: SINFO,
discovery and charger answers say nothing of their request, so that they are current has
to follow from what else is under way. `IInv` says that frames come in the order of
their answers and each answer to its end (`Stream`), that a begun assembler waits for
exactly the next frame to arrive, even if it belongs to an older request (`Assembly`),
that a settled future holds one whole answer (`Outcome`), and that with no bad answer and
no cancelled poll, or behind a core read of this poll that succeeded, whatever is
under way is of the current request (`Clean`). `Sync` is the same for the contents and
gives `NoSelfInflictedLoss`.

**Frames.** `FrameCodec_proofs` proves, for every set of limits from 20, of lengths and
of first numbers, and for any number of messages and of faults,

| Theorem | Statement |
|---|---|
| `Invariance` | `Spec => []IInv` |
| `TypeCorrect` | `Spec => []TypeOK` |
| `FramesAlwaysFit` | `Spec => []FramesFit` |
| `CInvariance` | `Spec => []CInv` |
| `WholeMessagesOnly` | `Spec => []OnlyWholeMessages` |
| `LatestMessageArrives` | `Spec => MessageArrives` |

`IInv` puts the size of a frame into its type, so that the steps of the link keep it,
and says that nothing is on the way before the first message. The arithmetic is in a few
lemmas: a chunk begins inside the message (`ChunkBegins`, about `\div`), so the bytes of
a fragment are at least none and at most a chunk (`FragmentFits`), and the last chunk
ends where the message does (`FramesOf`).

`CInv` adds what the frames hold. Each is `Genuine`: it has the bytes of its place in a
message that was sent, damaged or not. What the assembler has is at its place in a message
of the announced length (`Held`), which is all that can be said after two faults. Before
the first fault each frame is followed by its successor (`Follows`); one fault leaves
`Linked`: the frame behind another that would fit there is of the same message. This,
and that the same holds of the assembler and the first frame (`InStep`), is why one fault
does not make a message of two. `FaultWhole` says what a fault has to leave, and each of
the four is shown to leave it; `Joins` says what the assembler has when it takes the
fragment it waits for; `SendStream` that a new message leaves the order intact.

**The entry and its coordinators.** `Integration_proofs` proves, for every set of
refreshes, every number of setups and of readings, and whichever values the eManager
refuses,

| Theorem | Statement |
|---|---|
| `Invariance` | `Spec => []IInv` |
| `TypeCorrect` | `Spec => []TypeOK` |
| `ReadingsTogether` | `Spec => []OneReadingShown` |
| `UnloadedQuietly` | `Spec => []QuietUnload` |
| `ReadingsOrdered` | `Spec => ReadingsInOrder` |
| `ClientsAreServices` | `Spec => ClientsServe` |

`OneReadingShown` is about what is published, but a refresh publishes the snapshot it took
before it awaited anything: `Read` says the same of every snapshot. `QuietUnload` depends
on who is in the local client's queue: no caller is there twice and the unload's call only
while it is awaited (`Queues`), a local client out of use has no caller and no session, and
while the entry closes its close is the last of them, unless a refresh came behind it
(`Quiet`). `ClientsServe` is a refinement for each setup: every step is one of
`LocalService`'s or leaves its variables alone (`NextServes`).

**The config flow.** `ConfigFlow_proofs` proves, for every set of flows, eManagers, App
IDs and secrets,

| Theorem | Statement |
|---|---|
| `Invariance` | `Spec => []IInv` |
| `TypeCorrect` | `Spec => []TypeOK` |
| `FlowsDiffer` | `Spec => []OneFlowPerId` |
| `DevicesDiffer` | `Spec => []OneEntryPerDevice` |
| `EntriesComplete` | `Spec => []EntryComplete` |
| `CredentialsVerified` | `Spec => []StoredVerified` |
| `CreationSpares` | `Spec => NothingOverwritten` |

What an entry is given depends on what its flow collected several forms earlier, so
`IInv` says what a handler holds at each step (`HandlerOf`: a user's flow that selects a
device after the account form holds verified credentials) and what an entry holds
(`EntryOf`: its device gives it its id). The confirmation of a discovery checks nothing
again, so that it overwrites nothing needs `Waiting`: a discovery that waits has no
entry, because whoever creates one of its id ends the flow. Steps are of two kinds,
one handler changes (`ProceedInv`) or an entry is created (`CreateInv`).

**The API client.** `ApiClient_proofs` proves, for every set of calls and of lifetimes,
for every timeout and every margin of at least two timeouts (`MarginAssumption`; 300 and
15 seconds in the code),

| Theorem | Statement |
|---|---|
| `Invariance` | `Spec => []IInv` |
| `TypeCorrect` | `Spec => []TypeOK` |
| `TokensOutlive` | `Spec => []TokenOutlivesRequest` |
| `AlwaysAToken` | `Spec => []NeverBaseless` |
| `RefusedForgotten` | `Spec => []RefusedTokenForgotten` |
| `TokensShared` | `Spec => TokenShared` |

`IInv` adds that a request under way is within its timeout (`OnTime`), that the client
takes a token's end at most one timeout too late (`Reckoned`), and that a request began
with a token that had more than one timeout left (`Fresh`): a reused token by the margin,
a new one because its lifetime is more than two timeouts, which is a premise of the
property.

Every safety property that a passing run checks, invariant or action property, is so
proved for all values of the constants. Model-checked only are the liveness properties
`CallsReturn` and `Recovers` (fairness and `ENABLED` are beyond the prover). The
invariants the proofs rest on were checked by TLC on the instances of the runs before
they were proved.

## 5. What is not modelled

- Contents of answers, the JSON syntax of requests and responses, MD5 and AES.
  Their failures are outcomes of an await (`protocol`, `other`) or kinds of answer.
- `_record_direction_observations`: a statistic shown in diagnostics, without
  influence on any decision.
- Which Bluetooth scanner or proxy the connection uses (`last_connection_source`,
  `_resolve_best_device`), durations, time stamps and log messages.
- In the coordinator: the plant count, `authenticated`, `api_reachable` and time
  stamps, which nothing decides on. In `sensor.py`: the table of descriptions and the
  registry cleanup. In `api.py`: signatures, and `force`, which no caller sets.
- In `config_flow.py`: titles, form schemas, the texts of errors, and whether a selected
  device is still discovered (otherwise the form is shown again and nothing changes).
- In `local_protocol.py`: the arithmetic of `normalize_transmodbus_fields`, a table of
  register positions and scales without state, which its unit tests compare with
  captured values.
- The registry cleanup of `sensor.py`, which acts on Home Assistant's registry once per
  setup and decides nothing here.
- The rest of the diagnostics, constants, translations, images, the dashboard example,
  workflows.

## 6. Plan

Done: the modules of section 2, their runs, and proofs of all their safety properties.

Left, in order of importance:

1. An abstract `SerialReads` (at most one outstanding exchange, answers matched to
   questions) implemented by `SajSession` where no poll is cancelled and no answer is bad.
2. The number of frames of a message and that the next message's numbers follow them,
   as lemmas about `EncodeFrames`.
