------------------------------- MODULE ConfigFlow -------------------------------
(***************************************************************************)
(* The flows that make and mend config entries (config_flow.py): a user    *)
(* adds the integration, Bluetooth discovers an eManager, refused cloud    *)
(* credentials are replaced.  Several flows are under way at once; one     *)
(* step is the handling of one form, cut at the await of _validate_cloud.  *)
(*                                                                         *)
(* Home Assistant is external: it runs the forms of a flow one at a time,  *)
(* tells a flow that another one has its unique id, ends the others with   *)
(* the id of an entry that is created, and lets users ignore discoveries   *)
(* and remove entries.                                                     *)
(***************************************************************************)
EXTENDS FiniteSets, Sequences

CONSTANTS
  Flows,        \* flows that can be under way at once
  Devices,      \* addresses of eManagers
  Apps,         \* App IDs, stripped of blanks
  Secrets,      \* App Secrets
  NoDevice,     \* no Bluetooth address in the data of an entry
  NoCredential  \* no App ID and App Secret in it

Credentials == Apps \X Secrets

ASSUME NoneAssumption ==
  NoDevice \notin Devices /\ NoCredential \notin Credentials

VARIABLES
  flow,     \* the flow handlers, see FlowType
  entries,  \* the config entries of the integration
  verified  \* history: credentials the Open Platform has accepted

vars == <<flow, entries, verified>>

-----------------------------------------------------------------------------
Sources == {"local", "cloud"}

LocalId(d) == <<"local", d>>
CloudId(c) == <<"cloud", c[1]>>
NoId == <<>>

Ids == {LocalId(d) : d \in Devices} \cup {CloudId(c) : c \in Credentials}

Forms == {"user", "open_platform", "local_emanager", "bluetooth_confirm",
          "reauth_confirm"}

\* A flow's handler: its form or await, context and fields; `ended` is the reason
\* the last flow of a handler ended with.
FlowType ==
  [step : Forms \cup {"none", "validate"},
   source : {"none", "user", "bluetooth", "reauth"},
   id : Ids \cup {NoId},
   selected : SUBSET Sources,
   device : Devices \cup {NoDevice},          \* self._discovery
   submitted : Credentials \cup {NoCredential},
   credential : Credentials \cup {NoCredential},  \* in self._entry_data
   ended : {"none", "created", "already_configured", "already_in_progress",
            "reauth_successful", "aborted"}]

EntryType ==
  [id : Ids, sources : SUBSET Sources, device : Devices \cup {NoDevice},
   credential : Credentials \cup {NoCredential}, ignored : BOOLEAN]

New == [step |-> "none", source |-> "none", id |-> NoId, selected |-> {},
        device |-> NoDevice, submitted |-> NoCredential,
        credential |-> NoCredential, ended |-> "none"]

Init ==
  /\ flow = [f \in Flows |-> New]
  /\ entries = {}
  /\ verified = {}

-----------------------------------------------------------------------------
\* What Home Assistant does for a flow

Active(f) == flow[f].step # "none"

\* Variant: async_set_unique_id with raise_on_progress=False.
TakenNever(f, id) == FALSE

\* async_set_unique_id aborts: another flow has this id.
Taken(f, id) == \E g \in Flows \ {f} : Active(g) /\ flow[g].id = id

\* Variant: no _abort_if_unique_id_configured.
ConfiguredNever(id, source) == FALSE

\* _abort_if_unique_id_configured aborts; a user may add what was ignored.
Configured(id, source) ==
  \E e \in entries : e.id = id /\ ~(e.ignored /\ source = "user")

\* Flow f is over.
Ended(f, reason) == [New EXCEPT !.source = flow[f].source, !.ended = reason]

End(f, reason) ==
  /\ flow' = [flow EXCEPT ![f] = Ended(f, reason)]
  /\ UNCHANGED entries

Proceed(f, changed) ==
  /\ flow' = [flow EXCEPT ![f] = changed]
  /\ UNCHANGED entries

\* async_create_entry: an entry with the same id is replaced, and the other flows
\* with this id are aborted.
Create(f, e) ==
  /\ entries' = {o \in entries : o.id # e.id} \cup {e}
  /\ flow' = [g \in Flows |->
       IF g = f THEN Ended(f, "created")
       ELSE IF Active(g) /\ flow[g].id = e.id THEN Ended(g, "aborted")
       ELSE flow[g]]

\* The two checks every creation by a user passes, then the creation.
CreateChecked(f, e) ==
  \/ Taken(f, e.id) /\ End(f, "already_in_progress")
  \/ /\ ~Taken(f, e.id)
     /\ Configured(e.id, flow[f].source)
     /\ End(f, "already_configured")
  \/ /\ ~Taken(f, e.id)
     /\ ~Configured(e.id, flow[f].source)
     /\ Create(f, e)

\* Variant: the selection of a device sets no unique id, and the entry has that of
\* its flow, which a user's has not.
LocalEntryUnidentified(f, d) ==
  [id |-> flow[f].id, sources |-> flow[f].selected, device |-> d,
   credential |-> flow[f].credential, ignored |-> FALSE]

LocalEntry(f, d) ==
  [id |-> LocalId(d), sources |-> flow[f].selected, device |-> d,
   credential |-> flow[f].credential, ignored |-> FALSE]

CloudEntry(f, c) ==
  [id |-> CloudId(c), sources |-> flow[f].selected, device |-> NoDevice,
   credential |-> c, ignored |-> FALSE]

-----------------------------------------------------------------------------
\* A user adds the integration

UserBegins(f) ==
  /\ ~Active(f)
  /\ Proceed(f, [New EXCEPT !.step = "user", !.source = "user"])
  /\ UNCHANGED verified

\* async_step_user; without a source the form is shown again.
ChooseSources(f, chosen) ==
  /\ flow[f].step = "user"
  /\ chosen # {}
  /\ Proceed(f, [flow[f] EXCEPT !.selected = chosen,
                   !.step = IF "cloud" \in chosen THEN "open_platform"
                                                  ELSE "local_emanager"])
  /\ UNCHANGED verified

\* async_step_open_platform and async_step_reauth_confirm up to _validate_cloud.
SubmitCredential(f, c) ==
  /\ flow[f].step \in {"open_platform", "reauth_confirm"}
  /\ Proceed(f, [flow[f] EXCEPT !.step = "validate", !.submitted = c])
  /\ UNCHANGED verified

\* Variant: an error of the validation is shown, but the credentials are kept.
RefusedKeeping(f) ==
  /\ flow[f].step = "validate"
  /\ Proceed(f, [flow[f] EXCEPT !.submitted = NoCredential,
                   !.credential = flow[f].submitted, !.step = "local_emanager"])
  /\ UNCHANGED verified

\* Whatever _validate_cloud raises, the form is shown again.
Refused(f) ==
  /\ flow[f].step = "validate"
  /\ Proceed(f, [flow[f] EXCEPT !.submitted = NoCredential,
                   !.step = IF flow[f].source = "reauth" THEN "reauth_confirm"
                                                         ELSE "open_platform"])
  /\ UNCHANGED verified

\* Variant: with the credentials accepted the entry is created at once.
AcceptedOutright(f) ==
  /\ flow[f].step = "validate" /\ flow[f].source = "user"
  /\ verified' = verified \cup {flow[f].submitted}
  /\ CreateChecked(f, CloudEntry(f, flow[f].submitted))

Accepted(f) ==
  /\ flow[f].step = "validate"
  /\ flow[f].source = "user"
  /\ verified' = verified \cup {flow[f].submitted}
  /\ \/ /\ "local" \in flow[f].selected
        /\ Proceed(f, [flow[f] EXCEPT !.step = "local_emanager",
                         !.submitted = NoCredential,
                         !.credential = flow[f].submitted])
     \/ /\ "local" \notin flow[f].selected
        /\ CreateChecked(f, CloudEntry(f, flow[f].submitted))

\* Variant: the selected device gives the entry no unique id of its own.
SelectDeviceByApp(f, d) ==
  /\ flow[f].step = "local_emanager"
  /\ \/ flow[f].credential = NoCredential /\ CreateChecked(f, LocalEntry(f, d))
     \/ /\ flow[f].credential # NoCredential
        /\ CreateChecked(f, [LocalEntry(f, d) EXCEPT
                               !.id = CloudId(flow[f].credential)])
  /\ UNCHANGED verified

\* async_step_local_emanager, for a device that is still discovered; for another
\* the form is shown again.
SelectDevice(f, d) ==
  /\ flow[f].step = "local_emanager"
  /\ CreateChecked(f, LocalEntry(f, d))
  /\ UNCHANGED verified

-----------------------------------------------------------------------------
\* Bluetooth discovers a connectable device

\* async_step_bluetooth; otherwise the flow is aborted and nothing changes.
Discover(f, d) ==
  /\ ~Active(f)
  /\ ~Taken(f, LocalId(d))
  /\ ~Configured(LocalId(d), "bluetooth")
  /\ Proceed(f, [New EXCEPT !.step = "bluetooth_confirm", !.source = "bluetooth",
                            !.id = LocalId(d), !.selected = {"local"},
                            !.device = d])
  /\ UNCHANGED verified

\* Nothing is checked again: the id was set when the device was discovered.
Confirm(f) ==
  /\ flow[f].step = "bluetooth_confirm"
  /\ Create(f, LocalEntry(f, flow[f].device))
  /\ UNCHANGED verified

Ignore(f) ==
  /\ flow[f].step = "bluetooth_confirm"
  /\ Create(f, [LocalEntry(f, flow[f].device) EXCEPT
                  !.sources = {}, !.device = NoDevice, !.ignored = TRUE])
  /\ UNCHANGED verified

-----------------------------------------------------------------------------
\* Credentials are replaced

\* The coordinator raised ConfigEntryAuthFailed for e.
ReauthBegins(f, e) ==
  /\ ~Active(f)
  /\ "cloud" \in e.sources
  /\ \A g \in Flows : flow[g].source = "reauth" /\ Active(g) => flow[g].id # e.id
  /\ Proceed(f, [New EXCEPT !.step = "reauth_confirm", !.source = "reauth",
                            !.id = e.id])
  /\ UNCHANGED verified

\* The data of the entry changes, its unique id does not.
ReauthAccepted(f) ==
  /\ flow[f].step = "validate"
  /\ flow[f].source = "reauth"
  /\ verified' = verified \cup {flow[f].submitted}
  /\ entries' = {IF e.id = flow[f].id
                   THEN [e EXCEPT !.credential = flow[f].submitted] ELSE e :
                 e \in entries}
  /\ flow' = [flow EXCEPT ![f] = Ended(f, "reauth_successful")]

\* The user removes an entry, which ends its reauthentication.
Remove(e) ==
  /\ entries' = entries \ {e}
  /\ flow' = [g \in Flows |->
       IF flow[g].source = "reauth" /\ Active(g) /\ flow[g].id = e.id
         THEN Ended(g, "aborted") ELSE flow[g]]
  /\ UNCHANGED verified

\* The user closes a form.
Dismiss(f) ==
  /\ flow[f].step \in Forms
  /\ End(f, "aborted")
  /\ UNCHANGED verified

Next ==
  \/ \E f \in Flows :
       \/ UserBegins(f) \/ Refused(f) \/ Accepted(f) \/ Confirm(f) \/ Ignore(f)
       \/ ReauthAccepted(f) \/ Dismiss(f)
       \/ \E chosen \in SUBSET Sources : ChooseSources(f, chosen)
       \/ \E c \in Credentials : SubmitCredential(f, c)
       \/ \E d \in Devices : SelectDevice(f, d) \/ Discover(f, d)
       \/ \E e \in entries : ReauthBegins(f, e)
  \/ \E e \in entries : Remove(e)

Spec == Init /\ [][Next]_vars

-----------------------------------------------------------------------------
\* Properties

\* Types of flows and entries; no two entries have one id.
TypeOK ==
  /\ flow \in [Flows -> FlowType]
  /\ entries \subseteq EntryType
  /\ \A e, o \in entries : e.id = o.id => e = o
  /\ verified \subseteq Credentials

\* Two entries never poll one eManager, which serves one BLE client: however an
\* entry comes about, it is the only one of its device (config_flow.py:87-88,
\* 231-233).
OneEntryPerDevice ==
  \A e, o \in entries : e.device = o.device /\ e.device # NoDevice => e = o

\* An entry has the data its sources need, and no more, so that its setup finds
\* the keys it reads (config_flow.py:142-152, 244-253; __init__.py:31-41).
EntryComplete ==
  \A e \in entries :
    /\ "local" \in e.sources <=> e.device # NoDevice
    /\ "cloud" \in e.sources <=> e.credential # NoCredential
    /\ e.sources = {} <=> e.ignored

\* Stored credentials were accepted by the Open Platform: the texts of the form
\* say they are verified (config_flow.py:124-141, 182-196).
StoredVerified ==
  \A e \in entries : e.credential # NoCredential => e.credential \in verified

\* At most one flow is under way for an id, so that the confirmation of a discovery
\* needs no check of its own (config_flow.py:87-88, 98-102).
OneFlowPerId ==
  \A f, g \in Flows :
    Active(f) /\ Active(g) /\ flow[f].id = flow[g].id => f = g \/ flow[f].id = NoId

\* Creating an entry overwrites no other but an ignored one, whatever flows have
\* been started, dismissed or finished since its own began (config_flow.py:98-102,
\* 144-146, 231-233).
NothingOverwritten ==
  [][(\E f \in Flows : Active(f) /\ flow'[f].ended = "created")
       => \A e \in entries : e.ignored \/ e \in entries']_vars
=============================================================================
