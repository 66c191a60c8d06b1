--------------------------- MODULE ConfigFlow_proofs ---------------------------
(***************************************************************************)
(* Theorems about ConfigFlow, for every set of flows, devices, App IDs and *)
(* secrets: what the entries of the integration have in common, whatever   *)
(* flows are under way.                                                    *)
(***************************************************************************)
EXTENDS ConfigFlow, TLAPS

-----------------------------------------------------------------------------
\* The inductive invariant

\* What a handler h holds at each step of its flow, v being what is verified.
HandlerOf(h, v) ==
  /\ h.step = "none" => h.id = NoId
  /\ h.step # "none" => h.ended = "none"
  /\ h.step = "bluetooth_confirm" =>
       /\ h.source = "bluetooth"
       /\ h.device \in Devices
       /\ h.id = LocalId(h.device)
       /\ h.selected = {"local"}
       /\ h.credential = NoCredential
  /\ h.step \in {"user", "open_platform", "local_emanager"} =>
       h.source = "user" /\ h.id = NoId
  /\ h.step \in {"user", "open_platform"} => h.credential = NoCredential
  /\ h.step = "open_platform" => "cloud" \in h.selected
  /\ h.step = "local_emanager" =>
       /\ "local" \in h.selected
       /\ "cloud" \in h.selected <=> h.credential # NoCredential
       /\ h.credential # NoCredential => h.credential \in v
  /\ h.step = "reauth_confirm" => h.source = "reauth" /\ h.id \in Ids
  /\ h.step = "validate" =>
       /\ h.submitted \in Credentials
       /\ \/ h.source = "reauth" /\ h.id \in Ids
          \/ /\ h.source = "user" /\ h.id = NoId
             /\ h.credential = NoCredential
             /\ "cloud" \in h.selected

\* An entry's data fit its sources, and its device gives it its id.
EntryOf(e, v) ==
  /\ "local" \in e.sources <=> e.device # NoDevice
  /\ "cloud" \in e.sources <=> e.credential # NoCredential
  /\ e.sources = {} <=> e.ignored
  /\ e.credential # NoCredential => e.credential \in v
  /\ e.device # NoDevice => e.id = LocalId(e.device)

\* A discovery that waits has no entry yet; the entry of a reauthentication has an
\* account.
Waiting(h, e) ==
  h.id = e.id =>
    /\ h.step # "bluetooth_confirm"
    /\ h.source = "reauth" => "cloud" \in e.sources

IInv ==
  /\ TypeOK
  /\ OneFlowPerId
  /\ \A f \in Flows : HandlerOf(flow[f], verified)
  /\ \A e \in entries : EntryOf(e, verified)
  /\ \A f \in Flows, e \in entries : Waiting(flow[f], e)

-----------------------------------------------------------------------------
\* Unique ids

LEMMA IdsDiffer ==
  /\ NoId \notin Ids
  /\ \A d, e : LocalId(d) = LocalId(e) => d = e
  /\ \A d \in Devices : LocalId(d) \in Ids
  /\ \A c \in Credentials : CloudId(c) \in Ids
  /\ \A d, c : LocalId(d) # CloudId(c)
  BY DEF NoId, Ids, LocalId, CloudId

LEMMA NewType == New \in FlowType /\ New.step = "none" /\ New.id = NoId
  BY DEF New, FlowType

LEMMA EndedType ==
  ASSUME TypeOK, NEW f \in Flows,
         NEW reason \in {"created", "already_configured", "already_in_progress",
                         "reauth_successful", "aborted"}
  PROVE  /\ Ended(f, reason) \in FlowType
         /\ Ended(f, reason).step = "none"
         /\ Ended(f, reason).id = NoId
         /\ Ended(f, reason).ended = reason
         /\ \A v : HandlerOf(Ended(f, reason), v)
         /\ \A e \in EntryType : Waiting(Ended(f, reason), e)
<1>1. flow[f] \in FlowType
  BY DEF TypeOK
<1>2. /\ Ended(f, reason) \in FlowType
      /\ Ended(f, reason).step = "none"
      /\ Ended(f, reason).id = NoId
      /\ Ended(f, reason).ended = reason
  BY <1>1 DEF Ended, New, FlowType
<1>3. \A v : HandlerOf(Ended(f, reason), v)
  BY <1>2 DEF HandlerOf
<1>4. \A e \in EntryType : Waiting(Ended(f, reason), e)
  BY <1>2, IdsDiffer DEF Waiting, EntryType
<1> QED
  BY <1>2, <1>3, <1>4

\* What is verified stays verified.
LEMMA VerifiedMore ==
  ASSUME NEW v, NEW w, v \subseteq w
  PROVE  /\ \A h \in FlowType : HandlerOf(h, v) => HandlerOf(h, w)
         /\ \A e \in EntryType : EntryOf(e, v) => EntryOf(e, w)
  BY DEF HandlerOf, EntryOf

-----------------------------------------------------------------------------
\* Two kinds of step

\* One handler changes, and no entry.
LEMMA ProceedInv ==
  ASSUME IInv, NEW f \in Flows, NEW h \in FlowType,
         Proceed(f, h),
         verified \subseteq verified', verified' \subseteq Credentials,
         HandlerOf(h, verified'),
         \A e \in entries : Waiting(h, e),
         \A g \in Flows \ {f} : Active(g) /\ h.step # "none" /\ flow[g].id = h.id
                                  => h.id = NoId
  PROVE  IInv'
<1>1. /\ flow \in [Flows -> FlowType]
      /\ entries \subseteq EntryType
      /\ \A e, o \in entries : e.id = o.id => e = o
  BY DEF IInv, TypeOK
<1>2. /\ flow' \in [Flows -> FlowType]
      /\ flow'[f] = h
      /\ \A g \in Flows \ {f} : flow'[g] = flow[g]
      /\ entries' = entries
  BY <1>1 DEF Proceed
<1>3. TypeOK'
  BY <1>1, <1>2 DEF TypeOK
<1>4. OneFlowPerId'
  BY <1>2 DEF OneFlowPerId, IInv, Active
<1>5. \A g \in Flows : HandlerOf(flow'[g], verified')
  BY <1>1, <1>2, VerifiedMore DEF IInv
<1>6. \A e \in entries' : EntryOf(e, verified')
  BY <1>1, <1>2, VerifiedMore DEF IInv
<1>7. \A g \in Flows, e \in entries' : Waiting(flow'[g], e)
  BY <1>2 DEF IInv
<1> QED
  BY <1>3, <1>4, <1>5, <1>6, <1>7 DEF IInv

LEMMA EndInv ==
  ASSUME IInv, NEW f \in Flows,
         NEW reason \in {"created", "already_configured", "already_in_progress",
                         "reauth_successful", "aborted"},
         End(f, reason),
         verified \subseteq verified', verified' \subseteq Credentials
  PROVE  IInv'
<1>1. TypeOK /\ entries \subseteq EntryType
  BY DEF IInv, TypeOK
<1>2. Proceed(f, Ended(f, reason))
  BY DEF End, Proceed
<1> QED
  BY <1>1, <1>2, EndedType, ProceedInv

\* An entry is created: it takes the place of those with its id, and the flows with
\* its id end.
LEMMA CreateInv ==
  ASSUME IInv, NEW f \in Flows, NEW e \in EntryType, EntryOf(e, verified'),
         Create(f, e),
         verified \subseteq verified', verified' \subseteq Credentials
  PROVE  IInv'
<1>1. /\ flow \in [Flows -> FlowType]
      /\ entries \subseteq EntryType
      /\ \A o, p \in entries : o.id = p.id => o = p
      /\ TypeOK
  BY DEF IInv, TypeOK
<1>2. entries' = {o \in entries : o.id # e.id} \cup {e}
  BY DEF Create
<1>3. \A g \in Flows :
        \/ \E reason \in {"created", "aborted"} : flow'[g] = Ended(g, reason)
        \/ flow'[g] = flow[g] /\ ~(Active(g) /\ flow[g].id = e.id)
  BY DEF Create
<1>4. DOMAIN flow' = Flows /\ flow' = [g \in Flows |-> flow'[g]]
  BY DEF Create
<1>5. \A g \in Flows : flow'[g] \in FlowType
  BY <1>1, <1>3, EndedType
<1>6. TypeOK'
  BY <1>1, <1>2, <1>4, <1>5 DEF TypeOK
<1>7. \A g \in Flows : flow'[g].step # "none" => flow'[g] = flow[g]
  BY <1>1, <1>3, EndedType
<1>8. OneFlowPerId'
  BY <1>7 DEF OneFlowPerId, IInv, Active
<1>9. \A g \in Flows : HandlerOf(flow'[g], verified')
  BY <1>1, <1>3, EndedType, VerifiedMore DEF IInv
<1>10. \A o \in entries' : EntryOf(o, verified')
  BY <1>1, <1>2, VerifiedMore DEF IInv
<1>11. ASSUME NEW g \in Flows, NEW o \in entries'
       PROVE  Waiting(flow'[g], o)
  <2>1. o \in EntryType
    BY <1>1, <1>2
  <2>2. CASE \E reason \in {"created", "aborted"} : flow'[g] = Ended(g, reason)
    BY <1>1, <2>1, <2>2, EndedType
  <2>3. CASE flow'[g] = flow[g] /\ ~(Active(g) /\ flow[g].id = e.id)
    <3>1. CASE o \in entries
      BY <2>3, <3>1 DEF IInv
    <3>2. CASE o = e
      <4>1. flow[g].id = e.id => flow[g].step = "none"
        BY <2>3 DEF Active
      <4>2. flow[g].step = "none" => flow[g].id = NoId
        BY DEF IInv, HandlerOf
      <4>3. e.id # NoId
        BY IdsDiffer DEF EntryType
      <4> QED
        BY <2>3, <3>2, <4>1, <4>2, <4>3 DEF Waiting
    <3> QED
      BY <1>2, <3>1, <3>2
  <2> QED
    BY <1>3, <2>2, <2>3
<1> QED
  BY <1>6, <1>8, <1>9, <1>10, <1>11 DEF IInv

LEMMA CreateCheckedInv ==
  ASSUME IInv, NEW f \in Flows, NEW e \in EntryType, EntryOf(e, verified'),
         CreateChecked(f, e),
         verified \subseteq verified', verified' \subseteq Credentials
  PROVE  IInv'
<1>1. CASE End(f, "already_in_progress")
  BY <1>1, EndInv
<1>2. CASE End(f, "already_configured")
  BY <1>2, EndInv
<1>3. CASE Create(f, e)
  BY <1>3, CreateInv
<1> QED
  BY <1>1, <1>2, <1>3 DEF CreateChecked

-----------------------------------------------------------------------------
\* Each step keeps the invariant

\* What the steps below use of the invariant.
LEMMA Known ==
  ASSUME IInv
  PROVE  /\ TypeOK
         /\ flow \in [Flows -> FlowType]
         /\ entries \subseteq EntryType
         /\ verified \subseteq Credentials
         /\ \A f \in Flows : HandlerOf(flow[f], verified)
         /\ \A e \in entries : EntryOf(e, verified)
         /\ \A f \in Flows, e \in entries : Waiting(flow[f], e)
         /\ \A e \in entries : e.id # NoId
  BY IdsDiffer DEF IInv, TypeOK, EntryType

LEMMA InitInv == Init => IInv
<1> SUFFICES ASSUME Init PROVE IInv
  OBVIOUS
<1>1. \A f \in Flows : flow[f] = New
  BY DEF Init
<1>2. TypeOK
  BY NewType DEF Init, TypeOK
<1>3. OneFlowPerId
  BY <1>1, NewType DEF OneFlowPerId, Active
<1>4. \A f \in Flows : HandlerOf(flow[f], verified)
  BY <1>1, NewType DEF HandlerOf
<1> QED
  BY <1>2, <1>3, <1>4 DEF Init, IInv

\* A flow without an id waits for no entry.
LEMMA NoIdWaits ==
  ASSUME IInv, NEW h, h.id = NoId
  PROVE  \A e \in entries : Waiting(h, e)
  BY Known DEF Waiting

LEMMA UserBeginsInv ==
  ASSUME IInv, NEW f \in Flows, UserBegins(f)
  PROVE  IInv'
<1> DEFINE h == [New EXCEPT !.step = "user", !.source = "user"]
<1>1. h \in FlowType
  BY DEF New, FlowType, Forms
<1>2. h.id = NoId /\ HandlerOf(h, verified)
  BY DEF New, HandlerOf
<1>3. Proceed(f, h) /\ verified' = verified /\ verified \subseteq Credentials
  BY Known DEF UserBegins
<1> HIDE DEF h
<1> QED
  BY <1>1, <1>2, <1>3, NoIdWaits, ProceedInv

LEMMA ChooseSourcesInv ==
  ASSUME IInv, NEW f \in Flows, NEW chosen \in SUBSET Sources,
         ChooseSources(f, chosen)
  PROVE  IInv'
<1> DEFINE step == IF "cloud" \in chosen THEN "open_platform" ELSE "local_emanager"
           h == [flow[f] EXCEPT !.selected = chosen, !.step = step]
<1>1. flow[f] \in FlowType /\ flow[f].step = "user" /\ chosen # {}
  BY Known DEF ChooseSources
<1>2. h \in FlowType
  BY <1>1 DEF FlowType, Forms
<1>3. HandlerOf(flow[f], verified)
  BY Known
<1>4. "cloud" \notin chosen => "local" \in chosen
  BY <1>1 DEF Sources
<1>5. /\ h.step = step /\ h.selected = chosen /\ h.source = flow[f].source
      /\ h.id = flow[f].id /\ h.credential = flow[f].credential
      /\ h.ended = flow[f].ended
  BY <1>1 DEF FlowType
<1>6. Proceed(f, h) /\ verified' = verified /\ verified \subseteq Credentials
  BY Known DEF ChooseSources
<1> HIDE DEF h
<1>7. h.id = NoId /\ HandlerOf(h, verified)
  BY <1>1, <1>3, <1>4, <1>5 DEF HandlerOf
<1> QED
  BY <1>2, <1>6, <1>7, NoIdWaits, ProceedInv

\* A flow that goes on under its id, to another form than the confirmation of a
\* discovery.
LEMMA GoesOnInv ==
  ASSUME IInv, NEW f \in Flows, NEW h \in FlowType,
         Active(f), Proceed(f, h), verified' = verified,
         h.id = flow[f].id, h.source = flow[f].source,
         h.step # "bluetooth_confirm", HandlerOf(h, verified)
  PROVE  IInv'
<1>1. \A e \in entries : Waiting(h, e)
  BY Known DEF Waiting
<1>2. \A g \in Flows \ {f} : Active(g) /\ h.step # "none" /\ flow[g].id = h.id
                               => h.id = NoId
  BY DEF IInv, OneFlowPerId
<1> QED
  BY <1>1, <1>2, Known, ProceedInv

LEMMA SubmitCredentialInv ==
  ASSUME IInv, NEW f \in Flows, NEW c \in Credentials, SubmitCredential(f, c)
  PROVE  IInv'
<1> DEFINE h == [flow[f] EXCEPT !.step = "validate", !.submitted = c]
<1>1. flow[f] \in FlowType /\ flow[f].step \in {"open_platform", "reauth_confirm"}
  BY Known DEF SubmitCredential
<1>2. h \in FlowType
  BY <1>1 DEF FlowType
<1>3. /\ h.step = "validate" /\ h.submitted = c /\ h.selected = flow[f].selected
      /\ h.source = flow[f].source /\ h.id = flow[f].id
      /\ h.credential = flow[f].credential /\ h.ended = flow[f].ended
  BY <1>1 DEF FlowType
<1>4. HandlerOf(flow[f], verified)
  BY Known
<1>5. Active(f) /\ Proceed(f, h) /\ verified' = verified
  BY <1>1 DEF SubmitCredential, Active
<1> HIDE DEF h
<1>6. HandlerOf(h, verified)
  BY <1>1, <1>3, <1>4 DEF HandlerOf
<1> QED
  BY <1>2, <1>3, <1>5, <1>6, GoesOnInv

LEMMA RefusedInv ==
  ASSUME IInv, NEW f \in Flows, Refused(f)
  PROVE  IInv'
<1> DEFINE step == IF flow[f].source = "reauth" THEN "reauth_confirm"
                                                ELSE "open_platform"
           h == [flow[f] EXCEPT !.submitted = NoCredential, !.step = step]
<1>1. flow[f] \in FlowType /\ flow[f].step = "validate"
  BY Known DEF Refused
<1>2. h \in FlowType
  BY <1>1 DEF FlowType, Forms
<1>3. /\ h.step = step /\ h.selected = flow[f].selected
      /\ h.source = flow[f].source /\ h.id = flow[f].id
      /\ h.credential = flow[f].credential /\ h.ended = flow[f].ended
  BY <1>1 DEF FlowType
<1>4. HandlerOf(flow[f], verified)
  BY Known
<1>5. Active(f) /\ Proceed(f, h) /\ verified' = verified
  BY <1>1 DEF Refused, Active
<1> HIDE DEF h
<1>6. HandlerOf(h, verified)
  BY <1>1, <1>3, <1>4 DEF HandlerOf
<1> QED
  BY <1>2, <1>3, <1>5, <1>6, GoesOnInv

\* An entry for the device d made by a flow that waits for the selection of one.
LEMMA LocalEntryType ==
  ASSUME IInv, NEW f \in Flows, NEW d \in Devices,
         flow[f].step = "local_emanager" \/ flow[f].step = "bluetooth_confirm"
  PROVE  /\ LocalEntry(f, d) \in EntryType
         /\ EntryOf(LocalEntry(f, d), verified)
<1>1. flow[f] \in FlowType /\ HandlerOf(flow[f], verified)
  BY Known
<1>2. LocalEntry(f, d) \in EntryType
  BY <1>1, IdsDiffer DEF LocalEntry, EntryType, FlowType
<1>3. d # NoDevice
  BY NoneAssumption
<1>4. "local" \in flow[f].selected
  BY <1>1 DEF HandlerOf
<1>5. EntryOf(LocalEntry(f, d), verified)
  BY <1>1, <1>3, <1>4 DEF LocalEntry, EntryOf, HandlerOf
<1> QED
  BY <1>2, <1>5

LEMMA AcceptedInv ==
  ASSUME IInv, NEW f \in Flows, Accepted(f)
  PROVE  IInv'
<1> DEFINE c == flow[f].submitted
           h == [flow[f] EXCEPT !.step = "local_emanager",
                   !.submitted = NoCredential, !.credential = c]
<1>1. /\ flow[f] \in FlowType /\ HandlerOf(flow[f], verified)
      /\ flow[f].step = "validate" /\ flow[f].source = "user"
      /\ verified' = verified \cup {c}
  BY Known DEF Accepted
<1>2. /\ c \in Credentials /\ flow[f].id = NoId /\ "cloud" \in flow[f].selected
      /\ c # NoCredential /\ flow[f].ended = "none"
  BY <1>1, NoneAssumption DEF HandlerOf
<1>3. verified \subseteq verified' /\ verified' \subseteq Credentials /\ c \in verified'
  BY <1>1, <1>2, Known
<1>4. CASE "local" \in flow[f].selected /\ Proceed(f, h)
  <2>1. h \in FlowType
    BY <1>1, <1>2 DEF FlowType, Forms
  <2>2. /\ h.step = "local_emanager" /\ h.selected = flow[f].selected
        /\ h.source = "user" /\ h.id = NoId /\ h.credential = c
        /\ h.ended = "none"
    BY <1>1, <1>2 DEF FlowType
  <2> HIDE DEF h, c
  <2>3. HandlerOf(h, verified')
    BY <1>2, <1>3, <1>4, <2>2 DEF HandlerOf
  <2> QED
    BY <1>3, <1>4, <2>1, <2>2, <2>3, NoIdWaits, ProceedInv
<1>5. CASE "local" \notin flow[f].selected /\ CreateChecked(f, CloudEntry(f, c))
  <2>1. CloudEntry(f, c) \in EntryType
    BY <1>1, <1>2, IdsDiffer DEF CloudEntry, EntryType, FlowType
  <2>2. EntryOf(CloudEntry(f, c), verified')
    BY <1>2, <1>3, <1>5 DEF CloudEntry, EntryOf
  <2> QED
    BY <1>3, <1>5, <2>1, <2>2, CreateCheckedInv
<1> QED
  BY <1>4, <1>5 DEF Accepted

LEMMA SelectDeviceInv ==
  ASSUME IInv, NEW f \in Flows, NEW d \in Devices, SelectDevice(f, d)
  PROVE  IInv'
<1>1. LocalEntry(f, d) \in EntryType /\ EntryOf(LocalEntry(f, d), verified)
  BY LocalEntryType DEF SelectDevice
<1>2. /\ CreateChecked(f, LocalEntry(f, d))
      /\ verified' = verified /\ verified \subseteq Credentials
  BY Known DEF SelectDevice
<1> QED
  BY <1>1, <1>2, CreateCheckedInv

LEMMA DiscoverInv ==
  ASSUME IInv, NEW f \in Flows, NEW d \in Devices, Discover(f, d)
  PROVE  IInv'
<1> DEFINE h == [New EXCEPT !.step = "bluetooth_confirm", !.source = "bluetooth",
                            !.id = LocalId(d), !.selected = {"local"}, !.device = d]
<1>1. h \in FlowType
  BY IdsDiffer DEF New, FlowType, Forms, Sources
<1>2. h.id = LocalId(d) /\ HandlerOf(h, verified) /\ h.source = "bluetooth"
  BY DEF New, HandlerOf
<1>3. Proceed(f, h) /\ verified' = verified /\ verified \subseteq Credentials
  BY Known DEF Discover
<1>4. \A e \in entries : e.id # LocalId(d)
  BY DEF Discover, Configured
<1>5. \A g \in Flows \ {f} : Active(g) => flow[g].id # LocalId(d)
  BY DEF Discover, Taken
<1> HIDE DEF h
<1>6. \A e \in entries : Waiting(h, e)
  BY <1>2, <1>4 DEF Waiting
<1> QED
  BY <1>1, <1>2, <1>3, <1>5, <1>6, ProceedInv

\* The flow of a discovery has its device.
LEMMA Discovered ==
  ASSUME IInv, NEW f \in Flows, flow[f].step = "bluetooth_confirm"
  PROVE  /\ flow[f].device \in Devices
         /\ LocalEntry(f, flow[f].device) \in EntryType
         /\ EntryOf(LocalEntry(f, flow[f].device), verified)
         /\ LocalEntry(f, flow[f].device).id = flow[f].id
         /\ LocalEntry(f, flow[f].device).credential = NoCredential
<1>1. flow[f].device \in Devices /\ flow[f].id = LocalId(flow[f].device)
      /\ flow[f].credential = NoCredential
  BY Known DEF HandlerOf
<1> QED
  BY <1>1, LocalEntryType DEF LocalEntry

LEMMA ConfirmInv ==
  ASSUME IInv, NEW f \in Flows, Confirm(f)
  PROVE  IInv'
<1>1. /\ flow[f].step = "bluetooth_confirm"
      /\ Create(f, LocalEntry(f, flow[f].device))
      /\ verified' = verified /\ verified \subseteq Credentials
  BY Known DEF Confirm
<1> QED
  BY <1>1, Discovered, CreateInv

LEMMA IgnoreInv ==
  ASSUME IInv, NEW f \in Flows, Ignore(f)
  PROVE  IInv'
<1> DEFINE e == LocalEntry(f, flow[f].device)
           o == [e EXCEPT !.sources = {}, !.device = NoDevice, !.ignored = TRUE]
<1>1. /\ flow[f].step = "bluetooth_confirm"
      /\ Create(f, o)
      /\ verified' = verified /\ verified \subseteq Credentials
  BY Known DEF Ignore
<1>2. e \in EntryType /\ e.credential = NoCredential
  BY <1>1, Discovered
<1> HIDE DEF e
<1>3. o \in EntryType
  BY <1>2 DEF EntryType
<1>4. EntryOf(o, verified)
  BY <1>2 DEF EntryType, EntryOf
<1> QED
  BY <1>1, <1>3, <1>4, CreateInv

LEMMA ReauthBeginsInv ==
  ASSUME IInv, NEW f \in Flows, NEW e \in entries, ReauthBegins(f, e)
  PROVE  IInv'
<1> DEFINE h == [New EXCEPT !.step = "reauth_confirm", !.source = "reauth",
                            !.id = e.id]
<1>1. e \in EntryType
  BY Known
<1>2. h \in FlowType
  BY <1>1 DEF New, FlowType, Forms, EntryType
<1>3. h.id = e.id /\ h.step = "reauth_confirm" /\ HandlerOf(h, verified)
  BY <1>1 DEF New, HandlerOf, EntryType
<1>4. /\ Proceed(f, h) /\ verified' = verified /\ verified \subseteq Credentials
      /\ "cloud" \in e.sources
  BY Known DEF ReauthBegins
<1> HIDE DEF h
<1>5. \A o \in entries : Waiting(h, o)
  BY <1>3, <1>4 DEF IInv, TypeOK, Waiting
<1>6. \A g \in Flows \ {f} : Active(g) => flow[g].id # e.id
  <2> SUFFICES ASSUME NEW g \in Flows \ {f}, Active(g), flow[g].id = e.id
               PROVE  FALSE
    OBVIOUS
  <2>1. flow[g].step # "bluetooth_confirm" /\ e.id # NoId
    BY Known DEF Waiting
  <2>2. flow[g].source = "reauth"
    BY <2>1, Known DEF HandlerOf, Active, FlowType, Forms
  <2> QED
    BY <2>2 DEF ReauthBegins
<1> QED
  BY <1>2, <1>3, <1>4, <1>5, <1>6, ProceedInv

LEMMA ReauthAcceptedInv ==
  ASSUME IInv, NEW f \in Flows, ReauthAccepted(f)
  PROVE  IInv'
<1> DEFINE c == flow[f].submitted
           Mended(e) == IF e.id = flow[f].id
                          THEN [e EXCEPT !.credential = c] ELSE e
<1>1. /\ flow[f].step = "validate" /\ flow[f].source = "reauth"
      /\ verified' = verified \cup {c}
      /\ entries' = {Mended(e) : e \in entries}
      /\ flow' = [flow EXCEPT ![f] = Ended(f, "reauth_successful")]
  BY DEF ReauthAccepted
<1>2. c \in Credentials /\ c # NoCredential
  BY <1>1, Known, NoneAssumption DEF HandlerOf
<1>3. verified \subseteq verified' /\ verified' \subseteq Credentials /\ c \in verified'
  BY <1>1, <1>2, Known
<1>4. ASSUME NEW e \in entries
      PROVE  /\ Mended(e) \in EntryType
             /\ Mended(e).id = e.id
             /\ Mended(e).sources = e.sources
             /\ EntryOf(Mended(e), verified')
  <2>1. e \in EntryType /\ EntryOf(e, verified) /\ Waiting(flow[f], e)
    BY Known
  <2>2. EntryOf(e, verified')
    BY <1>3, <2>1, VerifiedMore
  <2>3. CASE e.id # flow[f].id
    BY <2>1, <2>2, <2>3
  <2>4. CASE e.id = flow[f].id
    <3> DEFINE o == [e EXCEPT !.credential = c]
    <3>1. o \in EntryType
      BY <1>2, <2>1 DEF EntryType
    <3>2. /\ o.id = e.id /\ o.sources = e.sources /\ o.device = e.device
          /\ o.ignored = e.ignored /\ o.credential = c
      BY <2>1 DEF EntryType
    <3>3. "cloud" \in e.sources
      BY <1>1, <2>1, <2>4 DEF Waiting
    <3>4. EntryOf(o, verified')
      BY <1>2, <1>3, <2>1, <3>2, <3>3 DEF EntryOf
    <3> QED
      BY <2>4, <3>1, <3>2, <3>4
  <2> QED
    BY <2>3, <2>4
<1> HIDE DEF Mended, c
<1>5. \A o \in entries' : \E e \in entries : o = Mended(e)
  BY <1>1
<1>6. /\ entries' \subseteq EntryType
      /\ \A o \in entries' : EntryOf(o, verified')
      /\ \A o, p \in entries' : o.id = p.id => o = p
  BY <1>4, <1>5 DEF IInv, TypeOK
<1>7. /\ flow' \in [Flows -> FlowType]
      /\ flow'[f] = Ended(f, "reauth_successful")
      /\ \A g \in Flows \ {f} : flow'[g] = flow[g]
  BY <1>1, Known, EndedType
<1>8. TypeOK'
  BY <1>3, <1>6, <1>7 DEF TypeOK
<1>9. OneFlowPerId'
  BY <1>7, Known, EndedType DEF OneFlowPerId, IInv, Active
<1>10. \A g \in Flows : HandlerOf(flow'[g], verified')
  <2>1. \A g \in Flows \ {f} : HandlerOf(flow[g], verified')
    BY <1>3, Known, VerifiedMore
  <2>2. HandlerOf(flow'[f], verified')
    BY <1>7, Known, EndedType
  <2> QED
    BY <1>7, <2>1, <2>2
<1>11. \A g \in Flows, o \in entries' : Waiting(flow'[g], o)
  <2> SUFFICES ASSUME NEW g \in Flows, NEW o \in entries' PROVE Waiting(flow'[g], o)
    OBVIOUS
  <2>1. PICK e \in entries : o = Mended(e)
    BY <1>5
  <2>2. o \in EntryType /\ o.id = e.id /\ o.sources = e.sources
    BY <1>4, <2>1
  <2>3. CASE g = f
    BY <1>7, <2>2, <2>3, Known, EndedType
  <2>4. CASE g # f
    BY <1>7, <2>2, <2>4, Known DEF Waiting
  <2> QED
    BY <2>3, <2>4
<1> QED
  BY <1>6, <1>8, <1>9, <1>10, <1>11 DEF IInv

LEMMA RemoveInv ==
  ASSUME IInv, NEW e \in entries, Remove(e)
  PROVE  IInv'
<1>1. entries' \subseteq entries /\ verified' = verified
  BY DEF Remove
<1>2. \A g \in Flows : flow'[g] = Ended(g, "aborted") \/ flow'[g] = flow[g]
  BY DEF Remove
<1>3. flow' = [g \in Flows |-> flow'[g]]
  BY DEF Remove
<1>4. \A g \in Flows : flow'[g] \in FlowType
  BY <1>2, Known, EndedType
<1>5. TypeOK'
  BY <1>1, <1>3, <1>4 DEF IInv, TypeOK
<1>6. \A g \in Flows : flow'[g].step # "none" => flow'[g] = flow[g]
  BY <1>2, Known, EndedType
<1>7. OneFlowPerId'
  BY <1>6 DEF OneFlowPerId, IInv, Active
<1>8. \A g \in Flows : HandlerOf(flow'[g], verified')
  BY <1>1, <1>2, Known, EndedType
<1>9. \A o \in entries' : EntryOf(o, verified')
  BY <1>1, Known
<1>10. \A g \in Flows, o \in entries' : Waiting(flow'[g], o)
  BY <1>1, <1>2, Known, EndedType
<1> QED
  BY <1>5, <1>7, <1>8, <1>9, <1>10 DEF IInv

LEMMA DismissInv ==
  ASSUME IInv, NEW f \in Flows, Dismiss(f)
  PROVE  IInv'
  BY Known, EndInv DEF Dismiss

LEMMA NextInv == IInv /\ [Next]_vars => IInv'
<1> SUFFICES ASSUME IInv, [Next]_vars PROVE IInv'
  OBVIOUS
<1>1. ASSUME NEW f \in Flows,
             \/ UserBegins(f) \/ Refused(f) \/ Accepted(f) \/ Confirm(f) \/ Ignore(f)
             \/ ReauthAccepted(f) \/ Dismiss(f)
      PROVE  IInv'
  BY <1>1, UserBeginsInv, RefusedInv, AcceptedInv, ConfirmInv, IgnoreInv,
     ReauthAcceptedInv, DismissInv
<1>2. ASSUME NEW f \in Flows, NEW chosen \in SUBSET Sources, ChooseSources(f, chosen)
      PROVE  IInv'
  BY <1>2, ChooseSourcesInv
<1>3. ASSUME NEW f \in Flows, NEW c \in Credentials, SubmitCredential(f, c)
      PROVE  IInv'
  BY <1>3, SubmitCredentialInv
<1>4. ASSUME NEW f \in Flows, NEW d \in Devices, SelectDevice(f, d) \/ Discover(f, d)
      PROVE  IInv'
  BY <1>4, SelectDeviceInv, DiscoverInv
<1>5. ASSUME NEW f \in Flows, NEW e \in entries, ReauthBegins(f, e)
      PROVE  IInv'
  BY <1>5, ReauthBeginsInv
<1>6. ASSUME NEW e \in entries, Remove(e)
      PROVE  IInv'
  BY <1>6, RemoveInv
<1>7. CASE UNCHANGED vars
  BY <1>7 DEF vars, IInv, TypeOK, OneFlowPerId, Active
<1> QED
  BY <1>1, <1>2, <1>3, <1>4, <1>5, <1>6, <1>7 DEF Next

-----------------------------------------------------------------------------
\* What a creation leaves of the entries

Overwrites ==
  /\ \E f \in Flows : Active(f) /\ flow'[f].ended = "created"
  /\ \E e \in entries : ~e.ignored /\ e \notin entries'

LEMMA CheckedSpares ==
  ASSUME IInv, NEW f \in Flows, NEW e, flow[f].source = "user", CreateChecked(f, e)
  PROVE  ~Overwrites
<1>1. CASE UNCHANGED entries
  BY <1>1 DEF Overwrites
<1>2. CASE ~Configured(e.id, "user") /\ Create(f, e)
  <2>1. \A o \in entries : o.id = e.id => o.ignored
    BY <1>2 DEF Configured
  <2>2. \A o \in entries : o.id # e.id => o \in entries'
    BY <1>2 DEF Create
  <2> QED
    BY <2>1, <2>2 DEF Overwrites
<1> QED
  BY <1>1, <1>2 DEF CreateChecked, End

LEMMA ConfirmedSpares ==
  ASSUME IInv, NEW f \in Flows, NEW e, flow[f].step = "bluetooth_confirm",
         e.id = flow[f].id, Create(f, e)
  PROVE  ~Overwrites
<1>1. \A o \in entries : o.id # e.id
  BY Known DEF Waiting
<1> QED
  BY <1>1 DEF Create, Overwrites

LEMMA NeverOverwrites == IInv /\ [Next]_vars => ~Overwrites
<1> SUFFICES ASSUME IInv, [Next]_vars PROVE ~Overwrites
  OBVIOUS
<1>1. CASE UNCHANGED entries
  BY <1>1 DEF Overwrites
<1>2. ASSUME NEW f \in Flows, Accepted(f)
      PROVE  ~Overwrites
  <2>1. CASE UNCHANGED entries
    BY <2>1 DEF Overwrites
  <2>2. CASE CreateChecked(f, CloudEntry(f, flow[f].submitted))
    BY <1>2, <2>2, CheckedSpares DEF Accepted
  <2> QED
    BY <1>2, <2>1, <2>2 DEF Accepted, Proceed
<1>3. ASSUME NEW f \in Flows, NEW d \in Devices, SelectDevice(f, d)
      PROVE  ~Overwrites
  <2>1. flow[f].source = "user"
    BY <1>3, Known DEF SelectDevice, HandlerOf
  <2> QED
    BY <1>3, <2>1, CheckedSpares DEF SelectDevice
<1>4. ASSUME NEW f \in Flows, Confirm(f)
      PROVE  ~Overwrites
  BY <1>4, Discovered, ConfirmedSpares DEF Confirm
<1>5. ASSUME NEW f \in Flows, Ignore(f)
      PROVE  ~Overwrites
  <2> DEFINE e == LocalEntry(f, flow[f].device)
             o == [e EXCEPT !.sources = {}, !.device = NoDevice, !.ignored = TRUE]
  <2>1. e \in EntryType /\ e.id = flow[f].id
    BY <1>5, Discovered DEF Ignore
  <2> HIDE DEF e
  <2>2. o.id = flow[f].id
    BY <2>1 DEF EntryType
  <2>3. flow[f].step = "bluetooth_confirm" /\ Create(f, o)
    BY <1>5 DEF Ignore, e
  <2> QED
    BY <2>2, <2>3, ConfirmedSpares
<1>6. ASSUME NEW f \in Flows, ReauthAccepted(f)
      PROVE  ~Overwrites
  <2>1. /\ flow'[f] = Ended(f, "reauth_successful")
        /\ \A g \in Flows \ {f} : flow'[g] = flow[g]
    BY <1>6, Known DEF ReauthAccepted
  <2>2. flow'[f].ended # "created"
    BY <2>1, Known, EndedType
  <2> QED
    BY <2>1, <2>2, Known DEF Overwrites, Active, HandlerOf
<1>7. ASSUME NEW e \in entries, Remove(e)
      PROVE  ~Overwrites
  <2>1. \A g \in Flows : flow'[g] = Ended(g, "aborted") \/ flow'[g] = flow[g]
    BY <1>7 DEF Remove
  <2>2. \A g \in Flows : Ended(g, "aborted").ended # "created"
    BY Known, EndedType
  <2> QED
    BY <2>1, <2>2, Known DEF Overwrites, Active, HandlerOf
<1> QED
  BY <1>1, <1>2, <1>3, <1>4, <1>5, <1>6, <1>7
  DEF Next, vars, UserBegins, Refused, Dismiss, ChooseSources, SubmitCredential,
      Discover, ReauthBegins, Proceed, End

-----------------------------------------------------------------------------
\* Theorems

\* The inductive invariant holds in every reachable state (config_flow.py:39-253).
THEOREM Invariance == Spec => []IInv
  BY InitInv, NextInv, PTL DEF Spec

\* Flows and entries are of their types, and no two entries have one id.
THEOREM TypeCorrect == Spec => []TypeOK
<1>1. IInv => TypeOK
  BY DEF IInv
<1> QED
  BY <1>1, Invariance, PTL

\* No two flows are under way for one id (config_flow.py:87-88).
THEOREM FlowsDiffer == Spec => []OneFlowPerId
<1>1. IInv => OneFlowPerId
  BY DEF IInv
<1> QED
  BY <1>1, Invariance, PTL

\* An eManager has one entry, however many flows for it there were
\* (config_flow.py:87-88, 231-233).
THEOREM DevicesDiffer == Spec => []OneEntryPerDevice
<1>1. IInv => OneEntryPerDevice
  <2> SUFFICES ASSUME IInv, NEW e \in entries, NEW o \in entries,
                      e.device = o.device, e.device # NoDevice
               PROVE  e = o
    BY DEF OneEntryPerDevice
  <2>1. e.id = LocalId(e.device) /\ o.id = LocalId(o.device)
    BY Known DEF EntryOf
  <2> QED
    BY <2>1 DEF IInv, TypeOK
<1> QED
  BY <1>1, Invariance, PTL

\* An entry has the data its sources need (config_flow.py:142-152, 244-253).
THEOREM EntriesComplete == Spec => []EntryComplete
<1>1. IInv => EntryComplete
  BY Known DEF EntryComplete, EntryOf
<1> QED
  BY <1>1, Invariance, PTL

\* Stored credentials were accepted (config_flow.py:124-141, 182-196).
THEOREM CredentialsVerified == Spec => []StoredVerified
<1>1. IInv => StoredVerified
  BY Known DEF StoredVerified, EntryOf
<1> QED
  BY <1>1, Invariance, PTL

\* Creating an entry overwrites no other but an ignored one: the confirmation of a
\* discovery, which checks nothing, included (config_flow.py:98-102).
THEOREM CreationSpares == Spec => NothingOverwritten
<1>1. IInv /\ [Next]_vars =>
        [(\E f \in Flows : Active(f) /\ flow'[f].ended = "created")
           => \A e \in entries : e.ignored \/ e \in entries']_vars
  BY NeverOverwrites DEF Overwrites
<1> QED
  BY <1>1, Invariance, PTL DEF Spec, NothingOverwritten
=============================================================================
