--------------------------- MODULE Integration_proofs ---------------------------
(***************************************************************************)
(* Theorems about Integration, for every set of refreshes, every number of *)
(* setups and of readings, and whichever values the eManager refuses: what *)
(* the sensors show together, what an unload leaves behind, in which order *)
(* readings are published, and that the local clients are used as services.*)
(***************************************************************************)
EXTENDS Integration, SequenceTheorems, TLAPS

-----------------------------------------------------------------------------
\* The inductive invariant

Callers == Updates \cup {Closer}

Among(q, v) == \E k \in DOMAIN q : q[k] = v
Once(q) == \A k, l \in DOMAIN q : q[k] = q[l] => k = l
EndsWith(q, v) == q # <<>> /\ q[Len(q)] = v

\* A refresh is queued where it awaits the local client.
Linked ==
  \A i \in Instances, u \in Updates :
    Among(calls[i], u) <=> update[u].pc = "local" /\ update[u].of = i

\* No caller is queued twice, and the unload's call only while it is awaited.
Queues ==
  /\ \A i \in Instances : Once(calls[i])
  /\ \A i \in Instances :
       Among(calls[i], Closer) <=>
         entry = "closing" /\ i = current /\ "local" \in sources

\* A setup waits for its first refresh; a refresh belongs to a setup there was, and
\* awaits sources that are enabled.
Drives ==
  /\ entry # "unloaded" => current # 0
  /\ unclosed \subseteq 1 .. current
  /\ entry = "setup" <=> update[FirstOne].pc # "idle"
  /\ entry = "setup" => update[FirstOne].of = current
  /\ \A u \in Updates :
       /\ update[u].pc # "idle" => update[u].of \in 1 .. current
       /\ update[u].pc = "local" => "local" \in sources
       /\ update[u].pc = "cloud" => "cloud" \in sources

\* What n readings can have left in the data d.
Fields(d, n) ==
  /\ d.fields.core <= n
  /\ d.fields.chargerAvailable => d.fields.charger = d.fields.core

Read ==
  /\ \A i \in Instances : Fields(data[i], readings)
  /\ \A u \in Updates : Fields(update[u].draft, readings)

InUse(i) == i = current /\ entry \in {"setup", "forwarding", "loaded", "closing", "stuck"}

\* A local client out of use has no caller and no session, and its close is the last
\* call made of it, unless it was used behind its close.
Quiet ==
  /\ \A i \in Instances : i \notin unclosed /\ ~InUse(i) => calls[i] = <<>> /\ ~session[i]
  /\ entry = "closing" /\ current \notin unclosed /\ "local" \in sources =>
       EndsWith(calls[current], Closer)
  /\ "local" \notin sources => \A i \in Instances : calls[i] = <<>> /\ ~session[i]

IInv == TypeOK /\ Queues /\ Drives /\ Read /\ Quiet

-----------------------------------------------------------------------------
\* Queues

LEMMA Appended ==
  ASSUME NEW S, NEW q \in Seq(S), NEW v \in S, Once(q), ~Among(q, v)
  PROVE  LET r == Append(q, v)
         IN /\ r \in Seq(S)
            /\ Once(r)
            /\ EndsWith(r, v)
            /\ \A w : Among(r, w) <=> Among(q, w) \/ w = v
<1> DEFINE r == Append(q, v)
<1>1. /\ r \in Seq(S) /\ r # <<>> /\ Len(q) \in Nat /\ Len(r) = Len(q) + 1
      /\ DOMAIN q = 1 .. Len(q) /\ DOMAIN r = 1 .. Len(r)
      /\ r[Len(q) + 1] = v /\ \A k \in 1 .. Len(q) : r[k] = q[k]
  OBVIOUS
<1> HIDE DEF r
<1>2. \A w : Among(r, w) <=> Among(q, w) \/ w = v
  BY <1>1 DEF Among
<1>3. Once(r)
  BY <1>1 DEF Once, Among
<1> QED
  BY <1>1, <1>2, <1>3 DEF EndsWith, r

LEMMA Thinned ==
  ASSUME NEW S, NEW q \in Seq(S), NEW k \in DOMAIN q, Once(q)
  PROVE  LET r == SubSeq(q, 1, k - 1) \o SubSeq(q, k + 1, Len(q))
         IN /\ r \in Seq(S)
            /\ Once(r)
            /\ \A w : Among(r, w) <=> Among(q, w) /\ w # q[k]
            /\ \A w : EndsWith(q, w) /\ w # q[k] => EndsWith(r, w)
<1> DEFINE a == SubSeq(q, 1, k - 1)
           b == SubSeq(q, k + 1, Len(q))
           r == a \o b
<1>1. /\ Len(q) \in Nat /\ DOMAIN q = 1 .. Len(q) /\ k \in 1 .. Len(q)
      /\ a \in Seq(S) /\ Len(a) = k - 1 /\ \A j \in 1 .. k - 1 : a[j] = q[j]
      /\ b \in Seq(S) /\ Len(b) = Len(q) - k
      /\ \A j \in 1 .. Len(q) - k : b[j] = q[k + j]
  OBVIOUS
<1> HIDE DEF a, b
<1>2. /\ r \in Seq(S) /\ Len(r) = Len(q) - 1 /\ DOMAIN r = 1 .. Len(q) - 1
      /\ \A j \in 1 .. Len(q) - 1 : r[j] = IF j < k THEN q[j] ELSE q[j + 1]
  <2>1. /\ r \in Seq(S) /\ Len(r) = Len(a) + Len(b)
        /\ \A j \in 1 .. Len(a) + Len(b) :
             r[j] = IF j <= Len(a) THEN a[j] ELSE b[j - Len(a)]
    BY <1>1, ConcatProperties
  <2>2. Len(r) = Len(q) - 1
    BY <1>1, <2>1
  <2>3. ASSUME NEW j \in 1 .. Len(q) - 1
        PROVE  r[j] = IF j < k THEN q[j] ELSE q[j + 1]
    <3>1. CASE j < k
      BY <1>1, <2>1, <3>1
    <3>2. CASE j >= k
      <4>1. j - (k - 1) \in 1 .. Len(q) - k /\ k + (j - (k - 1)) = j + 1
        BY <1>1, <3>2
      <4>2. r[j] = b[j - (k - 1)]
        <5>1. j \in 1 .. Len(a) + Len(b) /\ ~(j <= Len(a)) /\ Len(a) = k - 1
          BY <1>1, <3>2
        <5> HIDE DEF r
        <5> QED
          BY <2>1, <5>1
      <4> QED
        BY <1>1, <3>2, <4>1, <4>2
    <3> QED
      BY <1>1, <3>1, <3>2
  <2> QED
    BY <2>1, <2>2, <2>3
<1> HIDE DEF r
<1> DEFINE From(j) == IF j < k THEN j ELSE j + 1
           To(l) == IF l < k THEN l ELSE l - 1
<1>3. \A j \in 1 .. Len(q) - 1 :
        From(j) \in 1 .. Len(q) /\ From(j) # k /\ r[j] = q[From(j)]
  BY <1>1, <1>2
<1>4. \A l \in 1 .. Len(q) : l # k =>
        To(l) \in 1 .. Len(q) - 1 /\ r[To(l)] = q[l]
  BY <1>1, <1>2
<1>5. Once(r)
  <2>1. \A j, l \in 1 .. Len(q) - 1 : From(j) = From(l) => j = l
    BY <1>1
  <2> QED
    <3> SUFFICES ASSUME NEW j \in 1 .. Len(q) - 1, NEW l \in 1 .. Len(q) - 1, r[j] = r[l]
                 PROVE  j = l
      BY <1>2 DEF Once
    <3>1. q[From(j)] = q[From(l)] /\ From(j) \in DOMAIN q /\ From(l) \in DOMAIN q
      BY <1>1, <1>3
    <3> HIDE DEF From
    <3>2. From(j) = From(l)
      BY <3>1 DEF Once
    <3> QED
      BY <2>1, <3>2
<1> HIDE DEF From, To
<1>6. \A w : Among(r, w) <=> Among(q, w) /\ w # q[k]
  <2>1. k \in DOMAIN q /\ \A l \in DOMAIN q : q[l] = q[k] => l = k
    BY <1>1 DEF Once
  <2>2. ASSUME NEW w, Among(r, w) PROVE Among(q, w) /\ w # q[k]
    <3>1. PICK j \in 1 .. Len(q) - 1 : r[j] = w
      BY <1>2, <2>2 DEF Among
    <3>2. From(j) \in DOMAIN q /\ From(j) # k /\ q[From(j)] = w
      BY <1>1, <1>3, <3>1
    <3>3. w # q[k]
      BY <2>1, <3>2
    <3> QED
      BY <3>2, <3>3 DEF Among
  <2>3. ASSUME NEW w, Among(q, w), w # q[k] PROVE Among(r, w)
    <3>1. PICK l \in 1 .. Len(q) : q[l] = w /\ l # k
      BY <1>1, <2>3 DEF Among
    <3>2. To(l) \in DOMAIN r /\ r[To(l)] = w
      BY <1>2, <1>4, <3>1
    <3> QED
      BY <3>2 DEF Among
  <2> QED
    BY <2>2, <2>3
<1>7. \A w : EndsWith(q, w) /\ w # q[k] => EndsWith(r, w)
  <2> SUFFICES ASSUME EndsWith(q, q[Len(q)]), q[Len(q)] # q[k]
               PROVE  EndsWith(r, q[Len(q)])
    BY DEF EndsWith
  <2>1. k < Len(q)
    BY <1>1
  <2>2. r[Len(q) - 1] = q[Len(q)] /\ r # <<>>
    BY <1>1, <1>2, <2>1
  <2> QED
    BY <1>2, <2>2 DEF EndsWith
<1> QED
  BY <1>2, <1>5, <1>6, <1>7 DEF r, a, b

LEMMA Headed ==
  ASSUME NEW S, NEW q \in Seq(S), q # <<>>
  PROVE  /\ 1 \in DOMAIN q /\ Head(q) = q[1]
         /\ Tail(q) = SubSeq(q, 1, 0) \o SubSeq(q, 2, Len(q))
  OBVIOUS

LEMMA EmptyQueue ==
  ASSUME NEW q, q = <<>>
  PROVE  Once(q) /\ \A v : ~Among(q, v) /\ ~EndsWith(q, v)
  BY DEF Once, Among, EndsWith

-----------------------------------------------------------------------------
\* What is known in every state

LEMMA Known ==
  ASSUME IInv
  PROVE  /\ sources \in SourceSets
         /\ MaxSetups \in Nat /\ MaxReadings \in Nat
         /\ current \in Nat /\ current <= MaxSetups
         /\ readings \in Nat /\ readings <= MaxReadings
         /\ calls \in [Instances -> Seq(Callers)]
         /\ update \in [Updates -> UpdateType]
         /\ data \in [Instances -> DataType]
         /\ FirstOne \in Updates /\ Closer \notin Updates
         /\ Linked
         /\ \A i \in Instances : i \in Nat /\ calls[i] \in Seq(Callers) /\ Once(calls[i])
  BY CallerAssumption, BoundAssumption
  DEF IInv, TypeOK, Instances, Linked, Among, Queues, Callers, Updates

LEMMA TypesKept ==
  ASSUME UNCHANGED sources
  PROVE  /\ DataType' = DataType /\ UpdateType' = UpdateType
         /\ NoData' = NoData /\ Idle' = Idle
  BY DEF DataType, UpdateType, NoData, Idle

LEMMA IdleType ==
  ASSUME IInv
  PROVE  /\ NoData \in DataType /\ Fields(NoData, readings)
         /\ NoData.fields.core = 0
         /\ Idle \in UpdateType /\ Idle.pc = "idle" /\ Idle.draft = NoData
<1>1. NoData \in DataType
  BY DEF NoData, DataType, FieldType
<1>2. NoData.fields.core = 0 /\ NoData.fields.chargerAvailable = FALSE
  BY DEF NoData
<1> HIDE DEF NoData
<1> QED
  BY <1>1, <1>2, Known DEF Fields, Idle, UpdateType

LEMMA TurnOf ==
  ASSUME IInv, NEW u \in Updates, Served(u)
  PROVE  /\ update[u].of \in Instances /\ update[u].of \in 1 .. current
         /\ calls[update[u].of] # <<>> /\ Head(calls[update[u].of]) = u
         /\ "local" \in sources
<1>1. update[u].of \in 1 .. current
  BY DEF Served, IInv, Drives
<1> QED
  BY <1>1, Known DEF Served, IInv, Drives, Instances

-----------------------------------------------------------------------------
\* A caller joins and leaves a queue

Joins(i, v) == calls' = [calls EXCEPT ![i] = Append(@, v)]

LEMMA Joined ==
  ASSUME IInv, NEW i \in Instances, NEW v \in Callers, ~Among(calls[i], v), Joins(i, v)
  PROVE  /\ calls' \in [Instances -> Seq(Callers)]
         /\ \A j \in Instances : j # i => calls'[j] = calls[j]
         /\ Once(calls'[i])
         /\ EndsWith(calls'[i], v)
         /\ \A w : Among(calls'[i], w) <=> Among(calls[i], w) \/ w = v
<1>1. /\ calls'[i] = Append(calls[i], v)
      /\ \A j \in Instances : j # i => calls'[j] = calls[j]
      /\ DOMAIN calls' = Instances
  BY Known DEF Joins
<1>2. /\ Append(calls[i], v) \in Seq(Callers)
      /\ Once(Append(calls[i], v))
      /\ EndsWith(Append(calls[i], v), v)
      /\ \A w : Among(Append(calls[i], v), w) <=> Among(calls[i], w) \/ w = v
  BY Known, Appended
<1>3. calls' \in [Instances -> Seq(Callers)]
  BY <1>1, <1>2, Known DEF Joins
<1> QED
  BY <1>1, <1>2, <1>3

LEMMA Withdrawn ==
  ASSUME IInv, NEW i \in Instances, NEW v, Withdraw(i, v)
  PROVE  /\ calls' \in [Instances -> Seq(Callers)]
         /\ calls[i] # <<>>
         /\ \A j \in Instances : j # i => calls'[j] = calls[j]
         /\ Once(calls'[i])
         /\ \A w : Among(calls'[i], w) <=> Among(calls[i], w) /\ w # v
         /\ \A w : EndsWith(calls[i], w) /\ w # v => EndsWith(calls'[i], w)
<1>1. PICK k \in DOMAIN calls[i] :
        /\ calls[i][k] = v
        /\ calls' = [calls EXCEPT ![i] =
             SubSeq(@, 1, k - 1) \o SubSeq(@, k + 1, Len(@))]
  BY DEF Withdraw
<1> DEFINE r == SubSeq(calls[i], 1, k - 1) \o SubSeq(calls[i], k + 1, Len(calls[i]))
<1>2. /\ r \in Seq(Callers)
      /\ Once(r)
      /\ \A w : Among(r, w) <=> Among(calls[i], w) /\ w # calls[i][k]
      /\ \A w : EndsWith(calls[i], w) /\ w # calls[i][k] => EndsWith(r, w)
  BY Known, Thinned
<1>3. calls' = [calls EXCEPT ![i] = r]
  BY <1>1
<1> HIDE DEF r
<1>4. /\ calls'[i] = r /\ calls' \in [Instances -> Seq(Callers)]
      /\ \A j \in Instances : j # i => calls'[j] = calls[j]
  BY <1>2, <1>3, Known
<1>5. calls[i] # <<>>
  BY <1>1, EmptyQueue DEF Among
<1> QED
  BY <1>1, <1>2, <1>4, <1>5

LEMMA HeadWithdraws ==
  ASSUME IInv, NEW i \in Instances, calls[i] # <<>>,
         calls' = [calls EXCEPT ![i] = Tail(@)]
  PROVE  Withdraw(i, Head(calls[i]))
<1>1. /\ 1 \in DOMAIN calls[i] /\ Head(calls[i]) = calls[i][1]
      /\ Tail(calls[i]) = SubSeq(calls[i], 1, 0) \o SubSeq(calls[i], 2, Len(calls[i]))
  BY Known, Headed
<1>2. 1 - 1 = 0 /\ 1 + 1 = 2
  OBVIOUS
<1> QED
  BY <1>1, <1>2 DEF Withdraw

-----------------------------------------------------------------------------
\* A refresh u takes the state r, in step with the queues

Moves(u, r) ==
  /\ update' = [update EXCEPT ![u] = r]
  /\ \/ /\ update[u].pc = "idle" /\ r.pc = "local"
        /\ r.of \in Instances /\ Joins(r.of, u)
     \/ update[u].pc = "local" /\ r.pc # "local" /\ Withdraw(update[u].of, u)
     \/ update[u].pc # "local" /\ r.pc # "local" /\ calls' = calls

LEMMA MovesKeep ==
  ASSUME IInv, UNCHANGED sources, NEW u \in Updates, NEW r \in UpdateType, Moves(u, r)
  PROVE  /\ calls' \in [Instances -> Seq(Callers)]
         /\ update' \in [Updates -> UpdateType']
         /\ update'[u] = r
         /\ \A v \in Updates : v # u => update'[v] = update[v]
         /\ Linked'
         /\ \A i \in Instances :
              /\ Once(calls'[i])
              /\ Among(calls'[i], Closer) <=> Among(calls[i], Closer)
              /\ ~(r.pc = "local" /\ r.of = i) =>
                   /\ calls[i] = <<>> => calls'[i] = <<>>
                   /\ EndsWith(calls[i], Closer) => EndsWith(calls'[i], Closer)
<1>1. /\ update' \in [Updates -> UpdateType'] /\ update'[u] = r
      /\ \A v \in Updates : v # u => update'[v] = update[v]
  BY Known, TypesKept DEF Moves
<1>2. u \in Callers /\ u # Closer
  BY Known DEF Callers
<1>3. CASE update[u].pc = "idle" /\ r.pc = "local" /\ r.of \in Instances /\ Joins(r.of, u)
  <2>1. ~Among(calls[r.of], u)
    BY <1>3, Known DEF Linked
  <2>2. /\ calls' \in [Instances -> Seq(Callers)]
        /\ \A j \in Instances : j # r.of => calls'[j] = calls[j]
        /\ Once(calls'[r.of])
        /\ \A w : Among(calls'[r.of], w) <=> Among(calls[r.of], w) \/ w = u
    BY <1>2, <1>3, <2>1, Joined
  <2>3. Linked'
    <3> SUFFICES ASSUME NEW i \in Instances, NEW v \in Updates
                 PROVE  Among(calls'[i], v) <=> update'[v].pc = "local" /\ update'[v].of = i
      BY DEF Linked
    <3>1. Among(calls[i], v) <=> update[v].pc = "local" /\ update[v].of = i
      BY Known DEF Linked
    <3>2. CASE v = u
      BY <1>1, <1>3, <2>2, <3>1, <3>2
    <3>3. CASE v # u
      BY <1>1, <2>2, <3>1, <3>3
    <3> QED
      BY <3>2, <3>3
  <2> QED
    BY <1>1, <1>2, <1>3, <2>2, <2>3, Known
<1>4. CASE update[u].pc = "local" /\ r.pc # "local" /\ Withdraw(update[u].of, u)
  <2> DEFINE o == update[u].of
  <2>1. o \in Instances
    BY <1>4, Known DEF IInv, Drives, Instances
  <2>2. /\ calls' \in [Instances -> Seq(Callers)]
        /\ calls[o] # <<>>
        /\ \A j \in Instances : j # o => calls'[j] = calls[j]
        /\ Once(calls'[o])
        /\ \A w : Among(calls'[o], w) <=> Among(calls[o], w) /\ w # u
        /\ \A w : EndsWith(calls[o], w) /\ w # u => EndsWith(calls'[o], w)
    BY <1>4, <2>1, Withdrawn
  <2>3. Linked'
    <3>1. ASSUME NEW i \in Instances, NEW v \in Updates \ {u}
          PROVE  Among(calls'[i], v) <=> update'[v].pc = "local" /\ update'[v].of = i
      <4>1. Among(calls'[i], v) <=> Among(calls[i], v)
        BY <2>2
      <4>2. update'[v] = update[v]
        BY <1>1, Known
      <4> QED
        BY <4>1, <4>2, Known DEF Linked
    <3>2. ASSUME NEW i \in Instances
          PROVE  ~Among(calls'[i], u)
      <4>1. i # o => ~Among(calls[i], u)
        BY Known DEF Linked
      <4> QED
        BY <4>1, <2>2
    <3>3. update'[u].pc # "local"
      BY <1>1, <1>4, Known
    <3> QED
      BY <3>1, <3>2, <3>3 DEF Linked
  <2> QED
    BY <1>1, <1>2, <1>4, <2>1, <2>2, <2>3, Known
<1>5. CASE update[u].pc # "local" /\ r.pc # "local" /\ calls' = calls
  <2>1. Linked'
    BY <1>1, <1>5, Known DEF Linked
  <2> QED
    BY <1>1, <1>5, <2>1, Known
<1> QED
  BY <1>3, <1>4, <1>5 DEF Moves

\* What the calls, refreshes and published data keep of the types, put together.
LEMMA TypeKept ==
  ASSUME IInv, UNCHANGED sources,
         calls' \in [Instances -> Seq(Callers)], Linked',
         update' \in [Updates -> UpdateType'],
         entry' \in EntryStates, current' \in Instances \cup {0},
         runtime' \in 0 .. current',
         entry' \in {"forwarding", "loaded", "closing", "unloading", "stuck"} =>
           runtime' = current',
         session' \in [Instances -> BOOLEAN],
         result' \in [Instances -> Results],
         data' \in [Instances -> DataType],
         success' \in [Instances -> BOOLEAN],
         readings' \in 0 .. MaxReadings,
         unclosed' \subseteq Instances
  PROVE  TypeOK'
<1>1. data' \in [Instances -> DataType'] /\ sources' \in SourceSets
  BY TypesKept, Known
<1>2. calls' \in [Instances -> Seq(Updates \cup {Closer})]
  BY DEF Callers
<1>3. \A i \in Instances, u \in Updates :
        (\E k \in DOMAIN calls'[i] : calls'[i][k] = u)
          <=> update'[u].pc = "local" /\ update'[u].of = i
  BY DEF Linked, Among
<1> QED
  BY <1>1, <1>2, <1>3 DEF TypeOK

\* A refresh u goes on with r from an await, or ends; a setup's ends with it.
LEMMA GoesOnInv ==
  ASSUME IInv, UNCHANGED <<sources, current>>, NEW u \in Updates, NEW r \in UpdateType,
         Moves(u, r), update[u].pc # "idle",
         \/ r.pc = "idle"
         \/ r.pc = "cloud" /\ r.of = update[u].of /\ "cloud" \in sources,
         \/ /\ UNCHANGED <<entry, runtime>>
            /\ u # FirstOne \/ r.pc = "cloud"
         \/ /\ u = FirstOne /\ r.pc = "idle"
            /\ \/ entry' = "forwarding" /\ runtime' = current
               \/ /\ entry' \in {"retry", "error"} /\ runtime' = runtime
                  /\ current \in unclosed',
         unclosed \subseteq unclosed', unclosed' \subseteq 1 .. current,
         session' \in [Instances -> BOOLEAN],
         \A i \in Instances : i # update[u].of \/ update[u].pc # "local" =>
           (session'[i] => session[i]),
         result' \in [Instances -> Results],
         success' \in [Instances -> BOOLEAN],
         readings' \in readings .. MaxReadings,
         data' \in [Instances -> DataType],
         \A i \in Instances : Fields(data'[i], readings'),
         Fields(r.draft, readings')
  PROVE  IInv'
<1>1. /\ calls' \in [Instances -> Seq(Callers)]
      /\ update' \in [Updates -> UpdateType']
      /\ update'[u] = r
      /\ \A v \in Updates : v # u => update'[v] = update[v]
      /\ Linked'
      /\ \A i \in Instances :
           /\ Once(calls'[i])
           /\ Among(calls'[i], Closer) <=> Among(calls[i], Closer)
           /\ calls[i] = <<>> => calls'[i] = <<>>
           /\ EndsWith(calls[i], Closer) => EndsWith(calls'[i], Closer)
  BY MovesKeep
<1>2. /\ entry \in EntryStates /\ current \in Instances \cup {0}
      /\ runtime \in 0 .. current
      /\ entry \in {"forwarding", "loaded", "closing", "unloading", "stuck"} =>
           runtime = current
      /\ update[u].of \in 1 .. current
  BY DEF IInv, TypeOK, Drives
<1>3. TypeOK'
  <2>1. /\ entry' \in EntryStates /\ current' \in Instances \cup {0}
        /\ runtime' \in 0 .. current'
        /\ entry' \in {"forwarding", "loaded", "closing", "unloading", "stuck"} =>
             runtime' = current'
    BY <1>2, Known DEF EntryStates
  <2>2. readings' \in 0 .. MaxReadings /\ unclosed' \subseteq Instances
    BY Known DEF Instances
  <2> QED
    BY <1>1, <2>1, <2>2, TypeKept
<1>4. /\ u = FirstOne => entry = "setup" /\ update[u].of = current
      /\ entry' = "closing" <=> entry = "closing"
  BY DEF IInv, Drives
<1>5. Queues'
  BY <1>1, <1>4 DEF IInv, Queues
<1>6. Drives'
  <2>1. /\ entry' # "unloaded" => current' # 0
        /\ unclosed' \subseteq 1 .. current'
    BY <1>4 DEF IInv, Drives
  <2>2. /\ entry' = "setup" <=> update'[FirstOne].pc # "idle"
        /\ entry' = "setup" => update'[FirstOne].of = current'
    BY <1>1, <1>4, Known DEF IInv, Drives
  <2>3. \A v \in Updates :
          /\ update'[v].pc # "idle" => update'[v].of \in 1 .. current'
          /\ update'[v].pc = "local" => "local" \in sources'
          /\ update'[v].pc = "cloud" => "cloud" \in sources'
    BY <1>1, <1>2 DEF IInv, Drives
  <2> QED
    BY <2>1, <2>2, <2>3 DEF Drives
<1>7. Read'
  <2>1. \A v \in Updates : v # u => Fields(update[v].draft, readings')
    <3> SUFFICES ASSUME NEW v \in Updates PROVE Fields(update[v].draft, readings')
      OBVIOUS
    <3>1. update[v].draft.fields.core \in Nat /\ Fields(update[v].draft, readings)
      BY Known DEF IInv, Read, UpdateType, DataType, FieldType
    <3> QED
      BY <3>1, Known DEF Fields
  <2> QED
    BY <1>1, <2>1 DEF Read
<1>8. Quiet'
  <2>1. ASSUME NEW i \in Instances, i \notin unclosed', ~InUse(i)'
        PROVE  calls'[i] = <<>> /\ ~session'[i]
    <3>1. i \notin unclosed /\ ~InUse(i)
      BY <1>4, <2>1 DEF InUse
    <3>2. calls[i] = <<>> /\ ~session[i]
      BY <3>1 DEF IInv, Quiet
    <3>3. i # update[u].of \/ update[u].pc # "local"
      BY <3>2, EmptyQueue, Known DEF Linked
    <3> QED
      BY <1>1, <3>2, <3>3
  <2>2. entry' = "closing" /\ current' \notin unclosed' /\ "local" \in sources' =>
          EndsWith(calls'[current'], Closer)
    BY <1>1, <1>2, <1>4, Known DEF IInv, Quiet, Drives
  <2>3. ASSUME "local" \notin sources', NEW i \in Instances
        PROVE  calls'[i] = <<>> /\ ~session'[i]
    BY <1>1, <2>3 DEF IInv, Quiet, Drives
  <2> QED
    BY <2>1, <2>2, <2>3 DEF Quiet
<1> QED
  BY <1>3, <1>5, <1>6, <1>7, <1>8 DEF IInv

\* A refresh of the instance i begins, in the setup that makes i or beside it.
LEMMA BeginInv ==
  ASSUME IInv, UNCHANGED <<sources, runtime, session, result, published, readings>>,
         NEW u \in Updates, update[u].pc = "idle",
         current' \in Instances, Begin(u, current'),
         \/ /\ u # FirstOne /\ current' = current /\ entry' = entry
            /\ entry \in {"forwarding", "loaded", "closing", "unloading", "stuck"}
            /\ unclosed' = IF "local" \in sources
                                /\ entry \in {"closing", "unloading", "stuck"}
                             THEN unclosed \cup {current} ELSE unclosed
         \/ /\ u = FirstOne /\ current' = current + 1 /\ entry' = "setup"
            /\ entry \in {"unloaded", "retry", "error"}
            /\ unclosed' = unclosed
  PROVE  IInv'
<1> DEFINE pc == IF "local" \in sources THEN "local" ELSE "cloud"
           r == [pc |-> pc, of |-> current', draft |-> data[current']]
<1>1. /\ r \in UpdateType /\ r.pc = pc /\ r.of = current' /\ r.draft = data[current']
      /\ pc = "local" <=> "local" \in sources
      /\ pc \in {"local", "cloud"}
      /\ pc = "cloud" => "cloud" \in sources
  BY Known DEF UpdateType, SourceSets
<1>2. Moves(u, r)
  BY <1>1 DEF Begin, Moves, Joins
<1> HIDE DEF r, pc
<1>3. /\ calls' \in [Instances -> Seq(Callers)]
      /\ update' \in [Updates -> UpdateType']
      /\ update'[u] = r
      /\ \A v \in Updates : v # u => update'[v] = update[v]
      /\ Linked'
      /\ \A i \in Instances :
           /\ Once(calls'[i])
           /\ Among(calls'[i], Closer) <=> Among(calls[i], Closer)
           /\ ~(pc = "local" /\ current' = i) =>
                /\ calls[i] = <<>> => calls'[i] = <<>>
                /\ EndsWith(calls[i], Closer) => EndsWith(calls'[i], Closer)
  BY <1>1, <1>2, MovesKeep
<1>4. /\ entry \in EntryStates /\ current \in Nat /\ runtime \in 0 .. current
      /\ entry \in {"forwarding", "loaded", "closing", "unloading", "stuck"} =>
           runtime = current
      /\ current' \in Nat /\ current <= current' /\ current' # 0
  BY Known DEF IInv, TypeOK, Instances
<1>5. unclosed' \subseteq 1 .. current'
  <2>1. unclosed \subseteq 1 .. current /\ 1 .. current \subseteq 1 .. current'
    BY <1>4 DEF IInv, Drives
  <2>2. current' \in 1 .. current'
    BY <1>4
  <2> QED
    BY <2>1, <2>2
<1>6. TypeOK'
  <2>1. /\ entry' \in EntryStates /\ runtime' \in 0 .. current'
        /\ entry' \in {"forwarding", "loaded", "closing", "unloading", "stuck"} =>
             runtime' = current'
    BY <1>4 DEF EntryStates
  <2>2. unclosed' \subseteq Instances
    BY <1>5, Known DEF Instances
  <2>3. /\ session' \in [Instances -> BOOLEAN] /\ result' \in [Instances -> Results]
        /\ data' \in [Instances -> DataType] /\ success' \in [Instances -> BOOLEAN]
        /\ readings' \in 0 .. MaxReadings
    BY DEF IInv, TypeOK, published
  <2> QED
    BY <1>3, <2>1, <2>2, <2>3, TypeKept
<1>7. Queues'
  <2>1. ASSUME NEW i \in Instances
        PROVE  Among(calls[i], Closer) <=>
                 entry' = "closing" /\ i = current' /\ "local" \in sources'
    BY DEF IInv, Queues
  <2> QED
    BY <1>3, <2>1 DEF Queues
<1>8. Drives'
  <2>1. /\ entry' = "setup" <=> update'[FirstOne].pc # "idle"
        /\ entry' = "setup" => update'[FirstOne].of = current'
    <3>1. CASE u = FirstOne
      BY <1>1, <1>3, <3>1
    <3>2. CASE u # FirstOne
      BY <1>3, <3>2, Known DEF IInv, Drives
    <3> QED
      BY <3>1, <3>2
  <2>2. \A v \in Updates :
          /\ update'[v].pc # "idle" => update'[v].of \in 1 .. current'
          /\ update'[v].pc = "local" => "local" \in sources'
          /\ update'[v].pc = "cloud" => "cloud" \in sources'
    <3>1. 1 .. current \subseteq 1 .. current' /\ current' \in 1 .. current'
      BY <1>4
    <3> QED
      BY <1>1, <1>3, <3>1 DEF IInv, Drives
  <2> QED
    BY <1>4, <1>5, <2>1, <2>2 DEF Drives
<1>9. Read'
  BY <1>1, <1>3 DEF IInv, Read, published
<1>10. Quiet'
  <2>1. ASSUME NEW i \in Instances, i \notin unclosed', ~InUse(i)'
        PROVE  calls'[i] = <<>> /\ ~session'[i]
    <3>1. i \notin unclosed /\ ~InUse(i) /\ ~(pc = "local" /\ current' = i)
      BY <1>1, <1>4, <2>1 DEF InUse
    <3> QED
      BY <1>3, <3>1 DEF IInv, Quiet
  <2>2. entry' = "closing" /\ current' \notin unclosed' /\ "local" \in sources' =>
          EndsWith(calls'[current'], Closer)
    BY <1>4
  <2>3. ASSUME "local" \notin sources', NEW i \in Instances
        PROVE  calls'[i] = <<>> /\ ~session'[i]
    BY <1>1, <1>3, <2>3 DEF IInv, Quiet
  <2> QED
    BY <2>1, <2>2, <2>3 DEF Quiet
<1> QED
  BY <1>6, <1>7, <1>8, <1>9, <1>10 DEF IInv

-----------------------------------------------------------------------------
\* Each step keeps the invariant

LEMMA InitInv == Init => IInv
<1> SUFFICES ASSUME Init PROVE IInv
  OBVIOUS
<1>1. NoData \in DataType /\ Fields(NoData, 0)
  <2>1. NoData.fields = [code |-> 0, core |-> 0, charger |-> 0, chargerAvailable |-> FALSE]
    BY DEF NoData
  <2> QED
    BY <2>1 DEF NoData, DataType, FieldType, Fields
<1>2. Idle \in UpdateType /\ Idle.pc = "idle" /\ Idle.draft = NoData
  BY <1>1 DEF Idle, UpdateType
<1> HIDE DEF NoData, Idle
<1>3. /\ \A u \in Updates : update[u] = Idle
      /\ \A i \in Instances : calls[i] = <<>> /\ data[i] = NoData /\ ~session[i]
      /\ FirstOne \in Updates
  BY DEF Init, Updates
<1>4. TypeOK
  <2>1. update \in [Updates -> UpdateType] /\ data \in [Instances -> DataType]
    BY <1>1, <1>2 DEF Init
  <2>2. calls \in [Instances -> Seq(Updates \cup {Closer})]
    BY DEF Init
  <2>3. \A i \in Instances, u \in Updates :
          (\E k \in DOMAIN calls[i] : calls[i][k] = u)
            <=> update[u].pc = "local" /\ update[u].of = i
    BY <1>2, <1>3
  <2>4. /\ session \in [Instances -> BOOLEAN] /\ result \in [Instances -> Results]
        /\ success \in [Instances -> BOOLEAN]
    BY DEF Init, Results
  <2>5. /\ sources \in SourceSets /\ entry \in EntryStates /\ current \in Instances \cup {0}
        /\ entry = "unloaded" /\ runtime \in 0 .. current /\ readings \in 0 .. MaxReadings
        /\ unclosed \subseteq Instances
    BY BoundAssumption DEF Init, EntryStates
  <2> QED
    BY <2>1, <2>2, <2>3, <2>4, <2>5 DEF TypeOK
<1>5. Queues
  BY <1>3, EmptyQueue DEF Init, Queues
<1>6. Drives
  BY <1>2, <1>3 DEF Init, Drives
<1>7. Read
  BY <1>1, <1>2, <1>3 DEF Init, Read
<1>8. Quiet
  BY <1>3 DEF Init, Quiet
<1> QED
  BY <1>4, <1>5, <1>6, <1>7, <1>8 DEF IInv

LEMMA SetUpInv == ASSUME IInv, SetUp PROVE IInv'
<1>1. current' \in Instances
  BY Known DEF SetUp, Instances
<1>2. UNCHANGED <<sources, runtime, session, result, published, readings>>
  BY DEF SetUp
<1> QED
  BY <1>1, <1>2, Known, BeginInv DEF SetUp

LEMMA RefreshInv == ASSUME IInv, NEW u \in Refreshes, Refresh(u) PROVE IInv'
<1>1. u \in Updates /\ u # FirstOne
  BY CallerAssumption DEF Updates
<1>2. current \in Instances
  BY Known DEF Refresh, IInv, Drives, Instances
<1>3. /\ UNCHANGED <<sources, runtime, session, result, published, readings>>
      /\ current' = current /\ entry' = entry
  BY DEF Refresh
<1>4. unclosed' = IF "local" \in sources /\ entry \in {"closing", "unloading", "stuck"}
                    THEN unclosed \cup {current} ELSE unclosed
  BY DEF Refresh
<1>5. /\ update[u].pc = "idle" /\ Begin(u, current')
      /\ entry \in {"forwarding", "loaded", "closing", "unloading", "stuck"}
  BY <1>3 DEF Refresh
<1> QED
  BY <1>1, <1>2, <1>3, <1>4, <1>5, BeginInv

\* What a refresh publishes, and that it fails.
LEMMA Published ==
  ASSUME IInv, NEW u \in Updates, NEW d \in DataType, NEW n \in Nat,
         Fields(d, n), n >= readings, Publish(u, d)
  PROVE  /\ data' \in [Instances -> DataType]
         /\ success' \in [Instances -> BOOLEAN]
         /\ \A i \in Instances : Fields(data'[i], n)
<1>1. /\ data' \in [Instances -> DataType] /\ success' \in [Instances -> BOOLEAN]
      /\ \A i \in Instances : data'[i] = d \/ data'[i] = data[i]
  BY Known DEF Publish, IInv, TypeOK
<1>2. ASSUME NEW i \in Instances PROVE Fields(data[i], n)
  <2>1. data[i].fields.core \in Nat /\ Fields(data[i], readings)
    BY Known DEF IInv, Read, DataType, FieldType
  <2> QED
    BY <2>1, Known DEF Fields
<1> QED
  BY <1>1, <1>2

LEMMA Failed ==
  ASSUME IInv, NEW u \in Updates, NEW state, Fail(u, state)
  PROVE  /\ data' \in [Instances -> DataType]
         /\ success' \in [Instances -> BOOLEAN]
         /\ \A i \in Instances : Fields(data'[i], readings)
  BY Known DEF Fail, IInv, TypeOK, Read

\* The local client's call of a refresh ends.
LEMMA Left ==
  ASSUME IInv, NEW u \in Updates, Served(u), NEW retained \in BOOLEAN,
         NEW outcome \in Results, Leave(update[u].of, retained, outcome)
  PROVE  /\ Withdraw(update[u].of, u)
         /\ session' \in [Instances -> BOOLEAN]
         /\ \A i \in Instances : i # update[u].of => session'[i] = session[i]
         /\ result' \in [Instances -> Results]
<1> DEFINE o == update[u].of
<1>1. o \in Instances /\ calls[o] # <<>> /\ Head(calls[o]) = u
  BY TurnOf
<1>2. /\ calls' = [calls EXCEPT ![o] = Tail(@)]
      /\ session' = [session EXCEPT ![o] = retained]
      /\ result' = [result EXCEPT ![o] = outcome]
  BY DEF Leave
<1>3. session \in [Instances -> BOOLEAN] /\ result \in [Instances -> Results]
  BY DEF IInv, TypeOK
<1> HIDE DEF o
<1>4. Withdraw(o, u)
  BY <1>1, <1>2, HeadWithdraws
<1>5. /\ session' \in [Instances -> BOOLEAN] /\ result' \in [Instances -> Results]
      /\ \A i \in Instances : i # o => session'[i] = session[i]
  BY <1>1, <1>2, <1>3
<1> QED
  BY <1>4, <1>5 DEF o

\* A reading put into the data: its core values, and its charger's or none.
LEMMA MergedType ==
  ASSUME IInv, NEW d \in DataType, NEW refused \in BOOLEAN, NEW charger \in BOOLEAN,
         NEW m, m = Merged(d, refused, charger), "local" \in sources
  PROVE  m \in DataType /\ Fields(m, readings + 1) /\ m.fields.core = readings + 1
<1>1. /\ d.fields \in FieldType
      /\ d.status \in [sources -> {"configured", "connected", "unavailable"}]
      /\ readings + 1 \in Nat
  BY Known DEF DataType
<1> DEFINE n == readings + 1
           code == IF refused THEN d.fields.code ELSE n
           f == [code |-> code, core |-> n,
                 charger |-> IF charger THEN n ELSE d.fields.charger,
                 chargerAvailable |-> charger]
           st == [d.status EXCEPT !["local"] = "connected"]
<1>2. f \in FieldType /\ f.core = n /\ f.chargerAvailable = charger
      /\ (charger => f.charger = n)
  BY <1>1 DEF FieldType
<1>3. st \in [sources -> {"configured", "connected", "unavailable"}]
  BY <1>1
<1>4. m = [fields |-> f, status |-> st]
  <2>1. d = [fields |-> d.fields, status |-> d.status]
    BY DEF DataType
  <2>2. d.fields = [code |-> d.fields.code, core |-> d.fields.core,
                    charger |-> d.fields.charger,
                    chargerAvailable |-> d.fields.chargerAvailable]
    BY <1>1 DEF FieldType
  <2> QED
    BY <2>1, <2>2 DEF Merged
<1> HIDE DEF f, st
<1>5. m.fields = f /\ m.status = st /\ m \in DataType
  BY <1>2, <1>3, <1>4 DEF DataType
<1> QED
  BY <1>1, <1>2, <1>5 DEF Fields

LEMMA WithCloudType ==
  ASSUME IInv, NEW u \in Updates, NEW status \in {"configured", "connected", "unavailable"}
  PROVE  WithCloud(u, status) \in DataType /\ Fields(WithCloud(u, status), readings)
<1>1. update[u].draft \in DataType /\ Fields(update[u].draft, readings)
  BY Known DEF IInv, Read, UpdateType
<1> QED
  BY <1>1 DEF WithCloud, DataType, Fields

\* A refresh that fails, and a setup with it.
LEMMA FailInv ==
  ASSUME IInv, NEW u \in Updates, NEW state \in {"retry", "error"}, Fail(u, state),
         Moves(u, Idle), update[u].pc # "idle",
         UNCHANGED <<sources, current, readings>>,
         session' \in [Instances -> BOOLEAN],
         \A i \in Instances : i # update[u].of \/ update[u].pc # "local" =>
           (session'[i] => session[i]),
         result' \in [Instances -> Results]
  PROVE  IInv'
<1>1. /\ data' \in [Instances -> DataType] /\ success' \in [Instances -> BOOLEAN]
      /\ \A i \in Instances : Fields(data'[i], readings')
  BY Failed
<1>2. update[u].of \in 1 .. current /\ (u = FirstOne => update[u].of = current)
  BY DEF IInv, Drives
<1>3. /\ unclosed \subseteq unclosed' /\ unclosed' \subseteq 1 .. current
      /\ \/ UNCHANGED <<entry, runtime>> /\ u # FirstOne
         \/ /\ u = FirstOne /\ entry' = state /\ runtime' = runtime
            /\ current \in unclosed'
  BY <1>2 DEF Fail, EntryAfter, IInv, Drives
<1>4. /\ Idle \in UpdateType /\ Idle.pc = "idle" /\ Fields(Idle.draft, readings')
      /\ readings' \in readings .. MaxReadings
  BY IdleType, Known
<1> QED
  BY <1>1, <1>3, <1>4, GoesOnInv

\* The cloud's answer does not concern the local client.
LEMMA CloudFailInv ==
  ASSUME IInv, NEW u \in Updates, NEW state \in {"retry", "error"}, Fail(u, state),
         update[u].pc = "cloud", UNCHANGED <<sources, current, service, readings>>
  PROVE  IInv'
<1>1. /\ session' = session /\ result' = result /\ calls' = calls
      /\ session \in [Instances -> BOOLEAN] /\ result \in [Instances -> Results]
  BY DEF service, IInv, TypeOK
<1>2. Moves(u, Idle)
  BY <1>1, IdleType DEF Moves, Fail
<1> QED
  BY <1>1, <1>2, FailInv

LEMMA CloudPublishInv ==
  ASSUME IInv, NEW u \in Updates, NEW status \in {"connected", "unavailable"},
         Publish(u, WithCloud(u, status)),
         update[u].pc = "cloud", UNCHANGED <<sources, current, service, readings>>
  PROVE  IInv'
<1>1. /\ session' = session /\ result' = result /\ calls' = calls
      /\ session \in [Instances -> BOOLEAN] /\ result \in [Instances -> Results]
  BY DEF service, IInv, TypeOK
<1>2. Moves(u, Idle)
  BY <1>1, IdleType DEF Moves, Publish
<1>3. /\ data' \in [Instances -> DataType] /\ success' \in [Instances -> BOOLEAN]
      /\ \A i \in Instances : Fields(data'[i], readings')
  BY WithCloudType, Published, Known
<1>4. /\ unclosed' = unclosed /\ unclosed' \subseteq 1 .. current
      /\ \/ UNCHANGED <<entry, runtime>> /\ u # FirstOne
         \/ u = FirstOne /\ entry' = "forwarding" /\ runtime' = current
  BY DEF Publish, EntryAfter, SetUpGoesOn, IInv, Drives
<1>5. /\ Idle \in UpdateType /\ Idle.pc = "idle" /\ Fields(Idle.draft, readings')
      /\ readings' \in readings .. MaxReadings
  BY IdleType, Known
<1> QED
  BY <1>1, <1>2, <1>3, <1>4, <1>5, GoesOnInv

LEMMA LocalSucceedsInv == ASSUME IInv, NEW u \in Updates, LocalSucceeds(u) PROVE IInv'
<1>1. PICK retained \in BOOLEAN, charger \in BOOLEAN, refused \in Refusals :
        /\ Leave(update[u].of, retained, "success")
        /\ AfterLocal(u, Merged(update[u].draft, refused, charger))
  BY DEF LocalSucceeds
<1>2. PICK m : m = Merged(update[u].draft, refused, charger)
  OBVIOUS
<1>3. /\ Served(u) /\ readings' = readings + 1 /\ readings' \in Nat /\ readings' >= readings
      /\ readings' \in readings .. MaxReadings
      /\ UNCHANGED <<sources, current>>
      /\ update[u].pc = "local" /\ "local" \in sources /\ update[u] \in UpdateType
  BY Known, TurnOf DEF LocalSucceeds, Served
<1>4. m \in DataType /\ Fields(m, readings')
  <2>1. refused \in BOOLEAN /\ update[u].draft \in DataType
    BY <1>3, BoundAssumption DEF UpdateType
  <2> QED
    BY <1>2, <1>3, <2>1, MergedType
<1>5. /\ Withdraw(update[u].of, u)
      /\ session' \in [Instances -> BOOLEAN]
      /\ \A i \in Instances : i # update[u].of => session'[i] = session[i]
      /\ result' \in [Instances -> Results]
  BY <1>1, <1>3, Left DEF Results
<1>6. unclosed' = unclosed /\ unclosed' \subseteq 1 .. current
  BY <1>1 DEF AfterLocal, Publish, IInv, Drives
<1>7. CASE "cloud" \in sources
  <2> DEFINE r == [pc |-> "cloud", of |-> update[u].of, draft |-> m]
  <2>1. r \in UpdateType /\ r.pc = "cloud" /\ r.of = update[u].of /\ r.draft = m
    BY <1>3, <1>4 DEF UpdateType
  <2>2. /\ update' = [update EXCEPT ![u].pc = "cloud", ![u].draft = m]
        /\ UNCHANGED <<entry, runtime, published, unclosed>>
    BY <1>1, <1>2, <1>7 DEF AfterLocal
  <2>3. update' = [update EXCEPT ![u] = r]
    <3>1. update[u] = [pc |-> update[u].pc, of |-> update[u].of,
                       draft |-> update[u].draft]
      BY <1>3 DEF UpdateType
    <3>2. /\ update'[u] = r /\ DOMAIN update' = DOMAIN update
          /\ update' = [v \in Updates |-> update'[v]]
          /\ \A v \in Updates : v # u => update'[v] = update[v]
      BY <2>2, <3>1, Known
    <3> HIDE DEF r
    <3> QED
      BY <3>2, Known
  <2> HIDE DEF r
  <2>4. Moves(u, r)
    BY <1>3, <1>5, <2>1, <2>3 DEF Moves
  <2>5. /\ data' \in [Instances -> DataType] /\ success' \in [Instances -> BOOLEAN]
        /\ \A i \in Instances : Fields(data'[i], readings')
    <3>1. data' = data /\ success' = success
      BY <2>2 DEF published
    <3>2. ASSUME NEW i \in Instances PROVE Fields(data[i], readings')
      <4>1. data[i].fields.core \in Nat /\ Fields(data[i], readings)
        BY Known DEF IInv, Read, DataType, FieldType
      <4> QED
        BY <1>3, <4>1, Known DEF Fields
    <3> QED
      BY <3>1, <3>2, Known DEF IInv, TypeOK
  <2> QED
    BY <1>3, <1>4, <1>5, <1>6, <1>7, <2>1, <2>2, <2>4, <2>5, GoesOnInv
<1>8. CASE "cloud" \notin sources
  <2>1. Publish(u, m)
    BY <1>1, <1>2, <1>8 DEF AfterLocal
  <2>2. Moves(u, Idle)
    BY <1>3, <1>5, <2>1, IdleType DEF Moves, Publish
  <2>3. /\ data' \in [Instances -> DataType] /\ success' \in [Instances -> BOOLEAN]
        /\ \A i \in Instances : Fields(data'[i], readings')
    BY <1>3, <1>4, <2>1, Published
  <2>4. \/ UNCHANGED <<entry, runtime>> /\ u # FirstOne
        \/ u = FirstOne /\ entry' = "forwarding" /\ runtime' = current
    BY <2>1 DEF Publish, EntryAfter, SetUpGoesOn
  <2>5. Idle \in UpdateType /\ Idle.pc = "idle" /\ Fields(Idle.draft, readings')
    BY <1>3, IdleType, Known DEF Fields
  <2> QED
    BY <1>3, <1>5, <1>6, <2>2, <2>3, <2>4, <2>5, GoesOnInv
<1> QED
  BY <1>7, <1>8

LEMMA LocalFailsInv == ASSUME IInv, NEW u \in Updates, LocalFails(u) PROVE IInv'
<1>1. /\ Served(u) /\ Leave(update[u].of, FALSE, "temporarily_unavailable")
      /\ Fail(u, "retry") /\ UNCHANGED <<sources, current, readings>>
      /\ update[u].pc = "local"
  BY DEF LocalFails, Served
<1>2. /\ Withdraw(update[u].of, u)
      /\ session' \in [Instances -> BOOLEAN]
      /\ \A i \in Instances : i # update[u].of => session'[i] = session[i]
      /\ result' \in [Instances -> Results]
  BY <1>1, Left DEF Results
<1>3. Moves(u, Idle)
  BY <1>1, <1>2, IdleType DEF Moves, Fail
<1> QED
  BY <1>1, <1>2, <1>3, FailInv

LEMMA CloudAnswersInv == ASSUME IInv, NEW u \in Updates, CloudAnswers(u) PROVE IInv'
  BY CloudPublishInv DEF CloudAnswers

LEMMA CloudRefusesInv ==
  ASSUME IInv, NEW u \in Updates, NEW state \in {"retry", "error"}, CloudRefuses(u, state)
  PROVE  IInv'
  BY CloudFailInv DEF CloudRefuses

LEMMA CloudUnreachableInv ==
  ASSUME IInv, NEW u \in Updates, CloudUnreachable(u) PROVE IInv'
  BY CloudPublishInv, CloudFailInv DEF CloudUnreachable

LEMMA CancelInv == ASSUME IInv, NEW u \in Updates, Cancel(u) PROVE IInv'
<1>1. /\ update[u].pc # "idle" /\ u # FirstOne
      /\ UNCHANGED <<sources, entry, current, runtime, session, result, published,
                     readings, unclosed>>
  BY CallerAssumption DEF Cancel
<1>2. Moves(u, Idle)
  BY IdleType DEF Cancel, Moves
<1>3. /\ data' \in [Instances -> DataType] /\ success' \in [Instances -> BOOLEAN]
      /\ session' \in [Instances -> BOOLEAN] /\ result' \in [Instances -> Results]
      /\ \A i \in Instances : Fields(data'[i], readings')
      /\ readings' \in readings .. MaxReadings /\ unclosed' \subseteq 1 .. current
  BY <1>1, Known DEF IInv, TypeOK, Read, Drives, published
<1>4. Fields(Idle.draft, readings')
  BY <1>1, IdleType
<1> QED
  BY <1>1, <1>2, <1>3, <1>4, IdleType, GoesOnInv

\* A step of the entry, or of its local client, in which no refresh moves.
LEMMA EntryInv ==
  ASSUME IInv, UNCHANGED <<sources, current, published, update, readings, result>>,
         calls' \in [Instances -> Seq(Callers)], Linked',
         \A i \in Instances : Once(calls'[i]),
         \A i \in Instances :
           Among(calls'[i], Closer) <=>
             entry' = "closing" /\ i = current /\ "local" \in sources,
         session' \in [Instances -> BOOLEAN],
         entry \notin {"unloaded", "setup"} \/ entry' = entry,
         entry' \in EntryStates, entry' = "setup" => entry = "setup",
         runtime' \in 0 .. current,
         entry' \in {"forwarding", "loaded", "closing", "unloading", "stuck"} =>
           runtime' = current,
         unclosed' \subseteq 1 .. current,
         Quiet'
  PROVE  IInv'
<1>1. TypeOK'
  <2>1. /\ current' \in Instances \cup {0} /\ readings' \in 0 .. MaxReadings
        /\ result' \in [Instances -> Results] /\ data' \in [Instances -> DataType]
        /\ success' \in [Instances -> BOOLEAN] /\ current' = current
    BY DEF IInv, TypeOK, published
  <2>2. update' \in [Updates -> UpdateType']
    BY Known, TypesKept
  <2>3. unclosed' \subseteq Instances
    BY Known DEF Instances
  <2> QED
    BY <2>1, <2>2, <2>3, TypeKept
<1>2. Queues'
  BY DEF Queues
<1>3. Drives'
  BY DEF IInv, Drives
<1>4. Read'
  BY DEF IInv, Read, published
<1> QED
  BY <1>1, <1>2, <1>3, <1>4 DEF IInv

LEMMA SameQueues ==
  ASSUME IInv, UNCHANGED <<calls, update>>
  PROVE  /\ calls' \in [Instances -> Seq(Callers)]
         /\ Linked'
         /\ \A i \in Instances : Once(calls'[i])
         /\ \A i \in Instances :
              Among(calls'[i], Closer) <=>
                entry = "closing" /\ i = current /\ "local" \in sources
  BY Known DEF Linked, IInv, Queues

LEMMA StutterInv == ASSUME IInv, UNCHANGED vars PROVE IInv'
<1>1. /\ UNCHANGED <<sources, current, published, update, readings, result, calls>>
      /\ UNCHANGED <<entry, runtime, session, unclosed>>
  BY DEF vars, service, published
<1>2. TypeOK'
  BY <1>1, TypesKept DEF IInv, TypeOK, published
<1> QED
  BY <1>1, <1>2 DEF IInv, Queues, Drives, Read, Quiet, InUse, published

LEMMA PlatformsForwardedInv == ASSUME IInv, PlatformsForwarded PROVE IInv'
<1>1. /\ entry = "forwarding" /\ entry' \in {"loaded", "error"}
      /\ unclosed \subseteq unclosed' /\ unclosed' \subseteq 1 .. current
      /\ entry' = "error" => current \in unclosed'
      /\ UNCHANGED <<sources, current, runtime, calls, session, result, published,
                     update, readings>>
  <2>1. unclosed \subseteq 1 .. current /\ current \in 1 .. current
    BY Known DEF IInv, Drives, PlatformsForwarded
  <2> QED
    BY <2>1 DEF PlatformsForwarded, service
<1>2. /\ runtime = current /\ session \in [Instances -> BOOLEAN]
      /\ runtime \in 0 .. current
  BY <1>1 DEF IInv, TypeOK
<1>3. Quiet'
  BY <1>1 DEF IInv, Quiet, InUse
<1> QED
  BY <1>1, <1>2, <1>3, SameQueues, EntryInv DEF EntryStates

LEMMA UnloadInv == ASSUME IInv, Unload PROVE IInv'
<1>1. /\ entry = "loaded" /\ runtime = current /\ current \in Instances
      /\ runtime \in 0 .. current
      /\ UNCHANGED <<sources, current, runtime, session, result, published, update,
                     readings, unclosed>>
      /\ session \in [Instances -> BOOLEAN] /\ unclosed \subseteq 1 .. current
  BY Known DEF Unload, IInv, TypeOK, Drives
<1>2. CASE "local" \in sources
  <2>1. entry' = "closing" /\ Joins(current, Closer)
    BY <1>1, <1>2 DEF Unload, Joins
  <2>2. Closer \in Callers /\ \A i \in Instances : ~Among(calls[i], Closer)
    BY <1>1 DEF Callers, IInv, Queues
  <2>3. /\ calls' \in [Instances -> Seq(Callers)]
        /\ \A j \in Instances : j # current => calls'[j] = calls[j]
        /\ Once(calls'[current])
        /\ EndsWith(calls'[current], Closer)
        /\ \A w : Among(calls'[current], w) <=> Among(calls[current], w) \/ w = Closer
    BY <1>1, <2>1, <2>2, Joined
  <2>4. Linked'
    BY <1>1, <2>3, Known DEF Linked
  <2>5. Quiet'
    BY <1>1, <1>2, <2>1, <2>3 DEF IInv, Quiet, InUse
  <2>6. \A i \in Instances :
          /\ Once(calls'[i])
          /\ Among(calls'[i], Closer) <=>
               entry' = "closing" /\ i = current /\ "local" \in sources
    BY <1>2, <2>1, <2>2, <2>3, Known
  <2> QED
    BY <1>1, <2>1, <2>3, <2>4, <2>5, <2>6, EntryInv DEF EntryStates
<1>3. CASE "local" \notin sources
  <2>1. entry' = "unloading" /\ calls' = calls
    BY <1>3 DEF Unload
  <2>2. Quiet'
    BY <1>1, <1>3, <2>1 DEF IInv, Quiet, InUse
  <2> QED
    BY <1>1, <1>3, <2>1, <2>2, SameQueues, EntryInv DEF EntryStates
<1> QED
  BY <1>2, <1>3

LEMMA ClosedInv == ASSUME IInv, Closed PROVE IInv'
<1>1. /\ entry = "closing" /\ runtime = current /\ current \in Instances
      /\ entry' = "unloading" /\ runtime \in 0 .. current
      /\ UNCHANGED <<sources, current, runtime, published, update, readings, unclosed>>
      /\ session \in [Instances -> BOOLEAN] /\ result \in [Instances -> Results]
      /\ unclosed \subseteq 1 .. current
  BY Known DEF Closed, IInv, TypeOK, Drives
<1>2. /\ calls' = [calls EXCEPT ![current] = Tail(@)]
      /\ session' = [session EXCEPT ![current] = FALSE]
      /\ result' = [result EXCEPT ![current] = result[current]]
      /\ calls[current] # <<>> /\ Head(calls[current]) = Closer
  BY <1>1 DEF Closed, Leave
<1>3. result' = result /\ session' \in [Instances -> BOOLEAN] /\ ~session'[current]
      /\ \A i \in Instances : i # current => session'[i] = session[i]
  BY <1>1, <1>2
<1>4. Withdraw(current, Closer)
  BY <1>1, <1>2, HeadWithdraws
<1>5. /\ calls' \in [Instances -> Seq(Callers)]
      /\ \A j \in Instances : j # current => calls'[j] = calls[j]
      /\ Once(calls'[current])
      /\ \A w : Among(calls'[current], w) <=> Among(calls[current], w) /\ w # Closer
  BY <1>1, <1>4, Withdrawn
<1>6. Linked'
  BY <1>1, <1>5, Known DEF Linked
<1>7. \A i \in Instances :
        /\ Once(calls'[i])
        /\ Among(calls'[i], Closer) <=>
             entry' = "closing" /\ i = current /\ "local" \in sources
  BY <1>1, <1>5, Known DEF IInv, Queues
<1>8. /\ "local" \in sources
      /\ current \notin unclosed => calls'[current] = <<>>
  <2>1. calls[current] \in Seq(Callers) /\ calls[current][1] = Closer
        /\ 1 \in DOMAIN calls[current] /\ Once(calls[current])
    BY <1>1, <1>2, Known
  <2>2. "local" \in sources
    BY <1>1, <1>2 DEF IInv, Quiet
  <2>3. ASSUME current \notin unclosed PROVE calls'[current] = <<>>
    <3>1. EndsWith(calls[current], Closer)
      BY <1>1, <2>2, <2>3 DEF IInv, Quiet
    <3>2. Len(calls[current]) = 1
      <4>1. /\ Len(calls[current]) \in DOMAIN calls[current]
            /\ calls[current][Len(calls[current])] = Closer
        BY <2>1, <3>1 DEF EndsWith
      <4> QED
        BY <2>1, <4>1 DEF Once
    <3> QED
      BY <1>1, <1>2, <2>1, <3>2, Known
  <2> QED
    BY <2>2, <2>3
<1>9. Quiet'
  BY <1>1, <1>3, <1>5, <1>8 DEF IInv, Quiet, InUse
<1> QED
  BY <1>1, <1>3, <1>5, <1>6, <1>7, <1>9, EntryInv DEF EntryStates

LEMMA PlatformsUnloadedInv == ASSUME IInv, PlatformsUnloaded PROVE IInv'
<1>1. /\ entry = "unloading" /\ runtime = current
      /\ \/ entry' = "unloaded" /\ runtime' = 0
         \/ entry' = "stuck" /\ runtime' = runtime
      /\ UNCHANGED <<sources, current, calls, session, result, published, update,
                     readings, unclosed>>
      /\ session \in [Instances -> BOOLEAN] /\ unclosed \subseteq 1 .. current
      /\ runtime \in 0 .. current /\ 0 \in 0 .. current
  BY Known DEF PlatformsUnloaded, IInv, TypeOK, Drives, service
<1>2. Quiet'
  BY <1>1 DEF IInv, Quiet, InUse
<1> QED
  BY <1>1, <1>2, SameQueues, EntryInv DEF EntryStates

LEMMA SessionGivenUpInv ==
  ASSUME IInv, NEW i \in Instances, SessionGivenUp(i) PROVE IInv'
<1>1. /\ UNCHANGED <<sources, entry, current, runtime, calls, result, published, update,
                     readings, unclosed>>
      /\ session' = [session EXCEPT ![i] = FALSE]
      /\ session \in [Instances -> BOOLEAN] /\ unclosed \subseteq 1 .. current
      /\ entry \in EntryStates /\ runtime \in 0 .. current
      /\ entry \in {"forwarding", "loaded", "closing", "unloading", "stuck"} =>
           runtime = current
  BY DEF SessionGivenUp, IInv, TypeOK, Drives
<1>2. /\ session' \in [Instances -> BOOLEAN]
      /\ \A j \in Instances : session'[j] => session[j]
  BY <1>1
<1>3. Quiet'
  BY <1>1, <1>2 DEF IInv, Quiet, InUse
<1> QED
  BY <1>1, <1>2, <1>3, SameQueues, EntryInv

LEMMA NextInv == IInv /\ [Next]_vars => IInv'
<1> SUFFICES ASSUME IInv, [Next]_vars PROVE IInv'
  OBVIOUS
<1>1. CASE UNCHANGED vars
  BY <1>1, StutterInv
<1>2. CASE SetUp \/ PlatformsForwarded \/ Unload \/ Closed \/ PlatformsUnloaded
  BY <1>2, SetUpInv, PlatformsForwardedInv, UnloadInv, ClosedInv, PlatformsUnloadedInv
<1>3. CASE \E i \in Instances : SessionGivenUp(i)
  BY <1>3, SessionGivenUpInv
<1>4. CASE \E u \in Refreshes : Refresh(u)
  BY <1>4, RefreshInv
<1>5. ASSUME NEW u \in Updates, Step(u) PROVE IInv'
  BY <1>5, LocalSucceedsInv, LocalFailsInv, CloudAnswersInv, CloudUnreachableInv,
     CloudRefusesInv, CancelInv DEF Step
<1> QED
  BY <1>1, <1>2, <1>3, <1>4, <1>5 DEF Next

-----------------------------------------------------------------------------
\* The theorems

\* The inductive invariant holds in every reachable state of the entry, its setups
\* and their refreshes (__init__.py:27-71, coordinator.py:79-115).
THEOREM Invariance == Spec => []IInv
<1> QED
  BY InitInv, NextInv, PTL DEF Spec

\* Types, and a refresh is queued where it awaits its local client.
THEOREM TypeCorrect == Spec => []TypeOK
<1>1. IInv => TypeOK
  BY DEF IInv
<1> QED
  BY <1>1, Invariance, PTL

\* The charger's values are shown beside core values of the same reading alone
\* (coordinator.py:81-89, sensor.py:325-335).
THEOREM ReadingsTogether == Spec => []OneReadingShown
<1>1. IInv => OneReadingShown
  BY DEF IInv, Read, Fields, OneReadingShown, AvailableCore, AvailableCharger
<1> QED
  BY <1>1, Invariance, PTL

\* An entry that is not set up has no session at its local client, whatever was
\* under way when it was unloaded (__init__.py:60, 69-71).
THEOREM UnloadedQuietly == Spec => []QuietUnload
<1>1. IInv => QuietUnload
  BY DEF IInv, Quiet, InUse, QuietUnload
<1> QED
  BY <1>1, Invariance, PTL

\* With the local source alone, a reading is not published over a later one
\* (coordinator.py:86-89, 115).
THEOREM ReadingsOrdered == Spec => ReadingsInOrder
<1> DEFINE Ordered ==
      sources = {"local"} =>
        \A i \in Instances : data'[i].fields.core >= data[i].fields.core
<1>1. IInv /\ [Next]_vars => [Ordered]_vars
  <2> SUFFICES ASSUME IInv, Next, sources = {"local"}, NEW i \in Instances
               PROVE  data'[i].fields.core >= data[i].fields.core
    OBVIOUS
  <2>1. /\ data[i].fields.core \in Nat /\ data[i].fields.core <= readings
        /\ readings \in Nat
    BY Known DEF IInv, Read, Fields, DataType, FieldType
  <2>2. CASE data' = data
    BY <2>1, <2>2
  <2>3. ASSUME NEW u \in Updates, LocalSucceeds(u)
        PROVE  data'[i].fields.core >= data[i].fields.core
    <3>1. PICK retained \in BOOLEAN, charger \in BOOLEAN, refused \in Refusals :
            AfterLocal(u, Merged(update[u].draft, refused, charger))
      BY <2>3 DEF LocalSucceeds
    <3>2. PICK m : m = Merged(update[u].draft, refused, charger)
      OBVIOUS
    <3>3. Publish(u, m)
      BY <3>1, <3>2 DEF AfterLocal
    <3>4. m.fields.core = readings + 1
      <4>1. refused \in BOOLEAN /\ update[u].draft \in DataType /\ "local" \in sources
        BY Known, BoundAssumption DEF UpdateType
      <4> QED
        BY <3>2, <4>1, MergedType
    <3>5. data'[i] = m \/ data'[i] = data[i]
      BY <3>3, Known DEF Publish
    <3> QED
      BY <2>1, <3>4, <3>5
  <2>4. ASSUME NEW u \in Updates, Step(u), ~LocalSucceeds(u) PROVE data' = data
    <3>1. update[u].pc # "cloud"
      BY DEF IInv, Drives
    <3> QED
      BY <2>4, <3>1 DEF Step, LocalFails, Fail, Cancel, CloudAnswers, CloudUnreachable,
                        CloudRefuses, published
  <2>5. CASE SetUp \/ PlatformsForwarded \/ Unload \/ Closed \/ PlatformsUnloaded
             \/ (\E j \in Instances : SessionGivenUp(j))
             \/ (\E u \in Refreshes : Refresh(u))
    <3>1. data' = data
      BY <2>5 DEF SetUp, PlatformsForwarded, Unload, Closed, PlatformsUnloaded,
                  SessionGivenUp, Refresh, published
    <3> QED
      BY <2>2, <3>1
  <2> QED
    BY <2>2, <2>3, <2>4, <2>5 DEF Next
<1> QED
  BY <1>1, Invariance, PTL DEF Spec, ReadingsInOrder

-----------------------------------------------------------------------------
\* Every local client is used as a service

\* One instance's queue changes at most, and it as the service allows.
Serves(i) == Client(i)!Next \/ UNCHANGED Client(i)!vars

LEMMA ServesSame ==
  ASSUME NEW i \in Instances, calls'[i] = calls[i], session'[i] = session[i],
         result'[i] = result[i]
  PROVE  Serves(i)
  BY DEF Serves, Client!vars

LEMMA ServesUnchanged ==
  ASSUME UNCHANGED <<calls, session, result>>
  PROVE  \A i \in Instances : Serves(i)
  BY ServesSame

\* A new caller, which is not among those of the instance yet.
LEMMA CallServes ==
  ASSUME IInv, NEW i \in Instances, NEW v \in Callers, ~Among(calls[i], v), Joins(i, v),
         UNCHANGED <<session, result>>
  PROVE  \A j \in Instances : Serves(j)
<1>1. /\ calls'[i] = Append(calls[i], v)
      /\ \A j \in Instances : j # i => calls'[j] = calls[j]
  BY Known DEF Joins
<1>2. Client(i)!Call(v)
  BY <1>1 DEF Client!Call, Client!Calling, Among
<1>3. Serves(i)
  BY <1>2 DEF Serves, Client!Next, Client!Callers, Callers
<1>4. \A j \in Instances : j # i => Serves(j)
  BY <1>1, ServesSame
<1> QED
  BY <1>3, <1>4

\* The instance's first caller leaves with a result.
LEMMA LeaveServes ==
  ASSUME IInv, NEW i \in Instances, NEW retained \in BOOLEAN, NEW outcome,
         calls[i] # <<>>, Leave(i, retained, outcome),
         \/ Head(calls[i]) \in Updates /\ outcome = "success"
         \/ /\ Head(calls[i]) \in Updates /\ retained = FALSE
            /\ outcome = "temporarily_unavailable"
         \/ Head(calls[i]) = Closer /\ retained = FALSE /\ outcome = result[i]
  PROVE  \A j \in Instances : Serves(j)
<1>1. /\ calls'[i] = Tail(calls[i]) /\ session'[i] = retained /\ result'[i] = outcome
      /\ \A j \in Instances : j # i =>
           calls'[j] = calls[j] /\ session'[j] = session[j] /\ result'[j] = result[j]
  BY Known DEF Leave, IInv, TypeOK
<1>2. ASSUME Head(calls[i]) \in Updates /\ outcome = "success"
      PROVE  Serves(i)
  <2>1. Client(i)!Succeed
    BY <1>1, <1>2 DEF Client!Succeed, Client!First, Client!Leave
  <2> QED
    BY <2>1 DEF Serves, Client!Next
<1>3. ASSUME /\ Head(calls[i]) \in Updates /\ retained = FALSE
             /\ outcome = "temporarily_unavailable"
      PROVE  Serves(i)
  <2>1. Client(i)!Fail
    BY <1>1, <1>3 DEF Client!Fail, Client!First, Client!Leave
  <2> QED
    BY <2>1 DEF Serves, Client!Next
<1>4. ASSUME Head(calls[i]) = Closer /\ retained = FALSE /\ outcome = result[i]
      PROVE  Serves(i)
  <2>1. Client(i)!Close
    BY <1>1, <1>4 DEF Client!Close, Client!First, Client!Leave
  <2> QED
    BY <2>1 DEF Serves, Client!Next
<1>5. Serves(i)
  BY <1>2, <1>3, <1>4
<1>6. \A j \in Instances : j # i => Serves(j)
  BY <1>1, ServesSame
<1> QED
  BY <1>5, <1>6

LEMMA BeginServes ==
  ASSUME IInv, NEW u \in Updates, NEW i \in Instances, update[u].pc = "idle",
         Begin(u, i), UNCHANGED <<session, result>>
  PROVE  \A j \in Instances : Serves(j)
<1>1. CASE "local" \in sources
  <2>1. Joins(i, u) /\ ~Among(calls[i], u) /\ u \in Callers
    BY <1>1, Known DEF Begin, Joins, Linked, Callers
  <2> QED
    BY <2>1, CallServes
<1>2. CASE "local" \notin sources
  BY <1>2, ServesUnchanged DEF Begin
<1> QED
  BY <1>1, <1>2

LEMMA CancelServes ==
  ASSUME IInv, NEW u \in Updates, Cancel(u)
  PROVE  \A j \in Instances : Serves(j)
<1>1. session' = session /\ result' = result
  BY DEF Cancel
<1>2. CASE calls' = calls
  BY <1>1, <1>2, ServesUnchanged
<1>3. CASE update[u].pc = "local" /\ Withdraw(update[u].of, u)
  <2>1. PICK i \in Instances : i = update[u].of
    BY <1>3, Known DEF IInv, Drives, Instances
  <2>2. PICK k \in DOMAIN calls[i] :
          /\ calls[i][k] = u
          /\ calls' = [calls EXCEPT ![i] =
               SubSeq(@, 1, k - 1) \o SubSeq(@, k + 1, Len(@))]
    BY <1>3, <2>1 DEF Withdraw
  <2>3. /\ calls'[i] = SubSeq(calls[i], 1, k - 1) \o SubSeq(calls[i], k + 1, Len(calls[i]))
        /\ \A j \in Instances : j # i => calls'[j] = calls[j]
    BY <2>1, <2>2, Known
  <2>4. Client(i)!Cancel
    BY <1>1, <2>1, <2>2, <2>3 DEF Client!Cancel, Client!Without
  <2>5. Serves(i)
    BY <2>4 DEF Serves, Client!Next
  <2>6. \A j \in Instances : j # i => Serves(j)
    BY <1>1, <2>3, ServesSame
  <2> QED
    BY <2>5, <2>6
<1> QED
  BY <1>2, <1>3 DEF Cancel

LEMMA StepServes ==
  ASSUME IInv, NEW u \in Updates, Step(u)
  PROVE  \A i \in Instances : Serves(i)
<1>1. ASSUME LocalSucceeds(u) PROVE \A i \in Instances : Serves(i)
  <2>1. PICK retained \in BOOLEAN : Leave(update[u].of, retained, "success")
    BY <1>1 DEF LocalSucceeds
  <2> QED
    BY <1>1, <2>1, TurnOf, LeaveServes DEF LocalSucceeds
<1>2. ASSUME LocalFails(u) PROVE \A i \in Instances : Serves(i)
  <2>1. Leave(update[u].of, FALSE, "temporarily_unavailable") /\ Served(u)
    BY <1>2 DEF LocalFails
  <2> QED
    BY <2>1, TurnOf, LeaveServes
<1>3. ASSUME UNCHANGED service PROVE \A i \in Instances : Serves(i)
  BY <1>3, ServesUnchanged DEF service
<1> QED
  BY <1>1, <1>2, <1>3, CancelServes
  DEF Step, CloudAnswers, CloudUnreachable, CloudRefuses

LEMMA EntryServes ==
  ASSUME IInv, SetUp \/ PlatformsForwarded \/ Unload \/ Closed \/ PlatformsUnloaded
  PROVE  \A i \in Instances : Serves(i)
<1>1. ASSUME SetUp PROVE \A i \in Instances : Serves(i)
  <2>1. current' \in Instances
    BY <1>1, Known DEF SetUp, Instances
  <2> QED
    BY <1>1, <2>1, Known, BeginServes DEF SetUp
<1>2. ASSUME PlatformsForwarded \/ PlatformsUnloaded PROVE \A i \in Instances : Serves(i)
  BY <1>2, ServesUnchanged DEF PlatformsForwarded, PlatformsUnloaded, service
<1>3. ASSUME entry \in {"loaded", "closing"}
      PROVE  runtime = current /\ current \in Instances
  BY <1>3, Known DEF IInv, TypeOK, Drives
<1>4. ASSUME Unload PROVE \A i \in Instances : Serves(i)
  <2>1. runtime \in Instances /\ session' = session /\ result' = result
    BY <1>3, <1>4 DEF Unload
  <2>2. CASE calls' = [calls EXCEPT ![runtime] = Append(@, Closer)]
    <3>1. ~Among(calls[runtime], Closer) /\ Closer \in Callers
      BY <1>4, <2>1 DEF Unload, IInv, Queues, Callers
    <3> QED
      BY <2>1, <2>2, <3>1, CallServes DEF Joins
  <2>3. CASE calls' = calls
    BY <2>1, <2>3, ServesUnchanged
  <2> QED
    BY <1>4, <2>2, <2>3 DEF Unload
<1>5. ASSUME Closed PROVE \A i \in Instances : Serves(i)
  BY <1>3, <1>5, LeaveServes DEF Closed
<1> QED
  BY <1>1, <1>2, <1>4, <1>5

LEMMA NextServes == IInv /\ [Next]_vars => \A i \in Instances : Serves(i)
<1> SUFFICES ASSUME IInv, [Next]_vars PROVE \A i \in Instances : Serves(i)
  OBVIOUS
<1>1. CASE UNCHANGED vars
  BY <1>1, ServesUnchanged DEF vars, service
<1>2. CASE \E i \in Instances : SessionGivenUp(i)
  <2>1. PICK i \in Instances : SessionGivenUp(i)
    BY <1>2
  <2>2. /\ calls' = calls /\ result' = result /\ calls[i] # <<>> /\ session'[i] = FALSE
        /\ \A j \in Instances : j # i => session'[j] = session[j]
    BY <2>1 DEF SessionGivenUp, IInv, TypeOK
  <2>3. Head(calls[i]) \in Callers
    BY <2>2, Known
  <2>4. Client(i)!GiveUp
    BY <2>2, <2>3 DEF Client!GiveUp, Client!First, Client!Callers, Callers
  <2>5. Serves(i)
    BY <2>4 DEF Serves, Client!Next
  <2>6. \A j \in Instances : j # i => Serves(j)
    BY <2>2, ServesSame
  <2> QED
    BY <2>5, <2>6
<1>3. ASSUME NEW u \in Refreshes, Refresh(u) PROVE \A i \in Instances : Serves(i)
  <2>1. u \in Updates /\ current \in Instances
    BY <1>3, Known DEF Refresh, IInv, Drives, Instances, Updates
  <2> QED
    BY <1>3, <2>1, BeginServes DEF Refresh
<1> QED
  BY <1>1, <1>2, <1>3, EntryServes, StepServes DEF Next

\* Every local client is called as its promise (LocalService) has it: whatever
\* refreshes, setups and unloads overlap (coordinator.py:86-90, __init__.py:69-71).
THEOREM ClientsAreServices == Spec => ClientsServe
<1>1. Init => \A i \in Instances : Client(i)!Init
  BY DEF Init, Client!Init
<1>2. IInv /\ [Next]_vars =>
        [\A i \in Instances : Client(i)!Next \/ UNCHANGED Client(i)!vars]_vars
  BY NextServes DEF Serves
<1> QED
  BY <1>1, <1>2, Invariance, PTL DEF Spec, ClientsServe
=============================================================================
