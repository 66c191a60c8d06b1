--------------------------- MODULE SajSession_proofs ---------------------------
(***************************************************************************)
(* Theorems about SajSession, for every number of reads and of requests    *)
(* and every number of frames in an answer: what a poll accepts is the     *)
(* answer it waits for, whatever is left over on the connection; nothing   *)
(* is lost by the client's own doing; and a timeout ends the session.      *)
(***************************************************************************)
EXTENDS SajSession, SequenceTheorems, TLAPS

-----------------------------------------------------------------------------
\* The inductive invariant

\* A poll under way has requests left for the rest of its reads, and only the first
\* one asks for the identity.
Budget ==
  /\ phase \in {"writing", "waiting"} => sent + (Charger - read) <= MaxRequests
  /\ read <= Discovery => newSession

\* Frames are on their way in the order of their answers, each answer to its end, and
\* requests wait for theirs in the order they were sent, behind all of those.
Stream ==
  /\ \A i \in DOMAIN air : air[i].index < Parts(air[i].read)
  /\ \A i, j \in DOMAIN air : i < j =>
       \/ air[i].id < air[j].id
       \/ /\ air[i].id = air[j].id /\ air[i].read = air[j].read
          /\ i + air[j].index = j + air[i].index
  /\ \A i \in DOMAIN air :
       i = Len(air) \/ air[i + 1].id # air[i].id => air[i].index + 1 = Parts(air[i].read)
  /\ \A i, j \in DOMAIN inbox : i < j => inbox[i].id < inbox[j].id
  /\ \A i \in DOMAIN air, j \in DOMAIN inbox : air[i].id < inbox[j].id

\* x, a request or a frame, belongs to a request that was sent; the latest one is
\* for the current read.
Asked(x) == x.id <= sent /\ (x.id = sent => phase # "writing" /\ x.read = read)

Asking ==
  /\ \A i \in DOMAIN air : Asked(air[i])
  /\ \A i \in DOMAIN inbox : Asked(inbox[i])

\* An assembler holds fragments of one answer, and if some are missing the next of
\* them is the next frame to arrive.
Assembly ==
  /\ Len(assembler.ids) = assembler.next
  /\ \A i \in DOMAIN assembler.ids : assembler.ids[i] = assembler.ids[1]
  /\ assembler.next > 0 /\ assembler.next < assembler.total =>
       /\ air # <<>>
       /\ air[1].id = assembler.ids[1]
       /\ air[1].index = assembler.next
       /\ Parts(air[1].read) = assembler.total

\* A message is one whole answer, and that to the latest request comes last.
Whole(m) ==
  /\ Len(m.ids) = Parts(m.read)
  /\ \A i \in DOMAIN m.ids : m.ids[i] = m.ids[1]
  /\ m.ids[1] = sent => m.read = read /\ phase # "writing" /\ air = <<>> /\ inbox = <<>>

Outcome == future.state = "result" => Whole(future.message)

\* Nothing older than the current request is under way: nothing has gone wrong on
\* this session, or an exchange of this poll has succeeded.
Sure ==
  /\ phase # "closed"
  /\ blame = {} \/ (phase # "idle" /\ (newSession \/ read > Discovery + 1))

Clean ==
  Sure =>
    /\ \A i \in DOMAIN inbox : phase = "waiting" /\ inbox[i].id = sent
    /\ \A i \in DOMAIN air : phase = "waiting" /\ air[i].id = sent
    /\ future.state = "result" => future.message.ids[1] = sent

\* While nothing has gone wrong the assembler waits for the next frame that arrives.
InStep(a) ==
  air # <<>> =>
    Parts(air[1].read) = 1
      \/ (a.next = air[1].index /\ a.total \in {0, Parts(air[1].read)})

Sync ==
  blame = {} /\ phase \in {"writing", "waiting"} =>
    /\ \A i \in DOMAIN air : air[i].sound = "good"
    /\ future.state \in {"pending", "result"}
    /\ future.state = "result" => future.message.sound = "good"
    /\ phase = "writing" \/ inbox # <<>> => assembler = Empty
    /\ InStep(assembler)

IInv ==
  /\ TypeOK /\ Budget /\ Stream /\ Asking /\ Assembly /\ Outcome /\ Clean /\ Sync
  /\ TimeoutEndsSession
  /\ NoSelfInflictedLoss

-----------------------------------------------------------------------------
\* What is known in every state

LEMMA Numbers ==
  /\ EmsReads \in Nat /\ EmsReads > 0 /\ CoreReads \in Nat /\ EmsReads <= CoreReads
  /\ MaxRequests \in Nat /\ MaxRequests >= CoreReads + 3
  /\ Sinfo = 1 /\ Discovery = 2 /\ LastEms = EmsReads + 2 /\ LastCore = CoreReads + 2
  /\ Charger = CoreReads + 3 /\ Reads = 1 .. Charger
  /\ \A r \in Reads : Parts(r) \in Nat /\ Parts(r) > 0
  BY SizeAssumption DEF Sinfo, Discovery, LastEms, LastCore, Charger, Reads, Parts

LEMMA Known ==
  ASSUME IInv
  PROVE  /\ phase \in {"writing", "waiting", "idle", "closed"}
         /\ read \in Reads /\ sent \in 1 .. MaxRequests
         /\ inbox \in Seq(Request) /\ air \in Seq(Frame)
         /\ \A i \in DOMAIN inbox : inbox[i] \in Request
         /\ \A i \in DOMAIN air : air[i] \in Frame
         /\ DOMAIN inbox = 1 .. Len(inbox) /\ Len(inbox) \in Nat
         /\ DOMAIN air = 1 .. Len(air) /\ Len(air) \in Nat
         /\ assembler \in AssemblerType /\ assembler.next <= assembler.total
         /\ blame \subseteq Blames
         /\ future.state \in {"pending", "cancelled", "raised", "result"}
         /\ future.state = "result" => future.message \in Message
  BY DEF IInv, TypeOK, Pending, Cancelled, Raised

LEMMA FutureStates ==
  /\ Pending.state = "pending" /\ Cancelled.state = "cancelled"
  /\ \A e : Raised(e).state = "raised"
  /\ \A m : Result(m).state = "result" /\ Result(m).message = m
  BY DEF Pending, Cancelled, Raised, Result

LEMMA Nothing ==
  ASSUME NEW S, NEW q \in Seq(S), \A i \in DOMAIN q : FALSE
  PROVE  q = <<>>
<1>1. Len(q) \in Nat /\ DOMAIN q = 1 .. Len(q)
  OBVIOUS
<1>2. Len(q) = 0
  BY <1>1
<1> QED
  BY <1>2, EmptySeq

\* What a queue is without its first element, and with one more.
LEMMA Dequeued ==
  ASSUME NEW S, NEW q \in Seq(S), q # <<>>
  PROVE  /\ Tail(q) \in Seq(S) /\ Len(Tail(q)) = Len(q) - 1 /\ Len(q) \in Nat /\ Len(q) > 0
         /\ DOMAIN q = 1 .. Len(q) /\ DOMAIN Tail(q) = 1 .. Len(q) - 1
         /\ \A i \in 1 .. Len(q) - 1 : Tail(q)[i] = q[i + 1] /\ i + 1 \in DOMAIN q
         /\ Head(q) = q[1] /\ Head(q) \in S /\ 1 \in DOMAIN q
  OBVIOUS

LEMMA Enqueued ==
  ASSUME NEW S, NEW q \in Seq(S), NEW e \in S
  PROVE  /\ Append(q, e) \in Seq(S) /\ Len(q) \in Nat
         /\ DOMAIN q = 1 .. Len(q) /\ DOMAIN Append(q, e) = 1 .. Len(q) + 1
         /\ \A i \in 1 .. Len(q) : Append(q, e)[i] = q[i]
         /\ Append(q, e)[Len(q) + 1] = e
  OBVIOUS

-----------------------------------------------------------------------------
\* Steps by which no request, answer or frame moves

\* A poll ends, or only the charger's pause does.
LEMMA RestInv ==
  ASSUME IInv, UNCHANGED <<read, sent, newSession, device, assembler>>,
         \/ phase' \in {"idle", "closed"} /\ future' \in {future, Cancelled}
         \/ phase' = phase /\ future' = future,
         paused' \in BOOLEAN, mustClose' \in BOOLEAN,
         timedOut' \in BOOLEAN, coreLost' \in BOOLEAN,
         blame \subseteq blame', blame' \subseteq Blames,
         phase' = "idle" /\ blame' = {} =>
           /\ inbox = <<>> /\ air = <<>>
           /\ future'.state = "result" => future'.message.ids[1] = sent,
         timedOut' => phase' = "closed",
         coreLost' => blame' # {}
  PROVE  IInv'
<1>1. inbox' = inbox /\ air' = air
  BY DEF device
<1>2. TypeOK'
  BY <1>1 DEF IInv, TypeOK
<1>3. Budget' /\ Stream' /\ Assembly'
  BY <1>1 DEF IInv, Budget, Stream, Assembly
<1>4. Asking'
  BY <1>1 DEF IInv, Asking, Asked
<1>5. Outcome'
  BY <1>1, FutureStates DEF IInv, Outcome, Whole
<1>6. Clean'
  BY <1>1 DEF IInv, Clean, Sure
<1>7. Sync'
  BY <1>1 DEF IInv, Sync, InStep
<1> QED
  BY <1>2, <1>3, <1>4, <1>5, <1>6, <1>7 DEF IInv, TimeoutEndsSession, NoSelfInflictedLoss

-----------------------------------------------------------------------------
\* Sending a request

\* A message that is accepted is the whole answer to the current request, and
\* nothing else is left on the connection.
LEMMA AcceptedCurrent ==
  ASSUME IInv, Settled("result"), Accepts(future.message)
  PROVE  /\ future.message.read = read
         /\ Len(future.message.ids) = Parts(read)
         /\ \A i \in DOMAIN future.message.ids : future.message.ids[i] = sent
         /\ future.message.ids[1] = sent
         /\ inbox = <<>> /\ air = <<>>
<1> DEFINE m == future.message
<1>1. m \in Message /\ Whole(m) /\ phase = "waiting" /\ future.state = "result"
  BY Known DEF IInv, Outcome, Settled
<1>2. m.read \in Reads /\ m.ids \in Seq(1 .. MaxRequests) /\ m.ids # <<>>
      /\ Head(m.ids) = m.ids[1]
  <2>1. m.read \in Reads /\ m.ids \in Seq(1 .. MaxRequests)
    BY <1>1 DEF Message
  <2>2. Len(m.ids) > 0
    BY <1>1, <2>1, Numbers DEF Whole
  <2> QED
    BY <2>1, <2>2
<1>3. Sure => m.ids[1] = sent
  BY <1>1 DEF IInv, Clean
<1>4. ASSUME ~Sure PROVE m.ids[1] = sent
  <2>1. newSession = FALSE /\ read <= Discovery + 1
    BY <1>1, <1>4, Known, Numbers DEF Sure, IInv, TypeOK
  <2>2. read \notin {Sinfo, Discovery, Charger}
    BY <2>1, Numbers, Known DEF IInv, Budget
  <2>3. Head(m.ids) = sent
    BY <2>2 DEF Accepts, ParsedEms, ParsedModbus
  <2> QED
    BY <2>3, <1>2
<1>5. m.ids[1] = sent
  BY <1>3, <1>4
<1> QED
  BY <1>1, <1>5 DEF Whole

LEMMA AskInv ==
  ASSUME IInv, NEW r \in Reads, Ask(r), phase # "closed",
         sent + 1 + (Charger - r) <= MaxRequests,
         newSession' \in BOOLEAN, r <= Discovery => newSession',
         blame = {} \/ newSession' \/ r > Discovery + 1 => inbox = <<>> /\ air = <<>>,
         paused' \in BOOLEAN, UNCHANGED <<mustClose, history>>
  PROVE  IInv'
<1>1. /\ inbox' = inbox /\ air' = air /\ blame' = blame /\ coreLost' = coreLost
      /\ timedOut' = timedOut /\ mustClose' = mustClose
      /\ phase' = "writing" /\ read' = r /\ sent' = sent + 1
      /\ assembler' = Empty /\ future' = Pending
  BY DEF Ask, device, history
<1>2. sent + 1 \in 1 .. MaxRequests /\ sent \in Nat /\ sent < sent + 1
  BY Known, Numbers
<1>3. TypeOK'
  <2>1. Empty \in AssemblerType /\ Empty.next <= Empty.total
    BY DEF Empty, AssemblerType
  <2> QED
    BY <1>1, <1>2, <2>1 DEF IInv, TypeOK
<1>4. Budget'
  BY <1>1 DEF Budget
<1>5. Stream'
  BY <1>1 DEF IInv, Stream
<1>6. Asking'
  <2>1. ASSUME NEW x, x.id \in Nat, Asked(x) PROVE Asked(x)'
    BY <1>1, <1>2, <2>1 DEF Asked
  <2>2. \A i \in DOMAIN air : air[i].id \in Nat
    <3>1. \A f \in Frame : f.id \in 1 .. MaxRequests
      BY DEF Frame
    <3>2. \A i \in DOMAIN air : air[i].id \in 1 .. MaxRequests
      BY <3>1, Known
    <3> QED
      BY <3>2, Numbers
  <2>3. \A i \in DOMAIN inbox : inbox[i].id \in Nat
    <3>1. \A q \in Request : q.id \in 1 .. MaxRequests
      BY DEF Request
    <3>2. \A i \in DOMAIN inbox : inbox[i].id \in 1 .. MaxRequests
      BY <3>1, Known
    <3> QED
      BY <3>2, Numbers
  <2> QED
    BY <2>1, <2>2, <2>3, <1>1 DEF IInv, Asking
<1>7. Assembly'
  BY <1>1 DEF Assembly, Empty
<1>8. Outcome'
  BY <1>1, FutureStates DEF Outcome
<1>9. Clean'
  BY <1>1, FutureStates DEF Clean, Sure
<1>10. Sync'
  BY <1>1, FutureStates DEF Sync, InStep
<1> QED
  BY <1>1, <1>3, <1>4, <1>5, <1>6, <1>7, <1>8, <1>9, <1>10
     DEF IInv, TimeoutEndsSession, NoSelfInflictedLoss

LEMMA NextCycleInv ==
  ASSUME IInv, NextCycle
  PROVE  IInv'
<1>1. /\ phase = "idle" /\ sent + CoreReads + 1 <= MaxRequests /\ Ask(Discovery + 1)
      /\ newSession' = FALSE /\ UNCHANGED <<paused, mustClose, history>>
  BY DEF NextCycle
<1>2. Discovery + 1 \in Reads /\ sent + 1 + (Charger - (Discovery + 1)) <= MaxRequests
      /\ ~(Discovery + 1 <= Discovery) /\ ~(Discovery + 1 > Discovery + 1)
  BY <1>1, Known, Numbers
<1>3. paused' \in BOOLEAN
  BY <1>1 DEF IInv, TypeOK
<1>4. blame = {} => inbox = <<>> /\ air = <<>>
  <2>1. blame = {} => (\A i \in DOMAIN inbox : FALSE) /\ (\A i \in DOMAIN air : FALSE)
    BY <1>1 DEF IInv, Clean, Sure
  <2> QED
    BY <2>1, Known, Nothing
<1> QED
  BY <1>1, <1>2, <1>3, <1>4, AskInv

LEMMA AcceptedInv ==
  ASSUME IInv, Accepted
  PROVE  IInv'
<1>1. /\ Settled("result") /\ Accepts(future.message)
      /\ paused' = (paused /\ read # Charger)
      /\ UNCHANGED <<newSession, mustClose, history>>
  BY DEF Accepted
<1>2. phase = "waiting" /\ inbox = <<>> /\ air = <<>> /\ future.message.ids[1] = sent
  BY <1>1, AcceptedCurrent DEF Settled
<1>3. paused' \in BOOLEAN /\ newSession' = newSession /\ newSession \in BOOLEAN
      /\ mustClose' \in BOOLEAN /\ blame \subseteq Blames /\ blame' = blame
      /\ timedOut' = timedOut /\ timedOut \in BOOLEAN /\ coreLost' = coreLost
      /\ coreLost \in BOOLEAN
  BY <1>1 DEF history, IInv, TypeOK
<1>4. ~timedOut /\ (coreLost => blame # {})
  BY <1>2 DEF IInv, TimeoutEndsSession, NoSelfInflictedLoss
<1>5. CASE read < LastCore \/ (read = LastCore /\ ~paused)
  <2>1. Ask(read + 1)
    BY <1>5 DEF Accepted
  <2>2. read \in Nat /\ read >= 1 /\ read <= LastCore
    BY <1>5, Known, Numbers
  <2>3. read + 1 \in Reads
    BY <2>2, Numbers
  <2>4. sent + (Charger - read) <= MaxRequests /\ (read <= Discovery => newSession)
    BY <1>2 DEF IInv, Budget
  <2>5. sent + 1 + (Charger - (read + 1)) <= MaxRequests
        /\ (read + 1 <= Discovery => newSession)
    BY <2>2, <2>4, Known, Numbers
  <2> QED
    BY <2>1, <2>3, <2>5, <1>1, <1>2, <1>3, AskInv
<1>6. CASE ~(read < LastCore \/ (read = LastCore /\ ~paused))
  <2>1. Finish(mustClose) /\ future' = future
    BY <1>6 DEF Accepted
  <2>2. UNCHANGED <<read, sent, newSession, device, assembler>>
        /\ phase' \in {"idle", "closed"}
    BY <2>1, <1>1 DEF Finish
  <2> QED
    BY <2>1, <2>2, <1>2, <1>3, <1>4, RestInv
<1> QED
  BY <1>5, <1>6

LEMMA AppendRequest ==
  ASSUME IInv, phase = "writing",
         inbox' = Append(inbox, [id |-> sent, read |-> read]),
         UNCHANGED <<read, sent, newSession, air, assembler, paused, mustClose,
                     timedOut, coreLost>>,
         \/ phase' = "waiting" /\ blame' = blame
         \/ phase' \in {"idle", "closed"} /\ blame' = blame \cup {"cancelled"},
         future' = future
  PROVE  IInv'
<1> DEFINE q == [id |-> sent, read |-> read]
<1>1. /\ sent \in Nat /\ q \in Request /\ q.id = sent /\ q.read = read
      /\ Len(inbox) \in Nat /\ Len(air) \in Nat
      /\ inbox' \in Seq(Request)
      /\ DOMAIN inbox = 1 .. Len(inbox) /\ DOMAIN inbox' = 1 .. Len(inbox) + 1
      /\ \A i \in 1 .. Len(inbox) : inbox'[i] = inbox[i] /\ inbox[i].id \in Nat
      /\ inbox'[Len(inbox) + 1] = q
      /\ \A i \in DOMAIN air : air[i].id \in Nat
  <2>1. q \in Request /\ sent \in Nat
    BY Known, Numbers DEF Request
  <2>2. \A i \in DOMAIN inbox : inbox[i].id \in Nat
    BY Known, Numbers DEF Request
  <2>3. \A i \in DOMAIN air : air[i].id \in Nat
    BY Known, Numbers DEF Frame
  <2> HIDE DEF q
  <2>4. Append(inbox, q) = inbox'
    BY DEF q
  <2> QED
    BY <2>1, <2>2, <2>3, <2>4, Known, Enqueued DEF q
<1>2. /\ \A i \in DOMAIN inbox : inbox[i].id < sent
      /\ \A i \in DOMAIN air : air[i].id < sent
  BY <1>1 DEF IInv, Asking, Asked
<1> HIDE DEF q
<1>3. blame' \subseteq Blames /\ blame \subseteq blame'
      /\ phase' \in {"waiting", "idle", "closed"}
  BY DEF IInv, TypeOK, Blames
<1>4. TypeOK'
  BY <1>1, <1>3 DEF IInv, TypeOK
<1>5. Budget'
  BY <1>3 DEF IInv, Budget
<1>6. Stream'
  BY <1>1, <1>2 DEF IInv, Stream
<1>7. Asking'
  <2>1. \A i \in DOMAIN air : Asked(air[i])'
    BY <1>1, <1>2 DEF Asked
  <2>2. ASSUME NEW i \in DOMAIN inbox' PROVE Asked(inbox[i])'
    <3>1. CASE i = Len(inbox) + 1
      BY <3>1, <1>1, <1>3 DEF Asked
    <3>2. CASE i \in 1 .. Len(inbox)
      BY <3>2, <1>1, <1>2 DEF Asked
    <3> QED
      BY <3>1, <3>2, <2>2, <1>1
  <2> QED
    BY <2>1, <2>2 DEF Asking
<1>8. Assembly'
  BY DEF IInv, Assembly
<1>9. Outcome'
  BY DEF IInv, Outcome, Whole
<1>10. Clean'
  <2> SUFFICES ASSUME Sure' PROVE /\ \A i \in DOMAIN inbox' : phase' = "waiting" /\ inbox'[i].id = sent'
                                  /\ \A i \in DOMAIN air' : phase' = "waiting" /\ air'[i].id = sent'
                                  /\ future'.state = "result" => future'.message.ids[1] = sent'
    BY DEF Clean
  <2>1. phase' = "waiting" /\ Sure
    BY <1>3 DEF Sure
  <2>2. (\A i \in DOMAIN inbox : FALSE) /\ (\A i \in DOMAIN air : FALSE)
        /\ (future.state = "result" => future.message.ids[1] = sent)
    BY <2>1 DEF IInv, Clean
  <2>3. Len(inbox) = 0
    BY <2>2, <1>1
  <2> QED
    BY <2>1, <2>2, <2>3, <1>1
<1>11. Sync'
  BY <1>1 DEF IInv, Sync, InStep
<1> QED
  BY <1>3, <1>4, <1>5, <1>6, <1>7, <1>8, <1>9, <1>10, <1>11
     DEF IInv, TimeoutEndsSession, NoSelfInflictedLoss

LEMMA WrittenInv ==
  ASSUME IInv, Written
  PROVE  IInv'
  BY AppendRequest DEF Written, history

LEMMA CancelPollInv ==
  ASSUME IInv, CancelPoll
  PROVE  IInv'
<1>1. /\ phase \in {"writing", "waiting"} /\ phase' \in {"idle", "closed"}
      /\ future' = IF phase = "waiting" THEN Cancelled ELSE future
      /\ blame' = blame \cup {"cancelled"}
      /\ UNCHANGED <<read, sent, newSession, air, assembler, paused, mustClose,
                     timedOut, coreLost>>
  BY DEF CancelPoll
<1>2. CASE UNCHANGED inbox
  <2>1. blame' \subseteq Blames /\ blame \subseteq blame' /\ blame' # {} /\ ~timedOut
        /\ paused' \in BOOLEAN /\ mustClose' \in BOOLEAN
        /\ timedOut' \in BOOLEAN /\ coreLost' \in BOOLEAN /\ ~timedOut'
    BY <1>1 DEF IInv, TypeOK, Blames, TimeoutEndsSession
  <2>2. UNCHANGED <<read, sent, newSession, device, assembler>>
        /\ future' \in {future, Cancelled}
    BY <1>1, <1>2 DEF device
  <2> QED
    BY <1>1, <2>1, <2>2, RestInv
<1>3. CASE phase = "writing" /\ inbox' = Append(inbox, [id |-> sent, read |-> read])
  BY <1>1, <1>3, AppendRequest
<1> QED
  BY <1>2, <1>3 DEF CancelPoll

-----------------------------------------------------------------------------
\* The eManager answers, or does not

\* The frames of an answer follow those already on their way.
LEMMA AnswerFrames ==
  ASSUME IInv, NEW sound \in Sound, Answer(sound)
  PROVE  \E q \in Request, n \in Nat :
           /\ q = inbox[1] /\ 1 \in DOMAIN inbox /\ n = Parts(q.read) /\ n > 0
           /\ air' \in Seq(Frame)
           /\ DOMAIN air' = 1 .. Len(air) + n /\ Len(air') = Len(air) + n
           /\ \A i \in 1 .. Len(air) : air'[i] = air[i]
           /\ \A i \in Len(air) + 1 .. Len(air) + n :
                /\ air'[i].id = q.id /\ air'[i].read = q.read
                /\ air'[i].index = i - Len(air) - 1 /\ air'[i].sound = sound
<1>1. PICK q : q = inbox[1] /\ q = Head(inbox) /\ q \in Request /\ 1 \in DOMAIN inbox
  <2>1. inbox # <<>> /\ inbox \in Seq(Request)
    BY Known DEF Answer
  <2> QED
    BY <2>1, Dequeued
<1>2. PICK n : n = Parts(q.read) /\ n \in Nat /\ n > 0
  BY <1>1, Numbers DEF Request
<1>3. PICK s : s = [i \in 1 .. n |-> [id |-> q.id, read |-> q.read, index |-> i - 1,
                                     sound |-> sound]]
  OBVIOUS
<1>4. air' = air \o s
  BY <1>1, <1>2, <1>3 DEF Answer
<1>5. s \in Seq(Frame) /\ Len(s) = n
  <2>1. \A i \in 1 .. n : s[i] \in Frame
    BY <1>1, <1>3, <1>2 DEF Request, Frame
  <2> QED
    BY <2>1, <1>2, <1>3
<1>6. /\ \A i \in 1 .. n : /\ s[i].id = q.id /\ s[i].read = q.read
                           /\ s[i].index = i - 1 /\ s[i].sound = sound
  BY <1>3
<1>7. /\ air' \in Seq(Frame) /\ Len(air') = Len(air) + n /\ Len(air) \in Nat
      /\ \A i \in 1 .. Len(air) + n :
           air'[i] = IF i <= Len(air) THEN air[i] ELSE s[i - Len(air)]
  BY <1>4, <1>5, Known, ConcatProperties
<1>8. \A i \in Len(air) + 1 .. Len(air) + n :
        /\ air'[i].id = q.id /\ air'[i].read = q.read
        /\ air'[i].index = i - Len(air) - 1 /\ air'[i].sound = sound
  <2> SUFFICES ASSUME NEW i \in Len(air) + 1 .. Len(air) + n
               PROVE  /\ air'[i].id = q.id /\ air'[i].read = q.read
                      /\ air'[i].index = i - Len(air) - 1 /\ air'[i].sound = sound
    OBVIOUS
  <2>1. i - Len(air) \in 1 .. n /\ air'[i] = s[i - Len(air)]
    BY <1>7, <1>2
  <2> QED
    BY <2>1, <1>6, <1>7
<1>9. DOMAIN air' = 1 .. Len(air) + n /\ \A i \in 1 .. Len(air) : air'[i] = air[i]
  BY <1>7, <1>2
<1> QED
  BY <1>1, <1>2, <1>7, <1>8, <1>9

LEMMA AnswerInv ==
  ASSUME IInv, NEW sound \in Sound, Answer(sound)
  PROVE  IInv'
<1>1. /\ inbox # <<>> /\ phase # "closed" /\ inbox' = Tail(inbox)
      /\ UNCHANGED <<phase, read, sent, newSession, assembler, future, paused,
                     mustClose, timedOut, coreLost>>
  BY DEF Answer
<1>2. /\ blame \subseteq blame' /\ blame' \subseteq Blames
      /\ blame' = {} => sound = "good" /\ blame = {}
  BY DEF Answer, IInv, TypeOK, Blames
<1>3. PICK q \in Request, n \in Nat :
        /\ q = inbox[1] /\ 1 \in DOMAIN inbox /\ n = Parts(q.read) /\ n > 0
        /\ air' \in Seq(Frame)
        /\ DOMAIN air' = 1 .. Len(air) + n /\ Len(air') = Len(air) + n
        /\ \A i \in 1 .. Len(air) : air'[i] = air[i]
        /\ \A i \in Len(air) + 1 .. Len(air) + n :
             /\ air'[i].id = q.id /\ air'[i].read = q.read
             /\ air'[i].index = i - Len(air) - 1 /\ air'[i].sound = sound
  BY AnswerFrames
<1>4. PICK A : A = Len(air) /\ A \in Nat /\ DOMAIN air = 1 .. A /\ Len(air') = A + n
  BY Known, <1>3
<1>5. /\ DOMAIN air' = 1 .. A + n
      /\ \A i \in 1 .. A : air'[i] = air[i]
      /\ \A i \in A + 1 .. A + n :
           /\ air'[i].id = q.id /\ air'[i].read = q.read
           /\ air'[i].index = i - A - 1 /\ air'[i].sound = sound
  BY <1>3, <1>4
<1>6. /\ inbox' \in Seq(Request) /\ Len(inbox) \in Nat
      /\ DOMAIN inbox = 1 .. Len(inbox) /\ DOMAIN inbox' = 1 .. Len(inbox) - 1
      /\ \A i \in DOMAIN inbox' : inbox'[i] = inbox[i + 1] /\ i + 1 \in DOMAIN inbox
  BY <1>1, Known, Dequeued
<1>7. /\ q.id \in Nat /\ Asked(q)
      /\ \A i \in DOMAIN air : air[i].id \in Nat /\ air[i].id < q.id
      /\ \A i \in DOMAIN inbox' : q.id < inbox'[i].id
  <2>1. q.id \in Nat
    BY <1>3, Numbers DEF Request
  <2>2. \A i \in DOMAIN air : air[i].id \in Nat
    BY Known, Numbers DEF Frame
  <2>3. Asked(q) /\ \A i \in DOMAIN air : air[i].id < q.id
    BY <1>3 DEF IInv, Stream, Asking
  <2>4. ASSUME NEW i \in DOMAIN inbox' PROVE q.id < inbox'[i].id
    <3>1. i + 1 \in DOMAIN inbox /\ 1 < i + 1 /\ inbox'[i] = inbox[i + 1]
      BY <2>4, <1>6
    <3> QED
      BY <3>1, <1>3 DEF IInv, Stream
  <2> QED
    BY <2>1, <2>2, <2>3, <2>4
<1>8. TypeOK'
  BY <1>1, <1>2, <1>3, <1>6 DEF IInv, TypeOK
<1>9. Budget'
  BY <1>1 DEF IInv, Budget
<1>10. Stream'
  <2>1. \A i \in DOMAIN air' : air'[i].index < Parts(air'[i].read)
    BY <1>3, <1>4, <1>5 DEF IInv, Stream
  <2>2. \A i, j \in DOMAIN air' : i < j =>
          \/ air'[i].id < air'[j].id
          \/ /\ air'[i].id = air'[j].id /\ air'[i].read = air'[j].read
             /\ i + air'[j].index = j + air'[i].index
    <3> SUFFICES ASSUME NEW i \in DOMAIN air', NEW j \in DOMAIN air', i < j
                 PROVE  \/ air'[i].id < air'[j].id
                        \/ /\ air'[i].id = air'[j].id /\ air'[i].read = air'[j].read
                           /\ i + air'[j].index = j + air'[i].index
      OBVIOUS
    <3>1. CASE j <= A
      BY <3>1, <1>4, <1>5 DEF IInv, Stream
    <3>2. CASE i <= A /\ j > A
      BY <3>2, <1>4, <1>5, <1>7
    <3>3. CASE i > A
      BY <3>3, <1>4, <1>5
    <3> QED
      BY <3>1, <3>2, <3>3, <1>4, <1>5
  <2>3. ASSUME NEW i \in DOMAIN air', i = Len(air') \/ air'[i + 1].id # air'[i].id
        PROVE  air'[i].index + 1 = Parts(air'[i].read)
    <3>1. CASE i < A
      <4>1. i \in DOMAIN air /\ i + 1 \in 1 .. A
        BY <3>1, <1>4, <1>5
      <4>2. i = Len(air) \/ air[i + 1].id # air[i].id
        BY <4>1, <2>3, <3>1, <1>4, <1>5
      <4> QED
        BY <4>1, <4>2, <1>4, <1>5 DEF IInv, Stream
    <3>2. CASE i = A
      BY <3>2, <1>4, <1>5 DEF IInv, Stream
    <3>3. CASE i > A
      <4>1. i = A + n
        BY <3>3, <2>3, <1>4, <1>5
      <4> QED
        BY <4>1, <1>3, <1>4, <1>5
    <3> QED
      BY <3>1, <3>2, <3>3, <1>4, <1>5
  <2>4. \A i, j \in DOMAIN inbox' : i < j => inbox'[i].id < inbox'[j].id
    BY <1>6 DEF IInv, Stream
  <2>5. \A i \in DOMAIN air', j \in DOMAIN inbox' : air'[i].id < inbox'[j].id
    <3> SUFFICES ASSUME NEW i \in DOMAIN air', NEW j \in DOMAIN inbox'
                 PROVE  air'[i].id < inbox'[j].id
      OBVIOUS
    <3>1. CASE i <= A
      BY <3>1, <1>4, <1>5, <1>6 DEF IInv, Stream
    <3>2. CASE i > A
      BY <3>2, <1>4, <1>5, <1>7
    <3> QED
      BY <3>1, <3>2, <1>4, <1>5
  <2> QED
    BY <2>1, <2>2, <2>3, <2>4, <2>5 DEF Stream
<1>11. Asking'
  <2>1. ASSUME NEW i \in DOMAIN air' PROVE Asked(air'[i])
    <3>1. CASE i <= A
      BY <3>1, <1>4, <1>5 DEF IInv, Asking
    <3>2. CASE i > A
      BY <3>2, <1>4, <1>5, <1>7 DEF Asked
    <3> QED
      BY <3>1, <3>2, <1>4, <1>5
  <2>2. \A i \in DOMAIN inbox' : Asked(inbox'[i])
    BY <1>6 DEF IInv, Asking
  <2> QED
    BY <2>1, <2>2, <1>1 DEF Asking, Asked
<1>12. Assembly'
  <2>1. air # <<>> => air' # <<>> /\ air'[1] = air[1]
    <3>1. air # <<>> => A > 0
      BY Known, Nothing, <1>4
    <3>2. air' # <<>>
      BY <1>3, <1>4
    <3> QED
      BY <3>1, <3>2, <1>4, <1>5
  <2> QED
    BY <2>1, <1>1 DEF IInv, Assembly
<1>13. Outcome'
  BY <1>1 DEF IInv, Outcome, Whole
<1>14. Clean'
  <2> SUFFICES ASSUME Sure'
               PROVE /\ \A i \in DOMAIN inbox' : phase = "waiting" /\ inbox'[i].id = sent
                     /\ \A i \in DOMAIN air' : phase = "waiting" /\ air'[i].id = sent
                     /\ future.state = "result" => future.message.ids[1] = sent
    BY <1>1 DEF Clean
  <2>1. Sure
    BY <1>1, <1>2 DEF Sure
  <2>2. q.id = sent /\ phase = "waiting"
    BY <2>1, <1>3 DEF IInv, Clean
  <2>3. \A i \in DOMAIN inbox' : inbox'[i].id = sent
    BY <2>1, <1>6 DEF IInv, Clean
  <2>4. ASSUME NEW i \in DOMAIN air' PROVE air'[i].id = sent
    <3>1. CASE i <= A
      BY <3>1, <2>1, <1>4, <1>5 DEF IInv, Clean
    <3>2. CASE i > A
      BY <3>2, <2>2, <1>4, <1>5
    <3> QED
      BY <3>1, <3>2, <1>4, <1>5
  <2> QED
    BY <2>1, <2>2, <2>3, <2>4 DEF IInv, Clean
<1>15. Sync'
  <2> SUFFICES ASSUME blame' = {}, phase \in {"writing", "waiting"}
               PROVE /\ \A i \in DOMAIN air' : air'[i].sound = "good"
                     /\ future.state \in {"pending", "result"}
                     /\ future.state = "result" => future.message.sound = "good"
                     /\ phase = "writing" \/ inbox' # <<>> => assembler = Empty
                     /\ (InStep(assembler))'
    BY <1>1 DEF Sync
  <2>1. sound = "good" /\ blame = {} /\ assembler = Empty
        /\ \A i \in DOMAIN air : air[i].sound = "good"
    BY <1>1, <1>2 DEF IInv, Sync
  <2>2. ASSUME NEW i \in DOMAIN air' PROVE air'[i].sound = "good"
    <3>1. CASE i <= A
      BY <3>1, <2>1, <1>4, <1>5
    <3>2. CASE i > A
      BY <3>2, <2>1, <1>4, <1>5
    <3> QED
      BY <3>1, <3>2, <1>4, <1>5
  <2>3. (InStep(assembler))'
    <3>1. CASE A > 0
      <4>1. air # <<>> /\ air'[1] = air[1]
        BY <3>1, <1>4, <1>5
      <4> QED
        BY <4>1, <2>1, <1>1 DEF IInv, Sync, InStep
    <3>2. CASE A = 0
      <4>1. air'[1].index = 0
        BY <3>2, <1>3, <1>4, <1>5
      <4> QED
        BY <4>1, <2>1, <1>1 DEF InStep, Empty
    <3> QED
      BY <3>1, <3>2, <1>4
  <2> QED
    BY <2>1, <2>2, <2>3 DEF IInv, Sync
<1> QED
  BY <1>1, <1>2, <1>8, <1>9, <1>10, <1>11, <1>12, <1>13, <1>14, <1>15
     DEF IInv, TimeoutEndsSession, NoSelfInflictedLoss

LEMMA SilentInv ==
  ASSUME IInv, Silent
  PROVE  IInv'
<1>1. /\ inbox # <<>> /\ phase # "closed" /\ inbox' = Tail(inbox)
      /\ UNCHANGED <<phase, read, sent, newSession, air, assembler, future, paused,
                     mustClose, history>>
  BY DEF Silent
<1>2. /\ inbox' \in Seq(Request) /\ Len(inbox) \in Nat /\ Len(inbox) > 0
      /\ DOMAIN inbox = 1 .. Len(inbox) /\ DOMAIN inbox' = 1 .. Len(inbox) - 1
      /\ \A i \in DOMAIN inbox' : inbox'[i] = inbox[i + 1] /\ i + 1 \in DOMAIN inbox
  BY <1>1, Known, Dequeued
<1>3. TypeOK'
  BY <1>1, <1>2 DEF history, IInv, TypeOK
<1>4. Budget' /\ Assembly' /\ Outcome'
  BY <1>1 DEF IInv, Budget, Assembly, Outcome, Whole
<1>5. Stream'
  <2>1. \A i, j \in DOMAIN inbox' : i < j => inbox'[i].id < inbox'[j].id
    BY <1>2 DEF IInv, Stream
  <2>2. \A i \in DOMAIN air, j \in DOMAIN inbox' : air[i].id < inbox'[j].id
    BY <1>2 DEF IInv, Stream
  <2> QED
    BY <2>1, <2>2, <1>1 DEF IInv, Stream
<1>6. Asking'
  BY <1>1, <1>2 DEF IInv, Asking, Asked
<1>7. Clean'
  BY <1>1, <1>2 DEF history, IInv, Clean, Sure
<1>8. Sync'
  BY <1>1 DEF history, IInv, Sync, InStep
<1> QED
  BY <1>1, <1>3, <1>4, <1>5, <1>6, <1>7, <1>8
     DEF history, IInv, TimeoutEndsSession, NoSelfInflictedLoss

-----------------------------------------------------------------------------
\* A frame arrives

\* The frame after this one is of the same answer exactly if this one does not
\* complete a message.
LEMMA Arrival ==
  ASSUME IInv, Notified
  PROVE  \E f \in Frame :
           /\ f = air[1] /\ f = Head(air) /\ 1 \in DOMAIN air /\ air' = Tail(air)
           /\ air' \in Seq(Frame) /\ Len(air') = Len(air) - 1
           /\ DOMAIN air' = 1 .. Len(air) - 1
           /\ \A i \in DOMAIN air' : air'[i] = air[i + 1] /\ i + 1 \in DOMAIN air
           /\ f.index < Parts(f.read) /\ Asked(f)
           /\ ~Completes(f) => air' # <<>> /\ air'[1].id = f.id
           /\ air' # <<>> /\ air'[1].id = f.id =>
                air'[1].read = f.read /\ air'[1].index = f.index + 1
           /\ Completes(f) => \A i \in DOMAIN air' : f.id < air'[i].id
           /\ \A j \in DOMAIN inbox : f.id < inbox[j].id
<1>1. air # <<>> /\ air' = Tail(air) /\ air \in Seq(Frame)
  BY Known DEF Notified
<1>2. PICK f \in Frame : f = Head(air) /\ f = air[1] /\ 1 \in DOMAIN air
  BY <1>1, Dequeued
<1>3. /\ air' \in Seq(Frame) /\ Len(air') = Len(air) - 1 /\ Len(air) \in Nat
      /\ Len(air) > 0 /\ DOMAIN air = 1 .. Len(air) /\ DOMAIN air' = 1 .. Len(air) - 1
      /\ \A i \in DOMAIN air' : air'[i] = air[i + 1] /\ i + 1 \in DOMAIN air
  BY <1>1, Dequeued
<1>4. /\ \A i \in DOMAIN air : air[i].index \in Nat /\ air[i].id \in Nat
      /\ f.index \in Nat /\ f.id \in Nat /\ f.read \in Reads
  <2>1. \A x \in Frame : x.index \in Nat /\ x.id \in Nat /\ x.read \in Reads
    BY Numbers DEF Frame
  <2>2. \A i \in DOMAIN air : air[i] \in Frame
    BY Known
  <2> QED
    BY <2>1, <2>2, <1>2
<1>5. /\ f.index < Parts(f.read) /\ Asked(f)
      /\ \A j \in DOMAIN inbox : f.id < inbox[j].id
  BY <1>2 DEF IInv, Stream, Asking
<1>6. ASSUME ~Completes(f) PROVE air' # <<>> /\ air'[1].id = f.id
  <2>1. Len(air) # 1 /\ air[2].id = f.id
    BY <1>2, <1>3, <1>6 DEF IInv, Stream, Completes
  <2>2. 1 \in DOMAIN air' /\ air'[1] = air[2]
    BY <2>1, <1>3
  <2> QED
    BY <2>1, <2>2
<1>7. ASSUME NEW i \in DOMAIN air', air'[i].id = f.id
      PROVE  air'[i].read = f.read /\ air'[i].index = f.index + i
  <2>1. i + 1 \in DOMAIN air /\ 1 < i + 1 /\ air[i + 1] = air'[i] /\ i \in Nat
    BY <1>3, <1>7
  <2>2. air[1].id = air[i + 1].id /\ air[1].read = air[i + 1].read
        /\ 1 + air[i + 1].index = (i + 1) + air[1].index
    <3>1. \/ air[1].id < air[i + 1].id
          \/ /\ air[1].id = air[i + 1].id /\ air[1].read = air[i + 1].read
             /\ 1 + air[i + 1].index = (i + 1) + air[1].index
      BY <2>1, <1>2 DEF IInv, Stream
    <3> QED
      BY <3>1, <2>1, <1>2, <1>4, <1>7
  <2> QED
    BY <2>1, <2>2, <1>2, <1>4
<1>8. ASSUME Completes(f), NEW i \in DOMAIN air' PROVE f.id < air'[i].id
  <2>1. i + 1 \in DOMAIN air /\ 1 < i + 1 /\ air[i + 1] = air'[i] /\ i \in Nat /\ i > 0
    BY <1>3, <1>8
  <2>2. f.id < air'[i].id \/ air'[i].id = f.id
    BY <2>1, <1>2 DEF IInv, Stream
  <2>3. ASSUME air'[i].id = f.id PROVE FALSE
    <3>1. air'[i].read = f.read /\ air'[i].index = f.index + i
      BY <1>7, <2>3
    <3>2. air'[i].index < Parts(air'[i].read)
      BY <2>1 DEF IInv, Stream
    <3> QED
      BY <3>1, <3>2, <2>1, <1>4, <1>8, Numbers DEF Completes
  <2> QED
    BY <2>2, <2>3
<1>9. air' # <<>> => 1 \in DOMAIN air'
  BY <1>3, EmptySeq
<1>10. air' # <<>> /\ air'[1].id = f.id =>
         air'[1].read = f.read /\ air'[1].index = f.index + 1
  BY <1>7, <1>9
<1> QED
  BY <1>1, <1>2, <1>3, <1>5, <1>6, <1>8, <1>10

\* What the assembler holds when a frame fits.
LEMMA Fitted ==
  ASSUME IInv, NEW f \in Frame, f = air[1], 1 \in DOMAIN air, ~Misfit(f)
  PROVE  /\ Added(f) \in AssemblerType /\ Added(f).next <= Added(f).total
         /\ Len(Added(f).ids) = Added(f).next
         /\ \A i \in DOMAIN Added(f).ids : Added(f).ids[i] = Added(f).ids[1]
         /\ IF Parts(f.read) = 1
              THEN /\ Added(f) = assembler
                   /\ ~(assembler.next > 0 /\ assembler.next < assembler.total)
              ELSE /\ Added(f).next = f.index + 1 /\ Added(f).total = Parts(f.read)
                   /\ Added(f).ids[1] = f.id
<1>1. /\ assembler \in AssemblerType /\ assembler.next <= assembler.total
      /\ assembler.next \in Nat /\ assembler.total \in Nat
      /\ assembler.ids \in Seq(1 .. MaxRequests)
  BY Known DEF AssemblerType
<1>2. /\ f.index \in Nat /\ f.id \in 1 .. MaxRequests /\ Parts(f.read) \in Nat
      /\ Parts(f.read) > 0 /\ f.index < Parts(f.read)
  BY Numbers DEF Frame, IInv, Stream
<1>3. CASE Parts(f.read) = 1
  <2>1. Added(f) = assembler
    BY <1>3 DEF Added
  <2>2. ~(assembler.next > 0 /\ assembler.next < assembler.total)
    BY <1>1, <1>3 DEF IInv, Assembly
  <2> QED
    BY <2>1, <2>2, <1>1, <1>3 DEF IInv, Assembly
<1>4. CASE Parts(f.read) # 1
  <2>1. f.index = assembler.next /\ assembler.total \in {0, Parts(f.read)}
    BY <1>2, <1>4 DEF Misfit
  <2>2. Added(f) = [next |-> assembler.next + 1, total |-> Parts(f.read),
                    ids |-> Append(assembler.ids, f.id)]
    BY <1>4 DEF Added
  <2>3. /\ Len(assembler.ids) = assembler.next
        /\ \A i \in DOMAIN assembler.ids : assembler.ids[i] = assembler.ids[1]
        /\ assembler.next > 0 => f.id = assembler.ids[1]
    BY <2>1, <1>1, <1>2 DEF IInv, Assembly
  <2>4. PICK ids : ids = Append(assembler.ids, f.id)
    OBVIOUS
  <2>5. /\ ids \in Seq(1 .. MaxRequests) /\ Len(ids) = assembler.next + 1
        /\ DOMAIN ids = 1 .. assembler.next + 1
        /\ \A i \in 1 .. assembler.next : ids[i] = assembler.ids[i]
        /\ DOMAIN assembler.ids = 1 .. assembler.next
        /\ ids[assembler.next + 1] = f.id
    BY <2>3, <2>4, <1>1, <1>2, Enqueued
  <2>6. \A i \in DOMAIN ids : ids[i] = f.id
    BY <2>3, <2>5, <1>1
  <2>7. Added(f) = [next |-> f.index + 1, total |-> Parts(f.read), ids |-> ids]
    BY <2>1, <2>2, <2>4
  <2> QED
    BY <2>7, <2>5, <2>6, <2>1, <1>2, <1>4 DEF AssemblerType
<1> QED
  BY <1>3, <1>4

\* What the future can become when a frame arrives.
LEMMA Settling ==
  ASSUME IInv, NEW f \in Frame, f = air[1], 1 \in DOMAIN air, f.index < Parts(f.read),
         ~Misfit(f), Completes(f)
  PROVE  /\ MessageOf(f) \in Message /\ MessageOf(f).read = f.read
         /\ MessageOf(f).sound = f.sound
         /\ MessageOf(f).ids[1] = f.id /\ Len(MessageOf(f).ids) = Parts(f.read)
         /\ \A i \in DOMAIN MessageOf(f).ids : MessageOf(f).ids[i] = f.id
<1>1. f.read \in Reads /\ f.sound \in Sound /\ f.id \in 1 .. MaxRequests
      /\ f.index + 1 = Parts(f.read)
  BY DEF Frame, Completes
<1>2. PICK ids : ids = IF Parts(f.read) = 1 THEN <<f.id>> ELSE Added(f).ids
  OBVIOUS
<1>3. MessageOf(f) = [ids |-> ids, read |-> f.read, sound |-> f.sound]
  BY <1>2 DEF MessageOf
<1>4. /\ ids \in Seq(1 .. MaxRequests) /\ ids[1] = f.id /\ Len(ids) = Parts(f.read)
      /\ \A i \in DOMAIN ids : ids[i] = f.id
  <2>1. CASE Parts(f.read) = 1
    BY <2>1, <1>1, <1>2
  <2>2. CASE Parts(f.read) # 1
    BY <2>2, <1>1, <1>2, Fitted DEF AssemblerType
  <2> QED
    BY <2>1, <2>2
<1> QED
  BY <1>1, <1>3, <1>4 DEF Message

LEMMA NotifiedInv ==
  ASSUME IInv, Notified
  PROVE  IInv'
<1>1. /\ phase # "closed"
      /\ UNCHANGED <<phase, read, sent, newSession, inbox, paused, mustClose, history>>
  BY DEF Notified
<1>2. PICK f \in Frame :
        /\ f = air[1] /\ f = Head(air) /\ 1 \in DOMAIN air /\ air' = Tail(air)
        /\ air' \in Seq(Frame) /\ Len(air') = Len(air) - 1
        /\ DOMAIN air' = 1 .. Len(air) - 1
        /\ \A i \in DOMAIN air' : air'[i] = air[i + 1] /\ i + 1 \in DOMAIN air
        /\ f.index < Parts(f.read) /\ Asked(f)
        /\ ~Completes(f) => air' # <<>> /\ air'[1].id = f.id
        /\ air' # <<>> /\ air'[1].id = f.id =>
             air'[1].read = f.read /\ air'[1].index = f.index + 1
        /\ Completes(f) => \A i \in DOMAIN air' : f.id < air'[i].id
        /\ \A j \in DOMAIN inbox : f.id < inbox[j].id
  BY Arrival
<1>3. /\ f.index \in Nat /\ f.id \in Nat /\ f.read \in Reads /\ Parts(f.read) \in Nat
      /\ Parts(f.read) > 0 /\ Len(air) \in Nat /\ air # <<>> /\ sent \in Nat
      /\ DOMAIN air = 1 .. Len(air)
  <2>1. f.index \in Nat /\ f.id \in Nat /\ f.read \in Reads
    BY Numbers DEF Frame
  <2> QED
    BY <2>1, <1>1, Known, Numbers DEF Notified
<1>4. /\ \/ Misfit(f) /\ Settle(Raised("protocol")) /\ UNCHANGED assembler
         \/ /\ ~Misfit(f)
            /\ assembler' = Added(f)
            /\ IF Completes(f)
                 THEN Settle(IF f.sound = "undecodable" THEN Raised("other")
                                                        ELSE Result(MessageOf(f)))
                 ELSE UNCHANGED future
  BY <1>2 DEF Notified
<1>5. \/ future' = future
      \/ future = Pending /\ future' \in {Raised("protocol"), Raised("other")}
      \/ /\ future = Pending /\ future' = Result(MessageOf(f))
         /\ ~Misfit(f) /\ Completes(f)
  BY <1>4 DEF Settle
<1>6. ASSUME ~Misfit(f), Completes(f)
      PROVE  /\ MessageOf(f) \in Message /\ MessageOf(f).read = f.read
             /\ MessageOf(f).sound = f.sound
             /\ MessageOf(f).ids[1] = f.id /\ Len(MessageOf(f).ids) = Parts(f.read)
             /\ \A i \in DOMAIN MessageOf(f).ids : MessageOf(f).ids[i] = f.id
  BY <1>2, <1>6, Settling
<1>7. future'.state = "result" =>
        \/ future' = future /\ future.state = "result"
        \/ /\ future' = Result(MessageOf(f)) /\ future'.message = MessageOf(f)
           /\ ~Misfit(f) /\ Completes(f)
  BY <1>5, FutureStates
<1>8. TypeOK'
  <2>1. assembler' \in AssemblerType /\ assembler'.next <= assembler'.total
    BY <1>2, <1>4, Known, Fitted
  <2>2. \/ future' \in {Pending, Cancelled, Raised("protocol"), Raised("other")}
        \/ future'.state = "result" /\ future'.message \in Message
    BY <1>5, <1>6, FutureStates DEF IInv, TypeOK
  <2> QED
    BY <2>1, <2>2, <1>1, <1>2 DEF history, IInv, TypeOK
<1>9. Budget'
  BY <1>1 DEF IInv, Budget
<1>10. Stream'
  <2>1. \A i \in DOMAIN air' : air'[i].index < Parts(air'[i].read)
    BY <1>2 DEF IInv, Stream
  <2>2. ASSUME NEW i \in DOMAIN air', NEW j \in DOMAIN air', i < j
        PROVE  \/ air'[i].id < air'[j].id
               \/ /\ air'[i].id = air'[j].id /\ air'[i].read = air'[j].read
                  /\ i + air'[j].index = j + air'[i].index
    <3>1. /\ i \in Nat /\ j \in Nat /\ i + 1 \in DOMAIN air /\ j + 1 \in DOMAIN air
          /\ i + 1 < j + 1 /\ air'[i] = air[i + 1] /\ air'[j] = air[j + 1]
          /\ air'[i].index \in Nat /\ air'[j].index \in Nat
      <4>1. /\ i \in Nat /\ j \in Nat /\ i + 1 \in DOMAIN air /\ j + 1 \in DOMAIN air
            /\ i + 1 < j + 1 /\ air'[i] = air[i + 1] /\ air'[j] = air[j + 1]
        BY <2>2, <1>2, <1>3
      <4>2. air[i + 1] \in Frame /\ air[j + 1] \in Frame
        BY <4>1, Known
      <4> QED
        BY <4>1, <4>2 DEF Frame
    <3>2. \/ air'[i].id < air'[j].id
          \/ /\ air'[i].id = air'[j].id /\ air'[i].read = air'[j].read
             /\ (i + 1) + air'[j].index = (j + 1) + air'[i].index
      BY <3>1 DEF IInv, Stream
    <3> QED
      BY <3>1, <3>2
  <2>3. ASSUME NEW i \in DOMAIN air', i = Len(air') \/ air'[i + 1].id # air'[i].id
        PROVE  air'[i].index + 1 = Parts(air'[i].read)
    <3>1. i \in Nat /\ i > 0 /\ i + 1 \in DOMAIN air /\ air'[i] = air[i + 1]
      BY <2>3, <1>2, <1>3
    <3>2. i + 1 = Len(air) \/ air[(i + 1) + 1].id # air[i + 1].id
      <4>1. CASE i = Len(air')
        BY <4>1, <1>2, <1>3
      <4>2. CASE i # Len(air')
        <5>1. i + 1 \in DOMAIN air' /\ air'[i + 1] = air[(i + 1) + 1]
          BY <4>2, <2>3, <1>2, <1>3
        <5> QED
          BY <5>1, <4>2, <2>3, <3>1
      <4> QED
        BY <4>1, <4>2
    <3> QED
      BY <3>1, <3>2 DEF IInv, Stream
  <2>4. \A i \in DOMAIN air', j \in DOMAIN inbox : air'[i].id < inbox[j].id
    BY <1>2 DEF IInv, Stream
  <2> QED
    BY <2>1, <2>2, <2>3, <2>4, <1>1 DEF IInv, Stream
<1>11. Asking'
  <2>1. \A i \in DOMAIN air' : Asked(air'[i])
    BY <1>2 DEF IInv, Asking
  <2> QED
    BY <2>1, <1>1 DEF IInv, Asking, Asked
<1>12. Assembly'
  <2>1. CASE Misfit(f)
    <3>1. assembler' = assembler
      BY <2>1, <1>4
    <3>2. assembler.next \in Nat /\ assembler.total \in Nat
      BY Known DEF AssemblerType
    <3>3. ~(assembler.next > 0 /\ assembler.next < assembler.total)
      BY <2>1, <1>2, <3>2 DEF Misfit, IInv, Assembly
    <3> QED
      BY <3>1, <3>3 DEF IInv, Assembly
  <2>2. CASE ~Misfit(f)
    <3>1. assembler' = Added(f)
      BY <2>2, <1>4
    <3>2. /\ Len(Added(f).ids) = Added(f).next
          /\ \A i \in DOMAIN Added(f).ids : Added(f).ids[i] = Added(f).ids[1]
          /\ IF Parts(f.read) = 1
               THEN /\ Added(f) = assembler
                    /\ ~(assembler.next > 0 /\ assembler.next < assembler.total)
               ELSE /\ Added(f).next = f.index + 1 /\ Added(f).total = Parts(f.read)
                    /\ Added(f).ids[1] = f.id
      BY <2>2, <1>2, Fitted
    <3>3. ASSUME Added(f).next > 0 /\ Added(f).next < Added(f).total
          PROVE  /\ air' # <<>> /\ air'[1].id = Added(f).ids[1]
                 /\ air'[1].index = Added(f).next
                 /\ Parts(air'[1].read) = Added(f).total
      <4>1. Parts(f.read) # 1 /\ f.index + 1 # Parts(f.read)
        BY <3>2, <3>3, <1>3
      <4> QED
        BY <4>1, <3>2, <1>2 DEF Completes
    <3> QED
      BY <3>1, <3>2, <3>3 DEF Assembly
  <2> QED
    BY <2>1, <2>2
<1>13. Outcome'
  <2> SUFFICES ASSUME future'.state = "result" PROVE Whole(future.message)'
    BY DEF Outcome
  <2>1. CASE future' = future /\ future.state = "result"
    BY <2>1, <1>1, <1>3 DEF IInv, Outcome, Whole
  <2>2. CASE /\ future' = Result(MessageOf(f)) /\ future'.message = MessageOf(f)
             /\ ~Misfit(f) /\ Completes(f)
    <3>1. ASSUME f.id = sent
          PROVE  f.read = read /\ phase # "writing" /\ air' = <<>> /\ inbox = <<>>
      <4>1. f.read = read /\ phase # "writing"
        BY <3>1, <1>2 DEF Asked
      <4>2. \A i \in DOMAIN air' : air'[i].id \in Nat /\ air'[i].id <= sent /\ sent < air'[i].id
        BY <3>1, <2>2, <1>2, Known, Numbers DEF Frame, IInv, Asking, Asked
      <4>3. \A i \in DOMAIN inbox : inbox[i].id \in Nat /\ inbox[i].id <= sent /\ sent < inbox[i].id
        BY <3>1, <1>2, Known, Numbers DEF Request, IInv, Asking, Asked
      <4>4. (\A i \in DOMAIN air' : FALSE) /\ (\A i \in DOMAIN inbox : FALSE)
        BY <4>2, <4>3, <1>3
      <4> QED
        BY <4>1, <4>4, <1>2, Known, Nothing
    <3>2. PICK m : m = MessageOf(f)
      OBVIOUS
    <3>3. /\ Len(m.ids) = Parts(m.read)
          /\ \A i \in DOMAIN m.ids : m.ids[i] = m.ids[1]
          /\ m.ids[1] = sent => m.read = read /\ phase # "writing" /\ air' = <<>> /\ inbox = <<>>
      BY <3>1, <3>2, <2>2, <1>6
    <3>4. future'.message = m
      BY <2>2, <3>2
    <3> QED
      BY <3>3, <3>4, <1>1 DEF Whole
  <2> QED
    BY <2>1, <2>2, <1>7
<1>14. Clean'
  <2> SUFFICES ASSUME Sure
               PROVE /\ \A i \in DOMAIN inbox : phase = "waiting" /\ inbox[i].id = sent
                     /\ \A i \in DOMAIN air' : phase = "waiting" /\ air'[i].id = sent
                     /\ future'.state = "result" => future'.message.ids[1] = sent
    BY <1>1 DEF history, Clean, Sure
  <2>1. /\ \A i \in DOMAIN inbox : phase = "waiting" /\ inbox[i].id = sent
        /\ \A i \in DOMAIN air' : phase = "waiting" /\ air'[i].id = sent
        /\ f.id = sent
        /\ future.state = "result" => future.message.ids[1] = sent
    BY <1>2 DEF IInv, Clean
  <2> QED
    BY <2>1, <1>6, <1>7
<1>15. Sync'
  <2> SUFFICES ASSUME blame = {}, phase \in {"writing", "waiting"}
               PROVE /\ \A i \in DOMAIN air' : air'[i].sound = "good"
                     /\ future'.state \in {"pending", "result"}
                     /\ future'.state = "result" => future'.message.sound = "good"
                     /\ phase = "writing" \/ inbox # <<>> => assembler' = Empty
                     /\ (InStep(assembler))'
    BY <1>1 DEF history, Sync
  <2>1. Sure
    BY <1>1 DEF Sure
  <2>2. /\ phase = "waiting" /\ f.id = sent /\ f.sound = "good"
        /\ \A i \in DOMAIN air' : air'[i].sound = "good" /\ air'[i].id = sent
        /\ \A i \in DOMAIN inbox : inbox[i].id = sent
    BY <2>1, <1>2 DEF IInv, Clean, Sync
  <2>3. inbox = <<>>
    <3>1. \A i \in DOMAIN inbox : FALSE
      BY <2>2, <1>2, <1>3
    <3> QED
      BY <3>1, Known, Nothing
  <2>4. /\ ~Misfit(f)
        /\ Parts(f.read) = 1 \/ assembler.next = f.index
    BY <1>2, <1>3 DEF IInv, Sync, InStep, Misfit
  <2>5. future'.state \in {"pending", "result"}
        /\ (future'.state = "result" => future'.message.sound = "good")
    <3>1. \/ future' = future
          \/ /\ future = Pending /\ future' = Result(MessageOf(f)) /\ Completes(f)
    BY <2>2, <2>4, <1>4 DEF Settle
    <3> QED
      BY <3>1, <2>2, <2>4, <1>6, FutureStates DEF IInv, Sync
  <2>6. (InStep(assembler))'
    <3> SUFFICES ASSUME air' # <<>>
                 PROVE \/ Parts(air'[1].read) = 1
                       \/ /\ assembler'.next = air'[1].index
                          /\ assembler'.total \in {0, Parts(air'[1].read)}
      BY DEF InStep
    <3>1. 1 \in DOMAIN air'
      BY <1>2, EmptySeq
    <3>2. air'[1].read = f.read /\ air'[1].index = f.index + 1
      BY <3>1, <1>2, <2>2
    <3>3. assembler' = Added(f)
      BY <2>4, <1>4
    <3> QED
      BY <3>2, <3>3, <2>4, <1>2, Fitted
  <2> QED
    BY <2>2, <2>3, <2>5, <2>6
<1> QED
  BY <1>1, <1>8, <1>9, <1>10, <1>11, <1>12, <1>13, <1>14, <1>15
     DEF history, IInv, TimeoutEndsSession, NoSelfInflictedLoss

-----------------------------------------------------------------------------
\* A poll fails, or the session ends

\* While nothing has gone wrong, what settles the future is accepted.
LEMMA NothingRejected ==
  ASSUME IInv, blame = {}, phase = "waiting"
  PROVE  ~Rejected /\ ~Settled("raised")
<1>1. /\ Sure
      /\ future.state \in {"pending", "result"}
      /\ future.state = "result" => future.message.sound = "good"
  BY DEF IInv, Sync, Sure
<1>2. ASSUME future.state = "result" PROVE Accepts(future.message)
  <2>1. PICK m : m = future.message
    OBVIOUS
  <2>2. m \in Message /\ Whole(m) /\ m.ids[1] = sent
    BY <1>1, <1>2, <2>1, Known DEF IInv, Outcome, Clean
  <2>3. m.read = read /\ m.sound = "good" /\ read \in 1 .. Charger
    BY <2>2, <1>1, <1>2, <2>1, Known, Numbers DEF Whole
  <2>4. Head(m.ids) = sent
    BY <2>2 DEF Message
  <2>5. \/ read = Sinfo \/ read = Discovery
        \/ read \in Discovery + 1 .. LastEms
        \/ read \in LastEms + 1 .. LastCore
        \/ read = Charger
    BY <2>3, Numbers
  <2> QED
    BY <2>1, <2>3, <2>4, <2>5
       DEF Accepts, ParsedSinfo, ParsedDiscovery, ParsedEms, ParsedModbus, ParsedCharger
<1> QED
  BY <1>1, <1>2 DEF Rejected, Settled

LEMMA RejectedChargerInv ==
  ASSUME IInv, RejectedCharger
  PROVE  IInv'
<1>1. phase = "waiting" /\ blame # {}
  BY NothingRejected DEF RejectedCharger, Rejected, Settled
<1>2. /\ paused' \in BOOLEAN /\ mustClose' \in BOOLEAN
      /\ phase' \in {"idle", "closed"}
      /\ UNCHANGED <<read, sent, newSession, device, assembler, future, history>>
  BY DEF RejectedCharger, ChargerUnavailable, Finish, IInv, TypeOK
<1>3. /\ timedOut' = timedOut /\ blame' = blame /\ coreLost' = coreLost /\ ~timedOut
      /\ blame \subseteq Blames /\ timedOut \in BOOLEAN /\ coreLost \in BOOLEAN
  BY <1>1, <1>2 DEF history, IInv, TypeOK, TimeoutEndsSession
<1> QED
  BY <1>1, <1>2, <1>3, RestInv

LEMMA RejectedCoreInv ==
  ASSUME IInv, RejectedCore
  PROVE  IInv'
<1>1. phase = "waiting" /\ blame # {}
  BY NothingRejected DEF RejectedCore, Rejected, Settled
<1>2. /\ phase' = "closed" /\ coreLost' = TRUE
      /\ UNCHANGED <<read, sent, newSession, device, assembler, future, paused,
                     mustClose, timedOut, blame>>
  BY DEF RejectedCore, Abort
<1>3. paused \in BOOLEAN /\ mustClose \in BOOLEAN /\ blame \subseteq Blames
      /\ timedOut \in BOOLEAN
  BY DEF IInv, TypeOK
<1> QED
  BY <1>1, <1>2, <1>3, RestInv

\* The connection is gone: nothing else changes.
LEMMA AbortInv ==
  ASSUME IInv, Abort, UNCHANGED <<future, history>>
  PROVE  IInv'
<1>1. /\ phase' = "closed"
      /\ UNCHANGED <<read, sent, newSession, device, assembler, future, paused,
                     mustClose, timedOut, blame, coreLost>>
  BY DEF Abort, history
<1>2. paused \in BOOLEAN /\ mustClose \in BOOLEAN /\ blame \subseteq Blames
      /\ timedOut \in BOOLEAN /\ coreLost \in BOOLEAN /\ (coreLost => blame # {})
  BY DEF IInv, TypeOK, NoSelfInflictedLoss
<1> QED
  BY <1>1, <1>2, RestInv

\* A charger query that times out closes the session as any other request does.
LEMMA TimedOutInv ==
  ASSUME IInv, TimedOut
  PROVE  IInv'
<1>1. /\ future' = Cancelled /\ timedOut' = TRUE
      /\ UNCHANGED <<blame, coreLost>>
      /\ ChargerUnavailable("cancelled") \/ (read # Charger /\ Abort)
  BY DEF TimedOut
<1>2. /\ phase' = "closed" /\ paused' \in BOOLEAN /\ mustClose' \in BOOLEAN
      /\ UNCHANGED <<read, sent, newSession, device, assembler>>
  BY <1>1 DEF ChargerUnavailable, Finish, Abort, IInv, TypeOK
<1>3. blame \subseteq Blames /\ coreLost \in BOOLEAN /\ (coreLost => blame # {})
  BY DEF IInv, TypeOK, NoSelfInflictedLoss
<1> QED
  BY <1>1, <1>2, <1>3, RestInv

LEMMA RetryDelayElapsesInv ==
  ASSUME IInv, RetryDelayElapses
  PROVE  IInv'
<1>1. /\ phase # "closed" /\ paused' = FALSE
      /\ UNCHANGED <<phase, read, sent, newSession, device, assembler, future,
                     mustClose, timedOut, blame, coreLost>>
  BY DEF RetryDelayElapses, history
<1>2. /\ mustClose \in BOOLEAN /\ timedOut \in BOOLEAN /\ coreLost \in BOOLEAN
      /\ blame \subseteq Blames /\ ~timedOut /\ (coreLost => blame # {})
  BY <1>1 DEF IInv, TypeOK, TimeoutEndsSession, NoSelfInflictedLoss
<1>3. ASSUME phase = "idle", blame = {}
      PROVE  /\ inbox = <<>> /\ air = <<>>
             /\ future.state = "result" => future.message.ids[1] = sent
  <2>1. /\ \A i \in DOMAIN inbox : FALSE
        /\ \A i \in DOMAIN air : FALSE
        /\ future.state = "result" => future.message.ids[1] = sent
    BY <1>3 DEF IInv, Clean, Sure
  <2> QED
    BY <2>1, Known, Nothing
<1> QED
  BY <1>1, <1>2, <1>3, RestInv

-----------------------------------------------------------------------------
\* Every step

LEMMA InitInv == Init => IInv
<1> SUFFICES ASSUME Init PROVE IInv
  OBVIOUS
<1>1. Empty \in AssemblerType /\ Empty.next <= Empty.total
  BY DEF Empty, AssemblerType
<1>2. TypeOK
  <2>1. 1 \in 1 .. MaxRequests /\ Sinfo \in Reads
    BY Numbers
  <2>2. <<>> \in Seq(Request) /\ <<>> \in Seq(Frame)
    OBVIOUS
  <2> QED
    BY <1>1, <2>1, <2>2 DEF Init, TypeOK
<1>3. Budget /\ Stream /\ Asking
  BY Numbers DEF Init, Budget, Stream, Asking
<1>4. Assembly /\ Outcome /\ Clean /\ Sync
  BY FutureStates DEF Init, Assembly, Outcome, Clean, Sync, InStep, Empty
<1> QED
  BY <1>2, <1>3, <1>4 DEF Init, IInv, TimeoutEndsSession, NoSelfInflictedLoss

LEMMA StutterInv ==
  ASSUME IInv, UNCHANGED vars
  PROVE  IInv'
<1>1. UNCHANGED <<phase, read, sent, newSession, inbox, air, assembler, future, paused,
                  mustClose, timedOut, blame, coreLost>>
  BY DEF vars
<1>2. TypeOK' /\ Budget' /\ Stream'
  BY <1>1 DEF IInv, TypeOK, Budget, Stream
<1>3. Asking' /\ Assembly' /\ Outcome'
  BY <1>1 DEF IInv, Asking, Asked, Assembly, Outcome, Whole
<1>4. Clean' /\ Sync'
  BY <1>1 DEF IInv, Clean, Sure, Sync, InStep
<1> QED
  BY <1>1, <1>2, <1>3, <1>4 DEF IInv, TimeoutEndsSession, NoSelfInflictedLoss

LEMMA NextInv ==
  ASSUME IInv, Next
  PROVE  IInv'
<1>1. CASE Written
  BY <1>1, WrittenInv
<1>2. CASE NextCycle
  BY <1>2, NextCycleInv
<1>3. CASE \E sound \in Sound : Answer(sound)
  BY <1>3, AnswerInv
<1>4. CASE Silent
  BY <1>4, SilentInv
<1>5. CASE Notified
  BY <1>5, NotifiedInv
<1>6. CASE Accepted
  BY <1>6, AcceptedInv
<1>7. CASE RejectedCharger
  BY <1>7, RejectedChargerInv
<1>8. CASE RejectedCore
  BY <1>8, RejectedCoreInv
<1>9. CASE Broke
  BY <1>9, AbortInv DEF Broke
<1>10. CASE TimedOut
  BY <1>10, TimedOutInv
<1>11. CASE CancelPoll
  BY <1>11, CancelPollInv
<1>12. CASE LinkEnds
  BY <1>12, AbortInv DEF LinkEnds
<1>13. CASE RetryDelayElapses
  BY <1>13, RetryDelayElapsesInv
<1> QED
  BY <1>1, <1>2, <1>3, <1>4, <1>5, <1>6, <1>7, <1>8, <1>9, <1>10, <1>11, <1>12,
     <1>13 DEF Next

\* In every state a session can be in, the inductive invariant holds.
THEOREM Invariance == Spec => []IInv
<1>1. IInv /\ [Next]_vars => IInv'
  BY NextInv, StutterInv
<1> QED
  BY <1>1, InitInv, PTL DEF Spec

\* The session's closure variables keep their types, and an assembler never holds
\* more fragments than its message has (local_client.py:290-314, 352-353;
\* local_protocol.py:77-127).
THEOREM TypeCorrect == Spec => []TypeOK
  BY Invariance, PTL DEF IInv

\* What a poll is about to accept answers the very request it waits for, with all of
\* its frames, after any late answers, bad frames, cancelled polls and reused
\* sessions: SINFO, device discovery and charger answers, which carry no UUID,
\* included (local_protocol.py:103-127, 265, 379; local_client.py:294-307).
THEOREM AcceptsCurrent == Spec => []AcceptedIsCurrent
<1>1. IInv => AcceptedIsCurrent
  BY AcceptedCurrent DEF AcceptedIsCurrent
<1> QED
  BY <1>1, Invariance, PTL

\* Unless an answer was bad or a poll was cancelled, no request or frame older than
\* the current exchange is under way on the connection (local_client.py:318-438).
THEOREM Serial == Spec => []SerialExchange
<1>1. IInv => SerialExchange
  BY DEF IInv, Clean, Sure, SerialExchange
<1> QED
  BY <1>1, Invariance, PTL

\* A core or identity answer is rejected only on a session on which the device sent
\* a bad answer or a poll was cancelled: the client's own leftovers never fail a poll
\* (local_client.py:322-323, 368-369, 393-394, 432-433).
THEOREM NoOwnLoss == Spec => []NoSelfInflictedLoss
  BY Invariance, PTL DEF IInv

\* A session on which a request timed out, the optional charger query included, is
\* closed (local_client.py:131-132, 236-262, 432-433).
THEOREM TimeoutEnds == Spec => []TimeoutEndsSession
  BY Invariance, PTL DEF IInv
=============================================================================
