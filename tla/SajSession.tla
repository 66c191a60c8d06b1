------------------------------- MODULE SajSession -------------------------------
(***************************************************************************)
(* The request/answer exchange on one open connection, from the first      *)
(* request of a new session to its end: _start_session and its closures    *)
(* on_notify, read_batches and read_optional_charger_info                  *)
(* (local_client.py), with FrameAssembler.add and the parsers' acceptance  *)
(* tests (local_protocol.py).  Module LocalClient says who opens, retains  *)
(* and closes the session; here a poll is one pass over the core reads and *)
(* the charger query.                                                      *)
(*                                                                         *)
(* The eManager is external: it answers requests in order, or not at all,  *)
(* and any time; notifications of an open connection arrive in order.      *)
(***************************************************************************)
EXTENDS Naturals, Sequences

CONSTANTS
  EmsReads,      \* EMS batches of a cycle (2)
  CoreReads,     \* EMS batches and transModbus blocks of a cycle (2 + 5)
  IdentityParts, \* frames of a SINFO or device discovery answer
  CoreParts,     \* frames of a core answer
  ChargerParts,  \* frames of a charger answer
  MaxRequests    \* bound of the model on the requests of one session

ASSUME SizeAssumption ==
  /\ EmsReads \in Nat \ {0} /\ CoreReads \in Nat /\ EmsReads <= CoreReads
  /\ IdentityParts \in Nat \ {0}
  /\ CoreParts \in Nat \ {0}
  /\ ChargerParts \in Nat \ {0}
  /\ MaxRequests \in Nat /\ MaxRequests >= CoreReads + 3

Sinfo == 1
Discovery == 2
LastEms == EmsReads + 2
LastCore == CoreReads + 2
Charger == CoreReads + 3
Reads == 1 .. Charger

Parts(r) == IF r = Charger THEN ChargerParts
            ELSE IF r <= Discovery THEN IdentityParts ELSE CoreParts

VARIABLES
  phase,      \* "writing" | "waiting" | "idle" (retained) | "closed"
  read,       \* the read under way, or the last one
  sent,       \* requests sent so far: the number of the latest is its UUID
  newSession, \* the first poll, which opened the session, is still running
  inbox,      \* requests the eManager has not answered
  air,        \* frames on their way to the client
  assembler,  \* the FrameAssembler of the latest request
  future,     \* the future of the latest request
  paused,     \* time.monotonic() < self._charger_retry_after
  mustClose,  \* self._session_must_close
  timedOut,   \* history: a request of this session timed out
  blame,      \* history: what outside the client could spoil an exchange
  coreLost    \* history: a core or identity answer was rejected

vars == <<phase, read, sent, newSession, inbox, air, assembler, future, paused,
          mustClose, timedOut, blame, coreLost>>
device == <<inbox, air>>
history == <<timedOut, blame, coreLost>>

\* What can be wrong with an answer: a parser refuses it, decryption or decoding
\* raises something else, or its first frame fails validation.
Sound == {"good", "unusable", "undecodable", "broken"}

Request == [id : 1 .. MaxRequests, read : Reads]
Frame == [id : 1 .. MaxRequests, read : Reads, index : Nat, sound : Sound]
Message == [ids : Seq(1 .. MaxRequests), read : Reads, sound : Sound]

\* total 0 stands for None; ids are the answers the fragments came from.
Empty == [next |-> 0, total |-> 0, ids |-> <<>>]

Pending == [state |-> "pending"]
Cancelled == [state |-> "cancelled"]
Raised(err) == [state |-> "raised", err |-> err]
Result(m) == [state |-> "result", message |-> m]

Init ==
  /\ phase = "writing"
  /\ read = Sinfo
  /\ sent = 1
  /\ newSession = TRUE
  /\ inbox = <<>>
  /\ air = <<>>
  /\ assembler = Empty
  /\ future = Pending
  /\ paused \in BOOLEAN
  /\ mustClose = FALSE
  /\ timedOut = FALSE
  /\ blame = {}
  /\ coreLost = FALSE

-----------------------------------------------------------------------------
\* Sending a request

\* Variant: the assembler of the previous request stays in use.
AskKeepingAssembler(r) ==
  /\ phase' = "writing" /\ read' = r /\ sent' = sent + 1
  /\ future' = Pending
  /\ UNCHANGED <<assembler, device>>

\* A fresh assembler and future, then the frames are written one by one.  The number
\* of a core request stands for its UUID, the clock in milliseconds, which is another
\* one for each request unless the clock steps back.
Ask(r) ==
  /\ phase' = "writing"
  /\ read' = r
  /\ sent' = sent + 1
  /\ assembler' = Empty
  /\ future' = Pending
  /\ UNCHANGED device

\* The last frame of the request has been acknowledged.
Written ==
  /\ phase = "writing"
  /\ phase' = "waiting"
  /\ inbox' = Append(inbox, [id |-> sent, read |-> read])
  /\ UNCHANGED <<read, sent, newSession, air, assembler, future, paused,
                 mustClose, history>>

\* A later poll on the retained session.
NextCycle ==
  /\ phase = "idle"
  /\ sent + CoreReads + 1 <= MaxRequests
  /\ Ask(Discovery + 1)
  /\ newSession' = FALSE
  /\ UNCHANGED <<paused, mustClose, history>>

-----------------------------------------------------------------------------
\* The eManager

Answer(sound) ==
  /\ inbox # <<>>
  /\ phase # "closed"
  /\ LET q == Head(inbox)
     IN /\ air' = air \o [i \in 1 .. Parts(q.read) |->
                            [id |-> q.id, read |-> q.read, index |-> i - 1,
                             sound |-> sound]]
        /\ blame' = IF sound = "good" THEN blame
                    ELSE blame \cup {IF q.read = Charger THEN "charger answer"
                                                         ELSE "core answer"}
  /\ inbox' = Tail(inbox)
  /\ UNCHANGED <<phase, read, sent, newSession, assembler, future, paused,
                 mustClose, timedOut, coreLost>>

Silent ==
  /\ inbox # <<>>
  /\ phase # "closed"
  /\ inbox' = Tail(inbox)
  /\ UNCHANGED <<phase, read, sent, newSession, air, assembler, future, paused,
                 mustClose, history>>

-----------------------------------------------------------------------------
\* on_notify

\* Variant: fragments are not checked for their order.
MisfitUnordered(f) ==
  \/ f.sound = "broken" /\ f.index = 0
  \/ Parts(f.read) > 1 /\ assembler.total \notin {0, Parts(f.read)}

\* FrameAssembler.add raises and keeps its state.
Misfit(f) ==
  \/ f.sound = "broken" /\ f.index = 0
  \/ /\ Parts(f.read) > 1
     /\ f.index # assembler.next \/ assembler.total \notin {0, Parts(f.read)}

\* A frame of type 1 is a message of its own, whatever the assembler holds.
Added(f) ==
  IF Parts(f.read) = 1 THEN assembler
  ELSE [next |-> assembler.next + 1, total |-> Parts(f.read),
        ids |-> Append(assembler.ids, f.id)]

\* Variant: the first fragment already counts as the message.
CompletesEarly(f) == TRUE

Completes(f) == f.index + 1 = Parts(f.read)

MessageOf(f) == [ids |-> IF Parts(f.read) = 1 THEN <<f.id>> ELSE Added(f).ids,
                 read |-> f.read, sound |-> f.sound]

Settle(value) == future' = IF future = Pending THEN value ELSE future

Notified ==
  /\ air # <<>>
  /\ phase # "closed"
  /\ air' = Tail(air)
  /\ LET f == Head(air)
     IN \/ Misfit(f) /\ Settle(Raised("protocol")) /\ UNCHANGED assembler
        \/ /\ ~Misfit(f)
           /\ assembler' = Added(f)
           /\ IF Completes(f)
                THEN Settle(IF f.sound = "undecodable" THEN Raised("other")
                                                       ELSE Result(MessageOf(f)))
                ELSE UNCHANGED future
  /\ UNCHANGED <<phase, read, sent, newSession, inbox, paused, mustClose, history>>

-----------------------------------------------------------------------------
\* The poll resumes

\* Variant: a readingDevice answer is accepted without comparing its UUID.
ParsedEmsAnyUuid(m) == m.read \in Discovery + 1 .. LastEms

\* The parsers.  Each tells the kind of answer it wants from the others; only
\* readingDevice and transModbus answers carry the UUID of their request, and only
\* a transModbus answer says what was asked.
ParsedSinfo(m) == m.read = Sinfo

ParsedDiscovery(m) == m.read = Discovery

ParsedEms(m) == m.read \in Discovery + 1 .. LastEms /\ Head(m.ids) = sent

ParsedModbus(m) == m.read \in LastEms + 1 .. LastCore /\ Head(m.ids) = sent
                   /\ m.read = read

ParsedCharger(m) == m.read = Charger

Accepts(m) ==
  /\ m.sound = "good"
  /\ \/ read = Sinfo /\ ParsedSinfo(m)
     \/ read = Discovery /\ ParsedDiscovery(m)
     \/ read \in Discovery + 1 .. LastEms /\ ParsedEms(m)
     \/ read \in LastEms + 1 .. LastCore /\ ParsedModbus(m)
     \/ read = Charger /\ ParsedCharger(m)

Settled(state) == phase = "waiting" /\ future.state = state

\* The cycle is over: the session is retained or closed.
Finish(closing) ==
  /\ phase' = IF closing THEN "closed" ELSE "idle"
  /\ UNCHANGED <<read, sent, assembler, device>>

Accepted ==
  /\ Settled("result")
  /\ Accepts(future.message)
  /\ paused' = (paused /\ read # Charger)
  /\ IF read < LastCore \/ (read = LastCore /\ ~paused)
       THEN Ask(read + 1)
       ELSE Finish(mustClose) /\ UNCHANGED future
  /\ UNCHANGED <<newSession, mustClose, history>>

Rejected == \/ Settled("result") /\ ~Accepts(future.message)
            \/ Settled("raised") /\ future.err = "protocol"

\* Any other read, or any other exception, ends the session.
Abort == phase' = "closed" /\ UNCHANGED <<read, sent, newSession, assembler, device,
                                          paused, mustClose>>

\* Variant: the session outlives an unanswered charger query.
ChargerUnavailableKeeping(state) ==
  /\ read = Charger /\ paused' = TRUE /\ Finish(mustClose)
  /\ UNCHANGED <<newSession, mustClose>>

\* The handler of read_optional_charger_info; state is the future's.
ChargerUnavailable(state) ==
  /\ read = Charger
  /\ paused' = TRUE
  /\ mustClose' = (mustClose \/ state = "cancelled")
  /\ Finish(mustClose')
  /\ UNCHANGED newSession

RejectedCharger ==
  /\ Rejected
  /\ ChargerUnavailable(future.state)
  /\ UNCHANGED <<future, history>>

RejectedCore ==
  /\ Rejected
  /\ read # Charger
  /\ Abort
  /\ coreLost' = TRUE
  /\ UNCHANGED <<future, timedOut, blame>>

Broke ==
  /\ Settled("raised")
  /\ future.err = "other"
  /\ Abort
  /\ UNCHANGED <<future, history>>

\* asyncio.wait_for cancels the future when its time is up.
TimedOut ==
  /\ Settled("pending")
  /\ future' = Cancelled
  /\ timedOut' = TRUE
  /\ ChargerUnavailable("cancelled") \/ (read # Charger /\ Abort)
  /\ UNCHANGED <<blame, coreLost>>

\* The poll is cancelled.  A session it opened is disconnected; a retained one is
\* kept, with its request written, half written or unanswered.
CancelPoll ==
  /\ phase \in {"writing", "waiting"}
  /\ future' = IF phase = "waiting" THEN Cancelled ELSE future
  /\ \/ UNCHANGED inbox
     \/ phase = "writing" /\ inbox' = Append(inbox, [id |-> sent, read |-> read])
  /\ phase' = IF newSession THEN "closed" ELSE "idle"
  /\ blame' = blame \cup {"cancelled"}
  /\ UNCHANGED <<read, sent, newSession, air, assembler, paused, mustClose,
                 timedOut, coreLost>>

\* The connection drops, a write raises, or the session is closed on unload.
LinkEnds ==
  /\ phase # "closed"
  /\ Abort
  /\ UNCHANGED <<future, history>>

RetryDelayElapses ==
  /\ phase # "closed"
  /\ paused
  /\ paused' = FALSE
  /\ UNCHANGED <<phase, read, sent, newSession, device, assembler, future,
                 mustClose, history>>

Next ==
  \/ Written \/ NextCycle
  \/ \E sound \in Sound : Answer(sound)
  \/ Silent \/ Notified
  \/ Accepted \/ RejectedCharger \/ RejectedCore \/ Broke \/ TimedOut
  \/ CancelPoll \/ LinkEnds \/ RetryDelayElapses

Spec == Init /\ [][Next]_vars

-----------------------------------------------------------------------------
\* Properties

AssemblerType == [next : Nat, total : Nat, ids : Seq(1 .. MaxRequests)]
Blames == {"cancelled", "core answer", "charger answer"}

\* Types of the session's closure variables (local_client.py:290-314, 352-353);
\* an assembler never holds more fragments than its message has.
TypeOK ==
  /\ phase \in {"writing", "waiting", "idle", "closed"}
  /\ read \in Reads
  /\ sent \in 1 .. MaxRequests
  /\ newSession \in BOOLEAN
  /\ inbox \in Seq(Request)
  /\ air \in Seq(Frame)
  /\ assembler \in AssemblerType /\ assembler.next <= assembler.total
  /\ \/ future \in {Pending, Cancelled, Raised("protocol"), Raised("other")}
     \/ future.state = "result" /\ future.message \in Message
  /\ paused \in BOOLEAN /\ mustClose \in BOOLEAN
  /\ timedOut \in BOOLEAN /\ coreLost \in BOOLEAN
  /\ blame \subseteq Blames

\* What a poll is about to accept answers the request it is waiting for, with
\* every fragment, though SINFO, device discovery and charger answers carry no
\* UUID (local_protocol.py:103-127, 265, 379; local_client.py:294-307).
AcceptedIsCurrent ==
  Settled("result") /\ Accepts(future.message) =>
    /\ future.message.read = read
    /\ Len(future.message.ids) = Parts(read)
    /\ \A i \in DOMAIN future.message.ids : future.message.ids[i] = sent

\* Unless an answer was bad or a poll was cancelled, nothing older than the
\* current request is under way on the session, and nothing at all between two
\* polls (local_client.py:318-438: each request awaits its whole answer).
SerialExchange ==
  phase # "closed" /\ blame = {} =>
    /\ \A i \in DOMAIN inbox : phase = "waiting" /\ inbox[i].id = sent
    /\ \A i \in DOMAIN air : phase = "waiting" /\ air[i].id = sent

\* The client never turns its own late or leftover frames into a failed poll: a
\* core answer is rejected only if an answer of the device was bad or a poll was
\* cancelled on this session (local_client.py:322-323, 368-369, 393-394, 432-433).
NoSelfInflictedLoss == coreLost => blame # {}

\* A session on which any request timed out sends nothing any more
\* (local_client.py:131-132, 236-262, 432-433).
TimeoutEndsSession == timedOut => phase = "closed"
=============================================================================
