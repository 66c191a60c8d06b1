------------------------------- MODULE FrameCodec -------------------------------
(***************************************************************************)
(* BSaj framing at its boundaries: encode_frames, FrameAssembler.add and   *)
(* the numbering of the frames of a session (local_protocol.py,            *)
(* local_client.py).  A sender frames one message after the other; the     *)
(* receiver takes up each with a fresh assembler, as the client does for   *)
(* every answer.  A byte is its message and its place in it.  Module       *)
(* SajSession has the exchange these frames belong to, where a message is  *)
(* cut into a fixed number of parts.                                       *)
(*                                                                         *)
(* The link is external: it loses, repeats and damages frames, and swaps   *)
(* frames of one message, but keeps messages in order.                     *)
(***************************************************************************)
EXTENDS Naturals, Sequences

CONSTANTS
  Limits,       \* packet limits; the client uses GATT_WRITE_LIMIT, 182
  Lengths,      \* lengths of encrypted messages
  Starts,       \* frame numbers a message may be sent with
  MaxMessages,  \* bound of the model on messages
  MaxFaults     \* bound of the model on faults of the link

\* encode_frames raises for a smaller limit.
ASSUME LimitAssumption == Limits \subseteq Nat /\ \A l \in Limits : l >= 20
ASSUME LengthAssumption == Lengths \subseteq Nat
ASSUME StartAssumption == Starts \subseteq 0 .. 255
ASSUME BoundAssumption == MaxMessages \in Nat /\ MaxFaults \in Nat

VARIABLES
  limit,      \* the packet limit
  sequence,   \* the number of the first frame of the latest message
  lengths,    \* the lengths of the messages sent so far
  wire,       \* frames on their way, in order
  assembler,  \* the receiver's FrameAssembler
  outcome,    \* the future of the latest message
  faults      \* faults of the link so far

vars == <<limit, sequence, lengths, wire, assembler, outcome, faults>>

-----------------------------------------------------------------------------
\* Encoding

\* The bytes of message m behind the first `from` and up to `to`.
Bytes(m, from, to) == [k \in 1 .. to - from |-> <<m, from + k>>]

sent == Len(lengths)

Payload(m) == Bytes(m, 0, lengths[m])

Single(m, len, seq) ==
  [of |-> m, kind |-> 1, number |-> seq, total |-> 0, index |-> 0,
   bytes |-> Bytes(m, 0, len), intact |-> TRUE]

\* Variant: the header of a fragment is taken for that of a single frame.
ChunkSizeGenerous(l) == l - 12

\* Room for payload in a fragment.
ChunkSize(l) == l - 13

FragmentCount(len, size) == (len + size - 1) \div size

\* Variant: frame numbers are not reduced to a byte.
NumberUnmasked(seq, index) == seq + index

Number(seq, index) == (seq + index) % 256

Fragment(m, len, seq, size, index) ==
  [of |-> m, kind |-> 2, number |-> Number(seq, index), total |-> len,
   index |-> index,
   bytes |-> Bytes(m, index * size,
                   IF (index + 1) * size < len THEN (index + 1) * size ELSE len),
   intact |-> TRUE]

EncodeFrames(m, len, seq, l) ==
  IF len <= l - 7
    THEN <<Single(m, len, seq)>>
    ELSE [i \in 1 .. FragmentCount(len, ChunkSize(l)) |->
            Fragment(m, len, seq, ChunkSize(l), i - 1)]

\* Magic, type, number, length and checksum take seven bytes; a fragment's total
\* and index six more.
Size(f) == Len(f.bytes) + (IF f.kind = 1 THEN 7 ELSE 13)

-----------------------------------------------------------------------------
\* The receiver

\* total 0 stands for None, which no fragment carries.
Fresh == [total |-> 0, next |-> 0, data |-> <<>>]

Open == [state |-> "open", data |-> <<>>]
Rejected == [state |-> "rejected", data |-> <<>>]
Complete(data) == [state |-> "complete", data |-> data]

Init ==
  /\ limit \in Limits
  /\ sequence \in Starts
  /\ lengths = <<>>
  /\ wire = <<>>
  /\ assembler = Fresh
  /\ outcome = Rejected
  /\ faults = 0

\* Variant: any fragment of a message of the same length is taken.
InOrderAnyIndex(f) == assembler.total \in {0, f.total}

InOrder(f) == f.index = assembler.next /\ assembler.total \in {0, f.total}

\* on_notify sets a future that is not done.
Settle(result) == outcome' = IF outcome.state = "open" THEN result ELSE outcome

Assembled(data, total) ==
  IF Len(data) > total THEN Rejected
  ELSE IF Len(data) = total THEN Complete(data) ELSE Open

Add(f) ==
  \/ /\ ~f.intact \/ (f.kind = 2 /\ ~InOrder(f))
     /\ Settle(Rejected)
     /\ UNCHANGED assembler
  \/ /\ f.intact
     /\ f.kind = 1
     /\ Settle(Complete(f.bytes))
     /\ UNCHANGED assembler
  \/ /\ f.intact
     /\ f.kind = 2
     /\ InOrder(f)
     /\ assembler' = [total |-> f.total, next |-> assembler.next + 1,
                      data |-> assembler.data \o f.bytes]
     /\ Settle(Assembled(assembler'.data, f.total))

-----------------------------------------------------------------------------
\* Steps

\* Numbers go on behind a message whose answer was used; a cancelled poll or an
\* optional query that failed leaves them as they were.
NextSequence ==
  \/ UNCHANGED sequence
  \/ /\ outcome.state = "complete"
     /\ sequence' = (sequence + Len(EncodeFrames(sent, lengths[sent], sequence, limit))) % 256

\* Variant: the assembler of the last message is kept.
TakeUpKept == outcome' = Open /\ UNCHANGED assembler

TakeUp == outcome' = Open /\ assembler' = Fresh

Send ==
  /\ outcome.state # "open"
  /\ sent < MaxMessages
  /\ NextSequence
  /\ \E len \in Lengths :
       /\ lengths' = Append(lengths, len)
       /\ wire' = wire \o EncodeFrames(sent + 1, len, sequence', limit)
  /\ TakeUp
  /\ UNCHANGED <<limit, faults>>

Deliver ==
  /\ wire # <<>>
  /\ Add(Head(wire))
  /\ wire' = Tail(wire)
  /\ UNCHANGED <<limit, sequence, lengths, faults>>

\* The poll is cancelled, or its wait times out.
GiveUp ==
  /\ outcome.state = "open"
  /\ outcome' = Rejected
  /\ UNCHANGED <<limit, sequence, lengths, wire, assembler, faults>>

Fault ==
  /\ faults < MaxFaults
  /\ faults' = faults + 1
  /\ UNCHANGED <<limit, sequence, lengths, assembler, outcome>>

Lose == Fault /\ wire # <<>> /\ wire' = Tail(wire)

Repeat == Fault /\ wire # <<>> /\ wire' = <<Head(wire)>> \o wire

\* One byte of the length, the payload or the checksum arrives wrong.
Damage ==
  /\ Fault
  /\ wire # <<>>
  /\ Head(wire).intact
  /\ wire' = <<[Head(wire) EXCEPT !.intact = FALSE]>> \o Tail(wire)

Swap ==
  /\ Fault
  /\ Len(wire) > 1
  /\ wire[1].of = wire[2].of
  /\ wire' = <<wire[2], wire[1]>> \o SubSeq(wire, 3, Len(wire))

Next == Send \/ Deliver \/ GiveUp \/ Lose \/ Repeat \/ Damage \/ Swap

Spec == Init /\ [][Next]_vars

-----------------------------------------------------------------------------
\* Properties

FrameType ==
  [of : 1 .. MaxMessages, kind : {1, 2}, number : 0 .. 255, total : Nat,
   index : Nat, bytes : Seq((1 .. MaxMessages) \X (Nat \ {0})), intact : BOOLEAN]

\* Types of the frames and of both ends; a frame number is a byte.
TypeOK ==
  /\ limit \in Limits
  /\ sequence \in 0 .. 255
  /\ lengths \in Seq(Lengths)
  /\ sent <= MaxMessages
  /\ wire \in Seq(FrameType)
  /\ assembler \in [total : Nat, next : Nat,
                    data : Seq((1 .. MaxMessages) \X (Nat \ {0}))]
  /\ outcome \in [state : {"open", "rejected", "complete"},
                  data : Seq((1 .. MaxMessages) \X (Nat \ {0}))]
  /\ faults \in 0 .. MaxFaults

\* No frame is longer than a GATT write takes, whatever the length of its message
\* (local_protocol.py:71-91, tests/test_local_protocol.py:40).
FramesFit == \A i \in DOMAIN wire : Size(wire[i]) <= limit

\* What the receiver takes for a message has every byte in its place and none
\* missing, however frames are lost, repeated, damaged or left over; and it takes
\* two faults to make it of two messages, which must be of one length: frame
\* numbers, which would tell, are not compared (local_protocol.py:103-127).
OnlyWholeMessages ==
  outcome.state = "complete" =>
    /\ \A k \in DOMAIN outcome.data :
         /\ outcome.data[k][2] = k
         /\ lengths[outcome.data[k][1]] = Len(outcome.data)
    /\ faults < 2 => \E m \in 1 .. sent : outcome.data = Payload(m)

\* With nothing left over and a link that does no wrong, the latest message arrives
\* with its last frame and not before, at every length (local_protocol.py:71-84,
\* 124-127).
MessageArrives ==
  [][/\ faults' = 0
     /\ outcome.state = "open"
     /\ wire # <<>> /\ wire' = Tail(wire)
     /\ \A i \in DOMAIN wire : wire[i].of = sent
     => outcome' = IF wire' = <<>> THEN Complete(Payload(sent)) ELSE Open]_vars
=============================================================================
