--------------------------- MODULE FrameCodec_proofs ---------------------------
(***************************************************************************)
(* Theorems about FrameCodec, for every set of packet limits, of lengths   *)
(* and of first numbers and for any number of messages and faults: the     *)
(* types of both ends, with frame numbers that are bytes; that no frame is *)
(* longer than a write takes; that what the receiver takes for a message   *)
(* is whole; and that the latest message arrives with its last frame on a  *)
(* link that does no wrong.                                                *)
(***************************************************************************)
EXTENDS FrameCodec, SequenceTheorems, TLAPS

Byte == (1 .. MaxMessages) \X (Nat \ {0})

\* The frames the two properties are about, under the packet limit l.
Fitting(l) == {f \in FrameType : Size(f) <= l}

\* What is on the wire fits, and nothing is taken before a message is sent.
IInv ==
  /\ TypeOK
  /\ wire \in Seq(Fitting(limit))
  /\ sent = 0 => wire = <<>> /\ outcome.state # "complete"

-----------------------------------------------------------------------------
\* Encoding

\* The bytes between two places are a sequence as long as they are apart.
LEMMA BytesType ==
  ASSUME NEW m \in 1 .. MaxMessages, NEW from \in Nat, NEW to \in Nat, from <= to
  PROVE  /\ Bytes(m, from, to) \in Seq(Byte)
         /\ Len(Bytes(m, from, to)) = to - from
<1>1. to - from \in Nat
  OBVIOUS
<1>2. \A k \in 1 .. to - from : <<m, from + k>> \in Byte
  BY DEF Byte
<1>3. Bytes(m, from, to) \in [1 .. to - from -> Byte]
  BY <1>2 DEF Bytes
<1> QED
  BY <1>1, <1>3

\* A chunk begins inside the message: there is no empty fragment.
LEMMA ChunkBegins ==
  ASSUME NEW len \in Nat, NEW size \in Nat \ {0},
         NEW i \in 1 .. FragmentCount(len, size)
  PROVE  (i - 1) * size < len
<1> DEFINE q == (len + size - 1) \div size
<1>1. q \in Nat /\ q * size <= len + size - 1
  OBVIOUS
<1>2. i \in Nat /\ 1 <= i /\ i <= q
  BY <1>1 DEF FragmentCount
<1> HIDE DEF q
<1>3. i * size <= q * size
  BY <1>1, <1>2
<1>4. (i - 1) * size = i * size - size
  BY <1>2
<1>5. i * size \in Nat /\ q * size \in Nat
  BY <1>1, <1>2
<1> QED
  BY <1>1, <1>3, <1>4, <1>5

\* A record with the fields of a fragment is a frame, and its size is known.
LEMMA FragmentRecord ==
  ASSUME NEW m \in 1 .. MaxMessages, NEW number \in 0 .. 255, NEW total \in Nat,
         NEW index \in Nat, NEW bytes \in Seq(Byte), NEW l \in Nat,
         Len(bytes) + 13 <= l
  PROVE  [of |-> m, kind |-> 2, number |-> number, total |-> total,
          index |-> index, bytes |-> bytes, intact |-> TRUE] \in Fitting(l)
<1> DEFINE f == [of |-> m, kind |-> 2, number |-> number, total |-> total,
                 index |-> index, bytes |-> bytes, intact |-> TRUE]
<1>1. f \in FrameType
  BY DEF FrameType, Byte
<1>2. f.kind = 2 /\ f.bytes = bytes
  OBVIOUS
<1>3. Size(f) = Len(bytes) + 13
  BY <1>2 DEF Size
<1> QED
  BY <1>1, <1>3 DEF Fitting

LEMMA FragmentFits ==
  ASSUME NEW m \in 1 .. MaxMessages, NEW len \in Nat, NEW seq \in 0 .. 255,
         NEW l \in Nat, l >= 20,
         NEW i \in 1 .. FragmentCount(len, ChunkSize(l))
  PROVE  Fragment(m, len, seq, ChunkSize(l), i - 1) \in Fitting(l)
<1> DEFINE size == ChunkSize(l)
           from == (i - 1) * size
           to == IF i * size < len THEN i * size ELSE len
<1>1. size \in Nat \ {0} /\ size = l - 13
  BY DEF ChunkSize
<1>2. from < len
  BY <1>1, ChunkBegins
<1>3. i \in Nat /\ i >= 1
  BY <1>1 DEF FragmentCount
<1>4. i * size \in Nat /\ from \in Nat /\ i * size = from + size
  BY <1>1, <1>3
<1>5. to \in Nat /\ from <= to /\ to - from <= size
  BY <1>1, <1>2, <1>4
<1>6. /\ Bytes(m, from, to) \in Seq(Byte)
      /\ Len(Bytes(m, from, to)) <= size
  BY <1>4, <1>5, BytesType
<1>7. Number(seq, i - 1) \in 0 .. 255
  BY <1>3 DEF Number
<1>8. (i - 1) + 1 = i /\ i - 1 \in Nat
  BY <1>3
<1>9. Fragment(m, len, seq, size, i - 1) =
        [of |-> m, kind |-> 2, number |-> Number(seq, i - 1), total |-> len,
         index |-> i - 1, bytes |-> Bytes(m, from, to), intact |-> TRUE]
  BY <1>8 DEF Fragment
<1> HIDE DEF size, from, to
<1>10. Len(Bytes(m, from, to)) + 13 <= l
  BY <1>1, <1>6
<1>11. [of |-> m, kind |-> 2, number |-> Number(seq, i - 1), total |-> len,
        index |-> i - 1, bytes |-> Bytes(m, from, to), intact |-> TRUE]
         \in Fitting(l)
  BY <1>6, <1>7, <1>8, <1>10, FragmentRecord
<1> QED
  BY <1>9, <1>11 DEF size

\* Every message is cut into frames that fit.
LEMMA FramesType ==
  ASSUME NEW m \in 1 .. MaxMessages, NEW len \in Nat, NEW seq \in 0 .. 255,
         NEW l \in Nat, l >= 20
  PROVE  EncodeFrames(m, len, seq, l) \in Seq(Fitting(l))
<1>1. CASE len <= l - 7
  <2>1. Bytes(m, 0, len) \in Seq(Byte) /\ Len(Bytes(m, 0, len)) = len
    <3>1. 0 \in Nat /\ 0 <= len /\ len - 0 = len
      OBVIOUS
    <3> QED
      BY <3>1, BytesType
  <2> DEFINE b == Bytes(m, 0, len)
             f == [of |-> m, kind |-> 1, number |-> seq, total |-> 0, index |-> 0,
                   bytes |-> b, intact |-> TRUE]
  <2> HIDE DEF b
  <2>2. f \in FrameType
    BY <2>1 DEF FrameType, Byte, b
  <2>3. f.kind = 1 /\ f.bytes = b
    OBVIOUS
  <2>4. Size(f) <= l
    BY <1>1, <2>1, <2>3 DEF Size, b
  <2>5. Single(m, len, seq) = f
    BY DEF Single, b
  <2> QED
    BY <1>1, <2>2, <2>4, <2>5 DEF EncodeFrames, Fitting
<1>2. CASE ~(len <= l - 7)
  <2>1. FragmentCount(len, ChunkSize(l)) \in Nat
    BY DEF FragmentCount, ChunkSize
  <2>2. \A i \in 1 .. FragmentCount(len, ChunkSize(l)) :
          Fragment(m, len, seq, ChunkSize(l), i - 1) \in Fitting(l)
    BY FragmentFits
  <2>3. [i \in 1 .. FragmentCount(len, ChunkSize(l)) |->
           Fragment(m, len, seq, ChunkSize(l), i - 1)] \in Seq(Fitting(l))
    BY <2>1, <2>2
  <2> QED
    BY <1>2, <2>3 DEF EncodeFrames
<1> QED
  BY <1>1, <1>2

-----------------------------------------------------------------------------
\* Steps

Outcomes == [state : {"open", "rejected", "complete"}, data : Seq(Byte)]

LEMMA WireType ==
  ASSUME NEW l, NEW w \in Seq(Fitting(l))
  PROVE  /\ w \in Seq(FrameType)
         /\ \A i \in DOMAIN w : w[i] \in FrameType /\ Size(w[i]) <= l
<1>1. \A i \in 1 .. Len(w) : w[i] \in Fitting(l)
  OBVIOUS
<1>2. \A i \in 1 .. Len(w) : w[i] \in FrameType /\ Size(w[i]) <= l
  BY <1>1 DEF Fitting
<1>3. DOMAIN w = 1 .. Len(w) /\ Len(w) \in Nat
  OBVIOUS
<1>4. w \in Seq(FrameType)
  BY <1>2, <1>3
<1> QED
  BY <1>2, <1>3, <1>4

LEMMA HeadType ==
  ASSUME NEW l, NEW w \in Seq(Fitting(l)), w # <<>>
  PROVE  /\ Head(w) \in Fitting(l)
         /\ Head(w) \in FrameType
         /\ Tail(w) \in Seq(Fitting(l))
  BY DEF Fitting

LEMMA SettleType ==
  ASSUME outcome \in Outcomes, NEW result \in Outcomes, Settle(result)
  PROVE  outcome' \in Outcomes
  BY DEF Settle

LEMMA InitInv == Init => IInv
<1> SUFFICES ASSUME Init PROVE IInv
  OBVIOUS
<1>1. lengths = <<>> /\ wire = <<>> /\ sent = 0
  BY DEF Init, sent
<1>2. sequence \in 0 .. 255
  BY StartAssumption DEF Init
<1>3. assembler \in [total : Nat, next : Nat,
                     data : Seq((1 .. MaxMessages) \X (Nat \ {0}))]
  BY DEF Init, Fresh
<1>4. outcome \in [state : {"open", "rejected", "complete"},
                   data : Seq((1 .. MaxMessages) \X (Nat \ {0}))]
  BY DEF Init, Rejected
<1>5. sent <= MaxMessages /\ faults \in 0 .. MaxFaults
  BY <1>1, BoundAssumption DEF Init
<1>6. TypeOK
  BY <1>1, <1>2, <1>3, <1>4, <1>5 DEF Init, TypeOK
<1>7. outcome.state # "complete"
  BY DEF Init, Rejected
<1> QED
  BY <1>1, <1>6, <1>7 DEF IInv

LEMMA SendInv == IInv /\ Send => IInv'
<1> SUFFICES ASSUME IInv, Send PROVE IInv'
  OBVIOUS
<1> USE DEF sent
<1>1. PICK len \in Lengths :
        /\ lengths' = Append(lengths, len)
        /\ wire' = wire \o EncodeFrames(sent + 1, len, sequence', limit)
  BY DEF Send
<1>2. lengths \in Seq(Lengths) /\ Len(lengths) \in Nat
  BY DEF IInv, TypeOK
<1>3. limit \in Nat /\ limit >= 20 /\ len \in Nat
  BY LimitAssumption, LengthAssumption DEF IInv, TypeOK
<1>4. sequence' \in 0 .. 255
  <2>1. CASE UNCHANGED sequence
    BY <2>1 DEF IInv, TypeOK
  <2>2. CASE /\ outcome.state = "complete"
             /\ sequence' = (sequence + Len(EncodeFrames(sent, lengths[sent],
                                                        sequence, limit))) % 256
    <3>1. sent \in 1 .. MaxMessages
      BY <1>2, <2>2, BoundAssumption DEF IInv, TypeOK
    <3>2. lengths[sent] \in Nat
      <4>1. sent \in 1 .. Len(lengths)
        BY <1>2, <3>1
      <4>2. lengths[sent] \in Lengths
        BY <1>2, <4>1
      <4> QED
        BY <4>2, LengthAssumption
    <3>3. sequence \in 0 .. 255
      BY DEF IInv, TypeOK
    <3>4. EncodeFrames(sent, lengths[sent], sequence, limit) \in Seq(Fitting(limit))
      BY <1>3, <3>1, <3>2, <3>3, FramesType
    <3>5. Len(EncodeFrames(sent, lengths[sent], sequence, limit)) \in Nat
      BY <3>4
    <3>6. \A n \in Nat : (sequence + n) % 256 \in 0 .. 255
      BY <3>3
    <3> QED
      BY <2>2, <3>5, <3>6
  <2> QED
    BY <2>1, <2>2 DEF Send, NextSequence
<1>5. sent + 1 \in 1 .. MaxMessages
  BY <1>2, BoundAssumption DEF Send
<1>6. EncodeFrames(sent + 1, len, sequence', limit) \in Seq(Fitting(limit))
  BY <1>3, <1>4, <1>5, FramesType
<1>7. wire' \in Seq(Fitting(limit)) /\ limit' = limit /\ limit \in Limits
  <2>1. wire \in Seq(Fitting(limit)) /\ limit' = limit /\ limit \in Limits
    BY DEF Send, IInv, TypeOK
  <2>2. wire \o EncodeFrames(sent + 1, len, sequence', limit) \in Seq(Fitting(limit))
    BY <1>6, <2>1
  <2> QED
    BY <1>1, <2>1, <2>2
<1>8. lengths' \in Seq(Lengths) /\ sent' = sent + 1
  BY <1>1, <1>2
<1>9. assembler' \in [total : Nat, next : Nat, data : Seq(Byte)]
  BY DEF Send, TakeUp, Fresh
<1>10. outcome' \in Outcomes
  BY DEF Send, TakeUp, Open, Outcomes
<1>11. faults' \in 0 .. MaxFaults
  BY DEF Send, IInv, TypeOK
<1>12. wire' \in Seq(FrameType)
  BY <1>7, WireType
<1>13. TypeOK'
  BY <1>2, <1>4, <1>5, <1>7, <1>8, <1>9, <1>10, <1>11, <1>12
  DEF TypeOK, Byte, Outcomes
<1> QED
  BY <1>2, <1>7, <1>8, <1>13 DEF IInv

LEMMA AddType ==
  ASSUME assembler \in [total : Nat, next : Nat, data : Seq(Byte)],
         outcome \in Outcomes, NEW f \in FrameType, Add(f)
  PROVE  /\ assembler' \in [total : Nat, next : Nat, data : Seq(Byte)]
         /\ outcome' \in Outcomes
<1>1. Rejected \in Outcomes /\ Open \in Outcomes
  BY DEF Rejected, Open, Outcomes
<1>2. \A d \in Seq(Byte) : Complete(d) \in Outcomes
  BY DEF Complete, Outcomes
<1>3. f.bytes \in Seq(Byte) /\ f.total \in Nat
  BY DEF FrameType, Byte
<1>4. CASE Settle(Rejected) /\ UNCHANGED assembler
  BY <1>1, <1>4, SettleType
<1>5. CASE Settle(Complete(f.bytes)) /\ UNCHANGED assembler
  BY <1>2, <1>3, <1>5, SettleType
<1>6. CASE /\ assembler' = [total |-> f.total, next |-> assembler.next + 1,
                            data |-> assembler.data \o f.bytes]
           /\ Settle(Assembled(assembler'.data, f.total))
  <2>1. assembler.next + 1 \in Nat /\ assembler.data \o f.bytes \in Seq(Byte)
    BY <1>3
  <2>2. assembler' \in [total : Nat, next : Nat, data : Seq(Byte)]
    BY <1>3, <1>6, <2>1
  <2>3. assembler'.data \in Seq(Byte)
    BY <2>2
  <2>4. Assembled(assembler'.data, f.total) \in Outcomes
    BY <1>1, <1>2, <2>3 DEF Assembled
  <2> QED
    BY <1>6, <2>2, <2>4, SettleType
<1> QED
  BY <1>4, <1>5, <1>6 DEF Add

LEMMA DeliverInv == IInv /\ Deliver => IInv'
<1> SUFFICES ASSUME IInv, Deliver PROVE IInv'
  OBVIOUS
<1>1. wire \in Seq(Fitting(limit)) /\ wire # <<>>
  BY DEF IInv, Deliver
<1>2. Head(wire) \in FrameType /\ Tail(wire) \in Seq(Fitting(limit))
  BY <1>1, HeadType
<1>3. wire' \in Seq(Fitting(limit')) /\ wire' \in Seq(FrameType)
  BY <1>2, WireType DEF Deliver
<1>4. /\ assembler \in [total : Nat, next : Nat, data : Seq(Byte)]
      /\ outcome \in Outcomes
  BY DEF IInv, TypeOK, Byte, Outcomes
<1>5. /\ assembler' \in [total : Nat, next : Nat, data : Seq(Byte)]
      /\ outcome' \in Outcomes
  BY <1>2, <1>4, AddType DEF Deliver
<1>6. TypeOK'
  BY <1>3, <1>5 DEF IInv, TypeOK, Deliver, Byte, Outcomes, sent
<1>7. sent # 0 /\ sent' = sent
  BY <1>1 DEF IInv, Deliver, sent
<1> QED
  BY <1>3, <1>6, <1>7 DEF IInv

\* A step of the link changes the wire and counts a fault.
LEMMA FaultInv ==
  ASSUME IInv, Fault, wire # <<>>, wire' \in Seq(Fitting(limit))
  PROVE  IInv'
<1>1. wire' \in Seq(FrameType) /\ limit' = limit
  BY WireType DEF Fault
<1>2. faults' \in 0 .. MaxFaults
  BY BoundAssumption DEF Fault, IInv, TypeOK
<1>3. TypeOK'
  BY <1>1, <1>2 DEF IInv, TypeOK, Fault, sent
<1>4. sent # 0 /\ sent' = sent
  BY DEF IInv, Fault, sent
<1> QED
  BY <1>1, <1>3, <1>4 DEF IInv

LEMMA LinkInv == IInv /\ (Lose \/ Repeat \/ Damage \/ Swap) => IInv'
<1> SUFFICES ASSUME IInv, Lose \/ Repeat \/ Damage \/ Swap PROVE IInv'
  OBVIOUS
<1>1. wire \in Seq(Fitting(limit)) /\ Len(wire) \in Nat
  BY DEF IInv
<1>2. wire # <<>> =>
        /\ Head(wire) \in Fitting(limit)
        /\ Head(wire) \in FrameType
        /\ Tail(wire) \in Seq(Fitting(limit))
  BY <1>1, HeadType
<1>3. CASE Lose
  BY <1>2, <1>3, FaultInv DEF Lose
<1>4. CASE Repeat
  <2>1. <<Head(wire)>> \o wire \in Seq(Fitting(limit))
    BY <1>1, <1>2, <1>4 DEF Repeat
  <2> QED
    BY <1>4, <2>1, FaultInv DEF Repeat
<1>5. CASE Damage
  <2> DEFINE f == [Head(wire) EXCEPT !.intact = FALSE]
  <2>1. Head(wire) \in FrameType /\ Size(Head(wire)) <= limit
    BY <1>2, <1>5 DEF Damage, Fitting
  <2>2. f \in FrameType /\ f.kind = Head(wire).kind /\ f.bytes = Head(wire).bytes
    BY <2>1 DEF FrameType
  <2>3. f \in Fitting(limit)
    BY <2>1, <2>2 DEF Fitting, Size
  <2>4. <<f>> \o Tail(wire) \in Seq(Fitting(limit))
    BY <1>2, <1>5, <2>3 DEF Damage
  <2> QED
    BY <1>5, <2>4, FaultInv DEF Damage
<1>6. CASE Swap
  <2>1. Len(wire) > 1 /\ wire # <<>>
    BY <1>1, <1>6 DEF Swap
  <2>2. wire[1] \in Fitting(limit) /\ wire[2] \in Fitting(limit)
    BY <1>1, <2>1
  <2>3. SubSeq(wire, 3, Len(wire)) \in Seq(Fitting(limit))
    BY <1>1, <2>1
  <2>4. <<wire[2], wire[1]>> \o SubSeq(wire, 3, Len(wire)) \in Seq(Fitting(limit))
    BY <2>2, <2>3
  <2> QED
    BY <1>6, <2>1, <2>4, FaultInv DEF Swap
<1> QED
  BY <1>3, <1>4, <1>5, <1>6

LEMMA NextInv == IInv /\ [Next]_vars => IInv'
<1> SUFFICES ASSUME IInv, [Next]_vars PROVE IInv'
  OBVIOUS
<1>1. CASE Send
  BY <1>1, SendInv
<1>2. CASE Deliver
  BY <1>2, DeliverInv
<1>3. CASE GiveUp
  BY <1>3 DEF GiveUp, Rejected, IInv, TypeOK, sent
<1>4. CASE Lose \/ Repeat \/ Damage \/ Swap
  BY <1>4, LinkInv
<1>5. CASE UNCHANGED vars
  BY <1>5 DEF vars, IInv, TypeOK, sent
<1> QED
  BY <1>1, <1>2, <1>3, <1>4, <1>5 DEF Next

-----------------------------------------------------------------------------
\* Theorems

\* The inductive invariant holds in every reachable state (local_protocol.py:67-127).
THEOREM Invariance == Spec => []IInv
  BY InitInv, NextInv, PTL DEF Spec

\* Frames, both ends and the outcome are of their types; a frame number is a byte
\* however far a session's numbers have gone (local_protocol.py:78).
THEOREM TypeCorrect == Spec => []TypeOK
<1>1. IInv => TypeOK
  BY DEF IInv
<1> QED
  BY <1>1, Invariance, PTL

\* No frame is longer than the packet limit, for every limit the code accepts and
\* messages of every length (local_protocol.py:71-91).
THEOREM FramesAlwaysFit == Spec => []FramesFit
<1>1. IInv => FramesFit
  BY WireType DEF IInv, FramesFit
<1> QED
  BY <1>1, Invariance, PTL

-----------------------------------------------------------------------------
\* What the frames hold

Chunk == ChunkSize(limit)

\* Where fragment i of a message of len bytes ends.
Upto(len, i) == IF (i + 1) * Chunk < len THEN (i + 1) * Chunk ELSE len

\* A frame has the bytes of its place in a message that was sent, damaged or not.
Genuine(f) ==
  /\ f.of \in 1 .. sent
  /\ f.kind = 1 => f.index = 0 /\ f.bytes = Payload(f.of)
  /\ f.kind = 2 => /\ f.total = lengths[f.of]
                   /\ f.index * Chunk < f.total
                   /\ f.bytes = Bytes(f.of, f.index * Chunk, Upto(f.total, f.index))

\* The last frame of its message.
Last(f) == f.kind = 1 \/ f.total <= (f.index + 1) * Chunk

\* On a link that does no wrong b comes behind a.
Follows(a, b) ==
  \/ ~Last(a) /\ b.kind = 2 /\ b.of = a.of /\ b.index = a.index + 1
  \/ Last(a) /\ b.index = 0 /\ b.of > a.of

\* What one fault leaves of it: the fragment behind a that would fit is of a's message.
Linked(a, b) == b.index = a.index + 1 => b.of = a.of

Stream ==
  /\ \A i \in DOMAIN wire : Genuine(wire[i])
  /\ faults = 0 =>
       \A i \in DOMAIN wire :
         wire[i].intact /\ (IF i = Len(wire) THEN Last(wire[i])
                                             ELSE Follows(wire[i], wire[i + 1]))
  /\ faults < 2 => \A i \in 1 .. Len(wire) - 1 : Linked(wire[i], wire[i + 1])

\* The assembler waits for more fragments.
Partial == assembler.total > 0 /\ assembler.next * Chunk < assembler.total

\* Every byte the assembler has is at its place in a message of the announced length.
Held ==
  /\ assembler.total = 0 => assembler = Fresh
  /\ assembler.total > 0 =>
       /\ assembler.next > 0
       /\ Len(assembler.data) = Upto(assembler.total, assembler.next - 1)
  /\ \A k \in DOMAIN assembler.data :
       /\ assembler.data[k][1] \in 1 .. sent
       /\ lengths[assembler.data[k][1]] = assembler.total
       /\ assembler.data[k][2] = k

\* The message the assembler has begun.
Owner == assembler.data[1][1]

\* How the assembler and the wire fit together.
InStep ==
  /\ faults = 0 /\ Partial =>
       /\ wire # <<>>
       /\ wire[1].kind = 2 /\ wire[1].of = Owner /\ wire[1].index = assembler.next
  /\ outcome.state = "open" =>
       /\ assembler.total > 0 => Partial
       /\ faults < 2 => \A k \in DOMAIN assembler.data : assembler.data[k][1] = Owner
       /\ faults < 2 /\ Partial /\ wire # <<>> /\ wire[1].index = assembler.next =>
            wire[1].of = Owner
       /\ faults = 0 /\ assembler.total = 0 /\ wire # <<>> /\ wire[1].of = sent =>
            wire[1].index = 0

CInv == IInv /\ Stream /\ Held /\ InStep /\ OnlyWholeMessages

-----------------------------------------------------------------------------
\* Arithmetic of the chunks

LEMMA Known ==
  ASSUME IInv
  PROVE  /\ limit \in Nat /\ limit >= 20 /\ Chunk \in Nat /\ Chunk = limit - 13 /\ Chunk > 0
         /\ lengths \in Seq(Lengths) /\ sent \in Nat /\ DOMAIN lengths = 1 .. sent
         /\ \A m \in 1 .. sent : lengths[m] \in Nat /\ m \in 1 .. MaxMessages
         /\ wire \in Seq(FrameType) /\ Len(wire) \in Nat /\ DOMAIN wire = 1 .. Len(wire)
         /\ \A i \in DOMAIN wire : wire[i] \in FrameType
         /\ \A i \in DOMAIN wire : /\ wire[i].kind \in {1, 2} /\ wire[i].of \in Nat
                                   /\ wire[i].index \in Nat /\ wire[i].total \in Nat
                                   /\ wire[i].bytes \in Seq(Byte) /\ wire[i].intact \in BOOLEAN
         /\ assembler.total \in Nat /\ assembler.next \in Nat
         /\ assembler.data \in Seq(Byte)
         /\ outcome \in Outcomes /\ faults \in Nat
<1>1. TypeOK
  BY DEF IInv
<1>2. limit \in Nat /\ limit >= 20
  BY <1>1, LimitAssumption DEF TypeOK
<1>3. Chunk \in Nat /\ Chunk = limit - 13 /\ Chunk > 0
  BY <1>2 DEF Chunk, ChunkSize
<1>4. lengths \in Seq(Lengths) /\ sent \in Nat /\ DOMAIN lengths = 1 .. sent
      /\ sent <= MaxMessages /\ MaxMessages \in Nat
  BY <1>1, BoundAssumption DEF TypeOK, sent
<1>5. \A m \in 1 .. sent : lengths[m] \in Nat /\ m \in 1 .. MaxMessages
  <2>1. \A m \in 1 .. sent : lengths[m] \in Lengths
    BY <1>4
  <2>2. \A m \in 1 .. sent : lengths[m] \in Nat
    BY <2>1, LengthAssumption
  <2>3. \A m \in 1 .. sent : m \in 1 .. MaxMessages
    BY <1>4
  <2> QED
    BY <2>2, <2>3
<1>6. wire \in Seq(FrameType) /\ Len(wire) \in Nat /\ DOMAIN wire = 1 .. Len(wire)
      /\ \A i \in DOMAIN wire : wire[i] \in FrameType
  BY <1>1 DEF TypeOK
<1>7. \A f \in FrameType : /\ f.kind \in {1, 2} /\ f.of \in Nat
                           /\ f.index \in Nat /\ f.total \in Nat
                           /\ f.bytes \in Seq(Byte) /\ f.intact \in BOOLEAN
  BY <1>4 DEF FrameType, Byte
<1>8. assembler.total \in Nat /\ assembler.next \in Nat /\ assembler.data \in Seq(Byte)
  BY <1>1 DEF TypeOK, Byte
<1>9. outcome \in Outcomes /\ faults \in Nat
  BY <1>1, BoundAssumption DEF TypeOK, Outcomes, Byte
<1> QED
  BY <1>2, <1>3, <1>4, <1>5, <1>6, <1>7, <1>8, <1>9

LEMMA Multiples ==
  ASSUME NEW c \in Nat, NEW i \in Nat
  PROVE  i * c \in Nat /\ (i + 1) * c = i * c + c
  OBVIOUS

\* The bytes of a chunk, one by one.
LEMMA BytesAt ==
  ASSUME NEW m, NEW from \in Nat, NEW to \in Nat, from <= to
  PROVE  /\ Len(Bytes(m, from, to)) = to - from
         /\ DOMAIN Bytes(m, from, to) = 1 .. to - from
         /\ \A k \in 1 .. to - from : Bytes(m, from, to)[k] = <<m, from + k>>
<1>1. to - from \in Nat
  OBVIOUS
<1> QED
  BY <1>1 DEF Bytes

\* A chunk begins in its message, ends behind that, and at the end of the message
\* exactly if it is the last.
LEMMA ChunkEnds ==
  ASSUME IInv, NEW len \in Nat, NEW i \in Nat, i * Chunk < len
  PROVE  /\ Upto(len, i) \in Nat /\ i * Chunk \in Nat
         /\ i * Chunk < Upto(len, i) /\ Upto(len, i) <= len
         /\ Upto(len, i) = len <=> len <= (i + 1) * Chunk
         /\ (i + 1) * Chunk < len => Upto(len, i) = (i + 1) * Chunk
<1>1. Chunk \in Nat /\ Chunk > 0
  BY Known
<1>2. i * Chunk \in Nat /\ (i + 1) * Chunk = i * Chunk + Chunk
  BY <1>1, Multiples
<1>3. PICK p \in Nat : p = i * Chunk
  BY <1>2
<1>4. PICK q \in Nat : q = (i + 1) * Chunk /\ q = p + Chunk
  BY <1>1, <1>2, <1>3
<1>5. Upto(len, i) = IF q < len THEN q ELSE len
  BY <1>4 DEF Upto
<1> QED
  BY <1>1, <1>3, <1>4, <1>5

\* Frame f is the i-th of the n that message m of len bytes is cut into by c bytes.
Piece(f, i, n, m, len, c) ==
  /\ f.of = m /\ f.index = i - 1 /\ f.intact
  /\ \/ f.kind = 1 /\ f.bytes = Bytes(m, 0, len) /\ n = 1
     \/ /\ f.kind = 2 /\ f.total = len
        /\ (i - 1) * c < len
        /\ f.bytes = Bytes(m, (i - 1) * c, IF i * c < len THEN i * c ELSE len)
        /\ len <= i * c <=> i = n

Cut(w, m, len, c) ==
  /\ Len(w) \in Nat \ {0} /\ DOMAIN w = 1 .. Len(w)
  /\ \A i \in 1 .. Len(w) : Piece(w[i], i, Len(w), m, len, c)

\* The frames of a message run from its first to its last byte.
LEMMA FramesOf ==
  ASSUME NEW m, NEW len \in Nat, NEW seq, NEW l \in Nat, l >= 20
  PROVE  Cut(EncodeFrames(m, len, seq, l), m, len, l - 13)
<1>1. CASE len <= l - 7
  <2>1. EncodeFrames(m, len, seq, l) = <<Single(m, len, seq)>>
    BY <1>1 DEF EncodeFrames
  <2>2. PICK w : w = <<Single(m, len, seq)>>
    OBVIOUS
  <2>3. PICK n \in Nat \ {0} : n = 1
    OBVIOUS
  <2>4. Len(w) = n /\ DOMAIN w = 1 .. n /\ w[1] = Single(m, len, seq)
    BY <2>2, <2>3
  <2>5. \A i \in 1 .. n : Piece(w[i], i, n, m, len, l - 13)
    BY <2>3, <2>4 DEF Single, Piece
  <2>6. w = EncodeFrames(m, len, seq, l)
    BY <2>1, <2>2
  <2> QED
    BY <2>4, <2>5, <2>6 DEF Cut
<1>2. CASE ~(len <= l - 7)
  <2>1. PICK c \in Nat \ {0} : c = ChunkSize(l) /\ c = l - 13 /\ c < len
    BY <1>2 DEF ChunkSize
  <2>2. PICK n \in Nat : n = FragmentCount(len, c) /\ n * c >= len /\ n * c <= len + c - 1
    <3>1. (len + c - 1) \div c \in Nat
          /\ c * ((len + c - 1) \div c) <= len + c - 1
          /\ len + c - 1 < c * ((len + c - 1) \div c) + c
      BY <2>1
    <3> QED
      BY <3>1, <2>1 DEF FragmentCount
  <2>3. n > 0
    <3>1. CASE n = 0
      BY <3>1, <2>1, <2>2
    <3> QED
      BY <3>1, <2>2
  <2>4. PICK w : w = [i \in 1 .. n |-> Fragment(m, len, seq, c, i - 1)]
    OBVIOUS
  <2>5. w = EncodeFrames(m, len, seq, l)
    BY <1>2, <2>1, <2>2, <2>4 DEF EncodeFrames
  <2>6. Len(w) = n /\ DOMAIN w = 1 .. n
    BY <2>2, <2>4
  <2>7. ASSUME NEW i \in 1 .. n
        PROVE  /\ w[i].of = m /\ w[i].index = i - 1 /\ w[i].intact
               /\ w[i].kind = 2 /\ w[i].total = len
               /\ w[i].bytes = Bytes(m, (i - 1) * c, IF i * c < len THEN i * c ELSE len)
    <3>1. w[i] = Fragment(m, len, seq, c, i - 1) /\ (i - 1) + 1 = i
      BY <2>2, <2>4
    <3> QED
      BY <3>1 DEF Fragment
  <2>8. \A i \in 1 .. n : (i - 1) * c < len
    BY <2>1, <2>2, ChunkBegins
  <2>9. ASSUME NEW i \in 1 .. n PROVE len <= i * c <=> i = n
    <3>1. CASE i = n
      BY <3>1, <2>2
    <3>2. CASE i # n
      <4>1. i + 1 \in 1 .. n /\ (i + 1) - 1 = i
        BY <3>2, <2>2
      <4>2. i * c < len /\ i * c \in Nat
        BY <4>1, <2>1, <2>8
      <4> QED
        BY <4>2, <3>2
    <3> QED
      BY <3>1, <3>2
  <2>10. \A i \in 1 .. n : Piece(w[i], i, n, m, len, c)
    BY <2>7, <2>8, <2>9 DEF Piece
  <2>11. n \in Nat \ {0}
    BY <2>2, <2>3
  <2>12. Cut(w, m, len, c)
    BY <2>6, <2>10, <2>11 DEF Cut
  <2> QED
    BY <2>1, <2>5, <2>12
<1> QED
  BY <1>1, <1>2


-----------------------------------------------------------------------------
\* What becomes of the frames on the wire

LEMMA HeadIs ==
  ASSUME IInv, wire # <<>>
  PROVE  /\ Head(wire) = wire[1] /\ 1 \in DOMAIN wire
         /\ Tail(wire) \in Seq(FrameType)
         /\ Len(Tail(wire)) = Len(wire) - 1 /\ Len(Tail(wire)) \in Nat
         /\ \A i \in 1 .. Len(Tail(wire)) : Tail(wire)[i] = wire[i + 1] /\ i + 1 \in DOMAIN wire
<1>1. wire \in Seq(FrameType) /\ Len(wire) \in Nat /\ DOMAIN wire = 1 .. Len(wire)
  BY Known
<1>2. Len(wire) # 0
  BY <1>1, EmptySeq
<1> QED
  BY <1>1, <1>2

\* A message that was sent keeps its length, and a frame its place in it.
LEMMA GenuineKept ==
  ASSUME IInv, limit' = limit, sent' \in Nat, sent <= sent',
         \A m \in 1 .. sent : lengths'[m] = lengths[m]
  PROVE  \A f : Genuine(f) => Genuine(f)'
<1> SUFFICES ASSUME NEW f, Genuine(f) PROVE Genuine(f)'
  OBVIOUS
<1>1. f.of \in 1 .. sent /\ f.of \in 1 .. sent'
  BY Known DEF Genuine
<1>2. lengths'[f.of] = lengths[f.of]
  BY <1>1
<1>3. Chunk' = Chunk
  BY DEF Chunk
<1> QED
  BY <1>1, <1>2, <1>3 DEF Genuine, Payload, Upto

\* Three steps of the link and the receiver take the first frame or none.
LEMMA TailStream ==
  ASSUME IInv, Stream, wire # <<>>, wire' = Tail(wire), UNCHANGED <<limit, lengths>>,
         faults' \in Nat, faults' >= faults
  PROVE  Stream'
<1>1. /\ Len(wire') = Len(wire) - 1 /\ Len(wire') \in Nat /\ DOMAIN wire' = 1 .. Len(wire')
      /\ \A i \in 1 .. Len(wire') : wire'[i] = wire[i + 1] /\ i + 1 \in DOMAIN wire
  BY HeadIs
<1>2. faults \in Nat /\ Len(wire) \in Nat /\ DOMAIN wire = 1 .. Len(wire)
  BY Known
<1>3. \A f : Genuine(f) => Genuine(f)'
  BY Known, GenuineKept DEF sent
<1>4. \A i \in DOMAIN wire' : Genuine(wire[i])'
  BY <1>1, <1>3 DEF Stream
<1>5. ASSUME faults' = 0, NEW i \in DOMAIN wire'
      PROVE  (wire[i].intact /\ (IF i = Len(wire) THEN Last(wire[i])
                                             ELSE Follows(wire[i], wire[i + 1])))'
  <2>1. faults = 0 /\ i + 1 \in DOMAIN wire /\ wire'[i] = wire[i + 1] /\ i \in Nat
    BY <1>1, <1>2, <1>5
  <2>2. wire[i + 1].intact /\ (IF i + 1 = Len(wire) THEN Last(wire[i + 1])
                                  ELSE Follows(wire[i + 1], wire[(i + 1) + 1]))
    BY <2>1 DEF Stream
  <2>3. Chunk' = Chunk
    BY DEF Chunk
  <2>4. CASE i = Len(wire')
    BY <1>1, <1>2, <2>1, <2>2, <2>3, <2>4 DEF Last
  <2>5. CASE i # Len(wire')
    <3>1. i + 1 \in 1 .. Len(wire') /\ i + 1 # Len(wire)
      BY <1>1, <1>2, <2>5
    <3>2. wire'[i + 1] = wire[(i + 1) + 1]
      BY <1>1, <3>1
    <3>3. Follows(wire[i + 1], wire[(i + 1) + 1])
      BY <2>2, <3>1
    <3>4. Follows(wire[i], wire[i + 1])'
      BY <2>1, <2>3, <3>2, <3>3 DEF Follows, Last
    <3> QED
      BY <2>1, <2>2, <2>5, <3>4
  <2> QED
    BY <2>4, <2>5
<1>6. ASSUME faults' < 2, NEW i \in 1 .. Len(wire') - 1
      PROVE  Linked(wire[i], wire[i + 1])'
  <2>1. faults < 2 /\ i \in 1 .. Len(wire') /\ i + 1 \in 1 .. Len(wire')
        /\ i + 1 \in 1 .. Len(wire) - 1
    BY <1>1, <1>2, <1>6
  <2>2. wire'[i] = wire[i + 1] /\ wire'[i + 1] = wire[(i + 1) + 1]
    BY <1>1, <2>1
  <2>3. Linked(wire[i + 1], wire[(i + 1) + 1])
    BY <2>1 DEF Stream
  <2> QED
    BY <2>2, <2>3 DEF Linked
<1> QED
  BY <1>4, <1>5, <1>6 DEF Stream


\* What a fault of the link has to leave: genuine frames, and on the first fault no
\* foreign frame in the place of the next fragment.
LEMMA FaultWhole ==
  ASSUME CInv, Fault, IInv',
         \A i \in DOMAIN wire' : Genuine(wire'[i]),
         faults = 0 => \A i \in 1 .. Len(wire') - 1 : Linked(wire'[i], wire'[i + 1]),
         faults = 0 /\ Partial /\ wire' # <<>> /\ wire'[1].index = assembler.next =>
           wire'[1].of = Owner
  PROVE  CInv'
<1>1. faults \in Nat /\ faults' = faults + 1 /\ UNCHANGED <<limit, lengths, assembler, outcome>>
  BY Known DEF Fault, CInv
<1>2. faults' # 0 /\ (faults' < 2 => faults = 0) /\ (faults' < 2 => faults < 2)
  BY <1>1
<1>3. Stream'
  <2>1. \A f : Genuine(f) => Genuine(f)'
    BY <1>1, Known, GenuineKept DEF sent, CInv
  <2>2. \A i \in DOMAIN wire' : Genuine(wire[i])'
    BY <2>1
  <2>3. faults' < 2 => \A i \in 1 .. Len(wire') - 1 : Linked(wire[i], wire[i + 1])'
    BY <1>2 DEF Linked
  <2> QED
    BY <1>2, <2>2, <2>3 DEF Stream
<1>4. Held'
  BY <1>1 DEF CInv, Held, Upto, Chunk, sent
<1>5. Partial' = Partial /\ Owner' = Owner /\ sent' = sent
  BY <1>1 DEF Partial, Owner, Chunk, sent
<1>6. InStep'
  BY <1>1, <1>2, <1>5 DEF CInv, InStep
<1>7. OnlyWholeMessages'
  BY <1>1, <1>2, <1>5 DEF CInv, OnlyWholeMessages, Payload
<1> QED
  BY <1>3, <1>4, <1>6, <1>7 DEF CInv

\* On a link that does no wrong the next frame of the wire is the one awaited, and
\* what follows it is of the same message unless it is the last.
LEMMA Undisturbed ==
  ASSUME CInv, faults = 0, NEW i \in 1 .. Len(wire) - 1
  PROVE  Follows(wire[i], wire[i + 1])
<1>1. i \in DOMAIN wire /\ i # Len(wire)
  <2>1. PICK n \in Nat : n = Len(wire) /\ DOMAIN wire = 1 .. n
    BY Known DEF CInv
  <2>2. i \in 1 .. n - 1
    BY <2>1
  <2> QED
    BY <2>1, <2>2
<1> QED
  BY <1>1 DEF CInv, Stream

LEMMA LoseWhole == CInv /\ Lose => CInv'
<1> SUFFICES ASSUME CInv, Lose PROVE CInv'
  OBVIOUS
<1>1. IInv /\ Fault /\ wire # <<>> /\ wire' = Tail(wire)
  BY DEF CInv, Lose
<1>2. IInv'
  BY LinkInv, <1>1
<1>3. /\ 1 \in DOMAIN wire /\ Len(wire') = Len(wire) - 1 /\ Len(wire') \in Nat
      /\ DOMAIN wire' = 1 .. Len(wire')
      /\ \A i \in 1 .. Len(wire') : wire'[i] = wire[i + 1] /\ i + 1 \in DOMAIN wire
  BY <1>1, HeadIs
<1>4. \A i \in DOMAIN wire' : Genuine(wire'[i])
  BY <1>3 DEF CInv, Stream
<1>5. ASSUME faults = 0, NEW i \in 1 .. Len(wire') - 1
      PROVE  Linked(wire'[i], wire'[i + 1])
  <2>1. i + 1 \in 1 .. Len(wire) - 1 /\ i \in 1 .. Len(wire') /\ i + 1 \in 1 .. Len(wire')
    BY <1>3
  <2>2. Linked(wire[i + 1], wire[(i + 1) + 1])
    BY <2>1, <1>5 DEF CInv, Stream
  <2> QED
    BY <1>3, <2>1, <2>2
<1>6. ASSUME faults = 0, Partial, wire' # <<>>, wire'[1].index = assembler.next
      PROVE  wire'[1].of = Owner
  <2>1. Len(wire') # 0
    BY <1>6, <1>2, Known, EmptySeq DEF CInv
  <2>2. 1 \in 1 .. Len(wire') /\ 1 \in 1 .. Len(wire) - 1 /\ wire'[1] = wire[1 + 1]
    BY <1>3, <2>1
  <2>3. Follows(wire[1], wire[1 + 1])
    BY <2>2, <1>6, Undisturbed
  <2>4. wire[1].of = Owner /\ wire[1].index = assembler.next /\ assembler.next \in Nat
    BY <1>6, Known DEF CInv, InStep
  <2>5. assembler.next > 0
    BY <1>6, <2>4 DEF CInv, Held, Partial
  <2> QED
    BY <1>6, <2>2, <2>3, <2>4, <2>5 DEF Follows
<1> QED
  BY <1>1, <1>2, <1>4, <1>5, <1>6, FaultWhole

LEMMA RepeatWhole == CInv /\ Repeat => CInv'
<1> SUFFICES ASSUME CInv, Repeat PROVE CInv'
  OBVIOUS
<1>1. IInv /\ Fault /\ wire # <<>> /\ wire' = <<Head(wire)>> \o wire
  BY DEF CInv, Repeat
<1>2. IInv'
  BY LinkInv, <1>1
<1>3. 1 \in DOMAIN wire /\ wire \in Seq(FrameType) /\ Len(wire) \in Nat
      /\ DOMAIN wire = 1 .. Len(wire) /\ wire' = <<wire[1]>> \o wire
  BY <1>1, HeadIs, Known
<1>4. /\ Len(wire') = Len(wire) + 1 /\ DOMAIN wire' = 1 .. Len(wire) + 1 /\ wire'[1] = wire[1]
      /\ \A i \in 1 .. Len(wire) : wire'[i + 1] = wire[i]
  BY <1>3
<1>5. \A i \in 2 .. Len(wire) + 1 : i - 1 \in 1 .. Len(wire) /\ wire'[i] = wire[i - 1]
  <2>1. ASSUME NEW i \in 2 .. Len(wire) + 1
        PROVE  i - 1 \in 1 .. Len(wire) /\ wire'[i] = wire[i - 1]
    <3>1. i - 1 \in 1 .. Len(wire) /\ (i - 1) + 1 = i
      BY <1>3
    <3>2. wire'[(i - 1) + 1] = wire[i - 1]
      BY <1>4, <3>1
    <3> QED
      BY <3>1, <3>2
  <2> QED
    BY <2>1
<1>6. \A i \in DOMAIN wire' : i = 1 \/ i \in 2 .. Len(wire) + 1
  BY <1>3, <1>4
<1>7. \A i \in DOMAIN wire' : Genuine(wire'[i])
  BY <1>3, <1>4, <1>5, <1>6 DEF CInv, Stream
<1>8. ASSUME faults = 0, NEW i \in 1 .. Len(wire') - 1
      PROVE  Linked(wire'[i], wire'[i + 1])
  <2>1. i \in 1 .. Len(wire) /\ wire'[i + 1] = wire[i]
    BY <1>3, <1>4
  <2>2. CASE i = 1
    BY <2>1, <2>2, <1>4 DEF Linked
  <2>3. CASE i # 1
    <3>1. i \in 2 .. Len(wire) + 1 /\ i - 1 \in 1 .. Len(wire) - 1 /\ (i - 1) + 1 = i
      BY <2>1, <2>3, <1>3
    <3>2. Linked(wire[i - 1], wire[(i - 1) + 1])
      BY <3>1, <1>8 DEF CInv, Stream
    <3> QED
      BY <2>1, <3>1, <3>2, <1>5
  <2> QED
    BY <2>2, <2>3
<1>9. faults = 0 /\ Partial => wire'[1].of = Owner
  BY <1>4 DEF CInv, InStep
<1> QED
  BY <1>1, <1>2, <1>7, <1>8, <1>9, FaultWhole

LEMMA DamageWhole == CInv /\ Damage => CInv'
<1> SUFFICES ASSUME CInv, Damage PROVE CInv'
  OBVIOUS
<1>1. IInv /\ Fault /\ wire # <<>>
      /\ wire' = <<[Head(wire) EXCEPT !.intact = FALSE]>> \o Tail(wire)
  BY DEF CInv, Damage
<1>2. IInv'
  BY LinkInv, <1>1
<1>3. /\ Head(wire) = wire[1] /\ 1 \in DOMAIN wire /\ Tail(wire) \in Seq(FrameType)
      /\ Len(Tail(wire)) = Len(wire) - 1 /\ Len(wire) \in Nat /\ DOMAIN wire = 1 .. Len(wire)
      /\ \A i \in 1 .. Len(Tail(wire)) : Tail(wire)[i] = wire[i + 1]
  BY <1>1, HeadIs, Known
<1>4. PICK f : f = [wire[1] EXCEPT !.intact = FALSE]
  OBVIOUS
<1>5. wire[1] \in FrameType
  BY <1>1, <1>3, Known
<1>6. /\ f.of = wire[1].of /\ f.kind = wire[1].kind /\ f.index = wire[1].index
      /\ f.total = wire[1].total /\ f.bytes = wire[1].bytes
  BY <1>4, <1>5 DEF FrameType
<1>7. wire' = <<f>> \o Tail(wire)
  BY <1>1, <1>3, <1>4
<1>8. /\ Len(wire') = Len(wire) /\ DOMAIN wire' = 1 .. Len(wire) /\ wire'[1] = f
      /\ \A i \in 2 .. Len(wire) : wire'[i] = wire[i]
  <2>1. PICK t \in Seq(FrameType) : t = Tail(wire)
    BY <1>3
  <2>2. wire' = <<f>> \o t /\ Len(t) = Len(wire) - 1
    BY <1>3, <1>7, <2>1
  <2>3. PICK n \in Nat : n = Len(t)
    BY <2>1
  <2>6. Len(wire') = n + 1 /\ DOMAIN wire' = 1 .. n + 1 /\ wire'[1] = f
        /\ \A i \in 2 .. n + 1 : wire'[i] = t[i - 1]
    BY <2>1, <2>2, <2>3
  <2>7. n + 1 = Len(wire)
    BY <1>3, <2>2, <2>3
  <2>4. \A i \in 2 .. Len(wire) : i - 1 \in 1 .. Len(t) /\ (i - 1) + 1 = i
    BY <1>3, <2>2
  <2>5. \A i \in 2 .. Len(wire) : t[i - 1] = wire[i]
    BY <1>3, <2>1, <2>4
  <2> QED
    BY <2>5, <2>6, <2>7
<1>9. \A i \in DOMAIN wire : wire'[i].of = wire[i].of /\ wire'[i].index = wire[i].index
                             /\ Genuine(wire'[i])
  <2>1. ASSUME NEW i \in DOMAIN wire
        PROVE  /\ wire'[i].of = wire[i].of /\ wire'[i].index = wire[i].index
               /\ Genuine(wire'[i])
    <3>1. Genuine(wire[i])
      BY DEF CInv, Stream
    <3>2. CASE i = 1
      BY <3>1, <3>2, <1>6, <1>8 DEF Genuine
    <3>3. CASE i # 1
      <4>1. i \in 2 .. Len(wire)
        BY <3>3, <1>3
      <4> QED
        BY <3>1, <4>1, <1>8
    <3> QED
      BY <3>2, <3>3
  <2> QED
    BY <2>1
<1>10. \A i \in DOMAIN wire' : Genuine(wire'[i])
  BY <1>3, <1>8, <1>9
<1>11. ASSUME faults = 0, NEW i \in 1 .. Len(wire') - 1
       PROVE  Linked(wire'[i], wire'[i + 1])
  <2>1. i \in DOMAIN wire /\ i + 1 \in DOMAIN wire /\ i \in 1 .. Len(wire) - 1
    BY <1>3, <1>8
  <2>2. \A j \in 1 .. Len(wire) - 1 : Linked(wire[j], wire[j + 1])
    BY <1>11 DEF CInv, Stream
  <2>3. Linked(wire[i], wire[i + 1])
    BY <2>1, <2>2
  <2> QED
    BY <1>9, <2>1, <2>3 DEF Linked
<1>12. faults = 0 /\ Partial => wire'[1].of = Owner
  BY <1>6, <1>8 DEF CInv, InStep
<1> QED
  BY <1>1, <1>2, <1>10, <1>11, <1>12, FaultWhole


LEMMA SwapWhole == CInv /\ Swap => CInv'
<1> SUFFICES ASSUME CInv, Swap PROVE CInv'
  OBVIOUS
<1>1. IInv /\ Fault /\ Len(wire) > 1 /\ wire[1].of = wire[2].of
      /\ wire' = <<wire[2], wire[1]>> \o SubSeq(wire, 3, Len(wire))
  BY DEF CInv, Swap
<1>2. IInv'
  BY LinkInv, <1>1
<1>3. PICK n \in Nat : n = Len(wire) /\ DOMAIN wire = 1 .. n /\ n > 1
  BY <1>1, Known
<1>4. \A i \in 1 .. n : wire[i] \in FrameType /\ wire[i].of \in Nat /\ wire[i].index \in Nat
                        /\ Genuine(wire[i])
  BY <1>1, <1>3, Known DEF CInv, Stream
<1>5. /\ Len(wire') = n /\ DOMAIN wire' = 1 .. n
      /\ wire'[1] = wire[2] /\ wire'[2] = wire[1]
      /\ \A i \in 3 .. n : wire'[i] = wire[i]
  <2>1. wire \in Seq(FrameType)
    BY <1>1, Known
  <2>2. PICK t \in Seq(FrameType) : t = SubSeq(wire, 3, n)
    <3>1. SubSeq(wire, 3, n) \in Seq(FrameType)
      BY <2>1, <1>3
    <3> QED
      BY <3>1
  <2>3. Len(t) = n - 2 /\ \A i \in 1 .. n - 2 : t[i] = wire[i + 2]
    BY <2>1, <2>2, <1>3
  <2>4. wire' = <<wire[2], wire[1]>> \o t
    BY <1>1, <1>3, <2>2
  <2>5. PICK k \in Nat : k = Len(t) /\ n = k + 2
    BY <2>3, <1>3
  <2>6. /\ Len(wire') = k + 2 /\ DOMAIN wire' = 1 .. k + 2
        /\ wire'[1] = wire[2] /\ wire'[2] = wire[1]
        /\ \A i \in 3 .. k + 2 : wire'[i] = t[i - 2]
    BY <2>4, <2>5
  <2>7. \A i \in 3 .. n : i - 2 \in 1 .. n - 2 /\ (i - 2) + 2 = i
    BY <1>3
  <2>8. \A i \in 3 .. n : t[i - 2] = wire[i]
    BY <2>3, <2>7
  <2> QED
    BY <2>5, <2>6, <2>8
<1>6. \A i \in 1 .. n : i = 1 \/ i = 2 \/ i \in 3 .. n
  BY <1>3
<1>7. 1 \in 1 .. n /\ 2 \in 1 .. n
  BY <1>3
<1>8. \A i \in DOMAIN wire' : Genuine(wire'[i])
  BY <1>4, <1>5, <1>6, <1>7
<1>9. ASSUME faults = 0
      PROVE  /\ wire[2].index = wire[1].index + 1
             /\ n > 2 => Linked(wire[1], wire[3])
  <2>1. Follows(wire[1], wire[1 + 1])
    BY <1>3, <1>9, Undisturbed
  <2>2. wire[2].index = wire[1].index + 1
    BY <2>1, <1>1, <1>4, <1>7 DEF Follows
  <2>3. ASSUME n > 2 PROVE Linked(wire[1], wire[3])
    <3>1. Follows(wire[2], wire[2 + 1])
      BY <1>3, <1>9, <2>3, Undisturbed
    <3>2. 3 \in 1 .. n /\ 2 + 1 = 3
      BY <1>3, <2>3
    <3>3. wire[3].of = wire[2].of \/ wire[3].index = 0
      BY <3>1, <3>2 DEF Follows
    <3>4. wire[1].index + 1 # 0
      BY <1>4, <1>7
    <3> QED
      BY <1>1, <3>3, <3>4 DEF Linked
  <2> QED
    BY <2>2, <2>3
<1>10. ASSUME faults = 0, NEW i \in 1 .. Len(wire') - 1
       PROVE  Linked(wire'[i], wire'[i + 1])
  <2>1. i \in 1 .. n - 1 /\ i + 1 \in 1 .. n
    BY <1>3, <1>5
  <2>2. CASE i = 1
    BY <1>1, <1>5, <2>2 DEF Linked
  <2>3. CASE i = 2
    <3>1. n > 2 /\ 3 \in 3 .. n /\ i + 1 = 3
      BY <1>3, <2>1, <2>3
    <3> QED
      BY <1>5, <1>9, <1>10, <2>3, <3>1
  <2>4. CASE i # 1 /\ i # 2
    <3>1. i \in 3 .. n /\ i + 1 \in 3 .. n /\ i \in 1 .. Len(wire) - 1
      BY <1>3, <2>1, <2>4
    <3>2. \A j \in 1 .. Len(wire) - 1 : Linked(wire[j], wire[j + 1])
      BY <1>10 DEF CInv, Stream
    <3> QED
      BY <1>5, <3>1, <3>2
  <2> QED
    BY <2>2, <2>3, <2>4
<1>11. wire # <<>>
  BY <1>1
<1>12. faults = 0 /\ Partial => wire'[1].of = Owner
  BY <1>1, <1>5 DEF CInv, InStep
<1> QED
  BY <1>1, <1>2, <1>8, <1>10, <1>12, FaultWhole

-----------------------------------------------------------------------------
\* Taking a fragment

\* A payload has its message's bytes, each at its place.
LEMMA PayloadAt ==
  ASSUME IInv, NEW m \in 1 .. sent
  PROVE  /\ Len(Payload(m)) = lengths[m]
         /\ DOMAIN Payload(m) = 1 .. lengths[m]
         /\ \A k \in 1 .. lengths[m] : Payload(m)[k] = <<m, k>>
<1>1. PICK n \in Nat : n = lengths[m]
  BY Known
<1>2. 0 <= n /\ 0 \in Nat /\ n \in Nat
  BY <1>1
<1>3. PICK p : p = Bytes(m, 0, n)
  OBVIOUS
<1>4. Len(p) = n - 0 /\ DOMAIN p = 1 .. n - 0 /\ \A k \in 1 .. n - 0 : p[k] = <<m, 0 + k>>
  BY <1>2, <1>3, BytesAt
<1>5. n - 0 = n /\ \A k \in 1 .. n : 0 + k = k
  BY <1>1
<1>6. Payload(m) = p
  BY <1>1, <1>3 DEF Payload
<1> QED
  BY <1>1, <1>4, <1>5, <1>6

\* A sequence of bytes of message m, each at its place, is m.
LEMMA WholeMessage ==
  ASSUME IInv, NEW m \in 1 .. sent, NEW d \in Seq(Byte), Len(d) = lengths[m],
         \A k \in DOMAIN d : d[k][1] = m /\ d[k][2] = k
  PROVE  d = Payload(m)
<1>1. PICK n \in Nat : n = lengths[m] /\ n = Len(d)
  BY Known
<1>2. DOMAIN d = 1 .. n
  BY <1>1
<1>3. \A k \in 1 .. n : d[k] = <<m, k>>
  <2>1. \A b \in Byte : b = <<b[1], b[2]>>
    BY DEF Byte
  <2>2. \A k \in 1 .. n : d[k] \in Byte
    BY <1>2
  <2> QED
    BY <1>2, <2>1, <2>2
<1>4. PICK p : p = Payload(m) /\ DOMAIN p = 1 .. n /\ \A k \in 1 .. n : p[k] = <<m, k>>
  BY <1>1, PayloadAt
<1>5. p = [k \in 1 .. n |-> p[k]]
  BY <1>4, <1>1 DEF Payload, Bytes
<1>6. d = [k \in 1 .. n |-> d[k]]
  BY <1>2
<1>7. \A k \in 1 .. n : d[k] = p[k]
  BY <1>3, <1>4
<1> QED
  BY <1>4, <1>5, <1>6, <1>7


\* What the assembler has once it takes fragment f: the bytes d.
Joined(f, d) ==
  /\ d \in Seq(Byte) /\ 1 \in DOMAIN d
  /\ f.of \in 1 .. sent /\ f.total = lengths[f.of] /\ f.total \in Nat /\ f.total > 0
  /\ f.index \in Nat /\ f.index = assembler.next /\ f.index * Chunk < f.total
  /\ Len(d) = Upto(f.total, f.index)
  /\ \A k \in DOMAIN d : /\ d[k][1] \in 1 .. sent /\ d[k][2] = k
                         /\ lengths[d[k][1]] = f.total
  /\ faults = 0 => d[1][1] = f.of
  /\ faults < 2 /\ outcome.state = "open" => \A k \in DOMAIN d : d[k][1] = f.of

LEMMA Joins ==
  ASSUME CInv, wire # <<>>, NEW f, f = wire[1], f.kind = 2, InOrder(f),
         NEW d, d = assembler.data \o f.bytes
  PROVE  Joined(f, d)
<1>1. IInv /\ 1 \in DOMAIN wire
  BY HeadIs DEF CInv
<1>2. /\ f.of \in 1 .. sent /\ f.total = lengths[f.of] /\ f.index * Chunk < f.total
      /\ f.bytes = Bytes(f.of, f.index * Chunk, Upto(f.total, f.index))
  BY <1>1 DEF CInv, Stream, Genuine
<1>3. f.total \in Nat /\ f.index \in Nat /\ f.bytes \in Seq(Byte)
  BY <1>1, Known
<1>4. PICK from \in Nat : from = f.index * Chunk
  BY <1>1, <1>3, ChunkEnds, <1>2
<1>5. PICK to \in Nat : to = Upto(f.total, f.index) /\ from < to /\ to <= f.total
  BY <1>1, <1>2, <1>3, <1>4, ChunkEnds
<1>6. f.total > 0
  BY <1>3, <1>4, <1>5
<1>7. assembler.next = f.index /\ (assembler.total = 0 \/ assembler.total = f.total)
  BY DEF InOrder
<1>8. PICK a \in Seq(Byte) : a = assembler.data
  BY <1>1, Known
<1>9. Len(a) = from
  <2>1. CASE assembler.total = 0
    <3>1. assembler = Fresh
      BY <2>1 DEF CInv, Held
    <3>2. a = <<>> /\ f.index = 0
      BY <3>1, <1>7, <1>8 DEF Fresh
    <3>3. 0 * Chunk = 0
      BY <1>1, Known
    <3> QED
      BY <3>2, <3>3, <1>4
  <2>2. CASE assembler.total # 0
    <3>1. assembler.total = f.total /\ assembler.total > 0
      BY <2>2, <1>6, <1>7
    <3>2. assembler.next > 0 /\ Len(a) = Upto(f.total, assembler.next - 1)
      BY <3>1, <1>8 DEF CInv, Held
    <3>3. PICK i \in Nat : i = assembler.next - 1 /\ i + 1 = f.index
      BY <3>2, <1>3, <1>7
    <3>4. (i + 1) * Chunk < f.total
      BY <3>3, <1>2
    <3>5. Chunk \in Nat
      BY <1>1, Known
    <3>6. i * Chunk \in Nat /\ (i + 1) * Chunk = i * Chunk + Chunk
      BY <3>5, Multiples
    <3>7. i * Chunk < f.total
      BY <3>4, <3>5, <3>6, <1>3
    <3>8. Upto(f.total, i) = (i + 1) * Chunk
      BY <3>4, <3>7, <1>1, <1>3, ChunkEnds
    <3> QED
      BY <3>2, <3>3, <3>8, <1>4
  <2> QED
    BY <2>1, <2>2
<1>10. PICK b \in Seq(Byte) : b = f.bytes
  BY <1>3
<1>11. Len(b) = to - from /\ \A k \in 1 .. to - from : b[k] = <<f.of, from + k>>
  <2>1. PICK m : m = f.of
    OBVIOUS
  <2>2. from <= to /\ from \in Nat /\ to \in Nat
    BY <1>4, <1>5
  <2>3. b = Bytes(m, from, to)
    BY <1>2, <1>4, <1>5, <1>10, <2>1
  <2>4. Len(Bytes(m, from, to)) = to - from
        /\ \A k \in 1 .. to - from : Bytes(m, from, to)[k] = <<m, from + k>>
    BY <2>2, BytesAt
  <2> QED
    BY <2>1, <2>3, <2>4
<1>12. d = a \o b
  BY <1>8, <1>10
<1>13. d \in Seq(Byte) /\ Len(d) = to /\ DOMAIN d = 1 .. to
  <2>1. d \in Seq(Byte) /\ Len(d) = Len(a) + Len(b)
    BY <1>12
  <2>2. Len(d) = to
    BY <2>1, <1>4, <1>5, <1>9, <1>11
  <2>3. DOMAIN d = 1 .. Len(d)
    BY <2>1, LenProperties
  <2> QED
    BY <2>1, <2>2, <2>3
<1>14. \A k \in 1 .. from : k \in DOMAIN assembler.data /\ d[k] = assembler.data[k]
  <2>1. \A k \in 1 .. Len(a) : k \in DOMAIN a /\ d[k] = a[k]
    BY <1>12
  <2> QED
    BY <2>1, <1>8, <1>9
<1>15. \A k \in from + 1 .. to : d[k][1] = f.of /\ d[k][2] = k
  <2>1. ASSUME NEW k \in from + 1 .. to PROVE d[k][1] = f.of /\ d[k][2] = k
    <3>1. k - from \in 1 .. to - from /\ from + (k - from) = k
      BY <1>4, <1>5
    <3>2. b[k - from] = <<f.of, k>>
      BY <3>1, <1>11
    <3>3. k \in Len(a) + 1 .. Len(a) + Len(b) /\ k - Len(a) = k - from
      BY <1>4, <1>5, <1>9, <1>11
    <3>4. d[k] = b[k - Len(a)]
      BY <3>3, <1>12
    <3>5. d[k] = <<f.of, k>>
      BY <3>2, <3>3, <3>4
    <3>6. <<f.of, k>>[1] = f.of /\ <<f.of, k>>[2] = k
      OBVIOUS
    <3> QED
      BY <3>5, <3>6, Zenon
  <2> QED
    BY <2>1
<1>16. \A k \in DOMAIN d : k \in 1 .. from \/ k \in from + 1 .. to
  BY <1>5, <1>13
<1>17. 1 \in DOMAIN d
  BY <1>5, <1>13
<1>18. \A k \in DOMAIN assembler.data :
         /\ assembler.data[k][1] \in 1 .. sent /\ assembler.data[k][2] = k
         /\ lengths[assembler.data[k][1]] = f.total
  <2>1. \A k \in DOMAIN assembler.data : assembler.total # 0
    BY DEF CInv, Held, Fresh
  <2> QED
    BY <2>1, <1>7 DEF CInv, Held
<1>19. \A k \in DOMAIN d : /\ d[k][1] \in 1 .. sent /\ d[k][2] = k
                           /\ lengths[d[k][1]] = f.total
  <2>1. \A k \in 1 .. from : /\ d[k][1] \in 1 .. sent /\ d[k][2] = k
                             /\ lengths[d[k][1]] = f.total
    BY <1>14, <1>18
  <2>2. \A k \in from + 1 .. to : /\ d[k][1] \in 1 .. sent /\ d[k][2] = k
                                  /\ lengths[d[k][1]] = f.total
    BY <1>2, <1>15
  <2> QED
    BY <1>16, <2>1, <2>2
<1>20. from > 0 => Partial /\ 1 \in 1 .. from
  <2>1. ASSUME from > 0 PROVE Partial /\ 1 \in 1 .. from
    <3>0. 1 \in 1 .. from
      BY <2>1, <1>4
    <3>1. 1 \in 1 .. from /\ 1 \in DOMAIN assembler.data
      BY <3>0, <1>14
    <3>2. assembler.total # 0
      BY <3>1 DEF CInv, Held, Fresh
    <3>3. assembler.total = f.total
      BY <3>2, <1>7
    <3> QED
      BY <3>1, <3>3, <1>2, <1>6, <1>7 DEF Partial
  <2> QED
    BY <2>1
<1>21. from = 0 => \A k \in DOMAIN d : d[k][1] = f.of
  <2>1. from = 0 => \A k \in DOMAIN d : k \in from + 1 .. to
    BY <1>5, <1>13
  <2> QED
    BY <2>1, <1>15
<1>22. ASSUME faults = 0 PROVE d[1][1] = f.of
  <2>1. CASE from > 0
    <3>1. d[1] = assembler.data[1]
      BY <2>1, <1>14, <1>20
    <3>2. f.of = Owner
      BY <2>1, <1>20, <1>22 DEF CInv, InStep
    <3> QED
      BY <3>1, <3>2 DEF Owner
  <2>2. CASE ~(from > 0)
    <3>1. from = 0
      BY <2>2, <1>4
    <3> QED
      BY <3>1, <1>17, <1>21
  <2> QED
    BY <2>1, <2>2
<1>23. ASSUME faults < 2, outcome.state = "open" PROVE \A k \in DOMAIN d : d[k][1] = f.of
  <2>1. CASE from > 0
    <3>1. f.of = Owner
      BY <2>1, <1>7, <1>20, <1>23 DEF CInv, InStep
    <3>2. \A k \in 1 .. from : d[k][1] = f.of
      BY <3>1, <1>14, <1>23 DEF CInv, InStep
    <3> QED
      BY <3>2, <1>15, <1>16
  <2>2. CASE ~(from > 0)
    <3>1. from = 0
      BY <2>2, <1>4
    <3> QED
      BY <3>1, <1>21
  <2> QED
    BY <2>1, <2>2
<1> QED
  BY <1>2, <1>3, <1>5, <1>6, <1>7, <1>13, <1>17, <1>19, <1>22, <1>23 DEF Joined


\* The outcome is settled and the assembler is as it was.
LEMMA SettledWhole ==
  ASSUME CInv, IInv', Stream', UNCHANGED <<limit, lengths, assembler, faults>>,
         outcome'.state # "open", OnlyWholeMessages',
         faults = 0 /\ Partial => UNCHANGED wire
  PROVE  CInv'
<1>1. Held'
  BY DEF CInv, Held, Upto, Chunk, sent
<1>2. Partial' = Partial /\ Owner' = Owner
  BY DEF Partial, Owner, Chunk
<1>3. InStep'
  BY <1>2 DEF CInv, InStep
<1> QED
  BY <1>1, <1>3 DEF CInv

\* Where the link does no wrong the frame an unfinished assembler waits for is next.
LEMMA Awaited ==
  ASSUME CInv, faults = 0, Partial
  PROVE  /\ wire # <<>> /\ wire[1].intact /\ wire[1].kind = 2 /\ InOrder(wire[1])
         /\ wire[1].of = Owner
<1>1. wire # <<>> /\ wire[1].kind = 2 /\ wire[1].of = Owner /\ wire[1].index = assembler.next
  BY DEF CInv, InStep
<1>2. IInv /\ 1 \in DOMAIN wire
  BY <1>1, HeadIs DEF CInv
<1>3. wire[1].intact /\ wire[1].total = lengths[wire[1].of]
  BY <1>1, <1>2 DEF CInv, Stream, Genuine
<1>4. assembler.total > 0 /\ assembler.total \in Nat
  BY <1>2, Known DEF Partial
<1>5. PICK p \in Nat : p = assembler.next /\ p > 0
  BY <1>2, <1>4, Known DEF CInv, Held
<1>6. Len(assembler.data) = Upto(assembler.total, p - 1)
  BY <1>4, <1>5 DEF CInv, Held
<1>7. PICK i \in Nat : i = p - 1 /\ i + 1 = p
  BY <1>5
<1>8. Chunk \in Nat /\ i * Chunk \in Nat /\ (i + 1) * Chunk = i * Chunk + Chunk /\ Chunk > 0
  BY <1>2, Known, Multiples
<1>9. i * Chunk < assembler.total
  BY <1>4, <1>5, <1>7, <1>8 DEF Partial
<1>10. Upto(assembler.total, i) > 0 /\ Upto(assembler.total, i) \in Nat
  BY <1>2, <1>4, <1>8, <1>9, ChunkEnds
<1>11. 1 \in DOMAIN assembler.data
  <2>1. PICK n \in Nat : n = Len(assembler.data) /\ n > 0
    BY <1>6, <1>7, <1>10
  <2>2. DOMAIN assembler.data = 1 .. n
    BY <2>1, <1>2, Known
  <2> QED
    BY <2>1, <2>2
<1>12. lengths[Owner] = assembler.total
  BY <1>11 DEF CInv, Held, Owner
<1> QED
  BY <1>1, <1>3, <1>12 DEF InOrder

\* The new assembler and what the wire holds behind its last fragment.
LEMMA JoinWhole ==
  ASSUME CInv, IInv', Stream', Deliver, Head(wire).kind = 2, InOrder(Head(wire)),
         assembler' = [total |-> Head(wire).total, next |-> assembler.next + 1,
                       data |-> assembler.data \o Head(wire).bytes],
         Settle(Assembled(assembler'.data, Head(wire).total))
  PROVE  CInv'
<1>1. IInv /\ wire # <<>> /\ wire' = Tail(wire) /\ UNCHANGED <<limit, lengths, faults>>
  BY DEF CInv, Deliver
<1>2. PICK f : f = wire[1] /\ f = Head(wire)
  BY <1>1, HeadIs
<1>3. PICK d : d = assembler.data \o f.bytes
  OBVIOUS
<1>4. /\ d \in Seq(Byte) /\ 1 \in DOMAIN d
      /\ f.of \in 1 .. sent /\ f.total = lengths[f.of] /\ f.total \in Nat /\ f.total > 0
      /\ f.index \in Nat /\ f.index = assembler.next /\ f.index * Chunk < f.total
      /\ Len(d) = Upto(f.total, f.index)
      /\ \A k \in DOMAIN d : /\ d[k][1] \in 1 .. sent /\ d[k][2] = k
                             /\ lengths[d[k][1]] = f.total
      /\ faults = 0 => d[1][1] = f.of
      /\ faults < 2 /\ outcome.state = "open" => \A k \in DOMAIN d : d[k][1] = f.of
  <2>1. f = wire[1] /\ f.kind = 2 /\ InOrder(f)
    BY <1>2
  <2>2. Joined(f, d)
    BY <2>1, <1>1, <1>3, Joins
  <2> QED
    BY <2>2 DEF Joined
<1>5. assembler' = [total |-> f.total, next |-> f.index + 1, data |-> d]
  BY <1>2, <1>3, <1>4
<1>6. assembler'.total = f.total /\ assembler'.next = f.index + 1 /\ assembler'.data = d
  <2>1. PICK r : r = [total |-> f.total, next |-> f.index + 1, data |-> d]
    OBVIOUS
  <2>2. r.total = f.total /\ r.next = f.index + 1 /\ r.data = d
    BY <2>1
  <2> QED
    BY <2>1, <2>2, <1>5, Zenon
<1>7. sent' = sent /\ Chunk' = Chunk /\ f.index + 1 \in Nat /\ f.index + 1 > 0
      /\ (f.index + 1) - 1 = f.index
  BY <1>1, <1>4 DEF sent, Chunk
<1>8. Held'
  <2>1. Upto(assembler.total, assembler.next - 1)' = Upto(f.total, f.index)
    BY <1>6, <1>7 DEF Upto
  <2>2. Len(assembler.data)' = Upto(assembler.total, assembler.next - 1)'
    BY <2>1, <1>4, <1>6
  <2>3. \A k \in DOMAIN assembler'.data :
          /\ assembler'.data[k][1] \in 1 .. sent'
          /\ lengths'[assembler'.data[k][1]] = assembler'.total
          /\ assembler'.data[k][2] = k
    BY <1>1, <1>4, <1>6, <1>7
  <2>4. assembler'.total # 0 /\ assembler'.next > 0
    BY <1>4, <1>6, <1>7
  <2> QED
    BY <2>2, <2>3, <2>4 DEF Held
<1>9. PICK to \in Nat : to = Upto(f.total, f.index) /\ to <= f.total /\ to = Len(d)
                        /\ (to = f.total <=> f.total <= (f.index + 1) * Chunk)
  BY <1>1, <1>4, ChunkEnds
<1>10. (f.index + 1) * Chunk \in Nat
  BY <1>1, <1>7, Known, Multiples
<1>11. Partial' <=> to # f.total
  <2>1. Partial' <=> (f.index + 1) * Chunk < f.total
    BY <1>4, <1>6, <1>7 DEF Partial
  <2> QED
    BY <2>1, <1>4, <1>9, <1>10
<1>12. Owner' = d[1][1]
  BY <1>6 DEF Owner
<1>13. outcome' = IF outcome.state = "open"
                    THEN IF to = f.total THEN Complete(d) ELSE Open
                    ELSE outcome
  <2>1. Assembled(d, f.total) = IF to = f.total THEN Complete(d) ELSE Open
    BY <1>4, <1>9 DEF Assembled
  <2> QED
    BY <2>1, <1>2, <1>6 DEF Settle
<1>14. Partial' => ~Last(f)
  BY <1>2, <1>4, <1>9, <1>10, <1>11 DEF Last
<1>15. wire' # <<>> => 1 \in 1 .. Len(wire) - 1 /\ wire'[1] = wire[1 + 1]
  <2>1. wire' # <<>> => Len(wire') # 0
    BY <1>1, HeadIs, EmptySeq
  <2>2. Len(wire') = Len(wire) - 1 /\ Len(wire') \in Nat
        /\ \A i \in 1 .. Len(wire') : wire'[i] = wire[i + 1]
    BY <1>1, HeadIs
  <2> QED
    BY <2>1, <2>2
<1>16. InStep'
  <2>1. ASSUME faults' = 0, Partial'
        PROVE  /\ wire' # <<>> /\ wire'[1].kind = 2 /\ wire'[1].of = Owner'
               /\ wire'[1].index = assembler'.next
    <3>1. faults = 0 /\ ~Last(f) /\ 1 \in DOMAIN wire
      BY <2>1, <1>1, <1>14, HeadIs
    <3>2. 1 # Len(wire)
      BY <3>1, <1>2 DEF CInv, Stream
    <3>3. 1 \in 1 .. Len(wire) - 1 /\ wire' # <<>>
      <4>1. Len(wire') = Len(wire) - 1 /\ Len(wire') \in Nat
        BY <1>1, HeadIs
      <4>2. Len(wire') # 0
        BY <3>2, <4>1, <1>1, Known
      <4> QED
        BY <4>1, <4>2
    <3>4. Follows(wire[1], wire[1 + 1])
      BY <3>1, <3>3, Undisturbed
    <3>5. wire'[1].kind = 2 /\ wire'[1].of = f.of /\ wire'[1].index = f.index + 1
      BY <3>1, <3>3, <3>4, <1>2, <1>15 DEF Follows
    <3> QED
      BY <3>1, <3>3, <3>5, <1>4, <1>6, <1>12
  <2>2. ASSUME outcome'.state = "open" PROVE outcome.state = "open" /\ Partial'
    BY <2>2, <1>11, <1>13 DEF Complete
  <2>3. ASSUME outcome'.state = "open", faults' < 2
        PROVE  \A k \in DOMAIN assembler'.data : assembler'.data[k][1] = Owner'
    BY <2>2, <2>3, <1>1, <1>4, <1>6, <1>12
  <2>4. ASSUME outcome'.state = "open", faults' < 2, wire' # <<>>,
               wire'[1].index = assembler'.next
        PROVE  wire'[1].of = Owner'
    <3>1. faults < 2 /\ outcome.state = "open"
      BY <2>2, <2>4, <1>1
    <3>2. \A j \in 1 .. Len(wire) - 1 : Linked(wire[j], wire[j + 1])
      BY <3>1 DEF CInv, Stream
    <3>3. Linked(wire[1], wire[1 + 1])
      BY <3>2, <2>4, <1>15
    <3>4. wire'[1].of = f.of
      BY <3>3, <2>4, <1>2, <1>6, <1>15 DEF Linked
    <3> QED
      BY <3>1, <3>4, <1>4, <1>12
  <2>5. assembler'.total # 0
    BY <1>4, <1>6
  <2> QED
    BY <2>1, <2>2, <2>3, <2>4, <2>5 DEF InStep
<1>17. OnlyWholeMessages'
  <2>1. CASE outcome' = outcome
    BY <2>1, <1>1 DEF CInv, OnlyWholeMessages, Payload, sent
  <2>2. CASE outcome.state = "open" /\ to = f.total
    <3>1. outcome' = Complete(d)
      BY <2>2, <1>13
    <3>2. outcome'.data = d
      BY <3>1 DEF Complete
    <3>3. \A k \in DOMAIN d : d[k][2] = k /\ lengths'[d[k][1]] = Len(d)
      BY <2>2, <1>1, <1>4, <1>9
    <3>4. ASSUME faults' < 2 PROVE \E m \in 1 .. sent' : outcome'.data = Payload(m)'
      <4>1. \A k \in DOMAIN d : d[k][1] = f.of /\ d[k][2] = k
        BY <2>2, <3>4, <1>1, <1>4
      <4>2. d = Payload(f.of)
        BY <4>1, <2>2, <1>1, <1>4, <1>9, WholeMessage
      <4>3. \A m \in 1 .. sent : Payload(m)' = Payload(m)
        BY <1>1 DEF Payload
      <4> QED
        BY <4>2, <4>3, <3>2, <1>4, <1>7
    <3> QED
      BY <3>2, <3>3, <3>4 DEF OnlyWholeMessages
  <2>3. CASE outcome.state = "open" /\ to # f.total
    BY <2>3, <1>13 DEF Open, OnlyWholeMessages
  <2> QED
    BY <2>1, <2>2, <2>3, <1>13
<1> QED
  BY <1>8, <1>16, <1>17 DEF CInv


-----------------------------------------------------------------------------
\* The steps keep messages whole

LEMMA DeliverWhole == CInv /\ Deliver => CInv'
<1> SUFFICES ASSUME CInv, Deliver PROVE CInv'
  OBVIOUS
<1>1. /\ IInv /\ wire # <<>> /\ wire' = Tail(wire) /\ Add(Head(wire))
      /\ UNCHANGED <<limit, sequence, lengths, faults>>
  BY DEF CInv, Deliver
<1>2. IInv' /\ faults \in Nat
  BY <1>1, DeliverInv, Known
<1>3. Stream'
  BY <1>1, <1>2, TailStream DEF CInv
<1>4. Head(wire) = wire[1] /\ 1 \in DOMAIN wire
  BY <1>1, HeadIs
<1>5. OnlyWholeMessages /\ sent' = sent /\ \A m \in 1 .. sent : Payload(m)' = Payload(m)
  BY <1>1 DEF CInv, sent, Payload
<1>6. outcome' = outcome => OnlyWholeMessages'
  BY <1>1, <1>5 DEF OnlyWholeMessages
<1>7. CASE /\ ~Head(wire).intact \/ (Head(wire).kind = 2 /\ ~InOrder(Head(wire)))
           /\ Settle(Rejected) /\ UNCHANGED assembler
  <2>1. outcome'.state # "open" /\ (outcome' = outcome \/ outcome' = Rejected)
    BY <1>7 DEF Settle, Rejected
  <2>2. OnlyWholeMessages'
    BY <1>6, <2>1 DEF Rejected, OnlyWholeMessages
  <2>3. ~(faults = 0 /\ Partial)
    BY <1>4, <1>7, Awaited
  <2> QED
    BY <1>1, <1>2, <1>3, <1>7, <2>1, <2>2, <2>3, SettledWhole
<1>8. CASE /\ Head(wire).intact /\ Head(wire).kind = 1
           /\ Settle(Complete(Head(wire).bytes)) /\ UNCHANGED assembler
  <2>1. PICK m \in 1 .. sent : m = wire[1].of /\ Head(wire).bytes = Payload(m)
    BY <1>4, <1>8 DEF CInv, Stream, Genuine
  <2>2. outcome'.state # "open" /\ (outcome' = outcome \/ outcome' = Complete(Payload(m)))
    BY <1>8, <2>1 DEF Settle, Complete
  <2>3. ASSUME outcome' = Complete(Payload(m)) PROVE OnlyWholeMessages'
    <3>1. PICK p : p = Payload(m)
      OBVIOUS
    <3>2. outcome'.data = p
      BY <2>3, <3>1 DEF Complete
    <3>3. /\ Len(p) = lengths[m] /\ DOMAIN p = 1 .. lengths[m]
          /\ \A k \in 1 .. lengths[m] : p[k] = <<m, k>>
      BY <1>1, <3>1, PayloadAt
    <3>4. \A k \in DOMAIN p : p[k][1] = m /\ p[k][2] = k
      BY <3>3
    <3>5. \A k \in DOMAIN p : p[k][2] = k /\ lengths'[p[k][1]] = Len(p)
      BY <1>1, <3>3, <3>4
    <3>6. m \in 1 .. sent' /\ p = Payload(m)'
      BY <1>5, <3>1
    <3> QED
      BY <3>2, <3>5, <3>6 DEF OnlyWholeMessages
  <2>4. ~(faults = 0 /\ Partial)
    <3>1. wire[1].kind # 2
      BY <1>4, <1>8
    <3> QED
      BY <3>1, Awaited
  <2> QED
    BY <1>1, <1>2, <1>3, <1>6, <1>8, <2>2, <2>3, <2>4, SettledWhole
<1>9. CASE /\ Head(wire).intact /\ Head(wire).kind = 2 /\ InOrder(Head(wire))
           /\ assembler' = [total |-> Head(wire).total, next |-> assembler.next + 1,
                            data |-> assembler.data \o Head(wire).bytes]
           /\ Settle(Assembled(assembler'.data, Head(wire).total))
  BY <1>2, <1>3, <1>9, JoinWhole
<1> QED
  BY <1>1, <1>7, <1>8, <1>9 DEF Add

\* The frames of a new message follow those of the messages before it.
LEMMA SendStream ==
  ASSUME CInv, IInv', NEW len \in Lengths, sent < MaxMessages,
         lengths' = Append(lengths, len),
         wire' = wire \o EncodeFrames(sent + 1, len, sequence', limit),
         UNCHANGED <<limit, faults>>
  PROVE  /\ Stream'
         /\ faults = 0 /\ wire' # <<>> /\ wire'[1].of = sent + 1 => wire'[1].index = 0
<1>1. IInv /\ limit \in Nat /\ limit >= 20 /\ Chunk = limit - 13 /\ Chunk' = Chunk
      /\ len \in Nat /\ faults \in Nat
  BY Known, LengthAssumption DEF CInv, Chunk
<1>2. PICK s \in Nat : s = sent
  BY <1>1, Known
<1>3. sent' = s + 1 /\ lengths'[s + 1] = len /\ \A m \in 1 .. s : lengths'[m] = lengths[m]
  <2>1. lengths \in Seq(Lengths) /\ Len(lengths) = s
    BY <1>1, <1>2, Known DEF sent
  <2> QED
    BY <2>1 DEF sent
<1>4. \A f : Genuine(f) => Genuine(f)'
  <2>1. sent' \in Nat /\ sent <= sent' /\ \A m \in 1 .. sent : lengths'[m] = lengths[m]
    <3>1. sent' \in Nat /\ sent <= sent'
      BY <1>2, <1>3
    <3>2. \A m \in 1 .. sent : lengths'[m] = lengths[m]
      BY <1>2, <1>3
    <3> QED
      BY <3>1, <3>2
  <2> QED
    BY <1>1, <2>1, GenuineKept
<1>5. PICK w : w = EncodeFrames(s + 1, len, sequence', limit)
  OBVIOUS
<1>6. Cut(w, s + 1, len, Chunk)
  <2>1. PICK m, q : m = s + 1 /\ q = sequence'
    OBVIOUS
  <2>2. Cut(EncodeFrames(m, len, q, limit), m, len, limit - 13)
    BY <1>1, FramesOf
  <2> QED
    BY <1>1, <1>5, <2>1, <2>2
<1>7. PICK n \in Nat \ {0} :
        /\ Len(w) = n /\ DOMAIN w = 1 .. n
        /\ \A i \in 1 .. n : Piece(w[i], i, n, s + 1, len, Chunk)
  BY <1>6 DEF Cut
<1>8. w \in Seq(FrameType)
  <2>1. s + 1 \in 1 .. MaxMessages
    BY <1>2, BoundAssumption
  <2>2. sequence' \in 0 .. 255
    BY DEF IInv, TypeOK
  <2>3. w \in Seq(Fitting(limit))
    BY <1>1, <1>5, <2>1, <2>2, FramesType
  <2> QED
    BY <2>3, WireType
<1>9. PICK o \in Nat :
        /\ o = Len(wire) /\ DOMAIN wire = 1 .. o
        /\ Len(wire') = o + n /\ DOMAIN wire' = 1 .. o + n
        /\ \A i \in 1 .. o : wire'[i] = wire[i]
        /\ \A i \in o + 1 .. o + n : i - o \in 1 .. n /\ wire'[i] = w[i - o]
  <2>1. wire \in Seq(FrameType) /\ wire' = wire \o w
    BY <1>1, <1>2, <1>5, Known
  <2>2. PICK o \in Nat : o = Len(wire)
    BY <2>1
  <2>3. DOMAIN wire = 1 .. o /\ Len(wire') = o + n /\ DOMAIN wire' = 1 .. o + n
    <3>1. Len(wire \o w) = Len(wire) + Len(w) /\ wire \o w \in Seq(FrameType)
      BY <2>1, <1>8
    <3>2. Len(wire') = o + n /\ wire' \in Seq(FrameType)
      BY <3>1, <2>1, <2>2, <1>7
    <3>3. DOMAIN wire = 1 .. Len(wire) /\ DOMAIN wire' = 1 .. Len(wire')
      BY <3>2, <2>1, LenProperties
    <3> QED
      BY <3>2, <3>3, <2>2
  <2>4. \A i \in 1 .. o : wire'[i] = wire[i]
    BY <2>1, <2>2, <1>8
  <2>5. ASSUME NEW i \in o + 1 .. o + n PROVE i - o \in 1 .. n /\ wire'[i] = w[i - o]
    <3>1. i \in Len(wire) + 1 .. Len(wire) + Len(w) /\ i - o \in 1 .. n
      BY <2>2, <1>7
    <3>2. wire'[i] = w[i - Len(wire)]
      BY <3>1, <2>1, <1>8
    <3> QED
      BY <3>1, <3>2, <2>2
  <2> QED
    BY <2>2, <2>3, <2>4, <2>5
<1>10. /\ \A a : Last(a)' <=> Last(a)
       /\ \A a, b : Follows(a, b)' <=> Follows(a, b)
       /\ \A a, b : Linked(a, b)' <=> Linked(a, b)
  BY <1>1 DEF Last, Follows, Linked
<1>11. \A i \in 1 .. n : w[i] \in FrameType /\ Piece(w[i], i, n, s + 1, len, Chunk)
  BY <1>7, <1>8
<1>12. ASSUME NEW i \in 1 .. n PROVE Genuine(w[i])'
  <2>1. PICK f : f = w[i] /\ Piece(f, i, n, s + 1, len, Chunk)
    BY <1>11
  <2>2. f.of = s + 1 /\ f.of \in 1 .. sent' /\ f.index = i - 1 /\ (i - 1) + 1 = i
    BY <2>1, <1>2, <1>3 DEF Piece
  <2>3. lengths'[f.of] = len
    BY <2>2, <1>3
  <2>4. CASE f.kind = 1
    <3>1. f.bytes = Bytes(s + 1, 0, len) /\ i = 1
      BY <2>1, <2>4 DEF Piece
    <3>2. f.index = 0 /\ f.kind # 2
      BY <2>2, <2>4, <3>1
    <3>3. f.bytes = Payload(f.of)'
      BY <2>2, <2>3, <3>1 DEF Payload
    <3>4. Genuine(f)'
      BY <2>2, <3>2, <3>3 DEF Genuine
    <3> QED
      BY <2>1, <3>4
  <2>5. CASE f.kind = 2
    <3>1. f.total = len /\ (i - 1) * Chunk < len
          /\ f.bytes = Bytes(s + 1, (i - 1) * Chunk, IF i * Chunk < len THEN i * Chunk ELSE len)
      BY <2>1, <2>5 DEF Piece
    <3>2. Upto(len, i - 1)' = IF i * Chunk < len THEN i * Chunk ELSE len
      BY <1>1, <2>2 DEF Upto
    <3>3. f.total = lengths'[f.of] /\ f.index * Chunk' < f.total /\ f.kind # 1
      BY <1>1, <2>2, <2>3, <2>5, <3>1
    <3>4. f.bytes = Bytes(f.of, f.index * Chunk', Upto(f.total, f.index)')
      BY <1>1, <2>2, <3>1, <3>2
    <3>5. Genuine(f)'
      BY <2>2, <3>3, <3>4 DEF Genuine
    <3> QED
      BY <2>1, <3>5
  <2> QED
    BY <2>1, <2>4, <2>5 DEF Piece
<1>13. Last(w[n])
  <2>1. n \in 1 .. n
    OBVIOUS
  <2>2. Piece(w[n], n, n, s + 1, len, Chunk)
    BY <2>1, <1>11
  <2>3. (n - 1) + 1 = n
    OBVIOUS
  <2> QED
    BY <2>2, <2>3 DEF Piece, Last
<1>14. ASSUME NEW i \in 1 .. n - 1 PROVE Follows(w[i], w[i + 1])
  <2>1. i \in 1 .. n /\ i + 1 \in 1 .. n /\ i # n /\ n # 1 /\ (i - 1) + 1 = i
        /\ (i + 1) - 1 = (i - 1) + 1
    OBVIOUS
  <2>2. Piece(w[i], i, n, s + 1, len, Chunk) /\ Piece(w[i + 1], i + 1, n, s + 1, len, Chunk)
    BY <2>1, <1>11
  <2>3. /\ w[i].kind = 2 /\ w[i].total = len /\ w[i].of = s + 1 /\ w[i].index = i - 1
        /\ ~(len <= i * Chunk)
    BY <2>1, <2>2 DEF Piece
  <2>4. w[i + 1].kind = 2 /\ w[i + 1].of = s + 1 /\ w[i + 1].index = (i - 1) + 1
    BY <2>1, <2>2 DEF Piece
  <2>5. ~Last(w[i])
    BY <2>1, <2>3 DEF Last
  <2> QED
    BY <2>3, <2>4, <2>5 DEF Follows
<1>15. w[1].of = s + 1 /\ w[1].index = 0
  <2>1. 1 \in 1 .. n /\ 1 - 1 = 0
    OBVIOUS
  <2> QED
    BY <2>1, <1>11 DEF Piece
<1>16. ASSUME NEW i \in DOMAIN wire'
       PROVE  /\ i \in 1 .. o \/ (i \in o + 1 .. o + n /\ i - o \in 1 .. n)
              /\ i \in 1 .. o => wire'[i] = wire[i] /\ i \in DOMAIN wire
              /\ i \in o + 1 .. o + n => wire'[i] = w[i - o]
  BY <1>9
<1>17. \A i \in DOMAIN wire' : Genuine(wire[i])'
  <2>1. ASSUME NEW i \in DOMAIN wire' PROVE Genuine(wire[i])'
    <3>1. CASE i \in 1 .. o
      <4>1. Genuine(wire[i]) /\ wire'[i] = wire[i]
        BY <3>1, <1>16 DEF CInv, Stream
      <4> QED
        BY <4>1, <1>4
    <3>2. CASE i \in o + 1 .. o + n /\ i - o \in 1 .. n
      <4>1. wire'[i] = w[i - o]
        BY <3>2, <1>16
      <4>2. Genuine(w[i - o])'
        BY <3>2, <1>12
      <4> QED
        BY <4>1, <4>2
    <3> QED
      BY <3>1, <3>2, <1>16
  <2> QED
    BY <2>1
<1>18. ASSUME faults = 0, NEW i \in DOMAIN wire'
       PROVE  wire'[i].intact /\ (IF i = o + n THEN Last(wire'[i])
                                              ELSE Follows(wire'[i], wire'[i + 1]))
  <2>1. CASE i \in 1 .. o
    <3>1. wire'[i] = wire[i] /\ i \in DOMAIN wire /\ i # o + n
      BY <2>1, <1>9, <1>16
    <3>2. wire[i].intact /\ (IF i = o THEN Last(wire[i]) ELSE Follows(wire[i], wire[i + 1]))
      BY <3>1, <1>9, <1>18 DEF CInv, Stream
    <3>3. CASE i = o
      <4>1. i + 1 \in o + 1 .. o + n /\ (i + 1) - o = 1
        BY <3>3
      <4>2. wire'[i + 1] = w[1]
        BY <4>1, <1>9
      <4>3. Genuine(wire[i])
        BY <3>1 DEF CInv, Stream
      <4>4. s + 1 > wire[i].of
        BY <4>3, <1>2 DEF Genuine
      <4>5. Follows(wire'[i], wire'[i + 1])
        BY <3>1, <3>2, <3>3, <4>2, <4>4, <1>15 DEF Follows
      <4> QED
        BY <3>1, <3>2, <4>5
    <3>4. CASE i # o
      <4>1. i + 1 \in 1 .. o
        BY <2>1, <3>4
      <4>2. wire'[i + 1] = wire[i + 1]
        BY <4>1, <1>9
      <4> QED
        BY <3>1, <3>2, <3>4, <4>2
    <3> QED
      BY <3>3, <3>4
  <2>2. CASE i \in o + 1 .. o + n /\ i - o \in 1 .. n
    <3>1. wire'[i] = w[i - o]
      BY <2>2, <1>16
    <3>2. w[i - o].intact
      BY <2>2, <1>11 DEF Piece
    <3>3. CASE i = o + n
      <4>1. i - o = n
        BY <3>3
      <4> QED
        BY <3>1, <3>2, <3>3, <4>1, <1>13
    <3>4. CASE i # o + n
      <4>1. i + 1 \in o + 1 .. o + n /\ (i + 1) - o = (i - o) + 1 /\ i - o \in 1 .. n - 1
        <5>1. o \in Nat /\ n \in Nat
          BY <1>7, <1>9
        <5>2. PICK j \in 1 .. n : j = i - o /\ i = o + j
          BY <2>2, <5>1
        <5>3. j \in 1 .. n - 1
          <6>1. j # n
            BY <3>4, <5>2
          <6>2. j \in Nat /\ 1 <= j /\ j <= n
            BY <5>1, <5>2
          <6> QED
            BY <5>1, <6>1, <6>2
        <5>4. /\ (o + j) + 1 \in o + 1 .. o + n /\ ((o + j) + 1) - o = ((o + j) - o) + 1
              /\ (o + j) - o \in 1 .. n - 1
          BY <5>1, <5>3
        <5> QED
          BY <5>2, <5>4
      <4>2. wire'[i + 1] = w[(i - o) + 1]
        BY <4>1, <1>9
      <4>3. Follows(w[i - o], w[(i - o) + 1])
        BY <4>1, <1>14
      <4> QED
        BY <3>1, <3>2, <3>4, <4>2, <4>3
    <3> QED
      BY <3>3, <3>4
  <2> QED
    BY <2>1, <2>2, <1>16
<1>19. ASSUME faults < 2, NEW i \in 1 .. (o + n) - 1
       PROVE  Linked(wire'[i], wire'[i + 1])
  <2>1. i \in DOMAIN wire' /\ i + 1 \in DOMAIN wire'
    BY <1>9
  <2>2. CASE i \in 1 .. o - 1
    <3>1. i \in 1 .. o /\ i + 1 \in 1 .. o /\ i \in 1 .. Len(wire) - 1
      BY <2>2, <1>9
    <3>2. \A j \in 1 .. Len(wire) - 1 : Linked(wire[j], wire[j + 1])
      BY <1>19 DEF CInv, Stream
    <3> QED
      BY <3>1, <3>2, <1>9
  <2>3. CASE i = o
    <3>1. i + 1 \in o + 1 .. o + n /\ (i + 1) - o = 1 /\ i \in 1 .. o /\ i \in DOMAIN wire
      BY <2>3, <1>9
    <3>2. wire'[i + 1].index = 0 /\ wire'[i] = wire[i]
      BY <3>1, <1>9, <1>15
    <3>3. wire[i].index \in Nat
      BY <3>1, <1>1, Known
    <3>4. wire[i].index + 1 # 0
      BY <3>3
    <3> QED
      BY <3>2, <3>4 DEF Linked
  <2>4. CASE i \in o + 1 .. o + n - 1
    <3>1. /\ i \in o + 1 .. o + n /\ i + 1 \in o + 1 .. o + n
          /\ i - o \in 1 .. n /\ (i + 1) - o \in 1 .. n
      BY <2>4
    <3>2. wire'[i] = w[i - o] /\ wire'[i + 1] = w[(i + 1) - o]
      BY <3>1, <1>9
    <3>3. w[i - o].of = s + 1 /\ w[(i + 1) - o].of = s + 1
      BY <3>1, <1>11 DEF Piece
    <3> QED
      BY <3>2, <3>3 DEF Linked
  <2>5. i \in 1 .. o - 1 \/ i = o \/ i \in o + 1 .. o + n - 1
    BY <1>7, <1>9
  <2> QED
    BY <2>2, <2>3, <2>4, <2>5
<1>20. Stream'
  <2>1. \A a, b : (Last(a)' <=> Last(a)) /\ (Follows(a, b)' <=> Follows(a, b))
                 /\ (Linked(a, b)' <=> Linked(a, b))
    BY <1>10
  <2>2. ASSUME faults' = 0, NEW i \in DOMAIN wire'
        PROVE  (wire[i].intact /\ (IF i = Len(wire) THEN Last(wire[i])
                                               ELSE Follows(wire[i], wire[i + 1])))'
    <3>1. faults = 0
      BY <2>2
    <3>2. wire'[i].intact /\ (IF i = Len(wire') THEN Last(wire'[i])
                                               ELSE Follows(wire'[i], wire'[i + 1]))
      BY <3>1, <1>9, <1>18
    <3> QED
      BY <3>2, <2>1
  <2>3. ASSUME faults' < 2, NEW i \in 1 .. Len(wire') - 1
        PROVE  Linked(wire[i], wire[i + 1])'
    <3>1. faults < 2
      BY <2>3
    <3>2. Linked(wire'[i], wire'[i + 1])
      BY <3>1, <1>9, <1>19
    <3> QED
      BY <3>2, <2>1
  <2> QED
    BY <1>17, <2>2, <2>3 DEF Stream
<1>21. ASSUME wire' # <<>>, wire'[1].of = s + 1 PROVE wire'[1].index = 0
  <2>1. CASE o = 0
    <3>1. 1 \in o + 1 .. o + n /\ 1 - o = 1
      BY <2>1
    <3>2. wire'[1] = w[1]
      BY <3>1, <1>9
    <3> QED
      BY <3>2, <1>15
  <2>2. CASE o # 0
    <3>1. 1 \in 1 .. o /\ 1 \in DOMAIN wire
      BY <2>2, <1>9
    <3>2. wire'[1] = wire[1] /\ Genuine(wire[1])
      BY <3>1, <1>9 DEF CInv, Stream
    <3>3. wire[1].of # s + 1
      BY <3>2, <1>2 DEF Genuine
    <3> QED
      BY <1>21, <3>2, <3>3
  <2> QED
    BY <2>1, <2>2
<1> QED
  BY <1>2, <1>20, <1>21


LEMMA SendWhole == CInv /\ Send => CInv'
<1> SUFFICES ASSUME CInv, Send PROVE CInv'
  OBVIOUS
<1>1. IInv /\ IInv'
  BY SendInv DEF CInv
<1>2. PICK len \in Lengths :
        /\ lengths' = Append(lengths, len)
        /\ wire' = wire \o EncodeFrames(sent + 1, len, sequence', limit)
  BY DEF Send
<1>3. /\ sent < MaxMessages /\ UNCHANGED <<limit, faults>>
      /\ outcome' = Open /\ assembler' = Fresh
  BY DEF Send, TakeUp
<1>4. /\ Stream'
      /\ faults = 0 /\ wire' # <<>> /\ wire'[1].of = sent + 1 => wire'[1].index = 0
  BY <1>1, <1>2, <1>3, SendStream
<1>5. sent' = sent + 1
  <2>1. lengths \in Seq(Lengths)
    BY <1>1, Known
  <2> QED
    BY <2>1, <1>2 DEF sent
<1>6. assembler'.total = 0 /\ DOMAIN assembler'.data = {}
  BY <1>3 DEF Fresh
<1>7. Held'
  BY <1>3, <1>6 DEF Held, Fresh
<1>8. ~Partial'
  BY <1>6 DEF Partial
<1>9. InStep'
  BY <1>3, <1>4, <1>5, <1>6, <1>8 DEF InStep
<1>10. OnlyWholeMessages'
  BY <1>3 DEF OnlyWholeMessages, Open
<1> QED
  BY <1>1, <1>4, <1>7, <1>9, <1>10 DEF CInv

LEMMA InitWhole == Init => CInv
<1> SUFFICES ASSUME Init PROVE CInv
  OBVIOUS
<1>1. IInv
  BY InitInv
<1>2. wire = <<>> /\ assembler = Fresh /\ outcome = Rejected
  BY DEF Init
<1>3. Stream
  BY <1>2 DEF Stream
<1>4. assembler.total = 0 /\ DOMAIN assembler.data = {} /\ outcome.state = "rejected"
  BY <1>2 DEF Fresh, Rejected
<1>5. Held
  BY <1>2, <1>4 DEF Held
<1>6. InStep /\ OnlyWholeMessages
  BY <1>4 DEF InStep, Partial, OnlyWholeMessages
<1> QED
  BY <1>1, <1>3, <1>5, <1>6 DEF CInv

LEMMA NextWhole == CInv /\ [Next]_vars => CInv'
<1> SUFFICES ASSUME CInv, [Next]_vars PROVE CInv'
  OBVIOUS
<1>1. CASE Send
  BY <1>1, SendWhole
<1>2. CASE Deliver
  BY <1>2, DeliverWhole
<1>3. CASE GiveUp
  <2>1. IInv'
    BY <1>3, NextInv DEF CInv, Next
  <2>2. UNCHANGED <<limit, lengths, wire, assembler, faults>> /\ outcome' = Rejected
    BY <1>3 DEF GiveUp
  <2>3. \A f : Genuine(f) => Genuine(f)'
    BY <2>2, Known, GenuineKept DEF CInv, sent
  <2>4. Stream'
    BY <2>2, <2>3 DEF CInv, Stream, Linked, Follows, Last, Chunk
  <2>5. outcome'.state = "rejected" /\ OnlyWholeMessages'
    BY <2>2 DEF Rejected, OnlyWholeMessages
  <2> QED
    BY <2>1, <2>2, <2>4, <2>5, SettledWhole
<1>4. CASE Lose
  BY <1>4, LoseWhole
<1>5. CASE Repeat
  BY <1>5, RepeatWhole
<1>6. CASE Damage
  BY <1>6, DamageWhole
<1>7. CASE Swap
  BY <1>7, SwapWhole
<1>8. CASE UNCHANGED vars
  <2>1. IInv'
    BY NextInv DEF CInv
  <2>2. Stream'
    BY <1>8 DEF vars, CInv, Stream, Genuine, Payload, Upto, Linked, Follows, Last, Chunk, sent
  <2>3. Held'
    BY <1>8 DEF vars, CInv, Held, Upto, Chunk, sent
  <2>4. Partial' = Partial /\ Owner' = Owner /\ sent' = sent
    BY <1>8 DEF vars, Partial, Owner, Chunk, sent
  <2>5. InStep'
    BY <1>8, <2>4 DEF vars, CInv, InStep
  <2>6. OnlyWholeMessages'
    BY <1>8, <2>4 DEF vars, CInv, OnlyWholeMessages, Payload
  <2> QED
    BY <2>1, <2>2, <2>3, <2>5, <2>6 DEF CInv
<1> QED
  BY <1>1, <1>2, <1>3, <1>4, <1>5, <1>6, <1>7, <1>8 DEF Next

\* What the wire and the assembler hold is of messages that were sent, each byte at
\* its place, and a first fault brings no frame of another message into an assembler
\* that waits (local_protocol.py:71-127).
THEOREM CInvariance == Spec => []CInv
  BY InitWhole, NextWhole, PTL DEF Spec

\* What the receiver takes for a message is whole whatever the link does, and with
\* fewer than two faults it is a message that was sent: for every packet limit, every
\* set of lengths, every number of messages and of faults (local_protocol.py:103-127).
THEOREM WholeMessagesOnly == Spec => []OnlyWholeMessages
<1>1. CInv => OnlyWholeMessages
  BY DEF CInv
<1> QED
  BY <1>1, CInvariance, PTL

\* The frames of the latest message, alone on a link that does no wrong.
LEMMA ArrivalStep ==
  ASSUME CInv, Next, faults' = 0, outcome.state = "open",
         wire # <<>>, wire' = Tail(wire), \A i \in DOMAIN wire : wire[i].of = sent
  PROVE  outcome' = IF wire' = <<>> THEN Complete(Payload(sent)) ELSE Open
<1>1. IInv /\ faults \in Nat /\ Len(wire) \in Nat /\ DOMAIN wire = 1 .. Len(wire) /\ sent \in Nat
  BY Known DEF CInv
<1>2. Len(wire') = Len(wire) - 1 /\ Len(wire) >= 1
  <2>1. Len(Tail(wire)) = Len(wire) - 1 /\ Len(Tail(wire)) \in Nat
    BY <1>1, HeadIs
  <2> QED
    BY <2>1, <1>1
<1>3. Deliver /\ faults = 0
  <2>1. ~Send
    BY DEF Send
  <2>2. ~GiveUp
    <3>1. Len(wire') # Len(wire)
      <4>1. PICK n \in Nat : n = Len(wire)
        BY <1>1
      <4>2. n - 1 # n
        BY <4>1
      <4> QED
        BY <4>1, <4>2, <1>2
    <3> QED
      BY <3>1 DEF GiveUp
  <2>3. ~Fault
    BY <1>1 DEF Fault
  <2>4. Deliver
    BY <2>1, <2>2, <2>3 DEF Next, Lose, Repeat, Damage, Swap
  <2> QED
    BY <2>4 DEF Deliver
<1>4. PICK f : f = wire[1] /\ f = Head(wire) /\ Add(f) /\ 1 \in DOMAIN wire /\ f.of = sent
  BY <1>1, <1>3, HeadIs DEF Deliver
<1>5. f.intact /\ f.kind \in {1, 2} /\ Genuine(f)
  BY <1>1, <1>3, <1>4, Known DEF CInv, Stream
<1>6. Last(f) <=> wire' = <<>>
  <2>1. CASE Len(wire) = 1
    <3>1. wire' = <<>>
      BY <2>1, <1>1, <1>2, HeadIs, EmptySeq
    <3>2. Last(f)
      BY <2>1, <1>3, <1>4 DEF CInv, Stream
    <3> QED
      BY <3>1, <3>2
  <2>2. CASE Len(wire) # 1
    <3>1. 1 \in 1 .. Len(wire) - 1 /\ 1 + 1 \in DOMAIN wire
      BY <2>2, <1>1, <1>2
    <3>2. Follows(wire[1], wire[1 + 1])
      BY <3>1, <1>3, Undisturbed
    <3>3. wire[1 + 1].of = sent
      BY <3>1
    <3>4. ~Last(f)
      BY <3>2, <3>3, <1>1, <1>4 DEF Follows
    <3>5. Len(wire') # 0
      BY <2>2, <1>1, <1>2
    <3>6. wire' # <<>>
      BY <3>5
    <3> QED
      BY <3>4, <3>6
  <2> QED
    BY <2>1, <2>2
<1>7. CASE f.kind = 1
  <2>1. f.bytes = Payload(sent) /\ Last(f)
    BY <1>4, <1>5, <1>7 DEF Genuine, Last
  <2>2. Settle(Complete(f.bytes))
    <3>1. f.kind # 2
      BY <1>7
    <3> QED
      BY <3>1, <1>4, <1>5, Zenon DEF Add
  <2> QED
    BY <2>1, <2>2, <1>6 DEF Settle
<1>8. CASE f.kind = 2
  <2>1. InOrder(f)
    <3>1. CASE Partial
      BY <3>1, <1>3, <1>4, Awaited
    <3>2. CASE ~Partial
      <4>1. assembler.total = 0
        BY <3>2, <1>1, Known DEF CInv, InStep
      <4>2. assembler.next = 0
        BY <4>1 DEF CInv, Held, Fresh
      <4>3. f.index = 0
        BY <4>1, <1>3, <1>4 DEF CInv, InStep
      <4> QED
        BY <4>1, <4>2, <4>3 DEF InOrder
    <3> QED
      BY <3>1, <3>2
  <2>2. PICK d : d = assembler.data \o f.bytes
    OBVIOUS
  <2>3. Joined(f, d)
    BY <1>4, <1>8, <2>1, <2>2, Joins
  <2>4. assembler'.data = d /\ Settle(Assembled(assembler'.data, f.total))
    <3>1. f.kind # 1
      BY <1>8
    <3>2. /\ assembler' = [total |-> f.total, next |-> assembler.next + 1,
                           data |-> assembler.data \o f.bytes]
          /\ Settle(Assembled(assembler'.data, f.total))
      BY <3>1, <1>4, <1>5, <2>1, Zenon DEF Add
    <3>3. PICK r : r = [total |-> f.total, next |-> assembler.next + 1, data |-> d]
      OBVIOUS
    <3>4. assembler' = r /\ r.data = d
      BY <3>2, <3>3, <2>2
    <3> QED
      BY <3>2, <3>4, Zenon
  <2>5. outcome' = Assembled(d, f.total)
    BY <2>4 DEF Settle
  <2>6. PICK to \in Nat : to = Upto(f.total, f.index) /\ to <= f.total
                          /\ (to = f.total <=> f.total <= (f.index + 1) * Chunk)
    BY <1>1, <2>3, ChunkEnds DEF Joined
  <2>7. Last(f) <=> to = f.total
    BY <1>8, <2>6 DEF Last
  <2>8. Len(d) = to /\ f.total \in Nat
    BY <2>3, <2>6 DEF Joined
  <2>9. CASE Last(f)
    <3>1. d = Payload(sent)
      <4>1. d \in Seq(Byte) /\ f.of \in 1 .. sent /\ Len(d) = lengths[f.of]
        BY <2>3, <2>7, <2>8, <2>9 DEF Joined
      <4>2. \A k \in DOMAIN d : d[k][1] = f.of /\ d[k][2] = k
        BY <2>3, <1>3 DEF Joined
      <4> QED
        BY <4>1, <4>2, <1>1, <1>4, WholeMessage
    <3>2. outcome' = Complete(d)
      BY <2>5, <2>7, <2>8, <2>9 DEF Assembled
    <3> QED
      BY <3>1, <3>2, <2>9, <1>6
  <2>10. CASE ~Last(f)
    <3>1. outcome' = Open
      BY <2>5, <2>6, <2>7, <2>8, <2>10 DEF Assembled
    <3> QED
      BY <3>1, <2>10, <1>6
  <2> QED
    BY <2>9, <2>10
<1> QED
  BY <1>5, <1>7, <1>8

\* With nothing left over and a link that does no wrong, the latest message arrives
\* with its last frame and not before, whatever its length and the packet limit
\* (local_protocol.py:71-84, 124-127).
THEOREM LatestMessageArrives == Spec => MessageArrives
<1>1. CInv /\ [Next]_vars =>
        [/\ faults' = 0
         /\ outcome.state = "open"
         /\ wire # <<>> /\ wire' = Tail(wire)
         /\ \A i \in DOMAIN wire : wire[i].of = sent
         => outcome' = IF wire' = <<>> THEN Complete(Payload(sent)) ELSE Open]_vars
  BY ArrivalStep
<1> QED
  BY <1>1, CInvariance, PTL DEF Spec, MessageArrives
=============================================================================
