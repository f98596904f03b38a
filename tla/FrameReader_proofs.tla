------------------------- MODULE FrameReader_proofs -------------------------
(***************************************************************************)
(* sockSrvRecv implements the record stream for every stream of frames and *)
(* every segmentation of it.                                               *)
(***************************************************************************)
EXTENDS FrameReader, TLAPS

\* The last byte of the frames already returned.
Start == taken - hgot - filled

\* How far the current frame has been read, and what readn is to read next.
Progress ==
    /\ Start >= 0
    /\ pc = "header" => filled = 0 /\ want = HeaderSize - hgot /\ want > 0
    /\ pc = "decode" => filled = 0 /\ hgot = HeaderSize
    /\ pc = "payload" => /\ hgot = HeaderSize
                         /\ want > 0
                         /\ filled + want <= BufSize

\* The current frame begins at a boundary; once its header is decoded, readn
\* stops at the next one.
Boundaries ==
    /\ Start \in {0} \cup ends
    /\ pc = "payload" => /\ taken + want \in ends
                         /\ \A m \in ends : ~(Start < m /\ m < taken + want)

\* The header and the payload read so far are in their places.
Contents ==
    /\ \A o \in HeaderOffsets : o < hgot => len[o] = Start + 1 + o
    /\ \A o \in Offsets : o < filled => buf[o] = Start + HeaderSize + 1 + o

IInv == TypeOK /\ Progress /\ Boundaries /\ Contents

\* Frame ends are positions in the stream.
LEMMA EndsInStream == TypeOK => Framed(ends) /\ ends \in SUBSET (1..Length)
  BY FrameReaderAssumption DEF TypeOK, Framed

\* Initially nothing has arrived and readn is asked for a header.
LEMMA InitIInv == Init => IInv
<1> SUFFICES ASSUME Init PROVE IInv
  OBVIOUS
<1> USE FrameReaderAssumption DEF Init, Offsets, HeaderOffsets
<1>1. TypeOK
  <2>1. 0 \in 0..Length /\ 0 \in 0..HeaderSize /\ 0 \in 0..BufSize  OBVIOUS
  <2>2. len \in [HeaderOffsets -> 0..Length]  BY <2>1
  <2>3. buf \in [Offsets -> 0..Length]  BY <2>1
  <2> QED BY <2>1, <2>2, <2>3 DEF TypeOK
<1>2. Progress    BY DEF Progress, Start
<1>3. Boundaries  BY DEF Boundaries, Start
<1>4. Contents    BY DEF Contents
<1> QED BY <1>1, <1>2, <1>3, <1>4 DEF IInv

\* A step of the peer or the network keeps the invariant: bytes only arrive.
LEMMA NetworkStep == IInv /\ Network => IInv'
<1> SUFFICES ASSUME IInv, Network PROVE IInv'
  OBVIOUS
<1> USE FrameReaderAssumption
<1> USE DEF IInv, TypeOK, Progress, Boundaries, Contents, Start, reader
<1>1. CASE Arrive
  <2>1. arrived' \in arrived..Length /\ UNCHANGED <<ends, peer, reader>>
    BY <1>1 DEF Arrive
  <2> QED BY <2>1
<1>2. CASE PeerCloses \/ PeerResets
  <2>1. UNCHANGED <<ends, arrived, reader>> /\ peer' \in {"fin", "rst"}
    BY <1>2 DEF PeerCloses, PeerResets
  <2> QED BY <2>1
<1> QED BY <1>1, <1>2 DEF Network

\* A read of n bytes to offset from of a buffer leaves what was there and
\* adds the next n bytes of the stream.
LEMMA CopyBytes ==
  ASSUME TypeOK, NEW size \in Nat, NEW m \in [0..(size - 1) -> 0..Length],
         NEW from \in Nat, NEW n \in Nat, n <= Available
  PROVE  /\ Copy(m, from, n) \in [0..(size - 1) -> 0..Length]
         /\ \A o \in 0..(size - 1) :
               Copy(m, from, n)[o] = IF from <= o /\ o < from + n
                                     THEN taken + 1 + (o - from)
                                     ELSE m[o]
  BY FrameReaderAssumption DEF TypeOK, Copy, Available

\* Reading header bytes keeps the invariant.
LEMMA HeaderStep == IInv /\ ReadHeader => IInv'
<1> SUFFICES ASSUME IInv, ReadHeader PROVE IInv'
  OBVIOUS
<1> USE FrameReaderAssumption, EndsInStream
<1> USE DEF IInv, TypeOK, net
<1>1. PICK n \in 1..want : /\ n <= Available
                           /\ len' = Copy(len, hgot, n)
                           /\ taken' = taken + n
                           /\ hgot' = hgot + n
                           /\ want' = want - n
                           /\ pc' = IF n = want THEN "decode" ELSE "header"
  BY DEF ReadHeader
<1>2. /\ len' \in [HeaderOffsets -> 0..Length]
      /\ \A o \in HeaderOffsets :
            len'[o] = IF hgot <= o /\ o < hgot + n THEN taken + 1 + (o - hgot)
                                                   ELSE len[o]
  BY <1>1, CopyBytes DEF HeaderOffsets
<1>3. Start' = Start  BY <1>1 DEF ReadHeader, Start
<1>4. pc = "header" /\ filled = 0 /\ want = HeaderSize - hgot /\ taken = Start + hgot
  BY DEF ReadHeader, Progress, Start
<1>5. TypeOK'      BY <1>1, <1>2, <1>4 DEF ReadHeader, Available
<1>6. Progress'    BY <1>1, <1>3, <1>4 DEF ReadHeader, Progress
<1>7. Boundaries'  BY <1>1, <1>3 DEF ReadHeader, Boundaries
<1>8. Contents'
  <2>1. \A o \in HeaderOffsets : o < hgot' => len'[o] = Start' + 1 + o
    BY <1>1, <1>2, <1>3, <1>4 DEF Contents, HeaderOffsets, Start
  <2> QED BY <2>1, <1>3, <1>4 DEF ReadHeader, Contents
<1> QED BY <1>5, <1>6, <1>7, <1>8

\* When a header is complete it is the one that begins at Start.
LEMMA HeaderIsAtStart == IInv /\ pc = "decode" => HeaderAt(Start)
  BY FrameReaderAssumption
     DEF IInv, TypeOK, Progress, Contents, HeaderAt, HeaderOffsets, Start

\* Only one boundary has this header.
LEMMA HeaderIsUnique ==
  ASSUME IInv, pc = "decode", NEW b \in {0} \cup ends, HeaderAt(b)
  PROVE  b = Start
<1> USE FrameReaderAssumption, EndsInStream DEF IInv, TypeOK
<1>1. 0 \in HeaderOffsets  BY DEF HeaderOffsets
<1>2. len[0] = b + 1 + 0  BY <1>1 DEF HeaderAt
<1>3. len[0] = Start + 1 + 0  BY <1>1, HeaderIsAtStart DEF HeaderAt
<1> QED BY <1>2, <1>3 DEF Start

\* Decoding the header keeps the invariant.
LEMMA DecodeStep == IInv /\ Decode => IInv'
<1> SUFFICES ASSUME IInv, Decode PROVE IInv'
  OBVIOUS
<1> USE FrameReaderAssumption, EndsInStream
<1> USE DEF IInv, TypeOK, net
<1>1. PICK b \in {0} \cup ends, e \in ends :
          /\ HeaderAt(b)
          /\ b < e /\ \A m \in ends : b < m => e <= m
          /\ want' = e - b - HeaderSize
  BY DEF Decode
<1>2. b = Start  BY <1>1, HeaderIsUnique DEF Decode
<1>3. filled = 0 /\ hgot = HeaderSize /\ taken = Start + HeaderSize
  BY DEF Decode, Progress, Start
<1>4. PICK f \in ends : /\ b + HeaderSize < f /\ f <= b + HeaderSize + BufSize
                        /\ \A m \in ends : b < m => f <= m
  BY <1>1 DEF Framed
<1>5. e = f  BY <1>1, <1>4
<1>6. want' > 0 /\ want' <= BufSize /\ want' \in Nat /\ taken + want' = e
  BY <1>1, <1>2, <1>3, <1>4, <1>5
<1>7. TypeOK'      BY <1>6 DEF Decode
<1>8. Progress'    BY <1>3, <1>6 DEF Decode, Progress, Start
<1>9. Boundaries'
  <2>1. Start' = Start /\ taken' = taken  BY DEF Decode, Start
  <2>2. \A m \in ends : ~(Start < m /\ m < e)  BY <1>1, <1>2
  <2> QED BY <1>6, <2>1, <2>2 DEF Decode, Boundaries
<1>10. Contents'   BY DEF Decode, Contents, Start
<1> QED BY <1>7, <1>8, <1>9, <1>10

\* Reading payload keeps the invariant.
LEMMA PayloadStep == IInv /\ (ReadPart \/ ReadFrame) => IInv'
<1> SUFFICES ASSUME IInv, ReadPart \/ ReadFrame PROVE IInv'
  OBVIOUS
<1> USE FrameReaderAssumption, EndsInStream
<1> USE DEF IInv, TypeOK, net
<1>0. /\ pc = "payload" /\ hgot = HeaderSize /\ want > 0
      /\ filled + want <= BufSize /\ taken = Start + HeaderSize + filled
  BY DEF ReadPart, ReadFrame, Progress, Start
<1>1. CASE ReadPart
  <2>1. PICK n \in 1..(want - 1) : /\ n <= Available
                                   /\ buf' = Copy(buf, filled, n)
                                   /\ taken' = taken + n
                                   /\ filled' = filled + n
                                   /\ want' = want - n
    BY <1>1 DEF ReadPart
  <2>2. /\ buf' \in [Offsets -> 0..Length]
        /\ \A o \in Offsets :
              buf'[o] = IF filled <= o /\ o < filled + n
                        THEN taken + 1 + (o - filled) ELSE buf[o]
    BY <2>1, CopyBytes, SMTT(20) DEF Offsets
  <2>3. Start' = Start  BY <1>1, <2>1 DEF ReadPart, Start
  <2>4. TypeOK'      BY <1>0, <1>1, <2>1, <2>2 DEF ReadPart, Available
  <2>5. Progress'    BY <1>0, <1>1, <2>1, <2>3 DEF ReadPart, Progress
  <2>6. Boundaries'  BY <1>0, <1>1, <2>1, <2>3 DEF ReadPart, Boundaries
  <2>7. Contents'
    <3>1. \A o \in Offsets : o < filled' => buf'[o] = Start' + HeaderSize + 1 + o
      BY <1>0, <2>1, <2>2, <2>3 DEF Contents, Offsets, Start
    <3> QED BY <1>1, <2>3, <3>1 DEF ReadPart, Contents
  <2> QED BY <2>4, <2>5, <2>6, <2>7
<1>2. CASE ReadFrame
  <2>1. buf' \in [Offsets -> 0..Length]
    <3>1. buf' = Copy(buf, filled, want) /\ want <= Available  BY <1>2 DEF ReadFrame
    <3> QED BY <3>1, CopyBytes DEF Offsets
  <2>2. Start' = taken + want  BY <1>2 DEF ReadFrame, Start
  <2>3. TypeOK'      BY <1>0, <1>2, <2>1, SMTT(20) DEF ReadFrame, Available
  <2>4. Progress'    BY <1>0, <1>2, <2>2 DEF ReadFrame, Progress
  <2>5. Boundaries'  BY <1>0, <1>2, <2>2 DEF ReadFrame, Boundaries
  <2>6. Contents'    BY <1>2 DEF ReadFrame, Contents, Offsets, HeaderOffsets
  <2> QED BY <2>3, <2>4, <2>5, <2>6
<1> QED BY <1>1, <1>2

\* The invariant is inductive.
LEMMA NextIInv == IInv /\ [Next]_vars => IInv'
<1> SUFFICES ASSUME IInv, [Next]_vars PROVE IInv'
  OBVIOUS
<1>1. CASE PeerClosed \/ ReadError
  BY <1>1 DEF PeerClosed, ReadError, net, IInv, TypeOK, Progress, Boundaries,
              Contents, Start
<1>2. CASE UNCHANGED vars
  BY <1>2 DEF vars, net, reader, IInv, TypeOK, Progress, Boundaries, Contents, Start
<1> QED BY <1>1, <1>2, NetworkStep, HeaderStep, DecodeStep, PayloadStep
           DEF Next, Receive

LEMMA SpecIInv == Spec => []IInv
  BY InitIInv, NextIInv, PTL DEF Spec

\* Positions, header and receive buffer keep their types: what sockSrvRecv has
\* taken never exceeds what arrived.
THEOREM TypeOKHolds == Spec => []TypeOK
<1>1. IInv => TypeOK  BY DEF IInv
<1> QED BY <1>1, SpecIInv, PTL

\* sockSrvRecv never loses the framing, for every stream of frames that fit the
\* buffer and every way it is cut: what it takes for a header is one, and the
\* payload it waits for ends with that frame and within recvbuf.
THEOREM FramingKeptHolds == Spec => []FramingKept
<1>1. ASSUME IInv PROVE FramingKept
  <2> USE FrameReaderAssumption DEF IInv, TypeOK, Progress, Boundaries, Start
  <2>1. pc = "header" => taken - hgot \in {0} \cup ends
    BY <1>1
  <2>2. ASSUME pc = "decode"
        PROVE  taken - HeaderSize \in {0} \cup ends /\ HeaderAt(taken - HeaderSize)
    <3>1. taken - HeaderSize = Start  BY <1>1, <2>2
    <3> QED BY <1>1, <2>2, <3>1, HeaderIsAtStart
  <2>3. pc = "payload" => taken + want \in ends /\ filled + want <= BufSize
    BY <1>1
  <2> QED BY <2>1, <2>2, <2>3 DEF FramingKept
<1> QED BY <1>1, SpecIInv, PTL

-----------------------------------------------------------------------------
(* Refinement *)

\* Returning a frame is the abstract delivery of the next record.
LEMMA ReadFrameDelivers == IInv /\ ReadFrame => Stream!Deliver
<1> SUFFICES ASSUME IInv, ReadFrame PROVE Stream!Deliver
  OBVIOUS
<1> USE FrameReaderAssumption, EndsInStream DEF IInv, TypeOK
<1> DEFINE r == <<Start + HeaderSize + 1, taken + want>>
<1>0. /\ pc = "payload" /\ hgot = HeaderSize /\ want > 0 /\ want <= Available
      /\ filled + want <= BufSize /\ taken = Start + HeaderSize + filled
      /\ Start \in Nat
  BY DEF ReadFrame, Progress, Start
<1>1. r \in Frames
  <2>1. r \in (1..Length) \X (1..Length) /\ r[1] <= r[2]
    BY <1>0 DEF Available
  <2>2. r[1] - HeaderSize - 1 \in {0} \cup ends  BY <1>0 DEF Boundaries
  <2>3. r[2] \in ends  BY <1>0 DEF Boundaries
  <2>4. \A m \in ends : ~(r[1] - HeaderSize <= m /\ m < r[2])
    BY <1>0 DEF Boundaries
  <2> QED BY <2>1, <2>2, <2>3, <2>4 DEF Frames
<1>2. \A q \in Frames : Start < q[1] => r[1] <= q[1]
  <2> SUFFICES ASSUME NEW q \in Frames, Start < q[1] PROVE r[1] <= q[1]
    OBVIOUS
  <2>1. /\ q[1] \in 1..Length /\ q[2] \in 1..Length /\ q[1] <= q[2]
        /\ q[1] - HeaderSize - 1 \in {0} \cup ends
        /\ \A m \in ends : ~(q[1] - HeaderSize <= m /\ m < q[2])
    BY DEF Frames
  <2>2. Start \in {0} \cup ends  BY DEF Boundaries
  <2>3. CASE Start = 0  BY <1>0, <2>1, <2>3
  <2>4. CASE Start \in ends  BY <1>0, <2>1, <2>4
  <2> QED BY <2>2, <2>3, <2>4
<1>3. taken' - hgot' - filled' = r[2]  BY <1>0 DEF ReadFrame
<1>4. delivered' = Append(delivered, [o \in 0..(r[2] - r[1]) |-> r[1] + o])
  <2>1. r[2] - r[1] = filled + want - 1  BY <1>0
  <2>2. ASSUME NEW o \in 0..(filled + want - 1)
        PROVE  Copy(buf, filled, want)[o] = r[1] + o
    BY <1>0, CopyBytes, SMTT(20) DEF Offsets, Contents
  <2>3. [o \in 0..(filled + want - 1) |-> Copy(buf, filled, want)[o]]
          = [o \in 0..(r[2] - r[1]) |-> r[1] + o]
    BY <2>1, <2>2
  <2> QED BY <2>3 DEF ReadFrame
<1>5. Frames' = Frames  BY DEF ReadFrame, Frames, net
<1>6. Start < r[1]  BY <1>0
<1> HIDE DEF r
<1> QED BY <1>1, <1>2, <1>3, <1>4, <1>5, <1>6 DEF Stream!Deliver, Start

\* Every other step leaves the abstract stream as it is.
LEMMA OthersStutter ==
  ASSUME IInv, [Next]_vars, ~ReadFrame
  PROVE  UNCHANGED Stream!vars
<1> USE DEF IInv, TypeOK, net, reader, Stream!vars, Frames
<1>1. CASE Network
  BY <1>1 DEF Network, Arrive, PeerCloses, PeerResets
<1>2. CASE Decode \/ PeerClosed \/ ReadError
  BY <1>2 DEF Decode, PeerClosed, ReadError
<1>3. CASE ReadHeader \/ ReadPart
  BY <1>3 DEF ReadHeader, ReadPart
<1>4. CASE UNCHANGED vars  BY <1>4 DEF vars
<1> QED BY <1>1, <1>2, <1>3, <1>4 DEF Next, Receive

\* The payloads come out as the stream promises: each once, whole, in order,
\* whatever the segmentation.
THEOREM Implementation == Spec => ImplementsStream
<1>1. Init => Stream!Init
  BY DEF Init, Stream!Init
<1>2. IInv /\ [Next]_vars => [Stream!Deliver]_(Stream!vars)
  BY ReadFrameDelivers, OthersStutter
<1> QED BY <1>1, <1>2, SpecIInv, PTL DEF Spec, Stream!Spec, ImplementsStream
=============================================================================
