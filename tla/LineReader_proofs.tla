------------------------- MODULE LineReader_proofs -------------------------
(***************************************************************************)
(* readline of tcp8/tcp9 implements the record stream, for every length of *)
(* the stream, every buffer size and every placement of the newlines.      *)
(* That of the event servers, which only peeks at a fragment, keeps what   *)
(* its callers need of that: it stops at the end of a line, always, and    *)
(* it delivers the stream when no line is split.                           *)
(***************************************************************************)
EXTENDS LineReader, PeekLine, TLAPS

\* The last byte of the lines already returned.
Start == taken - filled

\* The pointers of readline and readn agree: the buffer has room for what
\* readn was asked for, and all of that has arrived.
Pointers ==
    /\ filled <= taken
    /\ filled + want <= MaxLine
    /\ pc = "peek" => want = 0 /\ nleft = MaxLine - filled
    /\ pc = "drain" => nleft = MaxLine - filled - want
    /\ Reading => want > 0 /\ taken + want <= arrived

\* The buffer begins where a line begins and holds no newline; readn stops at
\* the next one exactly when readline has found it.
Boundaries ==
    /\ Start = 0 \/ Start \in newlines
    /\ \A m \in newlines : ~(Start < m /\ m <= taken)
    /\ pc = "drain" => \A m \in newlines : ~(taken < m /\ m <= taken + want)
    /\ pc = "take" => /\ taken + want \in newlines
                      /\ \A m \in newlines : ~(taken < m /\ m < taken + want)

\* The buffer holds the bytes that follow Start, in their order.
Contents == \A o \in Offsets : o < filled => buf[o] = Start + 1 + o

IInv == TypeOK /\ Pointers /\ Boundaries /\ Contents /\ NeverAborts

\* Positions of newlines are positions in the stream.
LEMMA NewlinesInStream == TypeOK => newlines \in SUBSET (1..Length)
  BY LineStreamAssumption DEF TypeOK

\* Initially the buffer is empty and nothing has arrived.
LEMMA InitIInv == Init => IInv
<1> SUFFICES ASSUME Init PROVE IInv
  OBVIOUS
<1> USE LineStreamAssumption DEF Init, Offsets, Zeroed
<1>1. newlines \in SUBSET (1..Length)  OBVIOUS
<1>2. TypeOK      BY DEF TypeOK
<1>3. Pointers    BY DEF Pointers, Reading
<1>4. Boundaries  BY <1>1 DEF Boundaries, Start
<1>5. Contents    BY DEF Contents
<1> QED BY <1>2, <1>3, <1>4, <1>5 DEF IInv, NeverAborts

\* A step of the peer or the network keeps the invariant: bytes only arrive.
LEMMA NetworkStep == IInv /\ Network => IInv'
<1> SUFFICES ASSUME IInv, Network PROVE IInv'
  OBVIOUS
<1> USE LineStreamAssumption
<1> USE DEF IInv, TypeOK, Pointers, Boundaries, Contents, NeverAborts, Start,
            Reading, reader
<1>1. CASE Arrive
  <2>1. arrived' \in arrived..Length /\ UNCHANGED <<newlines, peer, reader>>
    BY <1>1 DEF Arrive
  <2> QED BY <2>1
<1>2. CASE PeerCloses \/ PeerResets
  <2>1. UNCHANGED <<newlines, arrived, reader>> /\ peer' \in {"fin", "rst"}
    BY <1>2 DEF PeerCloses, PeerResets
  <2>2. peer = "rst" => peer' = "rst"  BY <1>2 DEF PeerCloses, PeerResets
  <2> QED BY <2>1, <2>2
<1> QED BY <1>1, <1>2 DEF Network

\* A peek keeps the invariant: it asks readn for bytes that it has seen.
LEMMA PeekStep ==
  ASSUME IInv, FindNewline \/ NoNewline \/ PeekNothing \/ PeekError
  PROVE  IInv'
<1> USE LineStreamAssumption, NewlinesInStream
<1> USE DEF IInv, TypeOK, Pointers, Boundaries, Contents, NeverAborts, Start,
            Reading, Available, Seen, net
<1>1. CASE FindNewline
  <2>1. PICK p \in Visible : /\ \A q \in Visible : p <= q
                             /\ want' = p - taken
    BY <1>1 DEF FindNewline
  <2>2. p \in newlines /\ p \in Int /\ taken < p /\ p <= Seen
    BY <2>1 DEF Visible
  <2>3. \A m \in newlines : ~(taken < m /\ m < p)
    BY <2>1, <2>2 DEF Visible
  <2> QED BY <1>1, <2>1, <2>2, <2>3 DEF FindNewline
<1>2. CASE NoNewline
  <2>1. \A m \in newlines : ~(taken < m /\ m <= Seen)
    BY <1>2 DEF NoNewline, Visible
  <2> QED BY <1>2, <2>1 DEF NoNewline
<1>3. CASE PeekNothing  BY <1>3 DEF PeekNothing
<1>4. CASE PeekError    BY <1>4 DEF PeekError
<1> QED BY <1>1, <1>2, <1>3, <1>4

\* A read of n bytes extends the contents of the buffer by the next n bytes.
LEMMA CopyContents ==
  ASSUME IInv, NEW n \in Nat, n <= want, n <= Available
  PROVE  /\ Copy(n) \in [Offsets -> 0..Length]
         /\ \A o \in Offsets : o < filled + n => Copy(n)[o] = Start + 1 + o
  BY LineStreamAssumption
     DEF IInv, TypeOK, Pointers, Contents, Copy, Offsets, Available, Start

\* A read keeps the invariant.
LEMMA ReadStep ==
  ASSUME IInv, ReadPart \/ ReadFragment \/ ReadLine \/ ReadShort
  PROVE  IInv'
<1> USE LineStreamAssumption, NewlinesInStream
<1> USE DEF IInv, TypeOK, Pointers, Boundaries, NeverAborts, Start, Reading,
            Available, net
<1>1. CASE ReadPart
  <2>1. PICK n \in 1..(want - 1) :
            /\ n <= Available
            /\ buf' = Copy(n)
            /\ taken' = taken + n
            /\ filled' = filled + n
            /\ want' = want - n
    BY <1>1 DEF ReadPart
  <2>2. Contents' /\ buf' \in [Offsets -> 0..Length]
    BY <2>1, CopyContents DEF Contents
  <2> QED BY <1>1, <2>1, <2>2 DEF ReadPart
<1>2. CASE ReadFragment
  <2>1. Contents' /\ buf' \in [Offsets -> 0..Length]
    BY <1>2, CopyContents DEF ReadFragment, Contents
  <2> QED BY <1>2, <2>1 DEF ReadFragment
<1>3. CASE ReadLine
  <2>1. Contents' /\ buf' \in [Offsets -> 0..Length]
    BY <1>3 DEF ReadLine, Contents, Zeroed, Offsets
  <2> QED BY <1>3, <2>1 DEF ReadLine
<1>4. CASE ReadShort  BY <1>4 DEF ReadShort, Contents
<1> QED BY <1>1, <1>2, <1>3, <1>4

\* The invariant is inductive.
LEMMA NextIInv == IInv /\ [Next]_vars => IInv'
<1> SUFFICES ASSUME IInv, [Next]_vars PROVE IInv'
  OBVIOUS
<1>1. CASE Network   BY <1>1, NetworkStep
<1>2. CASE Readline  BY <1>2, PeekStep, ReadStep DEF Readline
<1>3. CASE UNCHANGED vars
  BY <1>3 DEF vars, net, reader, IInv, TypeOK, Pointers, Boundaries, Contents,
              NeverAborts, Start, Reading
<1> QED BY <1>1, <1>2, <1>3 DEF Next

LEMMA SpecIInv == Spec => []IInv
  BY InitIInv, NextIInv, PTL DEF Spec

\* The pointers of readline and recvbuf keep their types: it never takes more
\* than arrived.
THEOREM TypeOKHolds == Spec => []TypeOK
<1>1. IInv => TypeOK  BY DEF IInv
<1> QED BY <1>1, SpecIInv, PTL

\* readline never writes past the end of recvbuf.
THEOREM NoOverrunHolds == Spec => []NoOverrun
<1>1. IInv => NoOverrun  BY DEF IInv, Pointers, NoOverrun
<1> QED BY <1>1, SpecIInv, PTL

\* The exits on a short read in readline are reached after a reset only.
THEOREM NeverAbortsHolds == Spec => []NeverAborts
<1>1. IInv => NeverAborts  BY DEF IInv
<1> QED BY <1>1, SpecIInv, PTL

-----------------------------------------------------------------------------
(* Refinement *)

\* Returning a line is the abstract delivery of the next record.
LEMMA ReadLineDelivers == IInv /\ ReadLine => Stream!Deliver
<1> SUFFICES ASSUME IInv, ReadLine PROVE Stream!Deliver
  OBVIOUS
<1> USE LineStreamAssumption, NewlinesInStream DEF IInv, TypeOK
<1> DEFINE r == <<Start + 1, taken + want>>
<1>0. pc = "take" /\ want > 0 /\ taken + want <= arrived /\ Start \in 0..taken
  BY DEF ReadLine, Pointers, Reading, Start
<1>1. r \in Lines
  <2>1. r \in (1..Length) \X (1..Length) /\ r[1] <= r[2]  BY <1>0
  <2>2. r[1] = 1 \/ r[1] - 1 \in newlines  BY <1>0 DEF Boundaries
  <2>3. r[2] \in newlines  BY <1>0 DEF Boundaries
  <2>4. \A m \in newlines : ~(r[1] <= m /\ m < r[2])
    BY <1>0 DEF Boundaries, Start
  <2> QED BY <2>1, <2>2, <2>3, <2>4 DEF Lines
<1>2. \A q \in Lines : Start < q[1] => r[1] <= q[1]
  BY DEF Lines, Pointers, Start
<1>3. taken' - filled' = r[2]
  BY DEF ReadLine, Pointers
<1>4. delivered' = Append(delivered, [o \in 0..(r[2] - r[1]) |-> r[1] + o])
  <2>1. r[2] - r[1] = filled + want - 1
    BY DEF Pointers, Start
  <2>2. ASSUME NEW o \in 0..(filled + want - 1) PROVE Copy(want)[o] = r[1] + o
    BY CopyContents DEF ReadLine, Pointers, Start, Offsets
  <2>3. [o \in 0..(filled + want - 1) |-> Copy(want)[o]]
          = [o \in 0..(r[2] - r[1]) |-> r[1] + o]
    BY <2>1, <2>2
  <2> QED BY <2>3 DEF ReadLine
<1>5. Lines' = Lines  BY DEF ReadLine, Lines, net
<1>6. Start < r[1]  BY <1>0
<1> HIDE DEF r
<1> QED BY <1>1, <1>2, <1>3, <1>4, <1>5, <1>6 DEF Stream!Deliver, Start

\* Every other step leaves the abstract stream as it is.
LEMMA OthersStutter ==
  ASSUME IInv, [Next]_vars, ~ReadLine
  PROVE  UNCHANGED Stream!vars
<1> USE DEF IInv, TypeOK, net, reader, Stream!vars, Lines
<1>1. CASE Network
  BY <1>1 DEF Network, Arrive, PeerCloses, PeerResets
<1>2. CASE FindNewline \/ NoNewline \/ PeekNothing \/ PeekError \/ ReadShort
  BY <1>2 DEF FindNewline, NoNewline, PeekNothing, PeekError, ReadShort
<1>3. CASE ReadPart \/ ReadFragment
  BY <1>3 DEF ReadPart, ReadFragment
<1>4. CASE UNCHANGED vars  BY <1>4 DEF vars
<1> QED BY <1>1, <1>2, <1>3, <1>4 DEF Next, Readline

\* The lines come out as the stream promises: each once, whole and in order,
\* whatever the segmentation and wherever the newlines are.
THEOREM Implementation == Spec => ImplementsStream
<1>1. Init => Stream!Init
  BY DEF Init, Stream!Init
<1>2. IInv /\ [Next]_vars => [Stream!Deliver]_(Stream!vars)
  BY ReadLineDelivers, OthersStutter
<1> QED BY <1>1, <1>2, SpecIInv, PTL DEF Spec, Stream!Spec, ImplementsStream

-----------------------------------------------------------------------------
(* When the lines fit the buffer *)

\* If every line fits recvbuf, readline reports a closed peer only when the
\* peer is gone: it never runs out of room while the peer is still there.
THEOREM FittingEndsAtCloseHolds == Spec => []FittingEndsAtClose
<1> USE DEF FittingEndsAtClose, EndsOnlyAtClose
<1>1. Init => FittingEndsAtClose  BY DEF Init
<1>2. ASSUME IInv, FittingEndsAtClose, [Next]_vars PROVE FittingEndsAtClose'
  <2> SUFFICES ASSUME Fits(newlines'), pc' = "closed" PROVE peer' # "open"
    OBVIOUS
  <2> USE LineStreamAssumption, NewlinesInStream DEF IInv, TypeOK
  <2>0. newlines' = newlines
    BY <1>2 DEF Next, Network, Readline, Arrive, PeerCloses, PeerResets, FindNewline,
        NoNewline, PeekNothing, PeekError, ReadPart, ReadFragment, ReadLine, ReadShort,
        net, vars
  <2>1. CASE PeekNothing
    <3>1. CASE nleft = 0 /\ Available > 0
      <4>1. filled = MaxLine /\ Start \in 0..(Length - MaxLine + 1)
        BY <1>2, <2>1, <3>1 DEF PeekNothing, Pointers, Start, Available
      <4>2. PICK q \in newlines : Start < q /\ q <= Start + MaxLine - 1
        BY <1>2, <2>0, <4>1 DEF Fits
      <4> QED BY <1>2, <4>1, <4>2 DEF Boundaries, Start
    <3> QED BY <1>2, <2>1, <3>1 DEF PeekNothing, net
  <2>2. CASE Network
    BY <1>2, <2>0, <2>2 DEF Network, Arrive, PeerCloses, PeerResets, reader
  <2>3. CASE FindNewline \/ NoNewline \/ PeekError
    BY <1>2, <2>0, <2>3 DEF FindNewline, NoNewline, PeekError
  <2>4. CASE ReadPart \/ ReadFragment \/ ReadLine \/ ReadShort
    BY <1>2, <2>0, <2>4 DEF ReadPart, ReadFragment, ReadLine, ReadShort, Reading, net
  <2>5. CASE UNCHANGED vars  BY <1>2, <2>0, <2>5 DEF vars, net, reader
  <2> QED BY <1>2, <2>1, <2>2, <2>3, <2>4, <2>5 DEF Next, Readline
<1> QED BY <1>1, <1>2, SpecIInv, PTL DEF Spec

-----------------------------------------------------------------------------
(* The readline that leaves fragments in the socket (PeekLine) *)

\* Between a peek and the read that follows it: the bytes to be read have
\* arrived, they end with the next newline, and the peek has copied them to
\* the place the read will write them to.
PLFound ==
    pc = "take" =>
        /\ want > 0 /\ taken + want <= arrived /\ count + want <= MaxLine
        /\ taken + want \in newlines
        /\ \A m \in newlines : ~(taken < m /\ m < taken + want)
        /\ \A i \in 1..want : buf[count + i - 1] = taken + i

\* If no segment ends within a line, what has arrived ends with a newline, and
\* if the lines also fit, no peek misses one: pbuf stays where it was.
Unsplit ==
    /\ whole => arrived \in {0} \cup newlines
    /\ whole /\ Fits(newlines) => count = 0

\* What a call may return: no more than the buffer holds.
Returnable == UNION { [0..(n - 1) -> 0..Length] : n \in 1..MaxLine }

PLIInv ==
    /\ PLTypeOK /\ delivered \in Seq(Returnable)
    /\ AtLineStart /\ PLFound /\ Unsplit

\* Positions of newlines are positions in the stream, here too.
LEMMA PLNewlinesInStream == PLTypeOK => newlines \in SUBSET (1..Length)
  BY LineStreamAssumption DEF PLTypeOK

\* Initially nothing has arrived and nothing has been read.
LEMMA PLInitIInv == PLInit => PLIInv
  BY LineStreamAssumption
     DEF PLInit, PLIInv, PLTypeOK, AtLineStart, PLFound, Unsplit, Offsets, Zeroed

\* A peek writes positions of the stream; the bytes it saw are in the buffer,
\* from pbuf on and in their order.
LEMMA PLCopyContents ==
  ASSUME PLTypeOK, InRoom
  PROVE  /\ PLCopy \in [Offsets -> 0..Length]
         /\ \A i \in 1..Peeked : PLCopy[count + i - 1] = taken + i
  BY LineStreamAssumption DEF PLTypeOK, PLCopy, InRoom, Peeked, Available, Offsets

\* If the lines fit and none is split, a peek that sees anything sees a newline.
LEMMA NewlineInSight ==
  ASSUME PLIInv, whole, Fits(newlines), Peeked > 0
  PROVE  PLVisible # {}
<1> USE LineStreamAssumption, PLNewlinesInStream
<1> USE DEF PLIInv, PLTypeOK, Peeked, Available, PLVisible
<1>1. arrived \in newlines /\ taken < arrived
  BY DEF Unsplit
<1>2. CASE MaxLine < Available
  <2>1. taken \in 0..(Length - MaxLine + 1)
    BY <1>2
  <2>2. PICK q \in newlines : taken < q /\ q <= taken + MaxLine - 1
    BY <2>1 DEF Fits
  <2> QED BY <1>2, <2>2
<1>3. CASE ~(MaxLine < Available)
  BY <1>1, <1>3
<1> QED BY <1>2, <1>3

\* A step of the peer or the network: bytes arrive, at whole lines if none is
\* split.
LEMMA PLNetworkStep == PLIInv /\ PLNetwork => PLIInv'
<1> SUFFICES ASSUME PLIInv, PLNetwork PROVE PLIInv'
  OBVIOUS
<1> USE LineStreamAssumption
<1> USE DEF PLIInv, PLTypeOK, AtLineStart, PLFound, Unsplit, plReader
<1>1. CASE PLArrive
  <2>1. /\ arrived' \in arrived..Length
        /\ whole => arrived' \in newlines
        /\ UNCHANGED <<newlines, whole, peer, plReader>>
    BY <1>1 DEF PLArrive
  <2>2. PLTypeOK' /\ delivered' \in Seq(Returnable)  BY <2>1
  <2>3. AtLineStart' /\ Unsplit'                     BY <2>1
  <2>4. PLFound'
    <3>1. pc = "take" => taken + want <= arrived /\ taken + want <= arrived'
      BY <2>1, PLNewlinesInStream
    <3> QED BY <2>1, <3>1
  <2> QED BY <2>2, <2>3, <2>4
<1>2. CASE PeerEnds  BY <1>2 DEF PeerEnds
<1> QED BY <1>1, <1>2 DEF PLNetwork

\* A peek that finds a newline makes readn stop at it.
LEMMA PLFindNewlineStep == PLIInv /\ PLFindNewline => PLIInv'
<1> SUFFICES ASSUME PLIInv, PLFindNewline PROVE PLIInv'
  OBVIOUS
<1> USE LineStreamAssumption, PLNewlinesInStream DEF PLIInv, PLTypeOK
<1>1. PICK p \in PLVisible : /\ \A q \in PLVisible : p <= q
                             /\ want' = p - taken
  BY DEF PLFindNewline
<1>2. /\ p \in newlines /\ p \in Int /\ taken < p
      /\ p <= taken + Peeked /\ p <= arrived
  BY <1>1 DEF PLVisible, Peeked, Available
<1>3. \A m \in newlines : ~(taken < m /\ m < p)
  BY <1>1, <1>2 DEF PLVisible, Peeked, Available
<1>4. /\ want' \in 1..Peeked /\ Peeked \in 0..MaxLine
      /\ count + want' <= MaxLine /\ taken + want' = p
  <2>1. Peeked \in 0..MaxLine                BY DEF Peeked, Available
  <2>2. count + Peeked <= MaxLine            BY DEF PLFindNewline, InRoom
  <2>3. count \in Nat /\ taken \in Nat       OBVIOUS
  <2> HIDE DEF PLIInv, PLTypeOK
  <2> QED BY <1>1, <1>2, <2>1, <2>2, <2>3
<1>5. /\ buf' \in [Offsets -> 0..Length]
      /\ \A i \in 1..Peeked : buf'[count + i - 1] = taken + i
  BY PLCopyContents DEF PLFindNewline
<1>6. pc' = "take" /\ UNCHANGED <<plNet, taken, count, ret, delivered>>
  BY DEF PLFindNewline
<1>7. PLTypeOK' /\ delivered' \in Seq(Returnable)
  <2>1. want' \in 0..MaxLine  BY <1>4
  <2> QED BY <1>5, <1>6, <2>1 DEF plNet
<1>8. AtLineStart'  BY <1>6 DEF AtLineStart, plNet
<1>9. PLFound'
  <2> HIDE DEF PLIInv, PLTypeOK
  <2>1. want' > 0 /\ taken + want' <= arrived /\ count + want' <= MaxLine
    BY <1>2, <1>4
  <2>2. /\ taken + want' \in newlines
        /\ \A m \in newlines : ~(taken < m /\ m < taken + want')
    BY <1>2, <1>3, <1>4
  <2>3. \A i \in 1..want' : i \in 1..Peeked
    BY <1>4
  <2>4. \A i \in 1..want' : buf'[count + i - 1] = taken + i
    BY <1>5, <2>3
  <2>5. /\ newlines' = newlines /\ arrived' = arrived
        /\ taken' = taken /\ count' = count
    BY <1>6 DEF plNet
  <2> QED BY <2>1, <2>2, <2>4, <2>5 DEF PLFound
<1>10. Unsplit'     BY <1>6 DEF Unsplit, plNet
<1> QED BY <1>7, <1>8, <1>9, <1>10

\* A peek at a fragment moves pbuf on, which whole and fitting lines exclude.
LEMMA PLNoNewlineStep == PLIInv /\ PLNoNewline => PLIInv'
<1> SUFFICES ASSUME PLIInv, PLNoNewline PROVE PLIInv'
  OBVIOUS
<1> USE LineStreamAssumption DEF PLIInv
<1>1. ~(whole /\ Fits(newlines))
  BY NewlineInSight DEF PLNoNewline
<1>2. UNCHANGED <<plNet, taken, want, ret, pc, delivered>>
  BY DEF PLNoNewline
<1>3. PLTypeOK' /\ delivered' \in Seq(Returnable)
  <2>1. buf' \in [Offsets -> 0..Length]
    BY PLCopyContents DEF PLNoNewline
  <2>2. count' \in 0..MaxLine
    BY DEF PLNoNewline, InRoom, PLTypeOK, Peeked, Available
  <2> QED BY <1>2, <2>1, <2>2 DEF PLTypeOK, plNet
<1>4. AtLineStart' /\ Unsplit'
  BY <1>1, <1>2 DEF AtLineStart, Unsplit, plNet
<1>5. PLFound'
  BY <1>2 DEF PLNoNewline, PLFound
<1> QED BY <1>3, <1>4, <1>5

\* A read returns a part of the buffer, and there is something in it.
LEMMA PLReadLineReturns ==
  ASSUME PLIInv, PLReadLine
  PROVE  /\ [o \in 0..(want + count - 1) |-> buf[o]] \in Returnable
         /\ delivered' \in Seq(Returnable)
<1> USE LineStreamAssumption DEF PLIInv
<1>1. want + count \in 1..MaxLine /\ count \in Nat /\ want \in Nat
  BY DEF PLReadLine, PLFound, PLTypeOK
<1>2. [o \in 0..(want + count - 1) |-> buf[o]] \in [0..(want + count - 1) -> 0..Length]
  BY <1>1 DEF PLTypeOK, Offsets
<1>3. [o \in 0..(want + count - 1) |-> buf[o]] \in Returnable
  BY <1>1, <1>2 DEF Returnable
<1> QED BY <1>3 DEF PLReadLine

\* A read of a whole line leaves the socket at the beginning of the next.
LEMMA PLReadLineStep == PLIInv /\ PLReadLine => PLIInv'
<1> SUFFICES ASSUME PLIInv, PLReadLine PROVE PLIInv'
  OBVIOUS
<1>1. delivered' \in Seq(Returnable)  BY PLReadLineReturns
<1> QED
  BY <1>1, LineStreamAssumption, PLNewlinesInStream
     DEF PLIInv, PLTypeOK, AtLineStart, PLFound, Unsplit, PLReadLine, Zeroed, Offsets, plNet

\* The invariant is inductive.
LEMMA PLNextIInv == PLIInv /\ [PLNext]_plVars => PLIInv'
<1> SUFFICES ASSUME PLIInv, [PLNext]_plVars PROVE PLIInv'
  OBVIOUS
<1>1. CASE PeekOverruns \/ PeekFails
  BY <1>1, LineStreamAssumption
     DEF PeekOverruns, PeekFails, PLIInv, PLTypeOK, AtLineStart, PLFound, Unsplit, plNet
<1>2. CASE UNCHANGED plVars
  BY <1>2 DEF plVars, plNet, plReader, PLIInv, PLTypeOK, AtLineStart, PLFound, Unsplit
<1> QED BY <1>1, <1>2, PLNetworkStep, PLFindNewlineStep, PLNoNewlineStep, PLReadLineStep
        DEF PLNext, PLReadline

LEMMA PLSpecIInv == PLSpec => []PLIInv
  BY PLInitIInv, PLNextIInv, PTL DEF PLSpec

\* Even when fragments make it count bytes twice, readline keeps its pointers
\* in recvbuf or leaves it by the one step that says so.
THEOREM PLTypeOKHolds == PLSpec => []PLTypeOK
<1>1. PLIInv => PLTypeOK  BY DEF PLIInv
<1> QED BY <1>1, PLSpecIInv, PTL

\* Between two calls the socket is at the beginning of a line, fragments or not.
THEOREM AtLineStartHolds == PLSpec => []AtLineStart
<1>1. PLIInv => AtLineStart  BY DEF PLIInv
<1> QED BY <1>1, PLSpecIInv, PTL

\* Only a read changes what has been delivered.
LEMMA OnlyReadsDeliver ==
  ASSUME [PLNext]_plVars, ~PLReadLine
  PROVE  delivered' = delivered
  BY DEF PLNext, PLNetwork, PLReadline, PLArrive, PeerEnds, PLFindNewline, PLNoNewline,
         PeekOverruns, PeekFails, plVars, plReader

\* The buffer a call returns ends with all the bytes it has taken from the
\* socket, in order, however many copies of fragments precede them.
THEOREM EndsWithTheLineHolds == PLSpec => EndsWithTheLine
<1> DEFINE Ends == delivered' # delivered =>
                     LET line == delivered'[Len(delivered')]
                         n    == taken' - taken
                     IN  \A i \in 1..n : line[count + i - 1] = taken + i
<1>1. PLIInv /\ [PLNext]_plVars => [Ends]_plVars
  <2> SUFFICES ASSUME PLIInv, [PLNext]_plVars, delivered' # delivered PROVE Ends
    BY DEF plVars, plReader
  <2> USE LineStreamAssumption
  <2> DEFINE returned == [o \in 0..(want + count - 1) |-> buf[o]]
  <2>1. PLReadLine  BY OnlyReadsDeliver
  <2>2. /\ delivered' = Append(delivered, returned)
        /\ returned \in Returnable /\ delivered \in Seq(Returnable)
    BY <2>1, PLReadLineReturns DEF PLReadLine, PLIInv
  <2>3. \A i \in 1..want : returned[count + i - 1] = taken + i
    <3>1. /\ \A i \in 1..want : buf[count + i - 1] = taken + i
          /\ want \in Nat /\ count \in Nat
      BY <2>1 DEF PLReadLine, PLIInv, PLFound, PLTypeOK
    <3>2. \A i \in 1..want : count + i - 1 \in 0..(want + count - 1)
      BY <3>1
    <3> QED BY <3>1, <3>2
  <2>4. taken' - taken = want
    BY <2>1 DEF PLReadLine, PLIInv, PLTypeOK
  <2> HIDE DEF returned
  <2>5. delivered'[Len(delivered')] = returned  BY <2>2
  <2> QED BY <2>3, <2>4, <2>5
<1> QED BY <1>1, PLSpecIInv, PTL DEF PLSpec, EndsWithTheLine

\* Where lines arrive whole and fit the buffer, a read is the delivery of the
\* next record of the abstract stream: pbuf has not moved.
LEMMA PLReadLineDelivers ==
  ASSUME PLIInv, PLReadLine, whole, Fits(newlines)
  PROVE  PLStream!Deliver
<1> USE LineStreamAssumption, PLNewlinesInStream DEF PLIInv
<1> DEFINE r == <<taken + 1, taken + want>>
<1>1. /\ pc = "take" /\ count = 0 /\ want > 0 /\ taken + want \in newlines
      /\ \A m \in newlines : ~(taken < m /\ m < taken + want)
      /\ taken \in Nat /\ want \in Nat /\ taken + want \in 1..Length
      /\ newlines \subseteq 1..Length
  BY DEF PLReadLine, PLFound, PLTypeOK, Unsplit
<1>2. r \in Lines
  BY <1>1 DEF Lines, AtLineStart
<1>3. \A q \in Lines : taken < q[1] => r[1] <= q[1]
  BY <1>1 DEF Lines
<1>4. taken' = r[2]
  BY DEF PLReadLine
<1>5. delivered' = Append(delivered, [o \in 0..(r[2] - r[1]) |-> r[1] + o])
  <2>1. r[2] - r[1] = want + count - 1
    BY <1>1
  <2>2. ASSUME NEW o \in 0..(want + count - 1) PROVE buf[o] = r[1] + o
    <3>1. o + 1 \in 1..want /\ count + (o + 1) - 1 = o /\ taken + (o + 1) = r[1] + o
      BY <1>1
    <3> QED BY <1>1, <3>1 DEF PLFound
  <2>3. [o \in 0..(want + count - 1) |-> buf[o]] = [o \in 0..(r[2] - r[1]) |-> r[1] + o]
    BY <2>1, <2>2
  <2> QED BY <2>3 DEF PLReadLine
<1>6. Lines' = Lines  BY DEF PLReadLine, Lines, plNet
<1>7. taken < r[1]  BY <1>1
<1> HIDE DEF r
<1> QED BY <1>2, <1>3, <1>4, <1>5, <1>6, <1>7 DEF PLStream!Deliver

\* The defect needs a fragment to show: as long as lines arrive whole and fit,
\* every call that returns a line takes the abstract stream one record further.
THEOREM WholeLinesDeliveredHolds == PLSpec => WholeLinesDelivered
<1>1. ASSUME PLIInv, [PLNext]_plVars
      PROVE  [whole /\ Fits(newlines) /\ delivered' # delivered => PLStream!Deliver]_plVars
  BY <1>1, OnlyReadsDeliver, PLReadLineDelivers
<1>2. PLIInv /\ [PLNext]_plVars =>
        [whole /\ Fits(newlines) /\ delivered' # delivered => PLStream!Deliver]_plVars
  BY <1>1
<1> QED BY <1>2, PLSpecIInv, PTL DEF PLSpec, WholeLinesDelivered
=============================================================================
