---------------------------- MODULE FrameReader ----------------------------
(***************************************************************************)
(* Receiving length-prefixed frames from a TCP stream: sockSrvRecv of      *)
(* socket/multforkframe/sockSrv.c on readn of sockUtil.c, called in the    *)
(* loop of the server (sockCltRecv and tcp7 read in the same way).         *)
(*                                                                         *)
(* The first readn fetches the header, the second as many bytes as the     *)
(* header says.  A frame is known by the position of its last byte; a      *)
(* header names the end of the frame it begins, if the four bytes that     *)
(* were read are those of one header.  read_timeout, which always returns  *)
(* 0, changes nothing, and a read interrupted by a signal is repeated.     *)
(***************************************************************************)
EXTENDS Integers, Sequences

CONSTANTS Length,      \* the most bytes the peer sends
          HeaderSize,  \* sizeof(int)
          BufSize,     \* sizeof(recvbuf)
          Layouts      \* ways to frame the stream: sets of frame ends

\* Frames have a header and at least one byte (sockSrvSend refuses inlen <= 0
\* and no sender of the repository exceeds the buffer); the peer may stop
\* anywhere in a stream, so that the last frame may be cut.
Framed(es) ==
    /\ es \in SUBSET (1..Length)
    /\ \A b \in {0} \cup es : b < Length =>
          \E e \in es : /\ b + HeaderSize < e /\ e <= b + HeaderSize + BufSize
                        /\ \A m \in es : b < m => e <= m

ASSUME FrameReaderAssumption ==
    /\ Length \in Nat
    /\ HeaderSize \in Nat \ {0}
    /\ BufSize \in Nat \ {0}
    /\ \A es \in Layouts : Framed(es)

VARIABLES ends,       \* positions of the last bytes of the frames
          arrived,    \* bytes that have reached the receive buffer of the socket
          peer,       \* the peer's end: open, closed by a FIN, or reset
          taken,      \* bytes read from the socket
          len,        \* the bytes of the header, by offset: 0 is not yet read
          buf,        \* recvbuf, by offset
          hgot,       \* header bytes of the current frame read so far
          filled,     \* payload bytes read so far
          want,       \* bytes readn still has to read
          pc,
          delivered   \* the frames returned to the caller

net    == <<ends, arrived, peer>>
reader == <<taken, len, buf, hgot, filled, want, pc, delivered>>
vars   == <<net, reader>>

HeaderOffsets == 0..(HeaderSize - 1)
Offsets       == 0..(BufSize - 1)

TypeOK ==
    /\ ends \in Layouts
    /\ arrived \in 0..Length
    /\ peer \in {"open", "fin", "rst"}
    /\ taken \in 0..arrived
    /\ len \in [HeaderOffsets -> 0..Length]
    /\ buf \in [Offsets -> 0..Length]
    /\ hgot \in 0..HeaderSize
    /\ filled \in 0..BufSize
    /\ want \in Nat
    /\ pc \in {"header", "decode", "payload", "closed", "error"}

Init ==
    /\ ends \in Layouts
    /\ arrived = 0
    /\ peer = "open"
    /\ taken = 0
    /\ len = [o \in HeaderOffsets |-> 0]
    /\ buf = [o \in Offsets |-> 0]
    /\ hgot = 0
    /\ filled = 0
    /\ want = HeaderSize
    /\ pc = "header"
    /\ delivered = <<>>

-----------------------------------------------------------------------------
(* The peer and the network *)

Arrive ==
    /\ peer = "open"
    /\ \E n \in arrived + 1 .. Length : arrived' = n
    /\ UNCHANGED <<ends, peer, reader>>

PeerCloses ==
    /\ peer = "open"
    /\ peer' = "fin"
    /\ UNCHANGED <<ends, arrived, reader>>

\* After a reset the reader may get what has arrived before the error, or the
\* error at once.  A reset that follows a FIN changes nothing for the reader.
PeerResets ==
    /\ peer = "open"
    /\ peer' = "rst"
    /\ UNCHANGED <<ends, arrived, reader>>

-----------------------------------------------------------------------------
(* sockSrvRecv *)

Available == arrived - taken

\* Mutant: every read goes to the start of the memory.
CopyToStart(m, from, n) == [o \in DOMAIN m |-> IF o < n THEN taken + 1 + o ELSE m[o]]

\* Memory m after a read of n bytes to offset from.
Copy(m, from, n) ==
    [o \in DOMAIN m |-> IF from <= o /\ o < from + n
                        THEN taken + 1 + (o - from)
                        ELSE m[o]]

\* Mutant: the pointer is not advanced between two reads of the header.
ReadHeaderStuck ==
    /\ pc = "header"
    /\ \E n \in 1..want :
          /\ n <= Available
          /\ len' = Copy(len, 0, n)
          /\ taken' = taken + n
          /\ hgot' = hgot + n
          /\ want' = want - n
          /\ pc' = IF n = want THEN "decode" ELSE "header"
    /\ UNCHANGED <<net, buf, filled, delivered>>

ReadHeader ==
    /\ pc = "header"
    /\ \E n \in 1..want :
          /\ n <= Available
          /\ len' = Copy(len, hgot, n)
          /\ taken' = taken + n
          /\ hgot' = hgot + n
          /\ want' = want - n
          /\ pc' = IF n = want THEN "decode" ELSE "header"
    /\ UNCHANGED <<net, buf, filled, delivered>>

\* The header in len is the one of the frame that begins after position b.
HeaderAt(b) == len = [o \in HeaderOffsets |-> b + 1 + o]

\* Mutant: the length in the header is taken for that of header and payload.
DecodeWholeFrame ==
    /\ pc = "decode"
    /\ \E b \in {0} \cup ends, e \in ends :
          /\ HeaderAt(b)
          /\ b < e /\ \A m \in ends : b < m => e <= m
          /\ want' = e - b
    /\ pc' = "payload"
    /\ UNCHANGED <<net, taken, len, buf, hgot, filled, delivered>>

\* len = ntohl(len)
Decode ==
    /\ pc = "decode"
    /\ \E b \in {0} \cup ends, e \in ends :
          /\ HeaderAt(b)
          /\ b < e /\ \A m \in ends : b < m => e <= m
          /\ want' = e - b - HeaderSize
    /\ pc' = "payload"
    /\ UNCHANGED <<net, taken, len, buf, hgot, filled, delivered>>

\* A read that returns less than what was asked for.
ReadPart ==
    /\ pc = "payload"
    /\ \E n \in 1..(want - 1) :
          /\ n <= Available
          /\ buf' = Copy(buf, filled, n)
          /\ taken' = taken + n
          /\ filled' = filled + n
          /\ want' = want - n
    /\ UNCHANGED <<net, len, hgot, pc, delivered>>

\* The read that completes the frame; the server receives the next one.
ReadFrame ==
    /\ pc = "payload" /\ want <= Available
    /\ delivered' = Append(delivered,
                           [o \in 0..(filled + want - 1) |-> Copy(buf, filled, want)[o]])
    /\ taken' = taken + want
    /\ buf' = Copy(buf, filled, want)
    /\ hgot' = 0
    /\ filled' = 0
    /\ want' = HeaderSize
    /\ pc' = "header"
    /\ UNCHANGED <<net, len>>

\* readn comes back short at the end of the stream: SOCK_ERROR_PEER_CLOSED.
PeerClosed ==
    /\ pc \in {"header", "payload"}
    /\ peer = "fin" /\ Available = 0
    /\ pc' = "closed"
    /\ UNCHANGED <<net, taken, len, buf, hgot, filled, want, delivered>>

ReadError ==
    /\ pc \in {"header", "payload"}
    /\ peer = "rst"
    /\ pc' = "error"
    /\ UNCHANGED <<net, taken, len, buf, hgot, filled, want, delivered>>

-----------------------------------------------------------------------------
Network == Arrive \/ PeerCloses \/ PeerResets
Receive ==
    \/ ReadHeader \/ Decode \/ ReadPart \/ ReadFrame
    \/ PeerClosed \/ ReadError

Next == Network \/ Receive

Spec == Init /\ [][Next]_vars

\* The reader is scheduled; nothing is assumed of the peer or the network.
FairSpec == Spec /\ WF_vars(Receive)

-----------------------------------------------------------------------------
(* Properties *)

Frames ==
    { r \in (1..Length) \X (1..Length) :
        /\ r[1] <= r[2]
        /\ r[1] - HeaderSize - 1 \in {0} \cup ends
        /\ r[2] \in ends
        /\ \A m \in ends : ~(r[1] - HeaderSize <= m /\ m < r[2]) }

Stream == INSTANCE RecordStream
              WITH records <- Frames, consumed <- taken - hgot - filled

\* sockSrvRecv implements the abstract record stream on the payloads: each
\* once, whole, in order, however the bytes are segmented.
ImplementsStream == Stream!Spec

\* The reader never loses the framing, wherever header and payload are cut: the
\* bytes it has for a header follow the end of a frame, and they are the whole
\* header when it decodes them; what readn then waits for ends where that frame
\* ends, and fits in what is left of recvbuf.
FramingKept ==
    /\ pc = "header" => taken - hgot \in {0} \cup ends
    /\ pc = "decode" => /\ taken - HeaderSize \in {0} \cup ends
                        /\ HeaderAt(taken - HeaderSize)
    /\ pc = "payload" => taken + want \in ends /\ filled + want <= BufSize

\* Every frame that arrives completely is delivered, if no reset intervenes.
AllDelivered ==
    \A e \in 1..Length :
        (e \in ends /\ e <= arrived) ~> (taken - hgot - filled >= e \/ peer = "rst")
=============================================================================
