------------------------------ MODULE PeekLine ------------------------------
(***************************************************************************)
(* readline of socket/utils/sockUtil.c (and of sockUtil.h of the select,   *)
(* poll, epoll and kqueue servers), called in a loop on one connection     *)
(* with a buffer that is zeroed before every call.                         *)
(*                                                                         *)
(* Unlike the readline of tcp8 and tcp9, this one does not read the bytes  *)
(* it has peeked at when there is no newline among them: it only moves     *)
(* pbuf and count on and peeks at the same bytes again, behind the first   *)
(* copy.  recv_peek tests 1 == ret where an interrupted recv returns -1;   *)
(* its callers install no signal handler, so that errno is never EINTR and *)
(* the test never holds.                                                   *)
(***************************************************************************)
EXTENDS LineStream

VARIABLES whole,   \* TRUE if no segment ends within a line
          count,   \* pbuf - buf, the bytes readline believes to have read
          ret      \* what the last call returned

plNet    == <<newlines, whole, arrived, peer>>
plReader == <<taken, buf, count, want, ret, pc, delivered>>
plVars   == <<plNet, plReader>>

PLTypeOK ==
    /\ newlines \in Layouts
    /\ whole \in BOOLEAN
    /\ arrived \in 0..Length
    /\ peer \in {"open", "fin", "rst"}
    /\ taken \in 0..arrived
    /\ buf \in [Offsets -> 0..Length]
    /\ count \in 0..MaxLine
    /\ want \in 0..MaxLine
    /\ ret \in -1..(2 * MaxLine)
    /\ pc \in {"peek", "take", "ended", "overrun"}

PLInit ==
    /\ newlines \in Layouts
    /\ whole \in BOOLEAN
    /\ arrived = 0
    /\ peer = "open"
    /\ taken = 0
    /\ buf = Zeroed
    /\ count = 0
    /\ want = 0
    /\ ret = 0
    /\ pc = "peek"
    /\ delivered = <<>>

-----------------------------------------------------------------------------
PLArrive ==
    /\ peer = "open"
    /\ \E n \in arrived + 1 .. Length :
          /\ whole => n \in newlines
          /\ arrived' = n
    /\ UNCHANGED <<newlines, whole, peer, plReader>>

\* After a reset what has arrived may still be read, or the error comes at
\* once; a reset that follows a FIN changes nothing for the reader.
PeerEnds ==
    /\ peer = "open"
    /\ peer' \in {"fin", "rst"}
    /\ UNCHANGED <<newlines, whole, arrived, plReader>>

-----------------------------------------------------------------------------
(* recv_peek: nleft is never reduced, every peek asks for MaxLine bytes *)

Peeked     == IF MaxLine < Available THEN MaxLine ELSE Available
PLVisible  == {p \in newlines : taken < p /\ p <= taken + Peeked}

\* Mutant: pbuf is not moved on after a fragment.
PLCopyToStart == [o \in Offsets |-> IF o < Peeked THEN taken + 1 + o ELSE buf[o]]

\* recvbuf after a peek at pbuf.
PLCopy == [o \in Offsets |-> IF count <= o /\ o < count + Peeked
                           THEN taken + 1 + (o - count)
                           ELSE buf[o]]

InRoom == count + Peeked <= MaxLine

\* Mutant: the search for the newline runs from the end.
FindLastNewline ==
    /\ pc = "peek" /\ InRoom
    /\ \E p \in PLVisible :
          /\ \A q \in PLVisible : q <= p
          /\ want' = p - taken
    /\ buf' = PLCopy
    /\ pc' = "take"
    /\ UNCHANGED <<plNet, taken, count, ret, delivered>>

PLFindNewline ==
    /\ pc = "peek" /\ InRoom
    /\ \E p \in PLVisible :
          /\ \A q \in PLVisible : p <= q
          /\ want' = p - taken
    /\ buf' = PLCopy
    /\ pc' = "take"
    /\ UNCHANGED <<plNet, taken, count, ret, delivered>>

\* pbuf += nread; count += nread; and the bytes stay in the socket.
PLNoNewline ==
    /\ pc = "peek" /\ InRoom
    /\ Peeked > 0 /\ PLVisible = {}
    /\ buf' = PLCopy
    /\ count' = count + Peeked
    /\ UNCHANGED <<plNet, taken, want, ret, pc, delivered>>

\* The peek writes behind the end of recvbuf; nothing is known from here on.
PeekOverruns ==
    /\ pc = "peek" /\ ~InRoom
    /\ pc' = "overrun"
    /\ UNCHANGED <<plNet, taken, buf, count, want, ret, delivered>>

\* End of the stream: 0; an error: -1, also when readn meets it.
PeekFails ==
    /\ \/ pc = "peek" /\ peer = "fin" /\ Available = 0 /\ ret' = 0
       \/ pc \in {"peek", "take"} /\ peer = "rst" /\ ret' = -1
    /\ pc' = "ended"
    /\ UNCHANGED <<plNet, taken, buf, count, want, delivered>>

\* Mutant: the line is returned from the peek, readn is forgotten.
ReadLineTwice ==
    /\ pc = "take"
    /\ ret' = want + count
    /\ buf' = Zeroed
    /\ count' = 0
    /\ want' = 0
    /\ pc' = "peek"
    /\ UNCHANGED <<plNet, taken, delivered>>

\* readn(fd, pbuf, i + 1), all of which has been seen; return ret + count.
\* (The bytes of one read land where the peek has already copied them.)  The
\* caller uses the buffer, zeroes it and calls again.
PLReadLine ==
    /\ pc = "take"
    /\ taken' = taken + want
    /\ ret' = want + count
    /\ delivered' = Append(delivered, [o \in 0..(want + count - 1) |-> buf[o]])
    /\ buf' = Zeroed
    /\ count' = 0
    /\ want' = 0
    /\ pc' = "peek"
    /\ UNCHANGED plNet

-----------------------------------------------------------------------------
PLNetwork  == PLArrive \/ PeerEnds
PLReadline == PLFindNewline \/ PLNoNewline \/ PeekOverruns \/ PeekFails \/ PLReadLine

PLNext == PLNetwork \/ PLReadline

PLSpec == PLInit /\ [][PLNext]_plVars

\* The reader is scheduled; nothing is assumed of the peer or the network.
PLFairSpec == PLSpec /\ WF_plVars(PLReadline)

-----------------------------------------------------------------------------
(* Properties *)

PLStream == INSTANCE RecordStream WITH records <- Lines, consumed <- taken

\* When lines arrive whole and fit, a call delivers the next record of the
\* abstract stream and nothing else: the defect needs a fragment to show.
WholeLinesDelivered ==
    [][whole /\ Fits(newlines) /\ delivered' # delivered => PLStream!Deliver]_plVars

\* readline returns the number of bytes it has read, says its comment.  It does
\* not after a fragment.
ReturnsBytesRead ==
    [][pc = "take" /\ pc' = "peek" => ret' = taken' - taken]_plVars

\* Between two calls the socket is at the beginning of a line, fragments or
\* not: no byte is read that is not returned, and none is left behind.
AtLineStart == taken \in {0} \cup newlines

\* What a call returns ends with the complete line, even after fragments.
EndsWithTheLine ==
    [][delivered' # delivered =>
          LET line == delivered'[Len(delivered')]
              n    == taken' - taken
          IN  \A i \in 1..n : line[count + i - 1] = taken + i]_plVars

\* Every line that arrives is returned, if lines arrive whole and fit and no
\* reset intervenes.
PLAllDelivered ==
    \A p \in 1..Length :
        (whole /\ Fits(newlines) /\ p \in newlines /\ p <= arrived)
            ~> (taken >= p \/ peer = "rst")
=============================================================================
