----------------------------- MODULE LineReader -----------------------------
(***************************************************************************)
(* Receiving newline-terminated lines from a TCP stream: recv_peek, readn  *)
(* and readline of socket/tcp9/server.c (tcp8 has the same ones), called   *)
(* in a loop with a buffer that is zeroed before every call.               *)
(*                                                                         *)
(* readline peeks at what has arrived.  If there is a newline it reads up  *)
(* to it and returns; otherwise it reads everything it saw and goes on     *)
(* with the rest of the buffer.  readn may need several reads.  A peek or  *)
(* a read interrupted by a signal is repeated, which changes no state.     *)
(***************************************************************************)
EXTENDS LineStream

VARIABLES filled,   \* pbuf - buf
          nleft     \* readline's room left

net    == <<newlines, arrived, peer>>
reader == <<taken, buf, filled, nleft, want, pc, delivered>>
vars   == <<net, reader>>

TypeOK ==
    /\ newlines \in Layouts
    /\ arrived \in 0..Length
    /\ peer \in {"open", "fin", "rst"}
    /\ taken \in 0..arrived
    /\ buf \in [Offsets -> 0..Length]
    /\ filled \in 0..MaxLine
    /\ nleft \in 0..MaxLine
    /\ want \in 0..MaxLine
    /\ pc \in {"peek", "take", "drain", "closed", "error", "aborted"}

Init ==
    /\ newlines \in Layouts
    /\ arrived = 0
    /\ peer = "open"
    /\ taken = 0
    /\ buf = Zeroed
    /\ filled = 0
    /\ nleft = MaxLine
    /\ want = 0
    /\ pc = "peek"
    /\ delivered = <<>>

-----------------------------------------------------------------------------
(* The peer and the network *)

Arrive ==
    /\ peer = "open"
    /\ \E n \in arrived + 1 .. Length : arrived' = n
    /\ UNCHANGED <<newlines, peer, reader>>

PeerCloses ==
    /\ peer = "open"
    /\ peer' = "fin"
    /\ UNCHANGED <<newlines, arrived, reader>>

\* After a reset the reader may get what has arrived before the error, or the
\* error at once.  A reset that follows a FIN changes nothing for the reader:
\* what has arrived and then 0.
PeerResets ==
    /\ peer = "open"
    /\ peer' = "rst"
    /\ UNCHANGED <<newlines, arrived, reader>>

-----------------------------------------------------------------------------
(* recv_peek and the search for a newline in what it saw *)

Seen      == taken + (IF nleft < Available THEN nleft ELSE Available)
Visible   == {p \in newlines : taken < p /\ p <= Seen}

\* Mutant: the newline itself is left in the socket.
FindNewlineShort ==
    /\ pc = "peek"
    /\ \E p \in Visible :
          /\ \A q \in Visible : p <= q
          /\ want' = p - taken - 1
    /\ want' > 0
    /\ pc' = "take"
    /\ UNCHANGED <<net, taken, buf, filled, nleft, delivered>>

FindNewline ==
    /\ pc = "peek"
    /\ \E p \in Visible :
          /\ \A q \in Visible : p <= q
          /\ want' = p - taken
    /\ pc' = "take"
    /\ UNCHANGED <<net, taken, buf, filled, nleft, delivered>>

NoNewline ==
    /\ pc = "peek"
    /\ Seen > taken /\ Visible = {}
    /\ want' = Seen - taken
    /\ nleft' = nleft - want'
    /\ pc' = "drain"
    /\ UNCHANGED <<net, taken, buf, filled, delivered>>

\* recv returns 0: at the end of the stream; but also when asked for 0 bytes,
\* once there is something it could have read.
PeekNothing ==
    /\ pc = "peek"
    /\ \/ peer = "fin" /\ Available = 0
       \/ nleft = 0 /\ Available > 0
    /\ pc' = "closed"
    /\ UNCHANGED <<net, taken, buf, filled, nleft, want, delivered>>

PeekError ==
    /\ pc = "peek" /\ peer = "rst"
    /\ pc' = "error"
    /\ UNCHANGED <<net, taken, buf, filled, nleft, want, delivered>>

-----------------------------------------------------------------------------
(* readn *)

\* In readn: "take" up to a newline, "drain" a fragment.
Reading == pc \in {"take", "drain"}

\* Mutant: every read goes to the start of the buffer.
CopyToStart(n) ==
    [o \in Offsets |-> IF o < n THEN taken + 1 + o ELSE buf[o]]

\* recvbuf after a read of n bytes to pbuf.
Copy(n) ==
    [o \in Offsets |-> IF filled <= o /\ o < filled + n
                       THEN taken + 1 + (o - filled)
                       ELSE buf[o]]

\* A read that returns less than what was asked for.
ReadPart ==
    /\ Reading
    /\ \E n \in 1..(want - 1) :
          /\ n <= Available
          /\ buf' = Copy(n)
          /\ taken' = taken + n
          /\ filled' = filled + n
          /\ want' = want - n
    /\ UNCHANGED <<net, nleft, pc, delivered>>

\* The read that completes the draining of a fragment: peek again.
ReadFragment ==
    /\ pc = "drain" /\ want <= Available
    /\ buf' = Copy(want)
    /\ taken' = taken + want
    /\ filled' = filled + want
    /\ want' = 0
    /\ pc' = "peek"
    /\ UNCHANGED <<net, nleft, delivered>>

\* Mutant: the next call does not start with the whole buffer.
ReadLineKeepsRoom ==
    /\ pc = "take" /\ want <= Available
    /\ delivered' = Append(delivered, [o \in 0..(filled + want - 1) |-> Copy(want)[o]])
    /\ taken' = taken + want
    /\ buf' = Zeroed
    /\ filled' = 0
    /\ want' = 0
    /\ pc' = "peek"
    /\ UNCHANGED <<net, nleft>>

\* The read that completes a line: the caller gets the buffer, zeroes it and
\* calls readline again.
ReadLine ==
    /\ pc = "take" /\ want <= Available
    /\ delivered' = Append(delivered, [o \in 0..(filled + want - 1) |-> Copy(want)[o]])
    /\ taken' = taken + want
    /\ buf' = Zeroed
    /\ filled' = 0
    /\ nleft' = MaxLine
    /\ want' = 0
    /\ pc' = "peek"
    /\ UNCHANGED net

\* readn comes back short, at the end of the stream or with an error: exit.
ReadShort ==
    /\ Reading
    /\ peer = "rst" \/ (peer = "fin" /\ Available = 0)
    /\ pc' = "aborted"
    /\ UNCHANGED <<net, taken, buf, filled, nleft, want, delivered>>

-----------------------------------------------------------------------------
Network == Arrive \/ PeerCloses \/ PeerResets
Readline ==
    \/ FindNewline \/ NoNewline \/ PeekNothing \/ PeekError
    \/ ReadPart \/ ReadFragment \/ ReadLine \/ ReadShort

Next == Network \/ Readline

Spec == Init /\ [][Next]_vars

\* The reader is scheduled; nothing is assumed of the peer or the network.
Fairness == WF_vars(Readline)
FairSpec == Spec /\ Fairness

-----------------------------------------------------------------------------
(* Properties *)

Stream == INSTANCE RecordStream
              WITH records <- Lines, consumed <- taken - filled

\* readline implements the abstract record stream: every line once, complete,
\* in order and byte for byte, however the bytes are segmented.
ImplementsStream == Stream!Spec

\* No read goes past the end of recvbuf.
NoOverrun == filled + want <= MaxLine

\* What was peeked can be read: readn never ends short, and readline never
\* exits, unless the connection was reset.
NeverAborts == pc = "aborted" => peer = "rst"

\* readline returns 0 only when the peer has closed the connection.
EndsOnlyAtClose == pc = "closed" => peer # "open"

\* That is so when every line fits: then readline never runs out of room.
FittingEndsAtClose == Fits(newlines) => EndsOnlyAtClose

\* Every complete line that arrives is delivered, if the lines fit the buffer
\* and no reset intervenes.
AllDelivered ==
    \A p \in 1..Length :
        (Fits(newlines) /\ p \in newlines /\ p <= arrived)
            ~> (taken - filled >= p \/ peer = "rst")
=============================================================================
