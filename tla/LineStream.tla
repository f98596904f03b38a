----------------------------- MODULE LineStream -----------------------------
(***************************************************************************)
(* What the two readline functions of the repository share: a TCP stream   *)
(* of newline-terminated lines, the buffer they fill, and what is          *)
(* returned.  LineReader and PeekLine extend this module with the steps.   *)
(***************************************************************************)
EXTENDS Integers, Sequences

CONSTANTS Length,    \* the most bytes the peer sends
          MaxLine,   \* sizeof(recvbuf)
          Layouts    \* where newlines may be: sets of positions in 1..Length

ASSUME LineStreamAssumption ==
    /\ Length \in Nat
    /\ MaxLine \in Nat \ {0}
    /\ Layouts \subseteq SUBSET (1..Length)

VARIABLES newlines,   \* positions of the newlines the peer writes
          arrived,    \* bytes that have reached the receive buffer of the socket
          peer,       \* the peer's end: open, closed by a FIN, or reset
          taken,      \* bytes read from the socket
          buf,        \* recvbuf: at each offset a position, 0 for a zero byte
          want,       \* bytes readn still has to read
          pc,         \* where the reader is
          delivered   \* the buffers returned to the caller

Offsets == 0..(MaxLine - 1)
Zeroed  == [o \in Offsets |-> 0]

\* The bytes that wait in the socket.
Available == arrived - taken

\* The lines of the stream: from the byte after a newline, or the first byte,
\* to the next newline.
Lines ==
    { r \in (1..Length) \X (1..Length) :
        /\ r[1] <= r[2]
        /\ r[1] = 1 \/ r[1] - 1 \in newlines
        /\ r[2] \in newlines
        /\ \A m \in newlines : ~(r[1] <= m /\ m < r[2]) }

\* Every line, with the zero byte that ends the string, fits the buffer.
Fits(nl) ==
    \A p \in 0..(Length - MaxLine + 1) :
        \E q \in nl : p < q /\ q <= p + MaxLine - 1
=============================================================================
