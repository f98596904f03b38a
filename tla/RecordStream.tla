---------------------------- MODULE RecordStream ----------------------------
(***************************************************************************)
(* What a framing protocol on top of a byte stream promises (the           *)
(* "sticky packet" discussion heading socket/tcp7..tcp9): the records the  *)
(* sender wrote come out one at a time, in order, each exactly once and    *)
(* complete, whatever the segmentation.  Bytes are named by their          *)
(* position in the stream; a record is the function from its offsets to    *)
(* the positions of its bytes.                                             *)
(***************************************************************************)
EXTENDS Integers, Sequences

VARIABLES records,    \* the records: <<first byte, last byte>> pairs
          consumed,   \* the last byte of the records delivered so far
          delivered   \* what the reader has handed to its caller

vars == <<records, consumed, delivered>>

Init ==
    /\ consumed = 0
    /\ delivered = <<>>

\* The next record is the first one that begins after what is delivered.
Deliver ==
    \E r \in records :
        /\ consumed < r[1]
        /\ \A q \in records : consumed < q[1] => r[1] <= q[1]
        /\ consumed' = r[2]
        /\ delivered' = Append(delivered, [o \in 0..(r[2] - r[1]) |-> r[1] + o])
        /\ UNCHANGED records

Spec == Init /\ [][Deliver]_vars
=============================================================================
