---------------------------- MODULE MCLineReader ----------------------------
(* Every placement of newlines in a short stream.                          *)
EXTENDS LineReader

MCAllLayouts == SUBSET (1..Length)
=============================================================================
