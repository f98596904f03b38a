----------------------------- MODULE MCPeekLine -----------------------------
(* Every placement of newlines in a short stream.                          *)
EXTENDS PeekLine

MCAllLayouts == SUBSET (1..Length)
=============================================================================
