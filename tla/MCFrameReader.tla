--------------------------- MODULE MCFrameReader ---------------------------
(* Every way to cut a short stream into frames.                            *)
EXTENDS FrameReader

MCLayouts == { es \in SUBSET (1..Length) : Framed(es) }
=============================================================================
