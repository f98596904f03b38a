---------------------------- MODULE MCProdCons ----------------------------
(* The sets of threads of demo07, for model checking ProdCons.             *)
EXTENDS ProdCons

CONSTANTS c1, c2, c3, p1, p2

MCThreeConsumers == {c1, c2, c3}
MCTwoProducers   == {p1, p2}
===========================================================================
