---------------------------- MODULE MCGraphBatch ----------------------------
(***************************************************************************)
(* GraphBatch on a small instance: four items, of which two write the same *)
(* id and one comes between them.                                          *)
(***************************************************************************)
EXTENDS GraphBatch

CONSTANTS n1, n2, n3

MCIds == {n1, n2, n3}
MCid == <<n1, n2, n1, n3>>
=============================================================================
