----------------------------- MODULE MCGlueMem ------------------------------
(* Model of GlueMem.  The loops only move and compare bytes, so two byte   *)
(* values, with every initial content, tell all their behaviours apart.    *)
EXTENDS GlueMem

MCFills == {-1}
MCStartMems == [Addr -> Byte]
=============================================================================
