---------------------------- MODULE MCArenaHeap -----------------------------
(* Model of ArenaHeap: blocks of one and two units, layouts that one block *)
(* serves for their size, for their alignment, or not at all.              *)
EXTENDS ArenaHeap, TLC

L(size, align) == [size |-> size, align |-> align]
MCLayouts == {L(1, 1), L(2, 1), L(1, 2), L(2, 4)}

MCSymmetry == Permutations(Progs) \cup Permutations(Handles)
=============================================================================
