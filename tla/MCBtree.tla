------------------------------- MODULE MCBtree -------------------------------
(* Values for Btree's constants: bnodes with room for four records or three *)
(* long ones, and eight keys whose insertion splits bnodes at the right end *)
(* of a level and in its middle.                                            *)
EXTENDS Btree

CONSTANT NrKeys

MCKeys == 1 .. NrKeys
MCRecLen == [k \in 0 .. NrKeys |-> IF k % 3 = 1 THEN 3 ELSE 2]
MCBuilt == <<1, 3, 5, 7, 2, 4, 6, 8>>
=============================================================================
