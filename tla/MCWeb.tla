------------------------------- MODULE MCWeb -------------------------------
(***************************************************************************)
(* Values for TLC.                                                         *)
(***************************************************************************)
EXTENDS WebProperties, TLC

CONSTANTS p1, p2, r1, r2, Belveth

MCPages == {p1, p2}
MCRequests == {r1, r2}
MCChampions == {Belveth}
=============================================================================
