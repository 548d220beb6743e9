---------------------------- MODULE MCSkipList -----------------------------
(***************************************************************************)
(* Values for model checking SkipList.                                     *)
(***************************************************************************)
EXTENDS SkipList

MCElems == {1, 2, 3}

MCScores == {1, 2}
=============================================================================
