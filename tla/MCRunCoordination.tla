------------------------- MODULE MCRunCoordination -------------------------
(***************************************************************************)
(* Small instances of RunCoordination. Run ids are interchangeable, and so *)
(* are processes when none of them is Stable.                              *)
(***************************************************************************)
EXTENDS RunCoordination, TLC

RunSymmetry == Permutations(Runs)
FullSymmetry == Permutations(Runs) \cup Permutations(Procs)
NoProcs == {}
=============================================================================
