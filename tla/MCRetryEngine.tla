--------------------------- MODULE MCRetryEngine ---------------------------
(***************************************************************************)
(* Small instances of RetryEngine. Workers other than First are            *)
(* interchangeable.                                                        *)
(***************************************************************************)
EXTENDS RetryEngine, TLC

RaceSymmetry == Permutations(Workers \ {First})

OwnerOnly == {"local"}
Anyone    == {"local", "remote"}
BothModes == {"retry", "manual"}
=============================================================================
