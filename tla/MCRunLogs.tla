------------------------------- MODULE MCRunLogs -------------------------------
(* TLC instance of RunLogs: the bounds are in the configurations.           *)
EXTENDS RunLogs
=============================================================================
