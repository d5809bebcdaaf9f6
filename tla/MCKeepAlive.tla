------------------------------ MODULE MCKeepAlive ------------------------------
(* Small instances of KeepAlive for TLC.                                   *)
EXTENDS KeepAlive

CONSTANTS c1, c2
=============================================================================
