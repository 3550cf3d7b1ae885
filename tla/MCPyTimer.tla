------------------------------ MODULE MCPyTimer ------------------------------
(* Small instances of PyTimer.                                             *)
EXTENDS PyTimer
=============================================================================
