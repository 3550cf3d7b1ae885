---------------------------- MODULE MCServiceCall ----------------------------
(* Small instances of ServiceCall.                                         *)
EXTENDS ServiceCall
=============================================================================
