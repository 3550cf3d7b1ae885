------------------------------- MODULE MCLaunch -------------------------------
(* Small instances of Launch.                                              *)
EXTENDS Launch

\* A failure that is told apart from SpawnFails and from an interrupt.
Codes == {0, 7}
=============================================================================
