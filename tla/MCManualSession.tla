---------------------------- MODULE MCManualSession ---------------------------
(* The names of the processes in the configurations of ManualSession.      *)
EXTENDS ManualSession

CONSTANTS h1, h2, r1, q1, person, poll
=============================================================================
