---------------------------- MODULE MCDispatcher ----------------------------
(* Dispatcher on small fleets. *)
EXTENDS Dispatcher, TLC

CONSTANTS cron, chat, run1, run2, m1

RunSymmetry == Permutations({run1, run2})
=============================================================================
