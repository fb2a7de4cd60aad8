----------------------------- MODULE MCRunLoop -----------------------------
(***************************************************************************)
(* RunLoop with the actions of machine.py.  Two modules, which is what the *)
(* repeat counter can confuse.                                             *)
(***************************************************************************)
EXTENDS RunLoop

\* What the commit handler of each action can return.
MachineFollows ==
    [SCORE |-> {"MAKER_STEP0"},
     CLASSIFY_CHANGE |-> {"CHECKER", "SCORE"},
     MAKER_STEP0 |-> {"MAKER_STEP0", "MAKER_STEP1_RED"},
     MAKER_STEP1_RED |-> {"MAKER_STEP2_GREEN"},
     MAKER_STEP2_GREEN |-> {"CHECKER"},
     CHECKER |-> {"MAKER_FIX", "CODE_REVIEW"},
     MAKER_FIX |-> {"CHECKER", "ALIGN_DOCS"},
     CODE_REVIEW |-> {"CODE_REVIEW_FIX"},
     CODE_REVIEW_FIX |-> {"CHECKER"},
     ALIGN_DOCS |-> {"CHECKER"}]
MachineActions == DOMAIN MachineFollows
=============================================================================
