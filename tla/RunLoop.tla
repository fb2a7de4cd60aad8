------------------------------ MODULE RunLoop ------------------------------
(***************************************************************************)
(* scheduler.run_requirement: one run of a requirement, from the gate to   *)
(* its `finally'.  Each round asks `loop_engine next' for a step, starts   *)
(* the agent on it and gives the agent's result.md to `loop_engine         *)
(* commit'.  Each of the three is a child process that may fail, hang      *)
(* until its timeout or print nonsense; the run retries, repairs, counts   *)
(* and stops.  What the steps do to the modules is LoopMachine's subject;  *)
(* here `engine' is the checkpoint that next and commit read and write.    *)
(***************************************************************************)
EXTENDS Integers

CONSTANTS
    Module,              \* the modules of the requirement
    Action,              \* the actions next can direct
    Entry,               \* those that start a round of a module
    Follows,             \* [Action -> SUBSET Action]: what a commit goes on to
    Merges,              \* actions whose commit can merge the module
    Parks,               \* actions whose commit can file gray drafts
    Blocks,              \* actions whose commit can block or shelve a module
    MaxSameAction,       \* MAX_SAME_ACTION
    MaxTotalSteps,       \* MAX_TOTAL_STEPS
    MaxFailureRetries,   \* MAX_FAILURE_RETRIES
    MaxFormatRepairs,    \* MAX_FORMAT_REPAIRS
    None

ASSUME ActionAssumption ==
    /\ Entry \subseteq Action /\ Merges \subseteq Action
    /\ Parks \subseteq Action /\ Blocks \subseteq Action
    /\ Follows \in [Action -> SUBSET Action]
    /\ None \notin Action /\ None \notin Module
ASSUME LimitAssumption ==
    /\ MaxSameAction \in Nat \ {0, 1}
    /\ MaxTotalSteps \in Nat \ {0}
    /\ MaxFailureRetries \in Nat
    /\ MaxFormatRepairs \in Nat

VARIABLES
    pc,       \* where the run is
    engine,   \* state.json "current": the step in progress, or Nothing
    step,     \* the step of this round, as `next' printed it
    result,   \* result.md: None, or by which agent it was written
    steps, same, last, retries, repairs,    \* the run's counters
    end,      \* how it ended
    locked,   \* does this run hold .loop/lock?
    cleared,  \* has it removed its entry from the queue?
    history   \* observation only

vars == <<pc, engine, step, result, steps, same, last, retries, repairs, end,
          locked, cleared, history>>
counters == <<steps, same, last, retries, repairs>>

Nothing == [module |-> None, action |-> None]
Step == [module : Module, action : Action]

Ends == {"none", "idle", "gray_list", "no_advance", "repeat_limit",
         "max_steps", "qodercli_failed", "commit_error", "bad_next_output",
         "bad_commit_output"}

(***************************************************************************)
(* history: the agents started since the last successful commit (`agents') *)
(* and whether a commit has acted upon the result.md that lies there       *)
(* (`spent').  No action reads it.                                         *)
(***************************************************************************)
TypeOK ==
    /\ pc \in {"start", "next", "spawn", "agent", "commit", "repair", "end",
               "clear", "over"}
    /\ engine \in Step \cup {Nothing}
    /\ step \in Step \cup {Nothing}
    /\ result \in {"none", "old", "new", "repaired"}
    /\ steps \in 0..MaxTotalSteps
    /\ same \in 0..MaxSameAction
    /\ last \in Action \cup {None}
    /\ retries \in 0..MaxFailureRetries
    /\ repairs \in 0..MaxFormatRepairs
    /\ end \in Ends
    /\ locked \in BOOLEAN /\ cleared \in BOOLEAN
    /\ history \in [agents : Nat, spent : BOOLEAN]

Ending(e) == end' = e /\ pc' = "end"

-----------------------------------------------------------------------------
\* The gate and the lock are in Dispatcher and LoopMachine; a run that does
\* not pass them returns at once.  A result.md of a dead run may lie around.
Begin ==
    /\ pc = "start"
    /\ \/ /\ pc' = "next" /\ locked' = TRUE
       \/ /\ pc' = "over" /\ UNCHANGED locked
    /\ UNCHANGED <<engine, step, result, counters, end, cleared, history>>

\* The loop's head: at the limit of steps it falls through, `end' being
\* "max_steps" from the start.
Exhausted ==
    /\ pc = "next" /\ steps >= MaxTotalSteps
    /\ Ending("max_steps")
    /\ UNCHANGED <<engine, step, result, counters, locked, cleared, history>>

\* `next' hangs, or prints no JSON.
NextFails ==
    /\ pc = "next" /\ steps < MaxTotalSteps
    /\ \E e \in {"qodercli_failed", "bad_next_output"} : Ending(e)
    /\ UNCHANGED <<engine, step, result, counters, locked, cleared, history>>

NextIdle ==
    /\ pc = "next" /\ steps < MaxTotalSteps
    /\ engine = Nothing
    /\ Ending("idle")
    /\ UNCHANGED <<engine, step, result, counters, locked, cleared, history>>

\* The checkpoint, or a new round of some module.
Directive == IF engine # Nothing THEN {engine}
             ELSE {s \in Step : s.action \in Entry}

Repeats(s) == IF s.action = last THEN same + 1 ELSE 1

NextDirects ==
    /\ pc = "next" /\ steps < MaxTotalSteps
    /\ \E s \in Directive :
        /\ engine' = s
        /\ step' = s
        /\ IF Repeats(s) >= MaxSameAction /\ s.action = last
           THEN Ending("repeat_limit")
           ELSE pc' = "spawn" /\ UNCHANGED end
        /\ same' = Repeats(s) /\ last' = s.action
    /\ UNCHANGED <<result, steps, retries, repairs, locked, cleared,
                   history>>

\* A `next' that crashes prints nothing, which reads as a directive without
\* an action: the agent is started all the same.
NextCrashes ==
    /\ pc = "next" /\ steps < MaxTotalSteps
    /\ step' = Nothing
    /\ same' = IF last = None THEN same + 1 ELSE 1
    /\ last' = None
    /\ IF same' >= MaxSameAction THEN Ending("repeat_limit")
       ELSE pc' = "spawn" /\ UNCHANGED end
    /\ UNCHANGED <<engine, result, steps, retries, repairs, locked, cleared,
                   history>>

\* Mutant of Deleted: what lies there stays.
Kept == IF result = "none" THEN "none" ELSE "old"
Deleted == "none"

\* Left-over results are deleted before the agent starts.
Spawn ==
    /\ pc = "spawn"
    /\ result' = Deleted
    /\ pc' = "agent"
    /\ history' = [history EXCEPT !.agents = @ + 1,
                                  !.spent = @ /\ result' # "none"]
    /\ UNCHANGED <<engine, step, counters, end, locked, cleared>>

\* The agent's command line cannot be started: the exception leaves the loop,
\* with `end' as it was initialised.
SpawnRaises ==
    /\ pc = "spawn"
    /\ Ending("max_steps")
    /\ result' = Deleted
    /\ UNCHANGED <<engine, step, counters, locked, cleared, history>>

AgentExits ==
    /\ pc = "agent"
    /\ result' \in {result, "new"}
    /\ pc' = "commit" /\ repairs' = 0
    /\ UNCHANGED <<engine, step, steps, same, last, retries, end, locked,
                   cleared, history>>

HasRetry == retries < MaxFailureRetries

\* Mutant of Retried: the retry is not counted.
RetriedFree == retries
Retried == retries + 1

\* Mutant of RetryFrom: the commit is repeated, not the round.
RetryFromCommit == "commit"
RetryFrom == "next"

\* One retry of the round, then the end e.  `acted': a commit that failed had
\* saved its outcome before.
RetryOr(e, acted) ==
    IF HasRetry THEN /\ retries' = Retried
                     /\ pc' = RetryFrom /\ UNCHANGED end
                     /\ history' = [history EXCEPT !.spent = @ \/ acted]
    ELSE Ending(e) /\ UNCHANGED <<retries, history>>

\* A timeout or an exit code other than 0; the result may have been written.
AgentFails ==
    /\ pc = "agent"
    /\ result' \in {result, "new"}
    /\ RetryOr("qodercli_failed", FALSE)
    /\ UNCHANGED <<engine, step, steps, same, last, repairs, locked, cleared>>

-----------------------------------------------------------------------------
(* commit *)

\* commit reads result.md only for a checkpoint, and clears it on success.
Commits ==
    /\ pc = "commit"
    /\ engine # Nothing /\ result # "none"

\* Mutant of Count: the step is not counted.
CountNothing == steps
Count == steps + 1

Counted ==
    /\ steps' = Count
    /\ retries' = 0
    /\ result' = "none"
    /\ history' = [history EXCEPT !.agents = 0, !.spent = FALSE]

CommitProceeds ==
    /\ Commits
    /\ \E a \in Follows[engine.action] : engine' = [engine EXCEPT !.action = a]
    /\ Counted /\ pc' = "next"
    /\ UNCHANGED <<step, same, last, repairs, end, locked, cleared>>

CommitMerges ==
    /\ Commits /\ engine.action \in Merges
    /\ engine' = Nothing
    /\ Counted /\ pc' = "next"
    /\ UNCHANGED <<step, same, last, repairs, end, locked, cleared>>

\* Blocked, or a spec to refine: no next action.
CommitShelves ==
    /\ Commits /\ engine.action \in Blocks
    /\ engine' = Nothing
    /\ Counted /\ Ending("no_advance")
    /\ UNCHANGED <<step, same, last, repairs, locked, cleared>>

CommitParks ==
    /\ Commits /\ engine.action \in Parks
    /\ engine' = Nothing
    /\ Counted /\ Ending("gray_list")
    /\ UNCHANGED <<step, same, last, repairs, locked, cleared>>

\* The checkpoints a commit can leave behind.
Outcomes ==
    {[engine EXCEPT !.action = a] : a \in Follows[engine.action]} \cup
    (IF engine.action \in Merges \cup Parks \cup Blocks THEN {Nothing} ELSE {})

\* The commit refuses the report, finds none, crashes or is killed on its
\* timeout: the round is retried.  What it saved before it died stays saved.
CommitFails ==
    /\ pc = "commit"
    /\ \/ UNCHANGED engine /\ RetryOr("commit_error", FALSE)
       \/ Commits /\ engine' \in Outcomes /\ RetryOr("commit_error", TRUE)
    /\ UNCHANGED <<step, result, steps, same, last, repairs, locked, cleared>>

CommitPrintsNonsense ==
    /\ pc = "commit"
    /\ Ending("bad_commit_output")
    /\ UNCHANGED <<engine, step, result, counters, locked, cleared, history>>

\* "Output format error": the agent's session is resumed to rewrite result.md.
FormatError ==
    /\ Commits
    /\ repairs < MaxFormatRepairs
    /\ repairs' = repairs + 1
    /\ pc' = "repair"
    /\ UNCHANGED <<engine, step, result, steps, same, last, retries, end,
                   locked, cleared, history>>

Repaired ==
    /\ pc = "repair"
    /\ result' = "repaired"
    /\ pc' = "commit"
    /\ UNCHANGED <<engine, step, counters, end, locked, cleared, history>>

RepairFails ==
    /\ pc = "repair"
    /\ RetryOr("commit_error", FALSE)
    /\ UNCHANGED <<engine, step, result, steps, same, last, repairs, locked,
                   cleared>>

-----------------------------------------------------------------------------
\* The `finally': release the lock, then give up the approval, unless people
\* are to be asked.
Unlock ==
    /\ pc = "end"
    /\ locked' = FALSE
    /\ pc' = IF end = "gray_list" THEN "over" ELSE "clear"
    /\ UNCHANGED <<engine, step, result, counters, end, cleared, history>>

Clear ==
    /\ pc = "clear"
    /\ cleared' = TRUE
    /\ pc' = "over"
    /\ UNCHANGED <<engine, step, result, counters, end, locked, history>>

\* The process dies: the kernel drops its lock, its entry stays.
Die ==
    /\ pc \notin {"start", "over"}
    /\ pc' = "over" /\ locked' = FALSE
    /\ UNCHANGED <<engine, step, result, counters, end, cleared, history>>

Init ==
    /\ pc = "start"
    /\ engine \in Step \cup {Nothing}
    /\ step = Nothing
    /\ result \in {"none", "old"}
    /\ steps = 0 /\ same = 0 /\ last = None /\ retries = 0 /\ repairs = 0
    /\ end = "none"
    /\ locked = FALSE /\ cleared = FALSE
    /\ history = [agents |-> 0, spent |-> FALSE]

Works ==
    \/ Begin \/ Exhausted \/ NextFails \/ NextIdle \/ NextDirects \/ NextCrashes
    \/ Spawn \/ SpawnRaises \/ AgentExits \/ AgentFails
    \/ CommitProceeds \/ CommitMerges \/ CommitShelves \/ CommitParks
    \/ CommitFails \/ CommitPrintsNonsense \/ FormatError
    \/ Repaired \/ RepairFails
    \/ Unlock \/ Clear

\* A run that is over stays over.
Over == pc = "over" /\ UNCHANGED vars

Next == Works \/ Die \/ Over

Spec == Init /\ [][Next]_vars

\* Every child process ends or is killed on its timeout (30 s, 6 h, 95 min),
\* so the run takes its next step.
FairSpec == Spec /\ WF_vars(Works)

-----------------------------------------------------------------------------
(* Properties.                                                             *)

\* What a commit reads was written by the agent of this very round (or is its
\* repair): never by a run that died, nor by an attempt that failed.
FreshResult == pc \in {"commit", "repair"} => result # "old"

\* One step is given to a bounded number of agents, whatever fails and in
\* whatever order: its first attempt and the retries.  The short agents that
\* repair a report's format come on top, two for each report.  And every state
\* is well typed.
AgentBudget ==
    /\ TypeOK
    /\ history.agents <= MaxFailureRetries + 1

\* Every run ends, with a lock to release, even though next may direct new
\* steps for ever and a commit that dies may have moved the checkpoint on.
Terminates == <>(pc = "over" /\ ~locked)

\* A report is acted upon once: when a commit dies between its save and the
\* removal of result.md, no later commit of the run reads the same report.
CommittedOnce ==
    [][(pc = "commit" /\ engine' # engine) => ~history.spent]_vars
=============================================================================
