---------------------------- MODULE RunLoopProofs ----------------------------
(* Theorems about RunLoop, for any modules, actions and limits: whatever   *)
(* its children do, a run commits no stale report, none twice, and starts  *)
(* a bounded number of agents for a step.                                  *)
EXTENDS RunLoop, TLAPS

-----------------------------------------------------------------------------
(* The inductive invariant.                                                *)

\* Where an agent may be started for the round in progress.
BeforeAgent == {"next", "spawn"}
\* Where the agent of this round has been started.
WithAgent == {"agent", "commit", "repair"}
InRound == BeforeAgent \cup WithAgent

\* A round begins below both limits.
Limits ==
    /\ pc \in {"start"} \cup InRound => same < MaxSameAction
    /\ pc \in InRound \ {"next"} => steps < MaxTotalSteps

\* Each agent but that of the round in progress has been paid for by a retry.
Paid ==
    /\ pc \in {"start"} \cup BeforeAgent => history.agents <= retries
    /\ history.agents <= retries + 1

\* What lies there once the agent has been started was written by it, and no
\* commit has read it.
Fresh ==
    /\ pc \in WithAgent => result # "old"
    /\ pc \in WithAgent => ~history.spent

IInv == TypeOK /\ Limits /\ Paid /\ Fresh

LEMMA InvInit == Init => IInv
<1> SUFFICES ASSUME Init PROVE IInv
  OBVIOUS
<1>1. history \in [agents : Nat, spent : BOOLEAN] /\ history.agents = 0
  BY DEF Init
<1>2. locked \in BOOLEAN /\ cleared \in BOOLEAN
  BY DEF Init
<1>3. TypeOK
  BY <1>1, <1>2, LimitAssumption DEF Init, TypeOK, Ends
<1>4. Limits /\ Paid /\ Fresh
  BY <1>1, LimitAssumption
     DEF Init, Limits, Paid, Fresh, InRound, BeforeAgent, WithAgent
<1> QED BY <1>3, <1>4 DEF IInv

LEMMA InvImplies == IInv => FreshResult /\ AgentBudget
  BY LimitAssumption DEF IInv, TypeOK, Paid, Fresh, WithAgent, FreshResult, AgentBudget

\* A failed step of the round: it is tried again, or the run ends.
LEMMA RetryKeeps ==
    ASSUME IInv, pc \in WithAgent, NEW e \in Ends, NEW acted \in BOOLEAN,
           RetryOr(e, acted)
    PROVE  /\ pc' \in {"next", "end"} /\ end' \in Ends
           /\ retries' \in 0..MaxFailureRetries
           /\ history' \in [agents : Nat, spent : BOOLEAN]
           /\ history'.agents <= retries' + 1
           /\ pc' = "next" => history'.agents <= retries'
  BY LimitAssumption
     DEF IInv, TypeOK, Paid, WithAgent, RetryOr, HasRetry, Retried, RetryFrom, Ending

LEMMA CountedKeeps ==
    ASSUME IInv, pc = "commit", Counted
    PROVE  /\ steps' \in 0..MaxTotalSteps /\ retries' = 0 /\ result' = "none"
           /\ history' \in [agents : Nat, spent : BOOLEAN] /\ history'.agents = 0
<1>1. steps' \in 0..MaxTotalSteps
  BY LimitAssumption DEF IInv, TypeOK, Limits, Counted, Count, InRound, WithAgent
<1> QED BY <1>1 DEF IInv, TypeOK, Counted

LEMMA SpawnKeeps ==
    ASSUME history \in [agents : Nat, spent : BOOLEAN], Spawn
    PROVE  /\ history' \in [agents : Nat, spent : BOOLEAN]
           /\ history'.agents = history.agents + 1
           /\ ~history'.spent
<1> DEFINE after == [agents |-> history.agents + 1, spent |-> FALSE]
<1>1. history' = after
  BY DEF Spawn, Deleted
<1>2. after \in [agents : Nat, spent : BOOLEAN]
  OBVIOUS
<1>3. after.agents = history.agents + 1
  OBVIOUS
<1>4. ~after.spent
  OBVIOUS
<1> QED BY <1>1, <1>2, <1>3, <1>4

\* The lock and the queue's entry.
LEMMA FlagsKeep ==
    TypeOK /\ [Next]_vars => locked' \in BOOLEAN /\ cleared' \in BOOLEAN
  BY DEF TypeOK, Next, Works, Over, vars, counters,
         Begin, Exhausted, NextFails, NextIdle, NextDirects, NextCrashes, Spawn,
         SpawnRaises, AgentExits, AgentFails, CommitProceeds, CommitMerges,
         CommitShelves, CommitParks, CommitFails, CommitPrintsNonsense,
         FormatError, Repaired, RepairFails, Unlock, Clear, Die

LEMMA InvStep == IInv /\ [Next]_vars => IInv'
<1> SUFFICES ASSUME IInv, [Next]_vars
             PROVE  IInv'
  OBVIOUS
<1> USE ActionAssumption, LimitAssumption
    DEF IInv, TypeOK, Limits, Paid, Fresh, InRound, BeforeAgent, WithAgent,
        Ends, Ending
<1>0. locked' \in BOOLEAN /\ cleared' \in BOOLEAN
  BY FlagsKeep
<1>1. ASSUME Begin PROVE IInv'
  <2>1. /\ pc = "start" /\ pc' \in {"next", "over"}
        /\ UNCHANGED <<engine, step, result, counters, end, history>>
    BY <1>1 DEF Begin
  <2> QED BY <1>0, <2>1 DEF counters
<1>15. ASSUME Exhausted \/ NextFails \/ NextIdle PROVE IInv'
  BY <1>0, <1>15 DEF Exhausted, NextFails, NextIdle, counters
<1>2. ASSUME NextDirects PROVE IInv'
  <2>1. PICK s \in Directive :
          /\ engine' = s /\ step' = s
          /\ IF Repeats(s) >= MaxSameAction /\ s.action = last
             THEN Ending("repeat_limit")
             ELSE pc' = "spawn" /\ UNCHANGED end
          /\ same' = Repeats(s) /\ last' = s.action
    BY <1>0, <1>2 DEF NextDirects
  <2>2. s \in Step /\ s.action \in Action
    BY DEF Directive, Step, Nothing
  <2>3. /\ Repeats(s) \in 0..MaxSameAction
        /\ ~(Repeats(s) >= MaxSameAction /\ s.action = last)
              => Repeats(s) < MaxSameAction
    BY <1>0, <1>2 DEF Repeats, NextDirects
  <2> QED BY <1>0, <1>2, <2>1, <2>2, <2>3 DEF NextDirects
<1>3. ASSUME NextCrashes PROVE IInv'
  <2>1. same' \in 0..MaxSameAction
    BY <1>0, <1>3 DEF NextCrashes
  <2> QED BY <1>0, <1>3, <2>1 DEF NextCrashes
<1>4. ASSUME Spawn PROVE IInv'
  BY <1>0, <1>4, SpawnKeeps DEF Spawn, Deleted, counters
<1>5. ASSUME SpawnRaises PROVE IInv'
  BY <1>0, <1>5 DEF SpawnRaises, Deleted, counters
<1>6. ASSUME AgentExits PROVE IInv'
  BY <1>0, <1>6 DEF AgentExits
<1>7. ASSUME AgentFails PROVE IInv'
  BY <1>0, <1>7, RetryKeeps DEF AgentFails
<1>8. ASSUME CommitProceeds PROVE IInv'
  <2>1. PICK a \in Follows[engine.action] : engine' = [engine EXCEPT !.action = a]
    BY <1>0, <1>8 DEF CommitProceeds
  <2>2. engine' \in Step
    BY <1>0, <1>8, <2>1 DEF CommitProceeds, Commits, Step
  <2> QED BY <1>0, <1>8, <2>2, CountedKeeps DEF CommitProceeds, Commits
<1>9. ASSUME CommitMerges \/ CommitShelves \/ CommitParks PROVE IInv'
  BY <1>0, <1>9, CountedKeeps DEF CommitMerges, CommitShelves, CommitParks, Commits
<1>10. ASSUME CommitFails PROVE IInv'
  <2>1. engine' \in Step \cup {Nothing}
    <3>1. CASE Commits /\ engine' \in Outcomes
      <4>1. engine \in Step
        BY <3>1 DEF Commits
      <4>2. \A a \in Follows[engine.action] : [engine EXCEPT !.action = a] \in Step
        BY <4>1 DEF Step
      <4> QED BY <3>1, <4>2 DEF Outcomes
    <3> QED BY <1>10, <3>1 DEF CommitFails
  <2> QED BY <1>0, <1>10, <2>1, RetryKeeps DEF CommitFails
<1>11. ASSUME CommitPrintsNonsense \/ FormatError \/ Repaired PROVE IInv'
  BY <1>0, <1>11 DEF CommitPrintsNonsense, FormatError, Repaired, Commits, counters
<1>12. ASSUME RepairFails PROVE IInv'
  BY <1>0, <1>12, RetryKeeps DEF RepairFails
<1>13. CASE Unlock \/ Clear \/ Die
  BY <1>0, <1>13 DEF Unlock, Clear, Die, counters
<1>14. CASE UNCHANGED vars
  BY <1>0, <1>14 DEF vars
<1> QED
  BY <1>1, <1>2, <1>3, <1>4, <1>5, <1>6, <1>7, <1>8, <1>9, <1>10, <1>11,
     <1>12, <1>13, <1>14, <1>15
     DEF Next, Works, Over

LEMMA InvAlways == Spec => []IInv
  BY InvInit, InvStep, PTL DEF Spec

-----------------------------------------------------------------------------

\* A commit never reads a result.md that a dead run or a failed attempt has
\* left behind (run_requirement, _run_qodercli).
THEOREM FreshResultHolds == Spec => []FreshResult
  BY InvAlways, InvImplies, PTL

\* However its attempts, commits and repairs fail, a step costs at most
\* MAX_FAILURE_RETRIES + 1 agents; and the module is type correct.
THEOREM AgentBudgetHolds == Spec => []AgentBudget
  BY InvAlways, InvImplies, PTL

LEMMA CommittedOnceStep ==
    IInv /\ [Next]_vars => [(pc = "commit" /\ engine' # engine) => ~history.spent]_vars
  BY DEF IInv, Fresh, WithAgent

\* A report that a commit has acted upon, although it died afterwards, is never
\* read by another commit.
THEOREM CommittedOnceHolds == Spec => CommittedOnce
  BY InvAlways, CommittedOnceStep, PTL DEF Spec, CommittedOnce
=============================================================================
