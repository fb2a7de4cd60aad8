----------------------------- MODULE Dispatcher -----------------------------
(***************************************************************************)
(* The scheduler's queue, pending.json, and the processes that share it:   *)
(* the cron job `poll', which detects work, merges it into the queue and   *)
(* dispatches what is approved; the chat server, whose commands approve,   *)
(* adjudicate and run; and the runs they fork.  Merging and counting an    *)
(* attempt take pending.json.lock; approving, pinning and the clean-up of  *)
(* a finished run do not.  A read-modify-write is therefore two steps, its *)
(* load and its save, and `snap' is the copy a process holds in between.   *)
(*                                                                         *)
(* What a run does to its requirement is LoopMachine's subject; here it is *)
(* what the queue can see of it: `engine'.                                 *)
(***************************************************************************)
EXTENDS Integers, FiniteSets

CONSTANTS
    NRequirements,     \* registered requirements, in the registry's order
    Actors,            \* processes that poll, approve and dispatch
    Cron,              \* the one of them that cron starts
    Runs,              \* bound: run processes alive at a time
    Pins,              \* modules a run can be pinned to
    MaxAutoRetries,    \* MAX_AUTO_RETRIES
    MaxConcurrency,    \* schedule.json "max_concurrency"
    Found,             \* kinds of work a requirement can have, "auto" among them
    Commands,          \* the interventions that happen: chat commands, manual
                       \* sessions, edits and kills
    MaxInterventions,  \* bound: commands, edits, sessions and crashes
    None               \* Python's None

Req == 1..NRequirements

\* "auto": some module is in a status that may be executed; "report": there
\* is only work for people; "none": nothing to do.
Work == {"none", "report", "auto"}

ASSUME SizeAssumption ==
    /\ NRequirements \in Nat \ {0}
    /\ MaxAutoRetries \in Nat
    /\ MaxConcurrency \in Nat \ {0}
    /\ MaxInterventions \in Nat
ASSUME ProcessAssumption ==
    /\ Cron \in Actors
    /\ Actors \cap Runs = {}
    /\ IsFiniteSet(Runs)
    /\ Runs \cap {"free", "manual"} = {}
    /\ Found \subseteq Work /\ "auto" \in Found
    /\ Commands \subseteq {"approve", "all", "resume", "spec", "manual", "edit",
                       "kill"}
ASSUME NoneAssumption ==
    None \notin Actors \cup Req \cup Pins

VARIABLES
    pending,  \* pending.json: one entry per requirement with work, or None
    flock,    \* the holder of pending.json.lock, or None
    engine,   \* what a poll can read of each requirement
    lock,     \* who holds each requirement's .loop/lock
    proc,     \* local state of the actors
    run,      \* local state of the run processes
    moves,    \* interventions so far (bounds the exploration)
    unclean,  \* observation only: forks without a run that ended well
    crossed   \* observation only: entries an outdated copy has a part in

observed == <<unclean, crossed>>
vars == <<pending, flock, engine, lock, proc, run, moves, observed>>

Engine == [work : Found, current : BOOLEAN, gray : BOOLEAN]

Entry == [auto : BOOLEAN, approved : BOOLEAN, suspended : BOOLEAN,
          attempts : 0..(MaxAutoRetries + 1), module : Pins \cup {None}]
ASSUME EntryAssumption == None \notin Entry
Queue == [Req -> Entry \cup {None}]
Empty == [r \in Req |-> None]

\* `at' walks through the registry, `list' is what is to be dispatched.
Idle == [pc |-> "idle", task |-> None, req |-> None, pin |-> None, at |-> 1,
         list |-> Empty, running |-> 0, snap |-> Empty]
Exited == [pc |-> "exited", req |-> None, pin |-> None, snap |-> Empty]

(***************************************************************************)
(* unclean[r] counts the forks by dispatch since r was approved, a run of  *)
(* it ended in good order or removed its entry.  crossed has the           *)
(* requirements whose entry somebody has since written back from a copy    *)
(* that was no longer what the file held, or has dispatched though it was  *)
(* not, or no longer, approved.  No action reads either of them.           *)
(***************************************************************************)
TypeOK ==
    /\ pending \in Queue
    /\ flock \in Actors \cup {None}
    /\ engine \in [Req -> Engine]
    /\ lock \in [Req -> {"free", "manual"} \cup Runs]
    /\ proc \in [Actors ->
          [pc : {"idle", "scan", "merge", "mergeSave", "count", "dispatch",
                 "bump", "bumpSave", "approve", "approveSave", "pin",
                 "pinSave"},
           task : {"poll", "approve", "all", "resume", "repolled", None},
           req : Req \cup {None}, pin : Pins \cup {None},
           at : 1..(NRequirements + 1), list : Queue, running : Nat,
           snap : Queue]]
    /\ run \in [Runs ->
          [pc : {"exited", "gate", "lock", "work", "clear", "clearSave"},
           req : Req \cup {None}, pin : Pins \cup {None}, snap : Queue]]
    /\ moves \in Nat
    /\ unclean \in [Req -> 0..(MaxAutoRetries + 2)]
    /\ crossed \subseteq Req

\* What a process that saves its copy undoes.
Outdated(copy) == {r \in Req : copy[r] # pending[r]}

Goes(p, pc) == proc' = [proc EXCEPT ![p].pc = pc]
Intervene(c) ==
    /\ c \in Commands
    /\ moves < MaxInterventions /\ moves' = moves + 1

-----------------------------------------------------------------------------
(* poll: detect, merge.                                                    *)

NewEntry(auto) == [auto |-> auto, approved |-> FALSE, suspended |-> FALSE,
                   attempts |-> 0, module |-> None]

\* A requirement is skipped while a run of it is in the middle of a step.
Detected(r) ==
    IF engine[r].work = "none" \/ (engine[r].current /\ lock[r] # "free")
    THEN None ELSE NewEntry(engine[r].work = "auto")

\* Cron runs `loop_engine poll' every ten minutes.
StartPoll ==
    /\ proc[Cron] = Idle
    /\ proc' = [proc EXCEPT ![Cron] = [Idle EXCEPT !.pc = "scan",
                                                   !.task = "poll"]]
    /\ UNCHANGED <<pending, flock, engine, lock, run, moves, observed>>

Scan(p) ==
    /\ proc[p].pc = "scan"
    /\ LET r == proc[p].at
       IN  IF r \in Req
           THEN proc' = [proc EXCEPT ![p].list[r] = Detected(r), ![p].at = r + 1]
           ELSE Goes(p, "merge")
    /\ UNCHANGED <<pending, flock, engine, lock, run, moves, observed>>

\* The flock is asked for, and the file read, when its holder is done.
LockedLoad(p, pc) ==
    /\ flock = None
    /\ flock' = p
    /\ proc' = [proc EXCEPT ![p].pc = pc, ![p].snap = pending]
    /\ UNCHANGED <<pending, engine, lock, run, moves, observed>>

MergeLoad(p) == proc[p].pc = "merge" /\ LockedLoad(p, "mergeSave")

\* What a fresh detection inherits from the entry it replaces.
Inherits(new, old) ==
    IF old = None THEN new
    ELSE [new EXCEPT !.attempts = old.attempts, !.suspended = old.suspended,
                     !.approved = old.approved]
\* An approved requirement that is being executed keeps its entry.
Carried(old, r) == old # None /\ old.approved /\ lock[r] # "free"

\* Mutant of Merged: approvals do not survive the poll.
MergedAfresh(fresh, old) == fresh
Merged(fresh, old) ==
    [r \in Req |-> IF fresh[r] # None THEN Inherits(fresh[r], old[r])
                   ELSE IF Carried(old[r], r) THEN old[r] ELSE None]

\* What a poll returns to be dispatched: the detections, not the carried.
\* Mutant of ToDispatch: only what was not in the queue before.
NewlyDetected(fresh, merged, old) ==
    [r \in Req |-> IF fresh[r] = None \/ old[r] # None THEN None ELSE merged[r]]
ToDispatch(fresh, merged, old) ==
    [r \in Req |-> IF fresh[r] = None THEN None ELSE merged[r]]

MergeSave(p) ==
    /\ proc[p].pc = "mergeSave"
    /\ LET me == proc[p]
           merged == Merged(me.list, me.snap)
       IN  /\ pending' = merged
           /\ proc' = [proc EXCEPT ![p] =
                 IF me.task = "poll"
                 THEN [Idle EXCEPT !.pc = "count", !.task = "poll",
                           !.list = ToDispatch(me.list, merged, me.snap)]
                 ELSE [Idle EXCEPT !.pc = "approve", !.task = "repolled",
                                   !.req = me.req, !.pin = me.pin]]
           /\ crossed' = crossed \cup Outdated(me.snap)
    /\ flock' = None
    /\ UNCHANGED <<engine, lock, run, moves, unclean>>

-----------------------------------------------------------------------------
(* dispatch                                                                *)

Locked == {r \in Req : lock[r] # "free"}

\* running_count; the chat server dispatches what it now finds in the queue.
Count(p) ==
    /\ proc[p].pc = "count"
    /\ proc' = [proc EXCEPT ![p] =
          [Idle EXCEPT !.pc = "dispatch", !.task = proc[p].task,
                       !.running = Cardinality(Locked),
                       !.list = IF proc[p].task = "poll" THEN proc[p].list
                                ELSE pending]]
    /\ UNCHANGED <<pending, flock, engine, lock, run, moves, observed>>

Dispatchable(p, r) ==
    LET e == proc[p].list[r]
    IN  /\ e # None
        /\ e.approved /\ e.auto
        /\ proc[p].running < MaxConcurrency
        /\ lock[r] = "free"
        /\ ~engine[r].gray

Consider(p) ==
    /\ proc[p].pc = "dispatch"
    /\ LET r == proc[p].at
       IN  IF r \notin Req THEN proc' = [proc EXCEPT ![p] = Idle]
           ELSE IF Dispatchable(p, r) THEN Goes(p, "bump")
           ELSE proc' = [proc EXCEPT ![p].at = r + 1, ![p].list[r] = None]
    /\ UNCHANGED <<pending, flock, engine, lock, run, moves, observed>>

\* Bound: a process is forked when one of Runs is free.
BumpLoad(p) ==
    /\ proc[p].pc = "bump"
    /\ \E i \in Runs : run[i] = Exited
    /\ LockedLoad(p, "bumpSave")

\* Mutant of BumpAttempt: one dispatch too many before the suspension.
BumpAttemptLate(e) ==
    LET n == IF e.attempts > MaxAutoRetries THEN e.attempts ELSE e.attempts + 1
    IN  [e EXCEPT !.attempts = n,
                  !.approved = @ /\ e.attempts <= MaxAutoRetries,
                  !.suspended = @ \/ e.attempts > MaxAutoRetries]
\* _bump_attempt; `attempts' saturates one above the limit.
BumpAttempt(e) ==
    LET n == IF e.attempts > MaxAutoRetries THEN e.attempts ELSE e.attempts + 1
    IN  [e EXCEPT !.attempts = n,
                  !.approved = @ /\ n <= MaxAutoRetries,
                  !.suspended = @ \/ n > MaxAutoRetries]

Forks(r, pin) ==
    \E i \in Runs :
        /\ run[i] = Exited
        /\ run' = [run EXCEPT ![i] = [Exited EXCEPT !.pc = "gate", !.req = r,
                                                    !.pin = pin]]

\* An entry that is gone is not counted, and the run is forked all the same.
BumpSave(p) ==
    /\ proc[p].pc = "bumpSave"
    /\ LET r == proc[p].at
           old == proc[p].snap[r]
           new == IF old = None THEN None ELSE BumpAttempt(old)
       IN  /\ pending' = IF old = None THEN pending
                         ELSE [proc[p].snap EXCEPT ![r] = new]
           /\ crossed' = IF old = None THEN crossed \cup {r}
                         ELSE crossed \cup Outdated(proc[p].snap)
                                \cup {s \in {r} : ~old.approved}
           /\ IF new # None /\ new.suspended
              THEN proc' = [proc EXCEPT ![p] =
                      [@ EXCEPT !.pc = "dispatch", !.at = r + 1,
                                !.list[r] = None, !.snap = Empty]]
                   /\ UNCHANGED <<run, unclean>>
              ELSE /\ Forks(r, proc[p].list[r].module)
                   /\ proc' = [proc EXCEPT ![p] =
                         [@ EXCEPT !.pc = "dispatch", !.at = r + 1,
                                   !.list[r] = None, !.snap = Empty,
                                   !.running = proc[p].running + 1]]
                   /\ unclean' = [unclean EXCEPT ![r] =
                         IF @ < MaxAutoRetries + 2 THEN @ + 1 ELSE @]
    /\ flock' = None
    /\ UNCHANGED <<engine, lock, moves>>

-----------------------------------------------------------------------------
(* approve, pin_module, and the commands of chat and CLI.  None of them    *)
(* takes pending.json.lock.                                                *)

Chat == Actors \ {Cron}

StartApprove(p, r) ==
    /\ proc[p] = Idle /\ Intervene("approve")
    /\ proc' = [proc EXCEPT ![p] = [Idle EXCEPT !.pc = "approve",
                                        !.task = "approve", !.req = r]]
    /\ UNCHANGED <<pending, flock, engine, lock, run, observed>>

StartApproveAll(p) ==
    /\ proc[p] = Idle /\ Intervene("all")
    /\ proc' = [proc EXCEPT ![p] = [Idle EXCEPT !.pc = "approve",
                                                !.task = "all"]]
    /\ UNCHANGED <<pending, flock, engine, lock, run, observed>>

\* _execute_adjudicate answers the last pending drafts of a free requirement,
\* then approves it; one module's drafts pin the next run to that module.
StartResume(p, r) ==
    /\ proc[p] = Idle /\ Intervene("resume")
    /\ engine[r].gray /\ lock[r] = "free"
    /\ engine' = [engine EXCEPT ![r].gray = FALSE]
    /\ \E pin \in Pins \cup {None} :
        proc' = [proc EXCEPT ![p] = [Idle EXCEPT !.pc = "approve",
                             !.task = "resume", !.req = r, !.pin = pin]]
    /\ UNCHANGED <<pending, flock, lock, run, observed>>

\* _execute_run_spec forks a pinned run of its own: no entry, no approval.
RunSpec(p, r) ==
    /\ proc[p] = Idle /\ Intervene("spec")
    /\ lock[r] = "free" /\ ~engine[r].gray /\ engine[r].work = "auto"
    /\ \E pin \in Pins : Forks(r, pin)
    /\ UNCHANGED <<pending, flock, engine, lock, proc, observed>>

ApproveLoad(p) ==
    /\ proc[p].pc = "approve"
    /\ proc' = [proc EXCEPT ![p].pc = "approveSave", ![p].snap = pending]
    /\ UNCHANGED <<pending, flock, engine, lock, run, moves, observed>>

\* Mutant of Approved: the suspension is not lifted.
ApprovedStillSuspended(e) == [e EXCEPT !.approved = TRUE, !.attempts = 0]
Approved(e) == [e EXCEPT !.approved = TRUE, !.attempts = 0, !.suspended = FALSE]

Clean(r) == unclean' = [unclean EXCEPT ![r] = 0]

Approvable(e, r) == e # None /\ e.auto /\ ~e.approved /\ ~engine[r].gray

ApproveAllSave(p) ==
    /\ proc[p].pc = "approveSave" /\ proc[p].task = "all"
    /\ LET snap == proc[p].snap
           chosen == {r \in Req : Approvable(snap[r], r)}
       IN  /\ pending' = [r \in Req |-> IF r \in chosen THEN Approved(snap[r])
                                        ELSE snap[r]]
           /\ unclean' = [r \in Req |-> IF r \in chosen THEN 0 ELSE unclean[r]]
           /\ crossed' = (crossed \cup Outdated(snap)) \ chosen
    /\ proc' = [proc EXCEPT ![p] = Idle]
    /\ UNCHANGED <<flock, engine, lock, run, moves>>

\* The chat's approval is followed by a dispatch, the CLI's is not; that of
\* an adjudication is followed by the pin.
Then(p) ==
    LET me == proc[p]
    IN  IF me.task = "approve"
        THEN \E pc \in {"count", "idle"} :
                proc' = [proc EXCEPT ![p] = IF pc = "idle" THEN Idle
                          ELSE [Idle EXCEPT !.pc = pc, !.task = "approve"]]
        ELSE proc' = [proc EXCEPT ![p] = [me EXCEPT !.pc = "pin",
                                                    !.snap = Empty]]

ApproveSave(p) ==
    /\ proc[p].pc = "approveSave" /\ proc[p].task # "all"
    /\ LET r == proc[p].req
           e == proc[p].snap[r]
       IN  /\ Approvable(e, r)
           /\ pending' = [proc[p].snap EXCEPT ![r] = Approved(e)]
           /\ crossed' = (crossed \cup Outdated(proc[p].snap)) \ {r}
           /\ Clean(r)
           /\ Then(p)
    /\ UNCHANGED <<flock, engine, lock, run, moves>>

\* Nothing to approve: no entry, work for people only, drafts to answer, or
\* approved already.  An adjudication polls and tries once more.
ApproveRefused(p) ==
    /\ proc[p].pc = "approveSave" /\ proc[p].task # "all"
    /\ LET me == proc[p]
           e == me.snap[me.req]
           already == e # None /\ e.auto /\ e.approved
       IN  /\ ~Approvable(e, me.req)
           /\ CASE already /\ me.task # "approve" ->
                     proc' = [proc EXCEPT ![p].pc = "pin", ![p].snap = Empty]
                [] ~already /\ me.task = "resume" ->
                     proc' = [proc EXCEPT ![p].pc = "scan", ![p].snap = Empty]
                [] OTHER -> proc' = [proc EXCEPT ![p] = Idle]
    /\ UNCHANGED <<pending, flock, engine, lock, run, moves, observed>>

PinLoad(p) ==
    /\ proc[p].pc = "pin"
    /\ IF proc[p].pin = None
       THEN proc' = [proc EXCEPT ![p] = [Idle EXCEPT !.pc = "count",
                                             !.task = "resume"]]
       ELSE proc' = [proc EXCEPT ![p].pc = "pinSave", ![p].snap = pending]
    /\ UNCHANGED <<pending, flock, engine, lock, run, moves, observed>>

PinSave(p) ==
    /\ proc[p].pc = "pinSave"
    /\ LET me == proc[p]
       IN  IF me.snap[me.req] = None THEN UNCHANGED <<pending, crossed>>
           ELSE /\ pending' = [me.snap EXCEPT ![me.req].module = me.pin]
                /\ crossed' = crossed \cup Outdated(me.snap)
    /\ proc' = [proc EXCEPT ![p] = [Idle EXCEPT !.pc = "count",
                                                !.task = "resume"]]
    /\ UNCHANGED <<flock, engine, lock, run, moves, unclean>>

-----------------------------------------------------------------------------
(* run_requirement, seen from the queue.                                   *)

RunGate(i) ==
    /\ run[i].pc = "gate"
    /\ run' = [run EXCEPT ![i] = IF engine[run[i].req].gray THEN Exited
                                 ELSE [@ EXCEPT !.pc = "lock"]]
    /\ UNCHANGED <<pending, flock, engine, lock, proc, moves, observed>>

RunLock(i) ==
    /\ run[i].pc = "lock"
    /\ LET r == run[i].req
       IN  IF lock[r] = "free"
           THEN /\ lock' = [lock EXCEPT ![r] = i]
                /\ run' = [run EXCEPT ![i].pc = "work"]
           ELSE /\ run' = [run EXCEPT ![i] = Exited]
                /\ UNCHANGED lock
    /\ UNCHANGED <<pending, flock, engine, proc, moves, observed>>

\* `next' and `commit' move the requirement on.
RunWorks(i) ==
    /\ run[i].pc = "work"
    /\ \E w \in Found, c \in BOOLEAN :
        engine' = [engine EXCEPT ![run[i].req].work = w,
                                 ![run[i].req].current = c]
    /\ UNCHANGED <<pending, flock, lock, proc, run, moves, observed>>

\* The end "gray_list" leaves drafts behind and keeps the entry; any other
\* end first releases the lock and then removes the entry.
RunParks(i) ==
    /\ run[i].pc = "work"
    /\ LET r == run[i].req
       IN  /\ \E w \in Found :
                engine' = [engine EXCEPT ![r] =
                              [work |-> w, current |-> FALSE, gray |-> TRUE]]
           /\ lock' = [lock EXCEPT ![r] = "free"]
           /\ Clean(r)
    /\ run' = [run EXCEPT ![i] = Exited]
    /\ UNCHANGED <<pending, flock, proc, moves, crossed>>

RunEnds(i) ==
    /\ run[i].pc = "work"
    /\ lock' = [lock EXCEPT ![run[i].req] = "free"]
    /\ run' = [run EXCEPT ![i].pc = "clear"]
    /\ Clean(run[i].req)
    /\ UNCHANGED <<pending, flock, engine, proc, moves, crossed>>

ClearLoad(i) ==
    /\ run[i].pc = "clear"
    /\ run' = [run EXCEPT ![i].pc = "clearSave", ![i].snap = pending]
    /\ UNCHANGED <<pending, flock, engine, lock, proc, moves, observed>>

ClearSave(i) ==
    /\ run[i].pc = "clearSave"
    /\ LET r == run[i].req
       IN  /\ IF run[i].snap[r] = None THEN UNCHANGED <<pending, crossed>>
              ELSE /\ pending' = [run[i].snap EXCEPT ![r] = None]
                   /\ crossed' = (crossed \cup Outdated(run[i].snap)) \ {r}
           /\ Clean(r)
    /\ run' = [run EXCEPT ![i] = Exited]
    /\ UNCHANGED <<flock, engine, lock, proc, moves>>

-----------------------------------------------------------------------------
(* Crashes, manual sessions, people.                                       *)

\* kill -9, OOM, reboot: the kernel drops the locks of the dead.
KillRun(i) ==
    /\ run[i] # Exited
    /\ Intervene("kill")
    /\ lock' = [r \in Req |-> IF lock[r] = i THEN "free" ELSE lock[r]]
    /\ run' = [run EXCEPT ![i] = Exited]
    /\ UNCHANGED <<pending, flock, engine, proc, observed>>

KillActor(p) ==
    /\ proc[p] # Idle
    /\ Intervene("kill")
    /\ flock' = IF flock = p THEN None ELSE flock
    /\ proc' = [proc EXCEPT ![p] = Idle]
    /\ UNCHANGED <<pending, engine, lock, run, observed>>

BeginManual(r) ==
    /\ lock[r] = "free" /\ Intervene("manual")
    /\ lock' = [lock EXCEPT ![r] = "manual"]
    /\ UNCHANGED <<pending, flock, engine, proc, run, observed>>

\* The session ends by manual-end or, unattended, an hour after its last step;
\* whatever it did to the requirement is done by then.
EndManual(r) ==
    /\ lock[r] = "manual"
    /\ lock' = [lock EXCEPT ![r] = "free"]
    /\ \E e \in Engine : engine' = [engine EXCEPT ![r] = e]
    /\ UNCHANGED <<pending, flock, proc, run, moves, observed>>

\* A spec or a plan is edited or registered.
NewWork(r) ==
    /\ lock[r] = "free" /\ engine[r].work # "auto" /\ Intervene("edit")
    /\ engine' = [engine EXCEPT ![r].work = "auto"]
    /\ UNCHANGED <<pending, flock, lock, proc, run, observed>>

-----------------------------------------------------------------------------

Init ==
    /\ pending = Empty
    /\ flock = None
    /\ engine \in [Req -> {e \in Engine : e.work = "none" =>
                                             ~e.current /\ ~e.gray}]
    /\ lock = [r \in Req |-> "free"]
    /\ proc = [p \in Actors |-> Idle]
    /\ run = [i \in Runs |-> Exited]
    /\ moves = 0
    /\ unclean = [r \in Req |-> 0] /\ crossed = {}

\* The steps an actor goes through once it has started.
Proceeds(p) ==
    \/ Scan(p) \/ MergeLoad(p) \/ MergeSave(p)
    \/ Count(p) \/ Consider(p) \/ BumpLoad(p) \/ BumpSave(p)
    \/ ApproveLoad(p) \/ ApproveAllSave(p) \/ ApproveSave(p)
    \/ ApproveRefused(p) \/ PinLoad(p) \/ PinSave(p)

Starts(p) ==
    \/ StartApproveAll(p)
    \/ \E r \in Req : StartApprove(p, r) \/ StartResume(p, r) \/ RunSpec(p, r)

\* A run does not work for ever: RunLoop shows how run_requirement stops.
Finishes(i) ==
    \/ RunGate(i) \/ RunLock(i) \/ RunParks(i) \/ RunEnds(i)
    \/ ClearLoad(i) \/ ClearSave(i)

Next ==
    \/ StartPoll
    \/ \E p \in Actors : Proceeds(p) \/ KillActor(p)
    \/ \E p \in Chat : Starts(p)
    \/ \E i \in Runs : Finishes(i) \/ RunWorks(i) \/ KillRun(i)
    \/ \E r \in Req : BeginManual(r) \/ EndManual(r) \/ NewWork(r)

Spec == Init /\ [][Next]_vars

\* Cron keeps starting polls; processes that run go on to their ends, and a
\* manual session expires.  Nobody is obliged to give a command or to crash.
Fairness ==
    /\ WF_vars(StartPoll)
    /\ \A p \in Actors : WF_vars(Proceeds(p))
    /\ \A i \in Runs : WF_vars(Finishes(i))
    /\ \A r \in Req : WF_vars(EndManual(r))

FairSpec == Spec /\ Fairness

-----------------------------------------------------------------------------
(* Properties.                                                             *)

IsApproved(r) == pending[r] # None /\ pending[r].approved

\* Whatever writes are lost, a suspended requirement waits for a new approval
\* (dispatch would otherwise consider and skip it at every poll for ever), and
\* an approval lifts the suspension.
SuspendedUnapproved ==
    \A r \in Req : pending[r] # None /\ pending[r].suspended
                   => ~pending[r].approved

\* The crash loop guard: dispatch forks a requirement at most MAX_AUTO_RETRIES
\* times without a run that ends in good order or a new approval, unless an
\* outdated copy of the queue has since been written over its entry or used to
\* fork it; and every state is well typed.
CrashLoopGuard ==
    /\ TypeOK
    /\ \A r \in Req \ crossed : unclean[r] <= MaxAutoRetries

\* Somebody writes back a copy of the queue in which r is not approved.
ApprovedIn(copy, r) == copy[r] # None /\ copy[r].approved
Saving == {"mergeSave", "bumpSave", "approveSave", "pinSave"}
Overwrites(r) ==
    \/ \E p \in Actors : /\ proc[p].pc \in Saving /\ proc'[p] # proc[p]
                         /\ ~ApprovedIn(proc[p].snap, r)
    \/ \E i \in Runs : /\ run[i].pc = "clearSave" /\ run'[i] # run[i]
                       /\ ~ApprovedIn(run[i].snap, r)

\* An approval is used up by the end of a run of that requirement, by the
\* suspension, or by a poll that finds nothing to do there; no other write to
\* the queue loses it, but that of a process which loaded the queue before
\* the approval was in it.
Approval(r) == IsApproved(r) /\ ~IsApproved(r)'
ApprovalsConsumed ==
    [][\A r \in Req : Approval(r) =>
        \/ \E i \in Runs : run[i].req = r /\ run[i].pc = "clearSave"
                           /\ run'[i] = Exited
        \/ pending'[r] # None /\ pending'[r].suspended
        \/ \E p \in Actors : /\ proc[p].pc = "mergeSave"
                             /\ proc[p].list[r] = None
                             /\ proc'[p] # proc[p]
        \/ Overwrites(r)]_vars

\* README.md: a poll picks up what was approved and not started.  So an
\* approved requirement that can run does: unless the approval is withdrawn, a
\* run of it takes the lock, though chat server and runs may die at any step.
Startable(r) == IsApproved(r) /\ pending[r].auto
ApprovedRuns ==
    \A r \in Req : Startable(r) ~>
        \/ ~Startable(r)
        \/ engine[r].gray
        \/ lock[r] \in Runs
=============================================================================
