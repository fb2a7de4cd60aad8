---------------------------- MODULE LoopMachine ----------------------------
(***************************************************************************)
(* The loop engine of one requirement: machine.py over the state.json that *)
(* state.py keeps.  A requirement owns a list of modules; each module has  *)
(* a spec file and a plan file.  The holder of .loop/lock (a scheduler run *)
(* or a manual session) alternates `next', which picks a module and an     *)
(* action and records them as the resume checkpoint `current', the agent,  *)
(* which works on the files, and `commit', whose handler reads the agent's *)
(* report and moves the module on.  People edit files, register spec       *)
(* changes, adjudicate gray drafts and override statuses around it.        *)
(*                                                                         *)
(* What a report says is chosen freely by the action that commits it: the  *)
(* agent is outside the program.  A report that a handler rejects leaves   *)
(* the state as it was, so it is a stuttering step.                        *)
(***************************************************************************)
EXTENDS Integers, FiniteSets

CONSTANTS
    NModules,            \* modules of the requirement, in state.json's order
    SpecText,            \* contents a spec.md can have (one per hash)
    Norm,                \* SpecText -> SpecText: equal iff the norm hash is
    PlanText,            \* contents a plan file can have
    Finding,             \* discrepancies a CHECKER can report
    DocDrift,            \* findings that are only stale line references
    MaxMakerAttempts,    \* MAX_MAKER_ATTEMPTS
    MaxReviewFixCycles,  \* MAX_REVIEW_FIX_CYCLES
    MaxGrayDrafts,       \* MAX_GRAY_DRAFTS
    Sessions,            \* who may hold the lock: "run", "manual"
    Pins,                \* modules a run or a `next' may be scoped to
    SettableStatus,      \* statuses an operator sets by hand
    SlowGate,            \* may a starting run be overtaken before its lock?
    MaxInterventions,    \* bound: human interventions, and calls of `next'
                         \* that die
    MaxDraftId,          \* bound: gray drafts ever filed
    None                 \* Python's None

Module == 1..NModules

Status == {"PARTIAL", "READY", "NEEDS_REFINEMENT", "BLOCKED", "DRAFT", "SYNCED"}

Action == {"SCORE", "CLASSIFY_CHANGE", "MAKER_STEP0", "MAKER_STEP1_RED",
           "MAKER_STEP2_GREEN", "CHECKER", "MAKER_FIX", "CODE_REVIEW",
           "CODE_REVIEW_FIX", "ALIGN_DOCS"}

\* The actions whose agent edits source or test code.
CodeEditActions == {"MAKER_STEP1_RED", "MAKER_STEP2_GREEN", "MAKER_FIX",
                    "CODE_REVIEW_FIX"}

ASSUME ModulesAssumption == NModules \in Nat \ {0}
ASSUME NoneAssumption ==
    /\ None \notin Module
    /\ None \notin Action
    /\ None \notin SpecText
    /\ None \notin PlanText
ASSUME NormAssumption == Norm \in [SpecText -> SpecText]
ASSUME FindingAssumption == DocDrift \subseteq Finding /\ IsFiniteSet(Finding)
ASSUME BudgetAssumption ==
    /\ MaxMakerAttempts \in Nat \ {0}
    /\ MaxReviewFixCycles \in Nat
    /\ MaxGrayDrafts \in Nat
    /\ MaxInterventions \in Nat
    /\ MaxDraftId \in Nat
ASSUME EnvironmentAssumption ==
    /\ Sessions \subseteq {"run", "manual"}
    /\ Pins \subseteq Module
    /\ SettableStatus \subseteq Status
    /\ SlowGate \in BOOLEAN

VARIABLES
    file,     \* the files on disk: spec and plan of each module
    mod,      \* state.json "modules"
    cur,      \* state.json "current": the resume checkpoint
    drafts,   \* state.json "gray_drafts"
    lock,     \* who holds .loop/lock, its --module pin and loop position, and
              \* whether a starting run found no pending draft (gated)
    moves,    \* interventions so far (bounds the exploration)
    history   \* observation only: what is known about each module's code

vars == <<file, mod, cur, drafts, lock, moves, history>>

Idle == [module |-> None, action |-> None]
At(m, a) == [module |-> m, action |-> a]
Free == [by |-> "none", pin |-> None, phase |-> "next", gated |-> FALSE]
Unheld == lock.by = "none"

ModuleState ==
    [status : Status \cup {"ABSENT"}, makerAttempt : 0..MaxMakerAttempts,
     reviewFix : 0..MaxReviewFixCycles, everSynced : BOOLEAN,
     alignDone : BOOLEAN, grayResume : BOOLEAN, pendingAlign : BOOLEAN,
     specHash : SpecText \cup {None}, planHash : PlanText \cup {None},
     planPath : BOOLEAN]

Draft == [id : Nat, module : Module, finding : Finding,
          status : {"pending", "accepted", "rejected"}, archived : BOOLEAN]

(***************************************************************************)
(* history[m] is what an observer knows of m's code: the spec text it was  *)
(* last checked clean against (None once an agent edits it), whether       *)
(* somebody has edited spec.md since, whether it passed the final tests    *)
(* since the last edit, and whether a MAKER ever implemented it.  No       *)
(* action reads it.                                                        *)
(***************************************************************************)
History == [checked : SpecText \cup {None}, edited : BOOLEAN,
            tested : BOOLEAN, built : BOOLEAN]

TypeOK ==
    /\ file \in [Module -> [spec : SpecText \cup {None},
                            plan : PlanText \cup {None}]]
    /\ mod \in [Module -> ModuleState]
    /\ cur \in {Idle} \cup [module : Module, action : Action]
    /\ drafts \in SUBSET Draft
    /\ lock \in [by : {"none", "run", "manual"}, pin : Module \cup {None},
                 phase : {"next", "commit", "blind", "done"}, gated : BOOLEAN]
    /\ moves \in Nat
    /\ history \in [Module -> History]

-----------------------------------------------------------------------------
(* Gray drafts. *)

Pending == {d \in drafts : d.status = "pending"}
PendingOf(m) == {d \in Pending : d.module = m}
Adjudicated(m, verdict) ==
    {d \in drafts : d.module = m /\ d.status = verdict /\ ~d.archived}

\* Mutant of Suppressed: archived rejections are forgotten.
SuppressedUnarchived(m) == {d.finding : d \in Adjudicated(m, "rejected")}

\* CHECKER's memory of the user's rejections, archived ones included.
Suppressed(m) ==
    {d.finding : d \in {e \in drafts : e.module = m /\ e.status = "rejected"}}

\* Mutant of IsTopId: the next id is the number of drafts plus one.
IsDraftCount(top) == top = Cardinality(drafts)

\* The ids of the drafts to file follow the highest one.
IsTopId(top) ==
    /\ \A d \in drafts : d.id <= top
    /\ top = 0 \/ \E d \in drafts : d.id = top

Filed(m, W, top) ==
    {S \in SUBSET [id : (top + 1)..(top + Cardinality(W)), module : {m},
                   finding : W, status : {"pending"}, archived : {FALSE}] :
        /\ \A f \in W : \E d \in S : d.finding = f
        /\ \A d, e \in S : (d.id = e.id \/ d.finding = e.finding) => d = e}

ArchivedFor(m) ==
    {IF d.module = m /\ d.status # "pending"
     THEN [d EXCEPT !.archived = TRUE] ELSE d : d \in drafts}

\* `gone' is what the cap removes from `all': the oldest adjudicated drafts.
Trimmed(all, gone) ==
    LET settled == {d \in all : d.status # "pending"}
        excess == Cardinality(all) - MaxGrayDrafts
    IN  /\ gone \subseteq settled
        /\ \A g \in gone : \A d \in settled \ gone : g.id < d.id
        /\ \/ excess <= 0 /\ gone = {}
           \/ excess > 0 /\ excess >= Cardinality(settled) /\ gone = settled
           \/ excess > 0 /\ excess < Cardinality(settled)
                         /\ Cardinality(gone) = excess

-----------------------------------------------------------------------------
(* machine.next: pick the next step.  Each case is a disjunct of NextCall; *)
(* `pin' is --module, ms the modules as next() has updated them so far.    *)

Absent ==
    [status |-> "ABSENT", makerAttempt |-> 0, reviewFix |-> 0,
     everSynced |-> FALSE, alignDone |-> FALSE, grayResume |-> FALSE,
     pendingAlign |-> FALSE, specHash |-> None, planHash |-> None,
     planPath |-> FALSE]

NewModule(m, plan) ==
    [Absent EXCEPT !.status = "DRAFT", !.specHash = file[m].spec,
                   !.planHash = plan]

\* Spec files not yet in state.json are added first, whatever the pin.
Discovered ==
    [m \in Module |-> IF mod[m].status = "ABSENT" /\ file[m].spec # None
                      THEN NewModule(m, file[m].plan) ELSE mod[m]]

InScope(pin) == {m \in Module : pin \in {None, m}}
FirstOf(S, m) == m \in S /\ \A k \in S : m <= k

SpecDiffers(r, m) ==
    /\ r.status \in {"SYNCED", "NEEDS_REFINEMENT"}
    /\ r.specHash # file[m].spec
CosmeticEdit(r, m) ==
    SpecDiffers(r, m) /\ Norm[r.specHash] = Norm[file[m].spec]
SpecEdited(r, m) ==
    SpecDiffers(r, m) /\ Norm[r.specHash] # Norm[file[m].spec]
PlanEdited(r, m) ==
    /\ r.status = "SYNCED"
    /\ None \notin {r.planHash, file[m].plan}
    /\ r.planHash # file[m].plan

\* Mutant of SpecEdits: the scan ignores the pin.
SpecEditsAnywhere(pin) == {m \in Module : SpecEdited(Discovered[m], m)}

SpecEdits(pin) == {m \in InScope(pin) : SpecEdited(Discovered[m], m)}
PlanEdits(pin) == {m \in InScope(pin) : PlanEdited(Discovered[m], m)}

\* The scan registers cosmetic edits and first-seen plans as it goes along.
AbsorbCosmetic(ms, S) ==
    [m \in Module |-> IF m \in S /\ CosmeticEdit(ms[m], m)
                      THEN [ms[m] EXCEPT !.specHash = file[m].spec] ELSE ms[m]]
InitPlanHash(ms, S) ==
    [m \in Module |->
        IF m \in S /\ ms[m].status = "SYNCED" /\ ms[m].planHash = None
        THEN [ms[m] EXCEPT !.planHash = file[m].plan] ELSE ms[m]]

\* record_spec_change: the reset of a round, and where the round starts.
RecordSpecChange(r, text) ==
    [r EXCEPT !.specHash = text, !.status = "PARTIAL",
              !.makerAttempt = 0, !.reviewFix = 0]
\* Mutant of EntryAction: by the size of the change only.
EntryActionBySize(r) == "CLASSIFY_CHANGE"
EntryAction(r) == IF r.everSynced THEN "CLASSIFY_CHANGE" ELSE "SCORE"

Directs == lock' = [lock EXCEPT !.phase = IF lock.by = "run" THEN "commit" ELSE @]

ResumeCurrent(pin) ==
    /\ cur # Idle
    /\ cur.module \in InScope(pin)
    /\ mod' = Discovered
    /\ Directs
    /\ UNCHANGED <<cur, history>>

\* Below, nothing that is in scope is mid-progress.
Scans(pin) == cur.module \notin InScope(pin)

ScanSpec(pin) ==
    /\ Scans(pin)
    /\ \E m \in Module :
        /\ FirstOf(SpecEdits(pin), m)
        /\ mod' = [AbsorbCosmetic(Discovered, {k \in InScope(pin) : k < m})
                    EXCEPT ![m] = RecordSpecChange(@, file[m].spec)]
        /\ cur' = At(m, EntryAction(mod[m]))
    /\ Directs
    /\ UNCHANGED history

ScanPlan(pin) ==
    /\ Scans(pin)
    /\ SpecEdits(pin) = {}
    /\ \E m \in Module :
        /\ FirstOf(PlanEdits(pin), m)
        /\ mod' = [InitPlanHash(AbsorbCosmetic(Discovered, InScope(pin)),
                                {k \in InScope(pin) : k < m})
                    EXCEPT ![m] = [@ EXCEPT !.planHash = file[m].plan,
                                            !.status = "PARTIAL",
                                            !.makerAttempt = 0,
                                            !.reviewFix = 0]]
        /\ cur' = At(m, "MAKER_STEP1_RED")
    /\ Directs
    /\ UNCHANGED history

Scanned(pin) == InitPlanHash(AbsorbCosmetic(Discovered, InScope(pin)),
                             InScope(pin))

\* Mutant of Answered: a parked module resumes whatever its drafts.
Parked(r, m) == r.grayResume
Answered(r, m) == r.grayResume /\ PendingOf(m) = {}

\* Parked modules whose drafts are all answered jump the queue; otherwise
\* the highest status in the order of STATUS_TABLE wins.
Resumable(ms, pin) == {m \in InScope(pin) : Answered(ms[m], m)}
Priority == [PARTIAL |-> 1, READY |-> 2, NEEDS_REFINEMENT |-> 3,
             BLOCKED |-> 4, DRAFT |-> 5, SYNCED |-> 6, ABSENT |-> 7]
TopPriority(ms, pin) ==
    {m \in InScope(pin) : \A k \in InScope(pin) :
        Priority[ms[m].status] <= Priority[ms[k].status]}
Candidates(ms, pin) ==
    IF Resumable(ms, pin) # {} THEN Resumable(ms, pin)
    ELSE TopPriority(ms, pin)

Selects(pin, m) ==
    /\ Scans(pin)
    /\ SpecEdits(pin) = {} /\ PlanEdits(pin) = {}
    /\ FirstOf(Candidates(Scanned(pin), pin), m)

\* After ALIGN_DOCS the MAKER steps are skipped.
SelectAligned(pin) ==
    /\ \E m \in Module :
        /\ mod[m].alignDone
        /\ Selects(pin, m)
        /\ mod' = [Scanned(pin) EXCEPT ![m] =
                     [@ EXCEPT !.alignDone = FALSE, !.specHash = file[m].spec]]
        /\ cur' = At(m, "CHECKER")
    /\ Directs
    /\ UNCHANGED history

GrayAction(m) ==
    IF Adjudicated(m, "accepted") # {} THEN "MAKER_FIX" ELSE "ALIGN_DOCS"

MixedVerdicts(m) ==
    Adjudicated(m, "accepted") # {} /\ Adjudicated(m, "rejected") # {}
Resumed(r, m) ==
    [r EXCEPT !.grayResume = FALSE, !.pendingAlign = @ \/ MixedVerdicts(m)]

SelectParked(pin) ==
    /\ \E m \in Module :
        /\ ~mod[m].alignDone
        /\ Answered(mod[m], m)
        /\ Selects(pin, m)
        /\ mod' = [Scanned(pin) EXCEPT ![m] = Resumed(@, m)]
        /\ cur' = At(m, GrayAction(m))
    /\ Directs
    /\ UNCHANGED history

\* A READY module with a plan for the current spec goes straight to RED.
HasCurrentPlan(m) ==
    /\ mod[m].status = "READY"
    /\ mod[m].planPath /\ file[m].plan # None
    /\ mod[m].specHash = file[m].spec

StatusAction(r) ==
    CASE r.status = "PARTIAL" -> EntryAction(r)
      [] r.status \in {"READY", "NEEDS_REFINEMENT"} -> "SCORE"
      [] OTHER -> None

Unparked(m) == ~mod[m].alignDone /\ ~Answered(mod[m], m)

SelectByStatus(pin) ==
    /\ \E m \in Module :
        /\ Unparked(m)
        /\ StatusAction(mod[m]) # None
        /\ Selects(pin, m)
        /\ mod' = Scanned(pin)
        /\ cur' = At(m, IF HasCurrentPlan(m) THEN "MAKER_STEP1_RED"
                        ELSE StatusAction(mod[m]))
    /\ Directs
    /\ UNCHANGED history

\* IDLE: nothing to do.  A scheduler run ends on it.
SelectNothing(pin) ==
    /\ \E m \in Module :
        /\ Unparked(m)
        /\ StatusAction(mod[m]) = None
        /\ Selects(pin, m)
    /\ mod' = Scanned(pin)
    /\ lock' = [lock EXCEPT !.phase = IF lock.by = "run" THEN "done" ELSE @]
    /\ UNCHANGED <<cur, history>>

NextCall ==
    /\ ~Unheld /\ lock.phase = "next"
    /\ \E pin \in IF lock.by = "run" THEN {lock.pin} ELSE Pins \cup {None} :
        \/ ResumeCurrent(pin)
        \/ ScanSpec(pin)
        \/ ScanPlan(pin)
        \/ SelectAligned(pin)
        \/ SelectParked(pin)
        \/ SelectByStatus(pin)
        \/ SelectNothing(pin)
    /\ UNCHANGED <<file, drafts, moves>>

-----------------------------------------------------------------------------
(* machine.commit: one action per outcome of the handler of cur.action.    *)

\* A run commits the step its last `next' directed, or, "blind", whatever is
\* the checkpoint when that `next' died; a manual session may commit whenever
\* there is a checkpoint.
AtStep == IF lock.by = "run" THEN lock.phase \in {"commit", "blind"}
          ELSE lock.phase = "next"
Committing(m, a) ==
    /\ cur = At(m, a)
    /\ ~Unheld
    /\ AtStep
    /\ UNCHANGED <<file, moves>>

Update(m, r) == mod' = [mod EXCEPT ![m] = r]
Loops == lock' = [lock EXCEPT !.phase = "next"]
\* run_requirement breaks out of its loop, unless the commit died after its
\* save: that is retried like any failure.  A manual session just goes on.
Stops ==
    \/ lock' = [lock EXCEPT !.phase = IF lock.by = "run" THEN "done" ELSE @]
    \/ Loops

Proceed(m, r, a) == Update(m, r) /\ cur' = At(m, a) /\ Loops
Halt(m, r) == Update(m, r) /\ cur' = Idle /\ Stops
Block(m, r) == Halt(m, [r EXCEPT !.status = "BLOCKED"])

\* Mutant of Refreshed: the hash of the spec is not taken anew.
RefreshedPlan(m, r) ==
    [r EXCEPT !.planHash = IF file[m].plan # None THEN file[m].plan ELSE @]
Refreshed(m, r) ==
    [r EXCEPT !.specHash = file[m].spec,
              !.planHash = IF file[m].plan # None THEN file[m].plan ELSE @]
Synced(r) == [r EXCEPT !.status = "SYNCED",
                       !.everSynced = @ \/ r.makerAttempt > 0]

\* _execute_synced: `green' is the outcome of the repositories' own tests,
\* which are run unless the module is SYNCED already.
MergeIf(m, r, green) ==
    IF green
    THEN Update(m, Synced(Refreshed(m, r))) /\ cur' = Idle /\ Loops
    ELSE Block(m, Refreshed(m, r))
\* The tripwire refuses a merge that comes straight from a code edit.
Merge(m, r, green) ==
    IF cur.action \in CodeEditActions THEN Block(m, r) ELSE MergeIf(m, r, green)
TestOutcomes(r) == IF r.status = "SYNCED" THEN {TRUE} ELSE BOOLEAN

\* _execute_gray_list: archive the module's answered drafts, file one draft
\* per warning, trim to the cap; the module is parked.
Park(m, r, W) ==
    /\ \E top \in 0..MaxDraftId :
        /\ IsTopId(top)
        /\ top + Cardinality(W) <= MaxDraftId
        /\ \E new \in Filed(m, W, top) :
            LET all == ArchivedFor(m) \cup new
            IN  \E gone \in SUBSET all :
                    Trimmed(all, gone) /\ drafts' = all \ gone
    /\ Halt(m, [r EXCEPT !.grayResume = TRUE])

CommitScore(m) ==
    /\ Committing(m, "SCORE")
    /\ \/ Proceed(m, [mod[m] EXCEPT !.status = "READY", !.reviewFix = 0],
                  "MAKER_STEP0")
       \/ Halt(m, [mod[m] EXCEPT !.status = "NEEDS_REFINEMENT"])
    /\ UNCHANGED <<drafts, history>>

CommitClassify(m) ==
    /\ Committing(m, "CLASSIFY_CHANGE")
    /\ \E a \in {"CHECKER", "SCORE"} : Proceed(m, mod[m], a)
    /\ UNCHANGED <<drafts, history>>

CommitMakerStep0(m) ==
    /\ Committing(m, "MAKER_STEP0")
    /\ \/ Proceed(m, mod[m], "MAKER_STEP0")
       \/ /\ file[m].plan # None
          /\ Proceed(m, [mod[m] EXCEPT !.planPath = TRUE], "MAKER_STEP1_RED")
    /\ UNCHANGED <<drafts, history>>

CommitRed(m) ==
    /\ Committing(m, "MAKER_STEP1_RED")
    /\ Proceed(m, mod[m], "MAKER_STEP2_GREEN")
    /\ UNCHANGED <<drafts, history>>

CommitGreen(m) ==
    /\ Committing(m, "MAKER_STEP2_GREEN")
    /\ Proceed(m, [mod[m] EXCEPT !.makerAttempt = 1], "CHECKER")
    /\ history' = [history EXCEPT ![m].built = TRUE]
    /\ UNCHANGED drafts

\* _commit_checker.  Findings that repeat a rejected draft are dropped, and
\* of the warnings also those about stale line references.
HardErrors(m) == Finding \ Suppressed(m)
SoftWarnings(m) == Finding \ (Suppressed(m) \cup DocDrift)
Checked(m) == [mod[m] EXCEPT !.alignDone = FALSE]

\* Mutant of HasFixBudget: one round too many.
HasFixBudgetOffByOne(r) == r.makerAttempt <= MaxMakerAttempts
HasFixBudget(r) == r.makerAttempt < MaxMakerAttempts

CheckerFindsErrors(m) ==
    /\ Committing(m, "CHECKER")
    /\ HardErrors(m) # {}
    /\ HasFixBudget(mod[m])
    /\ Proceed(m, [Checked(m) EXCEPT !.makerAttempt = @ + 1], "MAKER_FIX")
    /\ UNCHANGED <<drafts, history>>

CheckerBlocks(m) ==
    /\ Committing(m, "CHECKER")
    /\ HardErrors(m) # {}
    /\ ~HasFixBudget(mod[m])
    /\ Block(m, Checked(m))
    /\ UNCHANGED <<drafts, history>>

CheckerParks(m) ==
    /\ Committing(m, "CHECKER")
    /\ \E W \in (SUBSET SoftWarnings(m)) \ {{}} : Park(m, Checked(m), W)
    /\ UNCHANGED history

\* A clean CHECKER hands over to CODE_REVIEW, or merges at once on the light
\* path (no MAKER ran in this round).
CheckerPasses(m) ==
    /\ Committing(m, "CHECKER")
    /\ \/ /\ mod[m].makerAttempt > 0
          /\ Proceed(m, Checked(m), "CODE_REVIEW")
          /\ history' = [history EXCEPT ![m].checked = file[m].spec,
                                        ![m].edited = FALSE]
       \/ /\ mod[m].makerAttempt = 0
          /\ \E green \in TestOutcomes(mod[m]) :
              /\ Merge(m, Checked(m), green)
              /\ history' = [history EXCEPT
                    ![m].checked = file[m].spec, ![m].edited = FALSE,
                    ![m].tested = @ \/ (green /\ mod[m].status # "SYNCED")]
    /\ UNCHANGED drafts

CommitMakerFix(m) ==
    /\ Committing(m, "MAKER_FIX")
    /\ Proceed(m, [mod[m] EXCEPT !.pendingAlign = FALSE],
               IF mod[m].pendingAlign THEN "ALIGN_DOCS" ELSE "CHECKER")
    /\ UNCHANGED <<drafts, history>>

CommitAlignDocs(m) ==
    /\ Committing(m, "ALIGN_DOCS")
    /\ Proceed(m, [mod[m] EXCEPT !.alignDone = TRUE, !.specHash = file[m].spec],
               "CHECKER")
    /\ UNCHANGED <<drafts, history>>

ReviewFindsIssues(m) ==
    /\ Committing(m, "CODE_REVIEW")
    /\ \/ /\ mod[m].reviewFix < MaxReviewFixCycles
          /\ Proceed(m, [mod[m] EXCEPT !.reviewFix = @ + 1], "CODE_REVIEW_FIX")
       \/ /\ mod[m].reviewFix >= MaxReviewFixCycles
          /\ Block(m, mod[m])
    /\ UNCHANGED <<drafts, history>>

ReviewPasses(m) ==
    /\ Committing(m, "CODE_REVIEW")
    /\ \E green \in TestOutcomes(mod[m]) :
        /\ Merge(m, mod[m], green)
        /\ history' = [history EXCEPT
              ![m].tested = @ \/ (green /\ mod[m].status # "SYNCED")]
    /\ UNCHANGED drafts

\* Mutant of AfterReviewFix: back to the reviewer, not to the CHECKER.
AfterReviewFixReview(r) == "CODE_REVIEW"
AfterReviewFix(r) ==
    IF r.reviewFix > MaxReviewFixCycles THEN None ELSE "CHECKER"
CommitReviewFix(m) ==
    /\ Committing(m, "CODE_REVIEW_FIX")
    /\ IF AfterReviewFix(mod[m]) = None THEN Block(m, mod[m])
       ELSE Proceed(m, mod[m], AfterReviewFix(mod[m]))
    /\ UNCHANGED <<drafts, history>>

Commit(m) ==
    \/ CommitScore(m) \/ CommitClassify(m) \/ CommitMakerStep0(m)
    \/ CommitRed(m) \/ CommitGreen(m)
    \/ CheckerFindsErrors(m) \/ CheckerBlocks(m)
    \/ CheckerParks(m) \/ CheckerPasses(m)
    \/ CommitMakerFix(m) \/ CommitAlignDocs(m)
    \/ ReviewFindsIssues(m) \/ ReviewPasses(m) \/ CommitReviewFix(m)

-----------------------------------------------------------------------------
(* The agent, while it works on the current step.  It may also do nothing, *)
(* fail, or be killed: none of that is recorded anywhere.                  *)

AgentAtWork(m, S) ==
    /\ cur.module = m /\ cur.action \in S
    /\ ~Unheld
    /\ AtStep

EditCode(m) ==
    /\ AgentAtWork(m, CodeEditActions)
    /\ history' = [history EXCEPT ![m].checked = None, ![m].edited = FALSE,
                                  ![m].tested = FALSE]
    /\ UNCHANGED <<file, mod, cur, drafts, lock, moves>>

EditDocs(m) ==
    /\ \/ /\ AgentAtWork(m, {"MAKER_STEP0"})
          /\ \E p \in PlanText : file' = [file EXCEPT ![m].plan = p]
       \/ /\ AgentAtWork(m, {"ALIGN_DOCS"})
          /\ \E s \in SpecText, p \in PlanText \cup {file[m].plan} :
                file' = [file EXCEPT ![m] = [spec |-> s, plan |-> p]]
    /\ UNCHANGED <<mod, cur, drafts, lock, moves, history>>

-----------------------------------------------------------------------------
(* The lock.  A run first looks for pending drafts, then takes the lock; it *)
(* is scoped by its --module pin.  Release is the end of a session and     *)
(* equally its death, on which the kernel drops the flock.                 *)

PassGate ==
    /\ SlowGate /\ "run" \in Sessions
    /\ ~lock.gated
    /\ Pending = {}
    /\ lock' = [lock EXCEPT !.gated = TRUE]
    /\ UNCHANGED <<file, mod, cur, drafts, moves, history>>

\* The lock is tried once; a run that does not get it ends.
BeginRun ==
    /\ \/ lock.gated
       \/ ~SlowGate /\ "run" \in Sessions /\ Unheld /\ Pending = {}
    /\ \/ /\ Unheld
          /\ \E pin \in Pins \cup {None} :
               lock' = [by |-> "run", pin |-> pin, phase |-> "next",
                        gated |-> FALSE]
       \/ /\ ~Unheld
          /\ lock' = [lock EXCEPT !.gated = FALSE]
    /\ UNCHANGED <<file, mod, cur, drafts, moves, history>>

Intervene == moves < MaxInterventions /\ moves' = moves + 1

BeginManual ==
    /\ "manual" \in Sessions
    /\ Unheld
    /\ Intervene
    /\ lock' = [lock EXCEPT !.by = "manual"]
    /\ UNCHANGED <<file, mod, cur, drafts, history>>

\* The agent or the commit failed: run_requirement asks `next' again.
Retry ==
    /\ lock.by = "run" /\ AtStep
    /\ lock' = [lock EXCEPT !.phase = "next"]
    /\ UNCHANGED <<file, mod, cur, drafts, moves, history>>

\* A `next' that dies prints nothing, which reads as a directive without an
\* action: an agent is started, and the old checkpoint is committed.
Undirected ==
    /\ lock.by = "run" /\ lock.phase = "next"
    /\ Intervene
    /\ lock' = [lock EXCEPT !.phase = "blind"]
    /\ UNCHANGED <<file, mod, cur, drafts, history>>

Release ==
    /\ ~Unheld
    /\ lock' = [Free EXCEPT !.gated = lock.gated]
    /\ UNCHANGED <<file, mod, cur, drafts, moves, history>>

-----------------------------------------------------------------------------
(* People, and the poll.                                                   *)

\* At any time, while a step works on the module too.
EditSpec(m) ==
    /\ Intervene
    /\ \E s \in SpecText \ {file[m].spec} : file' = [file EXCEPT ![m].spec = s]
    /\ history' = [history EXCEPT ![m].edited = @ \/ history[m].checked # None]
    /\ UNCHANGED <<mod, cur, drafts, lock>>

EditPlan(m) ==
    /\ file[m].spec # None
    /\ Intervene
    /\ \E p \in PlanText \ {file[m].plan} : file' = [file EXCEPT ![m].plan = p]
    /\ UNCHANGED <<mod, cur, drafts, lock, history>>

\* router._execute_spec_result: register an edited or a new spec.
SpecResult(m) ==
    /\ Unheld
    /\ file[m].spec # None
    /\ \/ mod[m].status \in {"ABSENT", "DRAFT"}
       \/ mod[m].specHash # file[m].spec
    /\ LET r == IF mod[m].status = "ABSENT" THEN NewModule(m, None) ELSE mod[m]
       IN  /\ Update(m, RecordSpecChange(r, file[m].spec))
           /\ cur' = At(m, EntryAction(r))
    /\ UNCHANGED <<file, drafts, lock, moves, history>>

\* resolve_gray_draft
Resolve ==
    /\ Unheld
    /\ \E d \in Pending, verdict \in {"accepted", "rejected"} :
          drafts' = (drafts \ {d}) \cup {[d EXCEPT !.status = verdict]}
    /\ UNCHANGED <<file, mod, cur, lock, moves, history>>

\* The poll rejects and archives the pending drafts of modules whose spec
\* file no longer matches the registered hash.
Stale == {d \in Pending : SpecEdited(mod[d.module], d.module)}
PollArchive ==
    /\ Unheld
    /\ Stale # {}
    /\ drafts' = (drafts \ Stale) \cup
          {[d EXCEPT !.status = "rejected", !.archived = TRUE] : d \in Stale}
    /\ UNCHANGED <<file, mod, cur, lock, moves, history>>

\* set-status and reset ask for no lock; both drop the module's checkpoint.
DropCheckpoint(m) == cur' = IF cur.module = m THEN Idle ELSE cur

SetStatus(m) ==
    /\ mod[m].status # "ABSENT"
    /\ Intervene
    /\ \E s \in SettableStatus : Update(m, [mod[m] EXCEPT !.status = s])
    /\ DropCheckpoint(m)
    /\ UNCHANGED <<file, drafts, lock, history>>

Reset(m) ==
    /\ mod[m].status # "ABSENT" /\ SettableStatus # {}
    /\ Intervene
    /\ Update(m, [mod[m] EXCEPT !.status = "DRAFT", !.makerAttempt = 0,
                                !.reviewFix = 0])
    /\ DropCheckpoint(m)
    /\ UNCHANGED <<file, drafts, lock, history>>

-----------------------------------------------------------------------------

Init ==
    /\ file \in [Module -> [spec : SpecText \cup {None}, plan : {None}]]
    /\ mod = [m \in Module |-> Absent]
    /\ cur = Idle
    /\ drafts = {}
    /\ lock = Free
    /\ moves = 0
    /\ history = [m \in Module |->
          [checked |-> None, edited |-> FALSE, tested |-> FALSE,
           built |-> FALSE]]

Next ==
    \/ NextCall
    \/ \E m \in Module : \/ Commit(m) \/ EditCode(m) \/ EditDocs(m)
                         \/ EditSpec(m) \/ EditPlan(m) \/ SpecResult(m)
                         \/ SetStatus(m) \/ Reset(m)
    \/ PassGate \/ BeginRun \/ BeginManual \/ Retry \/ Undirected \/ Release
    \/ Resolve \/ PollArchive

Spec == Init /\ [][Next]_vars

-----------------------------------------------------------------------------
(* Properties.                                                             *)

\* The engine merged m in this step: the step of m was completed and m is
\* SYNCED, not parked (that files drafts) nor set so by an operator (that
\* counts in moves).
Merged(m) ==
    /\ cur.module = m /\ cur' = Idle
    /\ mod'[m].status = "SYNCED"
    /\ UNCHANGED <<drafts, moves>>

\* Bedrock, machine.py's "no inconsistency merges": whatever mixture of
\* runs, crashes, adjudications and overrides came before, the code that is
\* merged has not been edited since a CHECKER last found it clean.
Bedrock == [][\A m \in Module : Merged(m) => history'[m].checked # None]_vars

\* No code, no merge: a module whose code no MAKER ever wrote is never merged
\* on the light path (record_spec_change: "otherwise ... SYNCED without code").
BuiltBeforeMerge == [][\A m \in Module : Merged(m) => history'[m].built]_vars

\* What is merged is registered with the text that its code was checked
\* against (up to format), through reviews, tests and their retries, unless
\* somebody has edited spec.md after that verdict: the merge takes the file's
\* hash anew (_execute_synced) and asks nobody.
MergedAsChecked ==
    [][\A m \in Module : Merged(m) =>
        /\ history'[m].checked # None
        /\ \/ Norm[history'[m].checked] = Norm[mod'[m].specHash]
           \/ history'[m].edited]_vars

\* A draft that waits for an answer has its module parked, so that the answer
\* will be acted upon: no scan, override, crash or session unparks it early.
ParkedWhilePending == \A d \in Pending : mod[d.module].grayResume

\* People answer drafts by number.  A number stands for one question for ever,
\* although the cap deletes drafts, and an answered question stays answered.
IdsNeverReissued ==
    [][/\ \A d \in drafts' :
            \/ \A e \in drafts : e.id < d.id
            \/ \E e \in drafts : /\ e.id = d.id /\ e.module = d.module
                               /\ e.finding = d.finding
                               /\ e.status \in {"pending", d.status}
       /\ \A d, e \in drafts' : d.id = e.id => d = e
       /\ \A e \in drafts : \E d \in drafts' : e.id <= d.id]_vars

\* What the user rejected is not asked again while the rejection is stored,
\* archived or not.
RejectionsStick ==
    [][\A d \in drafts' :
        (\A e \in drafts : e.id # d.id) =>
        ~\E e \in drafts : /\ e.status = "rejected"
                           /\ e.module = d.module /\ e.finding = d.finding]_vars

\* A run pinned to a module leaves the others alone, whatever failed, was
\* retried or was changed by hand meanwhile; at most it registers spec files it
\* discovers.  The one exception is the step after a `next' that died, which
\* commits a checkpoint the run was not given.
PinnedRunStaysInScope ==
    [][\A m \in Module :
        (/\ lock.by = "run" /\ lock.pin \notin {None, m}
         /\ lock.phase # "blind"
         /\ UNCHANGED moves /\ mod[m].status # "ABSENT") => mod'[m] = mod[m]]_vars

-----------------------------------------------------------------------------
(* What the documentation and the comments say and the program does not do. *)

\* README.md: "before SYNCED the engine itself runs the repository's tests".
GateBeforeMerge ==
    [][\A m \in Module : Merged(m) => history'[m].tested]_vars
=============================================================================
