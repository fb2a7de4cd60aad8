------------------------- MODULE LoopMachineProofs -------------------------
(* Theorems about LoopMachine, for every number of modules, every text,    *)
(* every set of findings and every budget.                                 *)
EXTENDS LoopMachine, FiniteSetTheorems, TLAPS

-----------------------------------------------------------------------------
(* Types.                                                                  *)

Lock == [by : {"none", "run", "manual"}, pin : Module \cup {None},
         phase : {"next", "commit", "blind", "done"}, gated : BOOLEAN]
File == [spec : SpecText \cup {None}, plan : PlanText \cup {None}]
Checkpoint == {Idle} \cup [module : Module, action : Action]

LEMMA TypeParts ==
    TypeOK <=> /\ file \in [Module -> File]
               /\ mod \in [Module -> ModuleState]
               /\ cur \in Checkpoint
               /\ drafts \in SUBSET Draft
               /\ lock \in Lock
               /\ moves \in Nat
               /\ history \in [Module -> History]
  BY DEF TypeOK, Lock, File, Checkpoint

\* Every field of a module can be set on its own.
LEMMA FieldTypes ==
    ASSUME NEW r \in ModuleState
    PROVE  /\ \A x \in Status : [r EXCEPT !.status = x] \in ModuleState
           /\ \A x \in 0..MaxMakerAttempts :
                [r EXCEPT !.makerAttempt = x] \in ModuleState
           /\ \A x \in 0..MaxReviewFixCycles :
                [r EXCEPT !.reviewFix = x] \in ModuleState
           /\ \A x \in BOOLEAN : /\ [r EXCEPT !.everSynced = x] \in ModuleState
                               /\ [r EXCEPT !.alignDone = x] \in ModuleState
                               /\ [r EXCEPT !.grayResume = x] \in ModuleState
                               /\ [r EXCEPT !.pendingAlign = x] \in ModuleState
                               /\ [r EXCEPT !.planPath = x] \in ModuleState
           /\ \A x \in SpecText \cup {None} :
                [r EXCEPT !.specHash = x] \in ModuleState
           /\ \A x \in PlanText \cup {None} :
                [r EXCEPT !.planHash = x] \in ModuleState
           /\ r.makerAttempt \in 0..MaxMakerAttempts
           /\ r.reviewFix \in 0..MaxReviewFixCycles
           /\ {r.everSynced, r.pendingAlign} \subseteq BOOLEAN
<1>1. \A x \in BOOLEAN : /\ [r EXCEPT !.everSynced = x] \in ModuleState
                        /\ [r EXCEPT !.alignDone = x] \in ModuleState
                        /\ [r EXCEPT !.grayResume = x] \in ModuleState
                        /\ [r EXCEPT !.pendingAlign = x] \in ModuleState
                        /\ [r EXCEPT !.planPath = x] \in ModuleState
  BY DEF ModuleState
<1>2. \A x \in Status : [r EXCEPT !.status = x] \in ModuleState
  BY DEF ModuleState
<1>3. /\ \A x \in 0..MaxMakerAttempts :
           [r EXCEPT !.makerAttempt = x] \in ModuleState
      /\ \A x \in 0..MaxReviewFixCycles :
           [r EXCEPT !.reviewFix = x] \in ModuleState
  BY DEF ModuleState
<1>4. /\ \A x \in SpecText \cup {None} : [r EXCEPT !.specHash = x] \in ModuleState
      /\ \A x \in PlanText \cup {None} : [r EXCEPT !.planHash = x] \in ModuleState
  BY DEF ModuleState
<1>5. /\ r.makerAttempt \in 0..MaxMakerAttempts
      /\ r.reviewFix \in 0..MaxReviewFixCycles
      /\ {r.everSynced, r.pendingAlign} \subseteq BOOLEAN
  BY DEF ModuleState
<1> QED BY <1>1, <1>2, <1>3, <1>4, <1>5

LEMMA ReplaceType ==
    ASSUME NEW ms \in [Module -> ModuleState], NEW m \in Module,
           NEW r \in ModuleState
    PROVE  [ms EXCEPT ![m] = r] \in [Module -> ModuleState]
  OBVIOUS

LEMMA ZeroTypes == 0 \in 0..MaxMakerAttempts /\ 0 \in 0..MaxReviewFixCycles
  BY BudgetAssumption DEF BudgetAssumption

LEMMA FileTypes ==
    ASSUME TypeOK, NEW m \in Module
    PROVE  /\ file[m].spec \in SpecText \cup {None}
           /\ file[m].plan \in PlanText \cup {None}
           /\ mod[m] \in ModuleState
  BY DEF TypeOK

LEMMA AbsentType == Absent \in ModuleState
  BY BudgetAssumption DEF Absent, ModuleState, BudgetAssumption

LEMMA NewModuleType ==
    ASSUME TypeOK, NEW m \in Module, NEW plan \in PlanText \cup {None}
    PROVE  NewModule(m, plan) \in ModuleState
  BY AbsentType DEF TypeOK, NewModule, ModuleState, Status

LEMMA DiscoveredType ==
    ASSUME TypeOK
    PROVE  Discovered \in [Module -> ModuleState]
<1> SUFFICES ASSUME NEW m \in Module
             PROVE  (IF mod[m].status = "ABSENT" /\ file[m].spec # None
                     THEN NewModule(m, file[m].plan) ELSE mod[m]) \in ModuleState
  BY DEF Discovered
<1> QED BY NewModuleType DEF TypeOK

LEMMA AbsorbType ==
    ASSUME TypeOK, NEW ms \in [Module -> ModuleState], NEW S
    PROVE  AbsorbCosmetic(ms, S) \in [Module -> ModuleState]
<1> SUFFICES ASSUME NEW m \in Module
             PROVE  (IF m \in S /\ CosmeticEdit(ms[m], m)
                     THEN [ms[m] EXCEPT !.specHash = file[m].spec]
                     ELSE ms[m]) \in ModuleState
  BY DEF AbsorbCosmetic
<1> QED BY FieldTypes, FileTypes

LEMMA InitPlanType ==
    ASSUME TypeOK, NEW ms \in [Module -> ModuleState], NEW S
    PROVE  InitPlanHash(ms, S) \in [Module -> ModuleState]
<1> SUFFICES ASSUME NEW m \in Module
             PROVE  (IF m \in S /\ ms[m].status = "SYNCED" /\ ms[m].planHash = None
                     THEN [ms[m] EXCEPT !.planHash = file[m].plan]
                     ELSE ms[m]) \in ModuleState
  BY DEF InitPlanHash
<1> QED BY FieldTypes, FileTypes

LEMMA ScannedType ==
    ASSUME TypeOK, NEW pin
    PROVE  Scanned(pin) \in [Module -> ModuleState]
  BY DiscoveredType, AbsorbType, InitPlanType DEF Scanned

LEMMA RecordSpecChangeType ==
    ASSUME NEW r \in ModuleState, NEW text \in SpecText \cup {None}
    PROVE  RecordSpecChange(r, text) \in ModuleState
<1> DEFINE r1 == [r EXCEPT !.specHash = text]
           r2 == [r1 EXCEPT !.status = "PARTIAL"]
           r3 == [r2 EXCEPT !.makerAttempt = 0]
           r4 == [r3 EXCEPT !.reviewFix = 0]
<1>1. r1 \in ModuleState
  BY FieldTypes
<1>2. r2 \in ModuleState
  BY <1>1, FieldTypes DEF Status
<1>3. r3 \in ModuleState
  BY <1>2, FieldTypes, ZeroTypes
<1>4. r4 \in ModuleState
  BY <1>3, FieldTypes, ZeroTypes
<1> QED BY <1>4 DEF RecordSpecChange

LEMMA ResumedType ==
    ASSUME NEW r \in ModuleState, NEW m
    PROVE  Resumed(r, m) \in ModuleState
<1> DEFINE r1 == [r EXCEPT !.grayResume = FALSE]
<1>1. r1 \in ModuleState
  BY FieldTypes
<1>2. (r1.pendingAlign \/ MixedVerdicts(m)) \in BOOLEAN
  OBVIOUS
<1>3. [r1 EXCEPT !.pendingAlign = @ \/ MixedVerdicts(m)] \in ModuleState
  <2> HIDE DEF r1
  <2> QED BY <1>1, <1>2, FieldTypes
<1> QED BY <1>3 DEF Resumed

LEMMA EntryActionType ==
    ASSUME NEW r
    PROVE  EntryAction(r) \in Action
  BY DEF EntryAction, Action

LEMMA DirectsType ==
    ASSUME TypeOK, Directs
    PROVE  lock' \in Lock
  BY DEF TypeOK, Directs, Lock

LEMMA NextCallType ==
    ASSUME TypeOK, NextCall
    PROVE  TypeOK'
<1>0. /\ file' \in [Module -> File] /\ drafts' \in SUBSET Draft /\ moves' \in Nat
      /\ history \in [Module -> History] /\ cur \in Checkpoint
  BY TypeParts DEF NextCall
<1>1. PICK pin : \/ ResumeCurrent(pin) \/ ScanSpec(pin) \/ ScanPlan(pin)
                 \/ SelectAligned(pin) \/ SelectParked(pin)
                 \/ SelectByStatus(pin) \/ SelectNothing(pin)
  BY DEF NextCall
<1> SUFFICES /\ mod' \in [Module -> ModuleState] /\ cur' \in Checkpoint
             /\ lock' \in Lock /\ history' \in [Module -> History]
  BY <1>0, TypeParts DEF TypeOK, Lock, File, Checkpoint
<1>a. CASE ResumeCurrent(pin)
  BY <1>0, <1>a, DiscoveredType, DirectsType DEF ResumeCurrent
<1>b. CASE ScanSpec(pin)
  <2>1. PICK m \in Module :
          /\ mod' = [AbsorbCosmetic(Discovered, {k \in InScope(pin) : k < m})
                      EXCEPT ![m] = RecordSpecChange(@, file[m].spec)]
          /\ cur' = At(m, EntryAction(mod[m]))
          /\ UNCHANGED history
    BY <1>b DEF ScanSpec
  <2>2. AbsorbCosmetic(Discovered, {k \in InScope(pin) : k < m})
          \in [Module -> ModuleState]
    BY DiscoveredType, AbsorbType
  <2>3. mod' \in [Module -> ModuleState]
    BY <2>1, <2>2, RecordSpecChangeType DEF TypeOK
  <2>4. cur' \in Checkpoint
    BY <2>1, EntryActionType DEF At, Checkpoint
  <2> QED BY <1>0, <1>b, <2>1, <2>3, <2>4, DirectsType DEF ScanSpec, TypeOK
<1>c. CASE ScanPlan(pin)
  <2> DEFINE ms(m) == InitPlanHash(AbsorbCosmetic(Discovered, InScope(pin)),
                                   {k \in InScope(pin) : k < m})
  <2>1. PICK m \in Module :
          /\ mod' = [ms(m) EXCEPT ![m] = [@ EXCEPT !.planHash = file[m].plan,
                                                   !.status = "PARTIAL",
                                                   !.makerAttempt = 0,
                                                   !.reviewFix = 0]]
          /\ cur' = At(m, "MAKER_STEP1_RED")
          /\ UNCHANGED history
    BY Zenon, <1>c DEF ScanPlan
  <2>2. ms(m) \in [Module -> ModuleState]
    BY DiscoveredType, AbsorbType, InitPlanType
  <2>3. [ms(m)[m] EXCEPT !.planHash = file[m].plan, !.status = "PARTIAL",
                         !.makerAttempt = 0, !.reviewFix = 0] \in ModuleState
    <3> DEFINE r1 == [ms(m)[m] EXCEPT !.planHash = file[m].plan]
               r2 == [r1 EXCEPT !.status = "PARTIAL"]
               r3 == [r2 EXCEPT !.makerAttempt = 0]
               r4 == [r3 EXCEPT !.reviewFix = 0]
    <3> HIDE DEF ms
    <3>1. r1 \in ModuleState
      BY <2>2, FieldTypes, FileTypes
    <3>2. r2 \in ModuleState
      BY <3>1, FieldTypes DEF Status
    <3>3. r3 \in ModuleState
      BY <3>2, FieldTypes, ZeroTypes
    <3>4. r4 \in ModuleState
      BY <3>3, FieldTypes, ZeroTypes
    <3> QED BY <3>4
  <2>4. mod' \in [Module -> ModuleState]
    <3> HIDE DEF ms
    <3> QED BY <2>1, <2>2, <2>3
  <2>5. cur' \in Checkpoint
    BY <2>1 DEF At, Action, Checkpoint
  <2> QED BY SMTT(30), <1>0, <1>c, <2>1, <2>4, <2>5, DirectsType DEF ScanPlan, TypeOK
<1>d. CASE SelectAligned(pin)
  <2>1. PICK m \in Module :
          /\ mod' = [Scanned(pin) EXCEPT ![m] =
                       [@ EXCEPT !.alignDone = FALSE, !.specHash = file[m].spec]]
          /\ cur' = At(m, "CHECKER")
    BY <1>d DEF SelectAligned
  <2>2. [Scanned(pin)[m] EXCEPT !.alignDone = FALSE, !.specHash = file[m].spec]
          \in ModuleState
    <3>1. [Scanned(pin)[m] EXCEPT !.alignDone = FALSE] \in ModuleState
      BY ScannedType, FieldTypes
    <3> QED BY <3>1, FieldTypes, FileTypes
  <2>3. mod' \in [Module -> ModuleState]
    BY <2>1, <2>2, ScannedType
  <2>4. cur' \in Checkpoint
    BY <2>1 DEF At, Action, Checkpoint
  <2> QED BY <1>0, <1>d, <2>3, <2>4, DirectsType DEF SelectAligned
<1>e. CASE SelectParked(pin)
  <2>1. PICK m \in Module :
          /\ mod' = [Scanned(pin) EXCEPT ![m] = Resumed(@, m)]
          /\ cur' = At(m, GrayAction(m))
    BY <1>e DEF SelectParked
  <2>2. mod' \in [Module -> ModuleState]
    BY <2>1, ScannedType, ResumedType
  <2>3. cur' \in Checkpoint
    BY <2>1 DEF At, Action, Checkpoint, GrayAction
  <2> QED BY <1>0, <1>e, <2>2, <2>3, DirectsType DEF SelectParked
<1>f. CASE SelectByStatus(pin)
  <2>1. PICK m \in Module :
          /\ StatusAction(mod[m]) # None
          /\ cur' = At(m, IF HasCurrentPlan(m) THEN "MAKER_STEP1_RED"
                          ELSE StatusAction(mod[m]))
    BY <1>f DEF SelectByStatus
  <2>2. cur' \in Checkpoint
    BY <2>1, EntryActionType DEF StatusAction, At, Action, Checkpoint
  <2> QED BY <1>0, <1>f, <2>2, ScannedType, DirectsType DEF SelectByStatus
<1>g. CASE SelectNothing(pin)
  BY <1>0, <1>g, ScannedType DEF SelectNothing, TypeOK, Lock
<1> QED BY <1>1, <1>a, <1>b, <1>c, <1>d, <1>e, <1>f, <1>g

LEMMA FrameType ==
    ASSUME TypeOK, NEW m \in Module, NEW a, Committing(m, a)
    PROVE  file' \in [Module -> File] /\ moves' \in Nat
  BY TypeParts DEF Committing

LEMMA ProceedType ==
    ASSUME TypeOK, NEW m \in Module, NEW r \in ModuleState, NEW a \in Action,
           Proceed(m, r, a)
    PROVE  /\ mod' \in [Module -> ModuleState]
           /\ cur' \in Checkpoint
           /\ lock' \in Lock
  BY DEF TypeOK, Proceed, Update, Loops, At, Checkpoint, Lock

LEMMA HaltType ==
    ASSUME TypeOK, NEW m \in Module, NEW r \in ModuleState, Halt(m, r)
    PROVE  /\ mod' \in [Module -> ModuleState]
           /\ cur' \in Checkpoint
           /\ lock' \in Lock
  BY DEF TypeOK, Halt, Update, Stops, Loops, Checkpoint, Lock

LEMMA BlockType ==
    ASSUME TypeOK, NEW m \in Module, NEW r \in ModuleState, Block(m, r)
    PROVE  /\ mod' \in [Module -> ModuleState]
           /\ cur' \in Checkpoint
           /\ lock' \in Lock
<1>1. [r EXCEPT !.status = "BLOCKED"] \in ModuleState
  BY FieldTypes DEF Status
<1> QED BY <1>1, HaltType DEF Block

LEMMA RefreshedType ==
    ASSUME TypeOK, NEW m \in Module, NEW r \in ModuleState
    PROVE  Refreshed(m, r) \in ModuleState
<1> DEFINE r1 == [r EXCEPT !.specHash = file[m].spec]
           h == IF file[m].plan # None THEN file[m].plan ELSE r1.planHash
<1>1. r1 \in ModuleState
  BY FieldTypes, FileTypes
<1>2. h \in PlanText \cup {None}
  BY <1>1, FileTypes DEF ModuleState
<1>3. [r1 EXCEPT !.planHash = h] \in ModuleState
  BY <1>1, <1>2, FieldTypes
<1> QED BY <1>3 DEF Refreshed

LEMMA SyncedType ==
    ASSUME NEW r \in ModuleState
    PROVE  Synced(r) \in ModuleState
<1> DEFINE r1 == [r EXCEPT !.status = "SYNCED"]
           b == r1.everSynced \/ r.makerAttempt > 0
<1>1. r1 \in ModuleState
  BY FieldTypes DEF Status
<1>2. b \in BOOLEAN
  OBVIOUS
<1>3. [r1 EXCEPT !.everSynced = b] \in ModuleState
  <2> HIDE DEF b
  <2> QED BY <1>1, <1>2, FieldTypes
<1> QED BY <1>3 DEF Synced

LEMMA MergeType ==
    ASSUME TypeOK, NEW m \in Module, NEW r \in ModuleState, NEW green,
           Merge(m, r, green)
    PROVE  /\ mod' \in [Module -> ModuleState]
           /\ cur' \in Checkpoint
           /\ lock' \in Lock
<1>1. CASE Block(m, r)
  BY <1>1, BlockType
<1>2. CASE Block(m, Refreshed(m, r))
  BY <1>2, BlockType, RefreshedType
<1>3. CASE Update(m, Synced(Refreshed(m, r))) /\ cur' = Idle /\ Loops
  <2>1. Synced(Refreshed(m, r)) \in ModuleState
    BY RefreshedType, SyncedType
  <2> QED BY <1>3, <2>1 DEF TypeOK, Update, Loops, Checkpoint, Lock
<1> QED BY <1>1, <1>2, <1>3 DEF Merge, MergeIf

-----------------------------------------------------------------------------
(* Drafts that are filed and drafts that are trimmed.                      *)

\* New drafts are pending drafts of m, numbered from above top, and there is
\* at least one.
LEMMA FiledFacts ==
    ASSUME NEW m \in Module, NEW W \in SUBSET Finding, W # {},
           NEW top \in Nat, NEW new \in Filed(m, W, top)
    PROVE  /\ new \in SUBSET Draft
           /\ new # {}
           /\ \A d \in new : /\ d.module = m /\ d.finding \in W
                             /\ d.status = "pending" /\ ~d.archived
                             /\ d.id > top
           /\ \A d, e \in new : d.id = e.id => d = e
<1>1. Cardinality(W) \in Nat
  BY FindingAssumption, FS_Subset, FS_CardinalityType DEF FindingAssumption
<1>2. new \in SUBSET [id : (top + 1)..(top + Cardinality(W)), module : {m},
                      finding : W, status : {"pending"}, archived : {FALSE}]
  BY DEF Filed
<1>3. \A i \in (top + 1)..(top + Cardinality(W)) : i \in Nat /\ i > top
  BY <1>1
<1>4. new \in SUBSET Draft
  BY <1>2, <1>3 DEF Draft
<1>5. \A d \in new : /\ d.module = m /\ d.finding \in W
                     /\ d.status = "pending" /\ ~d.archived /\ d.id > top
  BY <1>2, <1>3
<1>6. new # {}
  BY DEF Filed
<1>7. \A d, e \in new : d.id = e.id => d = e
  BY DEF Filed
<1> QED BY <1>4, <1>5, <1>6, <1>7

\* Archiving keeps every draft, its number, module, finding and status.
LEMMA ArchivedFacts ==
    ASSUME TypeOK, NEW m \in Module
    PROVE  /\ ArchivedFor(m) \in SUBSET Draft
           /\ \A a \in ArchivedFor(m) : \E d \in drafts :
                 /\ a.id = d.id /\ a.module = d.module
                 /\ a.finding = d.finding /\ a.status = d.status
           /\ \A d \in drafts : \E a \in ArchivedFor(m) : a.id = d.id
           /\ Pending \subseteq ArchivedFor(m)
<1> DEFINE arch(d) == IF d.module = m /\ d.status # "pending"
                      THEN [d EXCEPT !.archived = TRUE] ELSE d
<1>1. \A d \in Draft : /\ arch(d) \in Draft
                       /\ arch(d).id = d.id /\ arch(d).module = d.module
                       /\ arch(d).finding = d.finding
                       /\ arch(d).status = d.status
                       /\ d.status = "pending" => arch(d) = d
  BY DEF Draft
<1>2. drafts \in SUBSET Draft
  BY DEF TypeOK
<1>3. ArchivedFor(m) = {arch(d) : d \in drafts}
  BY DEF ArchivedFor
<1> HIDE DEF arch
<1> QED BY <1>1, <1>2, <1>3 DEF Pending

\* What Park does to the drafts, with the numbers in place of the sets.
Parks(m, W, top, new, gone) ==
    /\ IsTopId(top)
    /\ new # {}
    /\ \A d \in new : /\ d.module = m /\ d.finding \in W
                      /\ d.status = "pending" /\ ~d.archived
                      /\ d.id > top
    /\ \A d, e \in new : d.id = e.id => d = e
    /\ drafts' = (ArchivedFor(m) \cup new) \ gone
    /\ \A g \in gone : g.status # "pending"

LEMMA ParkFacts ==
    ASSUME TypeOK, NEW m \in Module, NEW r, NEW W \in SUBSET Finding, W # {},
           Park(m, r, W)
    PROVE  \E top \in Nat, new \in SUBSET Draft, gone \in SUBSET Draft :
               Parks(m, W, top, new, gone)
<1>0. PICK top \in 0..MaxDraftId :
        /\ IsTopId(top)
        /\ \E new \in Filed(m, W, top) : \E gone \in SUBSET (ArchivedFor(m) \cup new) :
             /\ Trimmed(ArchivedFor(m) \cup new, gone)
             /\ drafts' = (ArchivedFor(m) \cup new) \ gone
  BY DEF Park
<1>1. PICK new \in Filed(m, W, top) : \E gone \in SUBSET (ArchivedFor(m) \cup new) :
        /\ Trimmed(ArchivedFor(m) \cup new, gone)
        /\ drafts' = (ArchivedFor(m) \cup new) \ gone
  BY <1>0
<1>2. PICK gone \in SUBSET (ArchivedFor(m) \cup new) :
        /\ Trimmed(ArchivedFor(m) \cup new, gone)
        /\ drafts' = (ArchivedFor(m) \cup new) \ gone
  BY <1>1
<1>3. \A g \in gone : g.status # "pending"
  BY <1>2 DEF Trimmed
<1>4. top \in Nat
  BY BudgetAssumption DEF BudgetAssumption
<1>5. /\ new \in SUBSET Draft
      /\ new # {}
      /\ \A d \in new : /\ d.module = m /\ d.finding \in W
                        /\ d.status = "pending" /\ ~d.archived
                        /\ d.id > top
      /\ \A d, e \in new : d.id = e.id => d = e
  BY <1>4, FiledFacts
<1>6. Parks(m, W, top, new, gone)
  BY <1>0, <1>2, <1>3, <1>5 DEF Parks
<1>7. gone \in SUBSET Draft
  <2>1. \A d \in Draft : [d EXCEPT !.archived = TRUE] \in Draft
    BY DEF Draft
  <2>2. ArchivedFor(m) \subseteq Draft
    BY <2>1 DEF TypeOK, ArchivedFor
  <2> QED BY <1>2, <1>5, <2>2
<1> QED BY <1>4, <1>5, <1>6, <1>7

LEMMA ParkType ==
    ASSUME TypeOK, NEW m \in Module, NEW r \in ModuleState,
           NEW W \in SUBSET Finding, W # {}, Park(m, r, W)
    PROVE  /\ mod' \in [Module -> ModuleState]
           /\ cur' \in Checkpoint
           /\ lock' \in Lock
           /\ drafts' \in SUBSET Draft
<1>1. [r EXCEPT !.grayResume = TRUE] \in ModuleState
  BY FieldTypes
<1>2. Halt(m, [r EXCEPT !.grayResume = TRUE])
  BY DEF Park
<1>3. drafts' \in SUBSET Draft
  <2>1. PICK top \in Nat, new \in SUBSET Draft, gone \in SUBSET Draft :
            Parks(m, W, top, new, gone)
    BY ParkFacts
  <2> QED BY <2>1, ArchivedFacts DEF Parks
<1> QED BY <1>1, <1>2, <1>3, HaltType

-----------------------------------------------------------------------------
(* Type correctness.                                                       *)

LEMMA HistoryTypes ==
    ASSUME TypeOK, NEW m \in Module
    PROVE  /\ [history EXCEPT ![m].built = TRUE] \in [Module -> History]
           /\ \A s \in SpecText \cup {None} :
                [history EXCEPT ![m].checked = s] \in [Module -> History]
  BY DEF TypeOK, History

LEMMA CommitType ==
    ASSUME TypeOK, NEW m \in Module, Commit(m)
    PROVE  TypeOK'
<1> SUFFICES /\ file' \in [Module -> File] /\ moves' \in Nat
             /\ mod' \in [Module -> ModuleState] /\ cur' \in Checkpoint
             /\ lock' \in Lock /\ drafts' \in SUBSET Draft
             /\ history' \in [Module -> History]
  BY DEF TypeOK, Lock, File, Checkpoint
<1>0. /\ file' \in [Module -> File] /\ moves' \in Nat
      /\ mod[m] \in ModuleState
      /\ drafts \in SUBSET Draft /\ history \in [Module -> History]
  BY FrameType, TypeParts
     DEF Commit, CommitScore, CommitClassify, CommitMakerStep0, CommitRed,
         CommitGreen, CheckerFindsErrors, CheckerBlocks, CheckerParks,
         CheckerPasses, CommitMakerFix, CommitAlignDocs, ReviewFindsIssues,
         ReviewPasses, CommitReviewFix
<1>c. Checked(m) \in ModuleState
  BY <1>0, FieldTypes DEF Checked
<1>1. CASE CommitScore(m)
  <2>1. [mod[m] EXCEPT !.status = "NEEDS_REFINEMENT"] \in ModuleState
    BY <1>0, FieldTypes DEF Status
  <2>2. [mod[m] EXCEPT !.status = "READY", !.reviewFix = 0] \in ModuleState
    <3>1. [mod[m] EXCEPT !.status = "READY"] \in ModuleState
      BY <1>0, FieldTypes DEF Status
    <3> QED BY <3>1, FieldTypes, ZeroTypes
  <2> QED BY <1>0, <1>1, <2>1, <2>2, ProceedType, HaltType
          DEF CommitScore, Action
<1>2. CASE CommitClassify(m)
  BY <1>0, <1>2, ProceedType DEF CommitClassify, Action
<1>3. CASE CommitMakerStep0(m)
  <2>1. [mod[m] EXCEPT !.planPath = TRUE] \in ModuleState
    BY <1>0, FieldTypes
  <2> QED BY <1>0, <1>3, <2>1, ProceedType DEF CommitMakerStep0, Action
<1>4. CASE CommitRed(m)
  BY <1>0, <1>4, ProceedType DEF CommitRed, Action
<1>5. CASE CommitGreen(m)
  <2>0. 1 \in 0..MaxMakerAttempts
    BY BudgetAssumption DEF BudgetAssumption
  <2>1. [mod[m] EXCEPT !.makerAttempt = 1] \in ModuleState
    BY <1>0, <2>0, FieldTypes
  <2>2. history' \in [Module -> History]
    BY <1>5, HistoryTypes DEF CommitGreen
  <2> QED BY <1>0, <1>5, <2>1, <2>2, ProceedType DEF CommitGreen, Action
<1>6. CASE CheckerFindsErrors(m)
  <2>1. mod[m].makerAttempt + 1 \in 0..MaxMakerAttempts
    BY <1>0, <1>6, FieldTypes, BudgetAssumption
       DEF CheckerFindsErrors, HasFixBudget, BudgetAssumption
  <2>2. Checked(m).makerAttempt = mod[m].makerAttempt
    BY <1>0 DEF Checked, ModuleState
  <2>3. [Checked(m) EXCEPT !.makerAttempt = @ + 1] \in ModuleState
    BY <1>c, <2>1, <2>2, FieldTypes
  <2>4. history' \in [Module -> History]
    BY <1>0, <1>6, BudgetAssumption
       DEF CheckerFindsErrors, History, BudgetAssumption
  <2> QED BY <1>0, <1>6, <2>3, <2>4, ProceedType
          DEF CheckerFindsErrors, Action
<1>7. CASE CheckerBlocks(m)
  BY <1>0, <1>c, <1>7, BlockType DEF CheckerBlocks
<1>8. CASE CheckerParks(m)
  <2>1. PICK W \in (SUBSET SoftWarnings(m)) \ {{}} : Park(m, Checked(m), W)
    BY <1>8 DEF CheckerParks
  <2>2. W \in SUBSET Finding /\ W # {}
    BY DEF SoftWarnings
  <2> QED BY <1>0, <1>c, <1>8, <2>1, <2>2, ParkType DEF CheckerParks
<1>9. CASE CheckerPasses(m)
  <2>1. file[m].spec \in SpecText \cup {None}
    BY FileTypes
  <2>2. CASE /\ Proceed(m, Checked(m), "CODE_REVIEW")
             /\ history' = [history EXCEPT ![m].checked = file[m].spec]
    BY <1>0, <1>c, <1>9, <2>1, <2>2, HistoryTypes, ProceedType
       DEF CheckerPasses, Action
  <2>3. ASSUME NEW green, Merge(m, Checked(m), green),
               history' = [history EXCEPT
                  ![m].checked = file[m].spec,
                  ![m].tested = @ \/ (green /\ mod[m].status # "SYNCED")]
        PROVE  /\ mod' \in [Module -> ModuleState] /\ cur' \in Checkpoint
               /\ lock' \in Lock /\ history' \in [Module -> History]
    <3>1. history' \in [Module -> History]
      BY <1>0, <2>1, <2>3 DEF History
    <3> QED BY <1>c, <2>3, <3>1, MergeType
  <2> QED BY <1>0, <1>9, <2>2, <2>3 DEF CheckerPasses
<1>10. CASE CommitMakerFix(m)
  <2>1. [mod[m] EXCEPT !.pendingAlign = FALSE] \in ModuleState
    BY <1>0, FieldTypes
  <2> QED BY <1>0, <1>10, <2>1, ProceedType DEF CommitMakerFix, Action
<1>11. CASE CommitAlignDocs(m)
  <2>1. [mod[m] EXCEPT !.alignDone = TRUE, !.specHash = file[m].spec]
          \in ModuleState
    <3>1. [mod[m] EXCEPT !.alignDone = TRUE] \in ModuleState
      BY <1>0, FieldTypes
    <3> QED BY <3>1, FieldTypes, FileTypes
  <2> QED BY <1>0, <1>11, <2>1, ProceedType
          DEF CommitAlignDocs, Action
<1>12. CASE ReviewFindsIssues(m)
  <2>1. CASE mod[m].reviewFix < MaxReviewFixCycles
    <3>1. mod[m].reviewFix + 1 \in 0..MaxReviewFixCycles
      BY <1>0, <2>1, FieldTypes, BudgetAssumption DEF BudgetAssumption
    <3>2. [mod[m] EXCEPT !.reviewFix = @ + 1] \in ModuleState
      BY <1>0, <3>1, FieldTypes
    <3> QED BY <1>0, <1>12, <3>2, ProceedType, BlockType
            DEF ReviewFindsIssues, Action
  <2>2. CASE ~(mod[m].reviewFix < MaxReviewFixCycles)
    BY <1>0, <1>12, <2>2, BlockType DEF ReviewFindsIssues
  <2> QED BY <2>1, <2>2
<1>13. CASE ReviewPasses(m)
  <2>1. PICK green \in TestOutcomes(mod[m]) :
          /\ Merge(m, mod[m], green)
          /\ history' = [history EXCEPT
                ![m].tested = @ \/ (green /\ mod[m].status # "SYNCED")]
    BY <1>13 DEF ReviewPasses
  <2>2. history' \in [Module -> History]
    BY <1>0, <2>1 DEF History
  <2> QED BY <1>0, <1>13, <2>1, <2>2, MergeType DEF ReviewPasses
<1>14. CASE CommitReviewFix(m)
  BY <1>0, <1>14, ProceedType, BlockType
     DEF CommitReviewFix, AfterReviewFix, Action
<1> QED
  BY <1>1, <1>2, <1>3, <1>4, <1>5, <1>6, <1>7, <1>8, <1>9, <1>10, <1>11, <1>12,
     <1>13, <1>14 DEF Commit

\* An edit of spec.md notes itself on a module that has been checked.
LEMMA EditSpecNotes ==
    ASSUME TypeOK, NEW m \in Module, EditSpec(m)
    PROVE  \E e \in BOOLEAN :
              /\ history' = [history EXCEPT ![m].edited = e]
              /\ history[m].checked # None => e = TRUE
              /\ history[m].edited => e = TRUE
<1> DEFINE e == history[m].edited \/ history[m].checked # None
<1>1. /\ e \in BOOLEAN /\ (history[m].checked # None => e = TRUE)
      /\ history[m].edited => e = TRUE
  OBVIOUS
<1>2. history' = [history EXCEPT ![m].edited = e]
  BY DEF EditSpec
<1> HIDE DEF e
<1> QED BY <1>1, <1>2

LEMMA EnvironmentType ==
    ASSUME TypeOK, NEW m \in Module,
           \/ EditCode(m) \/ EditDocs(m) \/ EditSpec(m) \/ EditPlan(m)
           \/ SpecResult(m) \/ SetStatus(m) \/ Reset(m)
    PROVE  TypeOK'
<1> SUFFICES /\ file' \in [Module -> File] /\ moves' \in Nat
             /\ mod' \in [Module -> ModuleState] /\ cur' \in Checkpoint
             /\ lock' \in Lock /\ drafts' \in SUBSET Draft
             /\ history' \in [Module -> History]
  BY DEF TypeOK, Lock, File, Checkpoint
<1>0. /\ file \in [Module -> File] /\ moves \in Nat
      /\ mod \in [Module -> ModuleState] /\ cur \in Checkpoint
      /\ lock \in Lock /\ drafts \in SUBSET Draft
      /\ history \in [Module -> History]
  BY TypeParts
<1>1. CASE EditCode(m)
  BY <1>0, <1>1 DEF EditCode, History
<1>2. CASE EditDocs(m)
  BY <1>0, <1>2 DEF EditDocs, File
<1>3. CASE EditSpec(m)
  <2>1. PICK e \in BOOLEAN : history' = [history EXCEPT ![m].edited = e]
    BY <1>3, EditSpecNotes
  <2>2. history' \in [Module -> History]
    BY <1>0, <2>1 DEF History
  <2> QED BY <1>0, <1>3, <2>2 DEF EditSpec, File, Intervene
<1>4. CASE EditPlan(m)
  BY <1>0, <1>4 DEF EditPlan, File, Intervene
<1>5. CASE SpecResult(m)
  <2> DEFINE r == IF mod[m].status = "ABSENT" THEN NewModule(m, None) ELSE mod[m]
  <2>1. r \in ModuleState
    BY <1>0, NewModuleType
  <2>2. RecordSpecChange(r, file[m].spec) \in ModuleState
    <3> HIDE DEF r
    <3> QED BY <2>1, RecordSpecChangeType, FileTypes
  <2>3. /\ mod' = [mod EXCEPT ![m] = RecordSpecChange(r, file[m].spec)]
        /\ cur' = At(m, EntryAction(r))
    BY <1>5 DEF SpecResult, Update
  <2>4. mod' \in [Module -> ModuleState] /\ cur' \in Checkpoint
    <3> HIDE DEF r
    <3> QED BY <1>0, <2>2, <2>3, EntryActionType DEF At, Checkpoint
  <2> QED BY <1>0, <1>5, <2>4 DEF SpecResult
<1>6. CASE SetStatus(m)
  <2>1. PICK s \in SettableStatus : Update(m, [mod[m] EXCEPT !.status = s])
    BY <1>6 DEF SetStatus
  <2>2. [mod[m] EXCEPT !.status = s] \in ModuleState
    BY <1>0, FieldTypes, EnvironmentAssumption DEF EnvironmentAssumption
  <2>3. cur' \in Checkpoint
    BY <1>0, <1>6 DEF SetStatus, DropCheckpoint, Checkpoint
  <2> QED BY <1>0, <1>6, <2>1, <2>2, <2>3 DEF SetStatus, Update, Intervene
<1>7. CASE Reset(m)
  <2> DEFINE r1 == [mod[m] EXCEPT !.status = "DRAFT"]
             r2 == [r1 EXCEPT !.makerAttempt = 0]
             r3 == [r2 EXCEPT !.reviewFix = 0]
  <2>1. r1 \in ModuleState
    BY <1>0, FieldTypes DEF Status
  <2>2. r2 \in ModuleState
    BY <2>1, FieldTypes, ZeroTypes
  <2>3. r3 \in ModuleState
    BY <2>2, FieldTypes, ZeroTypes
  <2>4. mod' = [mod EXCEPT ![m] = r3]
    BY <1>7 DEF Reset, Update
  <2>5. mod' \in [Module -> ModuleState]
    <3> HIDE DEF r3
    <3> QED BY <1>0, <2>3, <2>4
  <2>6. cur' \in Checkpoint
    BY <1>0, <1>7 DEF Reset, DropCheckpoint, Checkpoint
  <2> QED BY <1>0, <1>7, <2>5, <2>6 DEF Reset, Intervene
<1> QED BY <1>1, <1>2, <1>3, <1>4, <1>5, <1>6, <1>7

LEMMA LockType ==
    ASSUME TypeOK,
           \/ PassGate \/ BeginRun \/ BeginManual \/ Retry \/ Undirected \/ Release
           \/ Resolve \/ PollArchive
    PROVE  TypeOK'
<1> SUFFICES /\ file' \in [Module -> File] /\ moves' \in Nat
             /\ mod' \in [Module -> ModuleState] /\ cur' \in Checkpoint
             /\ lock' \in Lock /\ drafts' \in SUBSET Draft
             /\ history' \in [Module -> History]
  BY DEF TypeOK, Lock, File, Checkpoint
<1>0. /\ file \in [Module -> File] /\ moves \in Nat
      /\ mod \in [Module -> ModuleState] /\ cur \in Checkpoint
      /\ lock \in Lock /\ drafts \in SUBSET Draft
      /\ history \in [Module -> History]
  BY TypeParts
<1>1. CASE PassGate
  BY <1>0, <1>1 DEF PassGate, Lock
<1>2. CASE BeginRun
  <2>1. CASE lock' = [lock EXCEPT !.gated = FALSE]
    BY <1>0, <1>2, <2>1 DEF BeginRun, Lock
  <2>2. CASE \E pin \in Pins \cup {None} :
               lock' = [by |-> "run", pin |-> pin, phase |-> "next",
                        gated |-> FALSE]
    <3>1. Pins \subseteq Module
      BY EnvironmentAssumption DEF EnvironmentAssumption
    <3>2. lock' \in Lock
      BY <2>2, <3>1 DEF Lock
    <3> QED BY <1>0, <1>2, <3>2 DEF BeginRun
  <2> QED BY <1>2, <2>1, <2>2 DEF BeginRun
<1>3. CASE BeginManual
  BY <1>0, <1>3 DEF BeginManual, Lock, Intervene
<1>4. CASE Retry \/ Undirected
  <2>1. CASE Retry
    BY <1>0, <2>1 DEF Retry, Lock
  <2>2. CASE Undirected
    BY <1>0, <2>2 DEF Undirected, Lock, Intervene
  <2> QED BY <1>4, <2>1, <2>2
<1>5. CASE Release
  BY <1>0, <1>5 DEF Release, Free, Lock
<1>6. CASE Resolve
  BY <1>0, <1>6 DEF Resolve, Pending, Draft
<1>7. CASE PollArchive
  <2>1. \A d \in Draft :
          [d EXCEPT !.status = "rejected", !.archived = TRUE] \in Draft
    BY DEF Draft
  <2>2. Stale \subseteq Draft
    BY <1>0 DEF Stale, Pending
  <2> QED BY <1>0, <1>7, <2>1, <2>2 DEF PollArchive
<1> QED BY <1>1, <1>2, <1>3, <1>4, <1>5, <1>6, <1>7

LEMMA InitType == Init => TypeOK
<1> SUFFICES ASSUME Init PROVE TypeOK
  OBVIOUS
<1>1. mod \in [Module -> ModuleState]
  BY AbsentType DEF Init
<1>2. history \in [Module -> History]
  BY BudgetAssumption DEF Init, History, BudgetAssumption
<1> QED BY <1>1, <1>2 DEF Init, TypeOK, Free, Idle

LEMMA StepType == TypeOK /\ [Next]_vars => TypeOK'
<1> SUFFICES ASSUME TypeOK, [Next]_vars PROVE TypeOK'
  OBVIOUS
<1>1. CASE UNCHANGED vars
  BY <1>1 DEF vars, TypeOK
<1>2. CASE Next
  BY <1>2, NextCallType, CommitType, EnvironmentType, LockType DEF Next
<1> QED BY <1>1, <1>2

\* The state file and everything beside it stay within their types: budgets
\* are never overrun, statuses and actions are the constants of constants.py.
THEOREM TypeCorrect == Spec => []TypeOK
<1>1. Init => TypeOK
  BY InitType
<1>2. TypeOK /\ [Next]_vars => TypeOK'
  BY StepType
<1> QED BY <1>1, <1>2, PTL DEF Spec

-----------------------------------------------------------------------------
(* What the steps do to the parts the safety properties speak of.          *)

\* A module whose spec file was never registered carries no flag.
AbsentClean ==
    \A m \in Module : mod[m].status = "ABSENT" =>
        ~mod[m].everSynced /\ ~mod[m].grayResume /\ ~mod[m].alignDone

\* A registered module has a spec file; the checkpoint is a registered module.
SpecsExist ==
    /\ \A m \in Module : mod[m].status # "ABSENT" => file[m].spec # None
    /\ \A m \in Module : cur.module = m => mod[m].status # "ABSENT"

\* ms differs from mod in no flag and forgets no module.
SameFlags(ms) ==
    /\ ms \in [Module -> ModuleState]
    /\ \A k \in Module :
        /\ ms[k].everSynced = mod[k].everSynced
        /\ ms[k].grayResume = mod[k].grayResume
        /\ ms[k].alignDone = mod[k].alignDone
        /\ mod[k].status # "ABSENT" => ms[k].status = mod[k].status
        /\ mod[k].status = "ABSENT" =>
              \/ ms[k].status = "ABSENT"
              \/ ms[k].status = "DRAFT" /\ file[k].spec # None

LEMMA DiscoveredFlags ==
    ASSUME TypeOK, AbsentClean
    PROVE  SameFlags(Discovered)
<1> SUFFICES ASSUME NEW k \in Module
             PROVE  /\ Discovered[k].everSynced = mod[k].everSynced
                    /\ Discovered[k].grayResume = mod[k].grayResume
                    /\ Discovered[k].alignDone = mod[k].alignDone
                    /\ mod[k].status # "ABSENT" =>
                          Discovered[k].status = mod[k].status
                    /\ mod[k].status = "ABSENT" =>
                          \/ Discovered[k].status = "ABSENT"
                          \/ /\ Discovered[k].status = "DRAFT"
                             /\ file[k].spec # None
  BY DiscoveredType DEF SameFlags
<1>1. LET n == NewModule(k, file[k].plan)
      IN  /\ n.status = "DRAFT" /\ n.everSynced = FALSE
          /\ n.grayResume = FALSE /\ n.alignDone = FALSE
  BY DEF NewModule, Absent
<1>2. {mod[k].everSynced, mod[k].grayResume, mod[k].alignDone} \subseteq BOOLEAN
  BY FileTypes DEF ModuleState
<1>3. CASE mod[k].status = "ABSENT" /\ file[k].spec # None
  <2>1. Discovered[k] = NewModule(k, file[k].plan)
    BY <1>3 DEF Discovered
  <2>2. /\ mod[k].everSynced = FALSE /\ mod[k].grayResume = FALSE
        /\ mod[k].alignDone = FALSE
    BY <1>2, <1>3 DEF AbsentClean
  <2> QED BY <1>1, <1>3, <2>1, <2>2
<1>4. CASE ~(mod[k].status = "ABSENT" /\ file[k].spec # None)
  BY <1>4 DEF Discovered
<1> QED BY <1>3, <1>4

LEMMA AbsorbFlags ==
    ASSUME TypeOK, NEW ms, SameFlags(ms), NEW S
    PROVE  SameFlags(AbsorbCosmetic(ms, S))
<1>1. ms \in [Module -> ModuleState]
  BY DEF SameFlags
<1>2. ASSUME NEW k \in Module
      PROVE  /\ AbsorbCosmetic(ms, S)[k].everSynced = ms[k].everSynced
             /\ AbsorbCosmetic(ms, S)[k].grayResume = ms[k].grayResume
             /\ AbsorbCosmetic(ms, S)[k].alignDone = ms[k].alignDone
             /\ AbsorbCosmetic(ms, S)[k].status = ms[k].status
  BY <1>1 DEF AbsorbCosmetic, ModuleState
<1> QED BY <1>1, <1>2, AbsorbType DEF SameFlags

LEMMA InitPlanFlags ==
    ASSUME TypeOK, NEW ms, SameFlags(ms), NEW S
    PROVE  SameFlags(InitPlanHash(ms, S))
<1>1. ms \in [Module -> ModuleState]
  BY DEF SameFlags
<1>2. ASSUME NEW k \in Module
      PROVE  /\ InitPlanHash(ms, S)[k].everSynced = ms[k].everSynced
             /\ InitPlanHash(ms, S)[k].grayResume = ms[k].grayResume
             /\ InitPlanHash(ms, S)[k].alignDone = ms[k].alignDone
             /\ InitPlanHash(ms, S)[k].status = ms[k].status
  BY <1>1 DEF InitPlanHash, ModuleState
<1> QED BY <1>1, <1>2, InitPlanType DEF SameFlags

LEMMA ScannedFlags ==
    ASSUME TypeOK, AbsentClean, NEW pin
    PROVE  SameFlags(Scanned(pin))
  BY DiscoveredFlags, AbsorbFlags, InitPlanFlags DEF Scanned

\* How next() may leave a module's flags: it may clear the flag of an aligned
\* module, and that of a parked one whose drafts are all answered.
NextFlags(k) ==
    /\ mod'[k].everSynced = mod[k].everSynced
    /\ mod'[k].grayResume => mod[k].grayResume
    /\ mod[k].grayResume /\ PendingOf(k) # {} => mod'[k].grayResume
    /\ mod'[k].alignDone => mod[k].alignDone
    /\ mod[k].status # "ABSENT" => mod'[k].status # "ABSENT"
    /\ mod[k].status = "ABSENT" =>
          mod'[k].status = "ABSENT" \/ file[k].spec # None

\* Where next() may send the loop, and what it takes.
NextCheckpoint ==
    \/ UNCHANGED cur
    \/ \E m \in Module, a \in Action :
        /\ cur' = At(m, a)
        /\ mod[m].status # "ABSENT"
        /\ a \notin {"CODE_REVIEW", "CODE_REVIEW_FIX", "MAKER_STEP2_GREEN"}
        /\ a = "CLASSIFY_CHANGE" => mod[m].everSynced
        /\ a = "CHECKER" => mod[m].alignDone
        /\ a \in {"MAKER_FIX", "ALIGN_DOCS"} => mod[m].grayResume

LEMMA SameFlagsNext ==
    ASSUME TypeOK, SameFlags(mod'), NEW k \in Module
    PROVE  NextFlags(k)
  BY DEF SameFlags, NextFlags

\* One module of a tame map is replaced.
LEMMA ReplacedFlags ==
    ASSUME TypeOK, NEW ms, SameFlags(ms), NEW m \in Module, NEW r \in ModuleState,
           mod' = [ms EXCEPT ![m] = r], mod[m].status # "ABSENT",
           r.status # "ABSENT", r.everSynced = ms[m].everSynced,
           r.grayResume => ms[m].grayResume,
           ms[m].grayResume /\ PendingOf(m) # {} => r.grayResume,
           r.alignDone => ms[m].alignDone,
           NEW k \in Module
    PROVE  NextFlags(k)
<1>1. ms \in [Module -> ModuleState]
  BY DEF SameFlags
<1>2. CASE k = m
  BY <1>1, <1>2 DEF SameFlags, NextFlags
<1>3. CASE k # m
  BY <1>1, <1>3 DEF SameFlags, NextFlags
<1> QED BY <1>2, <1>3

\* A module that is in scope and not registered yet is never edited.
LEMMA EditedKnown ==
    ASSUME TypeOK, AbsentClean, NEW pin, NEW m \in Module,
           m \in SpecEdits(pin) \cup PlanEdits(pin)
    PROVE  mod[m].status # "ABSENT"
<1>1. Discovered[m].status \in {"SYNCED", "NEEDS_REFINEMENT"}
  BY DEF SpecEdits, PlanEdits, SpecEdited, SpecDiffers, PlanEdited
<1> QED BY <1>1, DiscoveredFlags DEF SameFlags

LEMMA NextCallFacts ==
    ASSUME TypeOK, AbsentClean, NextCall
    PROVE  /\ UNCHANGED <<file, drafts, moves>>
           /\ NextCheckpoint
           /\ \A k \in Module : NextFlags(k)
           /\ \A k \in Module : /\ history'[k].checked = history[k].checked
                                /\ history'[k].built = history[k].built
<1>1. PICK pin : \/ ResumeCurrent(pin) \/ ScanSpec(pin) \/ ScanPlan(pin)
                 \/ SelectAligned(pin) \/ SelectParked(pin)
                 \/ SelectByStatus(pin) \/ SelectNothing(pin)
  BY DEF NextCall
<1>2. UNCHANGED <<file, drafts, moves>>
  BY DEF NextCall
<1>3. history \in [Module -> History]
  BY DEF TypeOK
<1> SUFFICES /\ NextCheckpoint
             /\ \A k \in Module : NextFlags(k)
             /\ \A k \in Module : /\ history'[k].checked = history[k].checked
                                  /\ history'[k].built = history[k].built
  BY <1>2
<1>a. CASE ResumeCurrent(pin)
  BY <1>a, DiscoveredFlags, SameFlagsNext DEF ResumeCurrent, NextCheckpoint
<1>b. CASE ScanSpec(pin)
  <2> DEFINE ms(m) == AbsorbCosmetic(Discovered, {k \in InScope(pin) : k < m})
             r(m) == RecordSpecChange(ms(m)[m], file[m].spec)
  <2>1. PICK m \in Module : /\ m \in SpecEdits(pin)
                            /\ mod' = [ms(m) EXCEPT ![m] = r(m)]
                            /\ cur' = At(m, EntryAction(mod[m]))
                            /\ UNCHANGED history
    BY <1>b DEF ScanSpec, FirstOf
  <2>2. mod[m].status # "ABSENT"
    BY <2>1, EditedKnown
  <2>3. SameFlags(ms(m))
    BY DiscoveredFlags, AbsorbFlags
  <2>4. ms(m)[m] \in ModuleState
    BY <2>3 DEF SameFlags
  <2>5. /\ r(m) \in ModuleState
        /\ r(m).status = "PARTIAL" /\ r(m).everSynced = ms(m)[m].everSynced
        /\ r(m).grayResume = ms(m)[m].grayResume
        /\ r(m).alignDone = ms(m)[m].alignDone
    <3> HIDE DEF ms
    <3>1. r(m) \in ModuleState
      BY <2>4, RecordSpecChangeType, FileTypes
    <3> QED BY <2>4, <3>1 DEF RecordSpecChange, ModuleState
  <2>6. \A k \in Module : NextFlags(k)
    <3> HIDE DEF ms, r
    <3> QED BY Zenon, <2>1, <2>2, <2>3, <2>5, ReplacedFlags
  <2>7. NextCheckpoint
    BY <2>1, <2>2, EntryActionType DEF NextCheckpoint, EntryAction
  <2> QED BY <1>3, <2>1, <2>6, <2>7 DEF History
<1>c. CASE ScanPlan(pin)
  <2> DEFINE ms(m) == InitPlanHash(AbsorbCosmetic(Discovered, InScope(pin)),
                                   {k \in InScope(pin) : k < m})
             r(m) == [ms(m)[m] EXCEPT !.planHash = file[m].plan,
                                      !.status = "PARTIAL",
                                      !.makerAttempt = 0, !.reviewFix = 0]
  <2>1. PICK m \in Module : /\ m \in PlanEdits(pin)
                            /\ mod' = [ms(m) EXCEPT ![m] = r(m)]
                            /\ cur' = At(m, "MAKER_STEP1_RED")
                            /\ UNCHANGED history
    BY Zenon, <1>c DEF ScanPlan, FirstOf
  <2>2. mod[m].status # "ABSENT"
    BY <2>1, EditedKnown
  <2>3. SameFlags(ms(m))
    BY DiscoveredFlags, AbsorbFlags, InitPlanFlags
  <2>4. ms(m)[m] \in ModuleState
    BY <2>3 DEF SameFlags
  <2>5. /\ r(m).status = "PARTIAL" /\ r(m).everSynced = ms(m)[m].everSynced
        /\ r(m).grayResume = ms(m)[m].grayResume
        /\ r(m).alignDone = ms(m)[m].alignDone
    <3> HIDE DEF ms
    <3> QED BY <2>4 DEF ModuleState
  <2>6. r(m) \in ModuleState
    <3> HIDE DEF ms, r
    <3>1. mod' \in [Module -> ModuleState]
      BY NextCallType DEF TypeOK
    <3>2. mod'[m] = r(m)
      BY <2>1, <2>3 DEF SameFlags
    <3> QED BY <3>1, <3>2
  <2>7. \A k \in Module : NextFlags(k)
    <3> HIDE DEF ms, r
    <3> QED BY <2>1, <2>2, <2>3, <2>5, <2>6, ReplacedFlags
  <2>8. NextCheckpoint
    BY <2>1, <2>2 DEF NextCheckpoint, Action
  <2> QED BY <1>3, <2>1, <2>7, <2>8 DEF History
<1>d. CASE SelectAligned(pin)
  <2> DEFINE ms == Scanned(pin)
             r(m) == [ms[m] EXCEPT !.alignDone = FALSE, !.specHash = file[m].spec]
  <2>1. PICK m \in Module : /\ mod[m].alignDone
                            /\ mod' = [ms EXCEPT ![m] = r(m)]
                            /\ cur' = At(m, "CHECKER")
    BY <1>d DEF SelectAligned
  <2>2. mod[m].status # "ABSENT"
    BY <2>1 DEF AbsentClean
  <2>3. SameFlags(ms)
    BY ScannedFlags
  <2>4. mod'[m] = r(m) /\ mod'[m] \in ModuleState
    <3> HIDE DEF ms, r
    <3> QED BY <2>1, <2>3, NextCallType DEF SameFlags, TypeOK
  <2>5. /\ r(m).status = ms[m].status /\ r(m).everSynced = ms[m].everSynced
        /\ r(m).grayResume = ms[m].grayResume /\ r(m).alignDone = FALSE
    <3> HIDE DEF ms
    <3> QED BY <2>3 DEF SameFlags, ModuleState
  <2>6. \A k \in Module : NextFlags(k)
    <3>1. r(m).status # "ABSENT"
      BY <2>2, <2>3, <2>5 DEF SameFlags
    <3> HIDE DEF ms, r
    <3> QED BY <2>1, <2>2, <2>3, <2>4, <2>5, <3>1, ReplacedFlags
  <2>7. NextCheckpoint
    BY <2>1, <2>2 DEF NextCheckpoint, Action
  <2> QED BY <1>d, <2>6, <2>7 DEF SelectAligned
<1>e. CASE SelectParked(pin)
  <2> DEFINE ms == Scanned(pin)
  <2>1. PICK m \in Module : /\ Answered(mod[m], m)
                            /\ mod' = [ms EXCEPT ![m] = Resumed(@, m)]
                            /\ cur' = At(m, GrayAction(m))
    BY <1>e DEF SelectParked
  <2>2. mod[m].status # "ABSENT"
    BY <2>1 DEF AbsentClean, Answered
  <2>3. SameFlags(ms)
    BY ScannedFlags
  <2>4. mod'[m] = Resumed(ms[m], m) /\ mod'[m] \in ModuleState
    <3> HIDE DEF ms
    <3> QED BY <2>1, <2>3, NextCallType DEF SameFlags, TypeOK
  <2>5. LET r == Resumed(ms[m], m)
        IN  /\ r.status = ms[m].status /\ r.everSynced = ms[m].everSynced
            /\ r.grayResume = FALSE /\ r.alignDone = ms[m].alignDone
    <3> HIDE DEF ms
    <3> QED BY <2>3 DEF SameFlags, ModuleState, Resumed
  <2>6. \A k \in Module : NextFlags(k)
    <3>1. Resumed(ms[m], m).status # "ABSENT"
      BY <2>2, <2>3, <2>5 DEF SameFlags
    <3>2. PendingOf(m) = {}
      BY <2>1 DEF Answered
    <3> HIDE DEF ms
    <3> QED BY <2>1, <2>2, <2>3, <2>4, <2>5, <3>1, <3>2, ReplacedFlags
  <2>7. NextCheckpoint
    BY <2>1, <2>2 DEF NextCheckpoint, Action, GrayAction, Answered
  <2> QED BY <1>e, <2>6, <2>7 DEF SelectParked
<1>f. CASE SelectByStatus(pin)
  <2>1. PICK m \in Module :
          /\ StatusAction(mod[m]) # None
          /\ cur' = At(m, IF HasCurrentPlan(m) THEN "MAKER_STEP1_RED"
                          ELSE StatusAction(mod[m]))
    BY <1>f DEF SelectByStatus
  <2>2. mod[m].status \in {"PARTIAL", "READY", "NEEDS_REFINEMENT"}
    BY <2>1 DEF StatusAction
  <2>3. NextCheckpoint
    BY <2>1, <2>2, EntryActionType
       DEF NextCheckpoint, Action, StatusAction, EntryAction
  <2> QED BY <1>f, <2>3, ScannedFlags, SameFlagsNext DEF SelectByStatus
<1>g. CASE SelectNothing(pin)
  BY <1>g, ScannedFlags, SameFlagsNext DEF SelectNothing, NextCheckpoint
<1> QED BY <1>1, <1>a, <1>b, <1>c, <1>d, <1>e, <1>f, <1>g

-----------------------------------------------------------------------------
(* What a commit does.                                                     *)

\* r is m's entry with other counters, hashes and status, its flags kept.
Keeps(r, m) ==
    /\ r \in ModuleState
    /\ r.status # "ABSENT"
    /\ r.everSynced = mod[m].everSynced
    /\ r.grayResume = mod[m].grayResume
    /\ r.alignDone => mod[m].alignDone

\* The steps that are reached only once a MAKER has implemented the module.
PostBuild == {"CLASSIFY_CHANGE", "CHECKER", "MAKER_FIX", "CODE_REVIEW",
              "CODE_REVIEW_FIX", "ALIGN_DOCS"}

\* Nothing but module m and its knowledge changes.
OnlyModule(m) ==
    \A k \in Module \ {m} : mod'[k] = mod[k] /\ history'[k] = history[k]

\* The flags of the committed module.
CommitFlags(m) ==
    /\ mod'[m].status # "ABSENT"
    /\ mod[m].grayResume => mod'[m].grayResume
    /\ mod'[m].grayResume => mod[m].grayResume \/ cur.action = "CHECKER"
    /\ mod'[m].alignDone => mod[m].alignDone \/ cur.action = "ALIGN_DOCS"
    /\ mod'[m].everSynced =>
          mod[m].everSynced \/ cur.action \in {"CHECKER", "CODE_REVIEW"}

\* The three ways a commit ends: on to another step, parked or stopped
\* unmerged, and merged.
Goes(m) ==
    \E a \in Action :
        /\ cur' = At(m, a)
        /\ a \in PostBuild => cur.action \in PostBuild \cup {"MAKER_STEP2_GREEN"}
        /\ a = "CODE_REVIEW" => /\ cur.action = "CHECKER"
                                /\ history'[m].checked = file[m].spec
Halts(m) ==
    /\ cur' = Idle
    /\ \/ mod'[m].status # "SYNCED"
       \/ \E r \in ModuleState, W \in SUBSET Finding : W # {} /\ Park(m, r, W)
Merges(m) ==
    /\ cur' = Idle
    /\ cur.action \in {"CHECKER", "CODE_REVIEW"}
    /\ mod'[m].specHash = file[m].spec
    /\ history'[m].checked =
          IF cur.action = "CHECKER" THEN file[m].spec ELSE history[m].checked

\* Drafts change only when the module is parked.
Files(m) ==
    \/ UNCHANGED drafts
    \/ /\ mod'[m].grayResume
       /\ \E r \in ModuleState, W \in SUBSET Finding : W # {} /\ Park(m, r, W)

CommitOutcome(m) ==
    /\ OnlyModule(m) /\ CommitFlags(m)
    /\ Goes(m) \/ Halts(m) \/ Merges(m)
    /\ Files(m)
    /\ history'[m].built = (history[m].built \/ cur.action = "MAKER_STEP2_GREEN")

LEMMA ProceedFacts ==
    ASSUME TypeOK, NEW m \in Module, NEW r \in ModuleState, NEW a, Proceed(m, r, a)
    PROVE  /\ mod'[m] = r /\ cur' = At(m, a)
           /\ \A k \in Module \ {m} : mod'[k] = mod[k]
  BY DEF TypeOK, Proceed, Update

LEMMA HaltFacts ==
    ASSUME TypeOK, NEW m \in Module, NEW r \in ModuleState, Halt(m, r)
    PROVE  /\ mod'[m] = r /\ cur' = Idle
           /\ \A k \in Module \ {m} : mod'[k] = mod[k]
  BY DEF TypeOK, Halt, Update

\* Blocking changes the status alone.
LEMMA BlockFacts ==
    ASSUME TypeOK, NEW m \in Module, NEW r \in ModuleState, Block(m, r)
    PROVE  /\ mod'[m] = [r EXCEPT !.status = "BLOCKED"] /\ cur' = Idle
           /\ mod'[m].status = "BLOCKED"
           /\ mod'[m].everSynced = r.everSynced
           /\ mod'[m].grayResume = r.grayResume
           /\ mod'[m].alignDone = r.alignDone
           /\ \A k \in Module \ {m} : mod'[k] = mod[k]
<1>1. [r EXCEPT !.status = "BLOCKED"] \in ModuleState
  BY FieldTypes DEF Status
<1>2. LET b == [r EXCEPT !.status = "BLOCKED"]
      IN  /\ b.status = "BLOCKED" /\ b.everSynced = r.everSynced
          /\ b.grayResume = r.grayResume /\ b.alignDone = r.alignDone
  BY DEF ModuleState
<1> QED BY <1>1, <1>2, HaltFacts DEF Block

LEMMA RefreshedFacts ==
    ASSUME TypeOK, NEW m \in Module, NEW r \in ModuleState
    PROVE  /\ Refreshed(m, r).specHash = file[m].spec
           /\ Refreshed(m, r).status = r.status
           /\ Refreshed(m, r).everSynced = r.everSynced
           /\ Refreshed(m, r).grayResume = r.grayResume
           /\ Refreshed(m, r).alignDone = r.alignDone
  BY DEF Refreshed, ModuleState

LEMMA SyncedFacts ==
    ASSUME NEW r \in ModuleState
    PROVE  /\ Synced(r).status = "SYNCED"
           /\ Synced(r).specHash = r.specHash
           /\ Synced(r).grayResume = r.grayResume
           /\ Synced(r).alignDone = r.alignDone
  BY DEF Synced, ModuleState

\* A merge blocks, or registers the files and sets SYNCED.
LEMMA MergeFacts ==
    ASSUME TypeOK, NEW m \in Module, NEW r \in ModuleState, NEW green,
           Merge(m, r, green)
    PROVE  /\ cur' = Idle
           /\ \/ mod'[m].status = "BLOCKED" /\ mod'[m].everSynced = r.everSynced
              \/ mod'[m].status = "SYNCED" /\ mod'[m].specHash = file[m].spec
           /\ mod'[m].grayResume = r.grayResume
           /\ mod'[m].alignDone = r.alignDone
           /\ \A k \in Module \ {m} : mod'[k] = mod[k]
<1>1. CASE Block(m, r)
  BY <1>1, BlockFacts
<1>2. CASE Block(m, Refreshed(m, r))
  <2> DEFINE f == Refreshed(m, r)
  <2>1. f \in ModuleState /\ Block(m, f)
    BY <1>2, RefreshedType
  <2>2. /\ f.everSynced = r.everSynced /\ f.grayResume = r.grayResume
        /\ f.alignDone = r.alignDone
    BY RefreshedFacts
  <2> HIDE DEF f
  <2> QED BY <2>1, <2>2, BlockFacts
<1>3. CASE Update(m, Synced(Refreshed(m, r))) /\ cur' = Idle
  <2>1. mod'[m] = Synced(Refreshed(m, r))
    BY <1>3 DEF Update, TypeOK
  <2>2. \A k \in Module \ {m} : mod'[k] = mod[k]
    BY <1>3 DEF Update, TypeOK
  <2> QED BY <1>3, <2>1, <2>2, RefreshedType, RefreshedFacts, SyncedFacts
<1> QED BY <1>1, <1>2, <1>3 DEF Merge, MergeIf

\* The commits that go on and know nothing new about the code.
LEMMA GoesOn ==
    ASSUME TypeOK, NEW m \in Module, NEW r, Keeps(r, m), NEW a \in Action,
           Proceed(m, r, a), UNCHANGED <<drafts, history>>,
           a \in PostBuild => cur.action \in PostBuild,
           a # "CODE_REVIEW", cur.action # "MAKER_STEP2_GREEN"
    PROVE  CommitOutcome(m)
<1>1. history[m].built \in BOOLEAN
  BY DEF TypeOK, History
<1> QED BY <1>1, ProceedFacts
        DEF Keeps, CommitOutcome, OnlyModule, CommitFlags, Goes, Files

\* The commits that block.
LEMMA GetsBlocked ==
    ASSUME TypeOK, NEW m \in Module, NEW r, Keeps(r, m), Block(m, r),
           UNCHANGED <<drafts, history>>, cur.action # "MAKER_STEP2_GREEN"
    PROVE  CommitOutcome(m)
<1>1. history[m].built \in BOOLEAN
  BY DEF TypeOK, History
<1> QED BY <1>1, BlockFacts
        DEF Keeps, CommitOutcome, OnlyModule, CommitFlags, Halts, Files

\* The commits that try to merge.
LEMMA TriesToMerge ==
    ASSUME TypeOK, NEW m \in Module, NEW r, Keeps(r, m), NEW green,
           Merge(m, r, green), UNCHANGED drafts,
           cur.action \in {"CHECKER", "CODE_REVIEW"},
           history'[m].built = history[m].built,
           history'[m].checked = IF cur.action = "CHECKER" THEN file[m].spec
                                 ELSE history[m].checked,
           \A k \in Module \ {m} : history'[k] = history[k]
    PROVE  CommitOutcome(m)
<1>1. history[m].built \in BOOLEAN
  BY DEF TypeOK, History
<1>2. r \in ModuleState /\ r.everSynced = mod[m].everSynced
  BY DEF Keeps
<1>3. OnlyModule(m)
  BY <1>2, MergeFacts DEF OnlyModule
<1>4. CommitFlags(m)
  BY <1>2, MergeFacts DEF CommitFlags, Keeps
<1>5. Halts(m) \/ Merges(m)
  BY <1>2, MergeFacts DEF Halts, Merges
<1> QED BY <1>1, <1>3, <1>4, <1>5 DEF CommitOutcome, Files

LEMMA CommitFacts ==
    ASSUME TypeOK, SpecsExist, NEW m \in Module, Commit(m)
    PROVE  /\ UNCHANGED <<file, moves>>
           /\ cur.module = m /\ cur.action \in Action
           /\ CommitOutcome(m)
<1>1. PICK a \in Action : Committing(m, a)
  BY DEF Commit, CommitScore, CommitClassify, CommitMakerStep0, CommitRed,
     CommitGreen, CheckerFindsErrors, CheckerBlocks, CheckerParks,
     CheckerPasses, CommitMakerFix, CommitAlignDocs, ReviewFindsIssues,
     ReviewPasses, CommitReviewFix, Action
<1>2. /\ UNCHANGED <<file, moves>>
      /\ cur = At(m, a) /\ cur.module = m /\ cur.action = a
  BY <1>1 DEF Committing, At
<1>3. /\ mod[m] \in ModuleState /\ mod[m].status # "ABSENT"
      /\ history \in [Module -> History]
  BY <1>2 DEF TypeOK, SpecsExist
<1>4. history[m].built \in BOOLEAN
  BY <1>3 DEF History
<1>. SUFFICES CommitOutcome(m)
  BY <1>2
<1>a. CASE CommitScore(m)
  <2> DEFINE r == [mod[m] EXCEPT !.status = "READY", !.reviewFix = 0]
             n == [mod[m] EXCEPT !.status = "NEEDS_REFINEMENT"]
  <2>1. Keeps(r, m)
    <3> DEFINE r1 == [mod[m] EXCEPT !.status = "READY"]
    <3>1. r1 \in ModuleState
      BY <1>3, FieldTypes DEF Status
    <3>2. r \in ModuleState
      <4>1. [r1 EXCEPT !.reviewFix = 0] \in ModuleState
        BY <3>1, FieldTypes, ZeroTypes
      <4> QED BY <4>1
    <3> QED BY <1>3, <3>2 DEF Keeps, ModuleState
  <2>2. n \in ModuleState /\ n.status = "NEEDS_REFINEMENT" /\ Keeps(n, m)
    <3>1. n \in ModuleState
      BY <1>3, FieldTypes DEF Status
    <3> QED BY <1>3, <3>1 DEF Keeps, ModuleState
  <2>3. cur.action = "SCORE" /\ UNCHANGED <<drafts, history>>
    BY <1>a DEF CommitScore, Committing, At
  <2>4. CASE Proceed(m, r, "MAKER_STEP0")
    <3> HIDE DEF r
    <3> QED BY <2>1, <2>3, <2>4, GoesOn DEF Action, PostBuild
  <2>5. CASE Halt(m, n)
    <3> HIDE DEF n
    <3> QED BY <1>4, <2>2, <2>3, <2>5, HaltFacts
            DEF Keeps, CommitOutcome, OnlyModule, CommitFlags, Halts, Files
  <2> QED BY <1>a, <2>4, <2>5 DEF CommitScore
<1>b. CASE CommitClassify(m)
  <2>1. Keeps(mod[m], m)
    BY <1>3 DEF Keeps
  <2> QED BY <1>2, <1>b, <2>1, GoesOn
          DEF CommitClassify, Committing, At, Action, PostBuild
<1>c. CASE CommitMakerStep0(m)
  <2> DEFINE r == [mod[m] EXCEPT !.planPath = TRUE]
  <2>1. Keeps(mod[m], m)
    BY <1>3 DEF Keeps
  <2>2. Keeps(r, m)
    <3>1. r \in ModuleState
      BY <1>3, FieldTypes
    <3> QED BY <1>3, <3>1 DEF Keeps, ModuleState
  <2>3. cur.action = "MAKER_STEP0" /\ UNCHANGED <<drafts, history>>
    BY <1>c DEF CommitMakerStep0, Committing, At
  <2>4. CASE Proceed(m, mod[m], "MAKER_STEP0")
    BY <2>1, <2>3, <2>4, GoesOn DEF Action, PostBuild
  <2>5. CASE Proceed(m, r, "MAKER_STEP1_RED")
    <3> HIDE DEF r
    <3> QED BY <2>2, <2>3, <2>5, GoesOn DEF Action, PostBuild
  <2> QED BY <1>c, <2>4, <2>5 DEF CommitMakerStep0
<1>d. CASE CommitRed(m)
  <2>1. Keeps(mod[m], m)
    BY <1>3 DEF Keeps
  <2> QED BY <1>d, <2>1, GoesOn DEF CommitRed, Committing, At, Action, PostBuild
<1>e. CASE CommitGreen(m)
  <2> DEFINE r == [mod[m] EXCEPT !.makerAttempt = 1]
  <2>1. Keeps(r, m)
    <3>1. r \in ModuleState
      BY <1>3, FieldTypes, BudgetAssumption DEF BudgetAssumption
    <3> QED BY <1>3, <3>1 DEF Keeps, ModuleState
  <2>2. /\ cur.action = "MAKER_STEP2_GREEN" /\ UNCHANGED drafts
        /\ Proceed(m, r, "CHECKER")
        /\ history' = [history EXCEPT ![m].built = TRUE]
    BY <1>e DEF CommitGreen, Committing, At
  <2>3. /\ history'[m].built = TRUE
        /\ \A k \in Module \ {m} : history'[k] = history[k]
    BY <1>3, <2>2 DEF History
  <2> HIDE DEF r
  <2>4. r \in ModuleState /\ OnlyModule(m)
    BY <2>1, <2>2, <2>3, ProceedFacts DEF Keeps, OnlyModule, Action
  <2>5. CommitFlags(m)
    BY <2>1, <2>2, <2>4, ProceedFacts DEF Keeps, CommitFlags, Action
  <2>6. Goes(m)
    BY <2>2, <2>4, ProceedFacts DEF Goes, Action, PostBuild
  <2> QED BY <2>2, <2>3, <2>4, <2>5, <2>6 DEF CommitOutcome, Files
<1>f. CASE /\ cur.action = "CHECKER"
           /\ \/ CheckerFindsErrors(m) \/ CheckerBlocks(m)
              \/ CheckerParks(m) \/ CheckerPasses(m)
  <2>1. Keeps(Checked(m), m)
    <3>1. Checked(m) \in ModuleState
      BY <1>3, FieldTypes DEF Checked
    <3> QED BY <1>3, <3>1 DEF Checked, Keeps, ModuleState
  <2>2. CASE CheckerFindsErrors(m)
    <3> DEFINE r == [Checked(m) EXCEPT !.makerAttempt = @ + 1]
    <3>1. mod[m].makerAttempt + 1 \in 0..MaxMakerAttempts
      BY <1>3, <2>2, BudgetAssumption
         DEF CheckerFindsErrors, HasFixBudget, ModuleState, BudgetAssumption
    <3>2. Checked(m).makerAttempt = mod[m].makerAttempt
      BY <1>3 DEF Checked, ModuleState
    <3>3. r \in ModuleState
      BY <2>1, <3>1, <3>2, FieldTypes DEF Keeps
    <3>4. Keeps(r, m)
      BY <2>1, <3>3 DEF Keeps, ModuleState
    <3>5. /\ Proceed(m, r, "MAKER_FIX") /\ UNCHANGED drafts
          /\ history'[m].built = history[m].built
          /\ \A k \in Module \ {m} : history'[k] = history[k]
      BY <1>3, <2>2 DEF CheckerFindsErrors, History
    <3> HIDE DEF r
    <3> QED BY <1>f, <1>4, <3>4, <3>5, ProceedFacts
            DEF Keeps, CommitOutcome, OnlyModule, CommitFlags, Goes, Files,
                Action, PostBuild
  <2>3. CASE CheckerBlocks(m)
    BY <1>f, <2>1, <2>3, GetsBlocked DEF CheckerBlocks
  <2>4. CASE CheckerParks(m)
    <3>1. PICK W \in (SUBSET SoftWarnings(m)) \ {{}} : Park(m, Checked(m), W)
      BY <2>4 DEF CheckerParks
    <3>2. W \in SUBSET Finding /\ W # {} /\ Checked(m) \in ModuleState
      BY <2>1, <3>1 DEF SoftWarnings, Keeps
    <3> DEFINE r == [Checked(m) EXCEPT !.grayResume = TRUE]
    <3>3. /\ r \in ModuleState /\ r.grayResume = TRUE
          /\ r.status = Checked(m).status
          /\ r.everSynced = Checked(m).everSynced
          /\ r.alignDone = Checked(m).alignDone
      <4>1. r \in ModuleState
        BY <3>2, FieldTypes
      <4> QED BY <3>2, <4>1 DEF ModuleState
    <3>4. Halt(m, r)
      BY <3>1 DEF Park
    <3>5. /\ mod'[m] = r /\ cur' = Idle /\ UNCHANGED history
          /\ \A k \in Module \ {m} : mod'[k] = mod[k]
      <4> HIDE DEF r
      <4> QED BY <2>4, <3>3, <3>4, HaltFacts DEF CheckerParks
    <3>6. Halts(m) /\ Files(m)
      BY <3>1, <3>2, <3>3, <3>5 DEF Halts, Files
    <3>7. CommitFlags(m)
      <4> HIDE DEF r
      <4> QED BY <1>f, <2>1, <3>3, <3>5 DEF CommitFlags, Keeps
    <3> QED BY <1>f, <1>4, <3>5, <3>6, <3>7 DEF CommitOutcome, OnlyModule
  <2>5. CASE CheckerPasses(m)
    <3>1. CASE /\ Proceed(m, Checked(m), "CODE_REVIEW")
               /\ history' = [history EXCEPT ![m].checked = file[m].spec]
      <4>1. /\ history'[m].built = history[m].built
            /\ history'[m].checked = file[m].spec
            /\ \A k \in Module \ {m} : history'[k] = history[k]
        BY <1>3, <3>1 DEF History
      <4>2. UNCHANGED drafts /\ Checked(m) \in ModuleState
        BY <2>1, <2>5 DEF CheckerPasses, Keeps
      <4> QED BY <1>f, <1>4, <2>1, <3>1, <4>1, <4>2, ProceedFacts
              DEF Keeps, CommitOutcome, OnlyModule, CommitFlags, Goes, Files,
                  Action, PostBuild
    <3>2. CASE \E green \in TestOutcomes(mod[m]) :
                /\ Merge(m, Checked(m), green)
                /\ history' = [history EXCEPT
                      ![m].checked = file[m].spec,
                      ![m].tested = @ \/ (green /\ mod[m].status # "SYNCED")]
      <4>1. PICK green \in TestOutcomes(mod[m]) :
                /\ Merge(m, Checked(m), green)
                /\ history' = [history EXCEPT
                      ![m].checked = file[m].spec,
                      ![m].tested = @ \/ (green /\ mod[m].status # "SYNCED")]
        BY <3>2
      <4>2. /\ history'[m].built = history[m].built
            /\ history'[m].checked = file[m].spec
            /\ \A k \in Module \ {m} : history'[k] = history[k]
        BY <1>3, <4>1 DEF History
      <4>3. UNCHANGED drafts
        BY <2>5 DEF CheckerPasses
      <4> QED BY <1>f, <2>1, <4>1, <4>2, <4>3, TriesToMerge
    <3> QED BY <2>5, <3>1, <3>2 DEF CheckerPasses
  <2> QED BY <1>f, <2>2, <2>3, <2>4, <2>5
<1>g. CASE CommitMakerFix(m)
  <2> DEFINE r == [mod[m] EXCEPT !.pendingAlign = FALSE]
  <2>1. Keeps(r, m)
    <3>1. r \in ModuleState
      BY <1>3, FieldTypes
    <3> QED BY <1>3, <3>1 DEF Keeps, ModuleState
  <2> HIDE DEF r
  <2>2. \E b \in {"ALIGN_DOCS", "CHECKER"} : Proceed(m, r, b)
    BY <1>g DEF CommitMakerFix, r
  <2> QED BY <1>g, <2>1, <2>2, GoesOn
          DEF CommitMakerFix, Committing, At, Action, PostBuild
<1>h. CASE CommitAlignDocs(m)
  <2> DEFINE r1 == [mod[m] EXCEPT !.alignDone = TRUE]
             r == [r1 EXCEPT !.specHash = file[m].spec]
  <2>1. /\ r \in ModuleState /\ r.status = mod[m].status
        /\ r.everSynced = mod[m].everSynced /\ r.grayResume = mod[m].grayResume
    <3>1. r1 \in ModuleState
      BY <1>3, FieldTypes
    <3>2. r \in ModuleState
      <4> HIDE DEF r1
      <4> QED BY <3>1, FieldTypes, FileTypes
    <3> QED BY <1>3, <3>2 DEF ModuleState
  <2>2. /\ cur.action = "ALIGN_DOCS" /\ UNCHANGED <<drafts, history>>
        /\ Proceed(m, r, "CHECKER")
    BY <1>h DEF CommitAlignDocs, Committing, At
  <2> HIDE DEF r
  <2> QED BY <1>3, <1>4, <2>1, <2>2, ProceedFacts
          DEF CommitOutcome, OnlyModule, CommitFlags, Goes, Files, Action,
              PostBuild
<1>i. CASE ReviewFindsIssues(m)
  <2> DEFINE r == [mod[m] EXCEPT !.reviewFix = @ + 1]
  <2>1. cur.action = "CODE_REVIEW" /\ UNCHANGED <<drafts, history>>
    BY <1>i DEF ReviewFindsIssues, Committing, At
  <2>2. CASE mod[m].reviewFix < MaxReviewFixCycles /\ Proceed(m, r, "CODE_REVIEW_FIX")
    <3>1. mod[m].reviewFix + 1 \in 0..MaxReviewFixCycles
      BY <1>3, <2>2, BudgetAssumption DEF ModuleState, BudgetAssumption
    <3>2. r \in ModuleState
      BY <1>3, <3>1, FieldTypes
    <3>3. Keeps(r, m)
      BY <1>3, <3>2 DEF Keeps, ModuleState
    <3> HIDE DEF r
    <3> QED BY <2>1, <2>2, <3>3, GoesOn DEF Action, PostBuild
  <2>3. CASE Block(m, mod[m])
    BY <1>3, <2>1, <2>3, GetsBlocked DEF Keeps
  <2> QED BY <1>i, <2>2, <2>3 DEF ReviewFindsIssues
<1>j. CASE ReviewPasses(m)
  <2>1. PICK green \in TestOutcomes(mod[m]) :
            /\ Merge(m, mod[m], green)
            /\ history' = [history EXCEPT
                  ![m].tested = @ \/ (green /\ mod[m].status # "SYNCED")]
    BY <1>j DEF ReviewPasses
  <2>2. /\ history'[m].built = history[m].built
        /\ history'[m].checked = history[m].checked
        /\ \A k \in Module \ {m} : history'[k] = history[k]
    BY <1>3, <2>1 DEF History
  <2>3. cur.action = "CODE_REVIEW" /\ UNCHANGED drafts /\ Keeps(mod[m], m)
    BY <1>3, <1>j DEF ReviewPasses, Committing, At, Keeps
  <2> QED BY <2>1, <2>2, <2>3, TriesToMerge
<1>k. CASE CommitReviewFix(m)
  <2>1. /\ cur.action = "CODE_REVIEW_FIX" /\ UNCHANGED <<drafts, history>>
        /\ Keeps(mod[m], m)
        /\ Block(m, mod[m]) \/ Proceed(m, mod[m], "CHECKER")
    BY <1>3, <1>k, NoneAssumption
       DEF CommitReviewFix, Committing, At, Keeps, AfterReviewFix
  <2> QED BY <2>1, GetsBlocked, GoesOn DEF Action, PostBuild
<1> QED
  <2>1. (\/ CheckerFindsErrors(m) \/ CheckerBlocks(m)
         \/ CheckerParks(m) \/ CheckerPasses(m)) => cur.action = "CHECKER"
    BY DEF CheckerFindsErrors, CheckerBlocks, CheckerParks, CheckerPasses,
           Committing, At
  <2> QED BY <1>a, <1>b, <1>c, <1>d, <1>e, <1>f, <1>g, <1>h, <1>i, <1>j, <1>k,
             <2>1 DEF Commit

-----------------------------------------------------------------------------
(* What people, agents and the poll do.                                    *)

\* How they may leave a module: its flags are kept.
KeptFlags(k) ==
    /\ mod'[k].everSynced = mod[k].everSynced
    /\ mod'[k].grayResume = mod[k].grayResume
    /\ mod'[k].alignDone = mod[k].alignDone
    /\ mod[k].status # "ABSENT" => mod'[k].status # "ABSENT"
    /\ mod[k].status = "ABSENT" =>
          mod'[k].status = "ABSENT" \/ file[k].spec # None

\* Where they may send the loop: a registered change, or a step given up.
EnvironmentCheckpoint ==
    \/ UNCHANGED cur
    \/ cur' = Idle /\ moves' # moves
    \/ \E m \in Module :
        /\ mod'[m].status # "ABSENT"
        /\ \/ cur' = At(m, "SCORE")
           \/ cur' = At(m, "CLASSIFY_CHANGE") /\ mod[m].everSynced

\* r, with the flags of m, replaces m.
LEMMA KeepsFlags ==
    ASSUME TypeOK, NEW m \in Module, NEW r \in ModuleState, Update(m, r),
           r.everSynced = mod[m].everSynced, r.grayResume = mod[m].grayResume,
           r.alignDone = mod[m].alignDone, r.status # "ABSENT",
           mod[m].status # "ABSENT" \/ file[m].spec # None,
           NEW k \in Module
    PROVE  KeptFlags(k) /\ mod'[m].status # "ABSENT"
<1>1. mod'[m] = r /\ (k # m => mod'[k] = mod[k])
  BY DEF Update, TypeOK
<1> QED BY <1>1 DEF KeptFlags

LEMMA EnvironmentFacts ==
    ASSUME TypeOK, AbsentClean, NEW m \in Module,
           \/ EditCode(m) \/ EditDocs(m) \/ EditSpec(m) \/ EditPlan(m)
           \/ SpecResult(m) \/ SetStatus(m) \/ Reset(m)
    PROVE  /\ UNCHANGED drafts
           /\ \A k \in Module : KeptFlags(k)
           /\ \A k \in Module : file[k].spec # None => file'[k].spec # None
           /\ EnvironmentCheckpoint
           /\ \A k \in Module :
                /\ history'[k].built = history[k].built
                /\ \/ history'[k].checked = history[k].checked
                   \/ cur.action \in CodeEditActions /\ UNCHANGED cur
<1>0. /\ mod \in [Module -> ModuleState] /\ history \in [Module -> History]
      /\ file \in [Module -> File] /\ moves \in Nat
  BY DEF TypeOK, File
<1>r. ASSUME UNCHANGED history
      PROVE  \A k \in Module : /\ history'[k].built = history[k].built
                               /\ history'[k].checked = history[k].checked
  BY <1>0, <1>r DEF History
<1>1. CASE EditCode(m)
  <2>1. \A k \in Module : history'[k].built = history[k].built
    BY <1>0, <1>1 DEF EditCode, History
  <2> QED BY <1>1, <2>1 DEF EditCode, AgentAtWork, KeptFlags, EnvironmentCheckpoint
<1>2. CASE EditDocs(m)
  <2>1. \A k \in Module : file[k].spec # None => file'[k].spec # None
    <3>1. CASE \E p \in PlanText : file' = [file EXCEPT ![m].plan = p]
      BY <1>0, <3>1 DEF File
    <3>2. CASE \E s \in SpecText, p \in PlanText \cup {file[m].plan} :
                 file' = [file EXCEPT ![m] = [spec |-> s, plan |-> p]]
      BY <1>0, <3>2, NoneAssumption DEF File, NoneAssumption
    <3> QED BY <1>2, <3>1, <3>2 DEF EditDocs
  <2> QED BY <1>2, <2>1 DEF EditDocs, KeptFlags, EnvironmentCheckpoint
<1>3. CASE EditSpec(m)
  <2>1. \A k \in Module : file[k].spec # None => file'[k].spec # None
    BY <1>0, <1>3, NoneAssumption DEF EditSpec, File, NoneAssumption
  <2> QED BY <1>3, <2>1 DEF EditSpec, KeptFlags, EnvironmentCheckpoint
<1>4. CASE EditPlan(m)
  <2>1. \A k \in Module : file[k].spec # None => file'[k].spec # None
    BY <1>0, <1>4 DEF EditPlan, File
  <2> QED BY <1>4, <2>1 DEF EditPlan, KeptFlags, EnvironmentCheckpoint
<1>5. CASE SpecResult(m)
  <2> DEFINE r == IF mod[m].status = "ABSENT" THEN NewModule(m, None) ELSE mod[m]
             n == RecordSpecChange(r, file[m].spec)
  <2>1. r \in ModuleState
    BY <1>0, NewModuleType
  <2>2. /\ r.everSynced = mod[m].everSynced /\ r.grayResume = mod[m].grayResume
        /\ r.alignDone = mod[m].alignDone
    <3>1. CASE mod[m].status = "ABSENT"
      <4>1. r = NewModule(m, None)
        BY <3>1
      <4>2. /\ NewModule(m, None).everSynced = FALSE
            /\ NewModule(m, None).grayResume = FALSE
            /\ NewModule(m, None).alignDone = FALSE
        BY DEF NewModule, Absent
      <4>3. /\ mod[m].everSynced = FALSE /\ mod[m].grayResume = FALSE
            /\ mod[m].alignDone = FALSE
        BY <1>0, <3>1 DEF AbsentClean, ModuleState
      <4> HIDE DEF r
      <4> QED BY <4>1, <4>2, <4>3
    <3> QED BY <3>1
  <2>3. /\ UNCHANGED <<file, drafts, moves>> /\ file[m].spec # None
        /\ Update(m, n) /\ cur' = At(m, EntryAction(r)) /\ UNCHANGED history
    BY <1>5 DEF SpecResult
  <2> HIDE DEF r
  <2>4. /\ n \in ModuleState /\ n.status = "PARTIAL"
        /\ n.everSynced = r.everSynced /\ n.grayResume = r.grayResume
        /\ n.alignDone = r.alignDone
    <3>1. n \in ModuleState
      BY <1>0, <2>1, RecordSpecChangeType, FileTypes
    <3> QED BY <2>1, <3>1 DEF RecordSpecChange, ModuleState
  <2> HIDE DEF n
  <2>5. \A k \in Module : KeptFlags(k) /\ mod'[m].status # "ABSENT"
    BY <2>2, <2>3, <2>4, KeepsFlags
  <2>6. EnvironmentCheckpoint
    BY <2>2, <2>3, <2>5 DEF EnvironmentCheckpoint, EntryAction
  <2> QED BY <1>r, <2>3, <2>5, <2>6
<1>6. CASE SetStatus(m)
  <2>1. PICK s \in SettableStatus : Update(m, [mod[m] EXCEPT !.status = s])
    BY <1>6 DEF SetStatus
  <2> DEFINE n == [mod[m] EXCEPT !.status = s]
  <2>2. n \in ModuleState /\ s # "ABSENT"
    BY <1>0, FieldTypes, EnvironmentAssumption DEF EnvironmentAssumption, Status
  <2>3. /\ n.status # "ABSENT" /\ n.everSynced = mod[m].everSynced
        /\ n.grayResume = mod[m].grayResume /\ n.alignDone = mod[m].alignDone
    BY <1>0, <2>2 DEF ModuleState
  <2>4. mod[m].status # "ABSENT"
    BY <1>6 DEF SetStatus
  <2>5. \A k \in Module : KeptFlags(k)
    <3> HIDE DEF n
    <3> QED BY <2>1, <2>2, <2>3, <2>4, KeepsFlags DEF n
  <2>6. EnvironmentCheckpoint
    BY <1>0, <1>6 DEF SetStatus, DropCheckpoint, Intervene, EnvironmentCheckpoint
  <2> QED BY <1>6, <2>5, <2>6 DEF SetStatus
<1>7. CASE Reset(m)
  <2> DEFINE n == [mod[m] EXCEPT !.status = "DRAFT", !.makerAttempt = 0,
                                 !.reviewFix = 0]
  <2>1. Update(m, n) /\ UNCHANGED history /\ UNCHANGED <<file, drafts>>
    BY <1>7 DEF Reset
  <2>2. n \in ModuleState
    <3>1. mod' \in [Module -> ModuleState]
      BY <1>7, EnvironmentType DEF TypeOK
    <3>2. mod'[m] = n
      BY <1>0, <2>1 DEF Update
    <3> QED BY <3>1, <3>2
  <2>3. /\ n.status # "ABSENT" /\ n.everSynced = mod[m].everSynced
        /\ n.grayResume = mod[m].grayResume /\ n.alignDone = mod[m].alignDone
    BY <1>0, <2>2 DEF ModuleState
  <2>4. mod[m].status # "ABSENT"
    BY <1>7 DEF Reset
  <2>5. \A k \in Module : KeptFlags(k)
    <3> HIDE DEF n
    <3> QED BY <2>1, <2>2, <2>3, <2>4, KeepsFlags
  <2>6. EnvironmentCheckpoint
    BY <1>0, <1>7 DEF Reset, DropCheckpoint, Intervene, EnvironmentCheckpoint
  <2> QED BY <1>r, <2>1, <2>5, <2>6
<1> QED BY <1>1, <1>2, <1>3, <1>4, <1>5, <1>6, <1>7

\* The lock's steps and the answers leave modules, files and checkpoint alone.
LEMMA LockFacts ==
    ASSUME TypeOK,
           \/ PassGate \/ BeginRun \/ BeginManual \/ Retry \/ Undirected \/ Release
           \/ Resolve \/ PollArchive
    PROVE  /\ UNCHANGED <<file, mod, cur, history>>
           /\ Pending' \subseteq Pending
<1>1. CASE Resolve
  BY <1>1 DEF Resolve, Pending, TypeOK, Draft
<1>2. CASE PollArchive
  <2>1. \A d \in Draft :
          [d EXCEPT !.status = "rejected", !.archived = TRUE].status = "rejected"
    BY DEF Draft
  <2>2. Stale \subseteq Draft
    BY DEF Stale, Pending, TypeOK
  <2> QED BY <1>2, <2>1, <2>2 DEF PollArchive, Pending
<1>3. CASE PassGate \/ BeginRun \/ BeginManual \/ Retry \/ Undirected \/ Release
  BY <1>3 DEF PassGate, BeginRun, BeginManual, Retry, Undirected, Release, Pending
<1> QED BY <1>1, <1>2, <1>3

-----------------------------------------------------------------------------
(* The inductive invariant behind the safety theorems.  AbsentClean and    *)
(* SpecsExist (above) say that only registered modules have flags, a spec  *)
(* file and a checkpoint; the two below say what is known of the code of a *)
(* module at the steps that precede a merge.                               *)

\* CODE_REVIEW looks at code that a CHECKER found clean.
CheckedInReview ==
    \A m \in Module : cur = At(m, "CODE_REVIEW") => history[m].checked # None

\* Whatever lets a round skip the MAKER steps, a MAKER has built the module.
BuiltOnce ==
    \A m \in Module :
        (\/ mod[m].everSynced \/ mod[m].grayResume \/ mod[m].alignDone
         \/ cur.module = m /\ cur.action \in PostBuild)
        => history[m].built

LoopInv ==
    /\ TypeOK
    /\ AbsentClean
    /\ SpecsExist
    /\ ParkedWhilePending
    /\ CheckedInReview
    /\ BuiltOnce

\* The steps of people, agents and the poll, and those of the lock.
EnvironmentStep ==
    \E m \in Module : \/ EditCode(m) \/ EditDocs(m) \/ EditSpec(m)
                      \/ EditPlan(m) \/ SpecResult(m) \/ SetStatus(m)
                      \/ Reset(m)
LockStep ==
    \/ PassGate \/ BeginRun \/ BeginManual \/ Retry \/ Undirected \/ Release
    \/ Resolve \/ PollArchive

LEMMA NextSplit ==
    Next => NextCall \/ (\E m \in Module : Commit(m)) \/ EnvironmentStep \/ LockStep
  BY DEF Next, EnvironmentStep, LockStep

LEMMA RegisteredStep ==
    ASSUME LoopInv, Next
    PROVE  AbsentClean' /\ SpecsExist'
<1>0. TypeOK /\ AbsentClean /\ SpecsExist
  BY DEF LoopInv
<1>1. CASE NextCall
  <2>1. AbsentClean'
    BY <1>0, <1>1, NextCallFacts DEF NextFlags, AbsentClean
  <2>2. SpecsExist'
    BY <1>0, <1>1, NextCallFacts DEF NextFlags, NextCheckpoint, SpecsExist, At
  <2> QED BY <2>1, <2>2
<1>2. CASE \E m \in Module : Commit(m)
  <2>1. PICK m \in Module : Commit(m)
    BY <1>2
  <2>2. CommitOutcome(m) /\ UNCHANGED file /\ cur.module = m
    BY <1>0, <2>1, CommitFacts
  <2>3. AbsentClean'
    BY <1>0, <2>2 DEF CommitOutcome, OnlyModule, CommitFlags, AbsentClean
  <2>4. cur'.module \in {m, None}
    BY <2>2 DEF CommitOutcome, Goes, Halts, Merges, At, Idle
  <2>5. SpecsExist'
    BY <1>0, <2>2, <2>4, NoneAssumption
       DEF CommitOutcome, OnlyModule, CommitFlags, SpecsExist, NoneAssumption
  <2> QED BY <2>3, <2>5
<1>3. CASE EnvironmentStep
  <2>1. /\ \A k \in Module : KeptFlags(k)
        /\ \A k \in Module : file[k].spec # None => file'[k].spec # None
        /\ EnvironmentCheckpoint
    BY <1>0, <1>3, EnvironmentFacts DEF EnvironmentStep
  <2>2. AbsentClean'
    BY <1>0, <2>1 DEF KeptFlags, AbsentClean
  <2>3. SpecsExist'
    BY <1>0, <2>1, NoneAssumption
       DEF KeptFlags, SpecsExist, EnvironmentCheckpoint, At, Idle, NoneAssumption
  <2> QED BY <2>2, <2>3
<1>4. CASE LockStep
  BY <1>0, <1>4, LockFacts DEF LockStep, AbsentClean, SpecsExist
<1> QED BY <1>1, <1>2, <1>3, <1>4, NextSplit

LEMMA ParkedStep ==
    ASSUME LoopInv, Next
    PROVE  ParkedWhilePending'
<1>0. TypeOK /\ AbsentClean /\ SpecsExist /\ ParkedWhilePending
  BY DEF LoopInv
<1>1. \A d \in Pending : d \in Draft /\ d.module \in Module
  BY <1>0 DEF TypeOK, Pending, Draft
<1>2. CASE NextCall
  <2>1. UNCHANGED drafts /\ \A k \in Module : NextFlags(k)
    BY <1>0, <1>2, NextCallFacts
  <2>2. \A d \in Pending : PendingOf(d.module) # {}
    BY DEF PendingOf
  <2> QED BY <1>0, <1>1, <2>1, <2>2 DEF NextFlags, ParkedWhilePending, Pending
<1>3. CASE \E m \in Module : Commit(m)
  <2>1. PICK m \in Module : Commit(m)
    BY <1>3
  <2>2. CommitOutcome(m)
    BY <1>0, <2>1, CommitFacts
  <2>3. \A k \in Module : mod[k].grayResume => mod'[k].grayResume
    BY <2>2 DEF CommitOutcome, OnlyModule, CommitFlags
  <2>4. CASE UNCHANGED drafts
    BY <1>0, <1>1, <2>3, <2>4 DEF ParkedWhilePending, Pending
  <2>5. CASE /\ mod'[m].grayResume
             /\ \E r \in ModuleState, W \in SUBSET Finding : W # {} /\ Park(m, r, W)
    <3>1. PICK r \in ModuleState, W \in SUBSET Finding : W # {} /\ Park(m, r, W)
      BY <2>5
    <3>2. PICK top \in Nat, new \in SUBSET Draft, gone \in SUBSET Draft :
              Parks(m, W, top, new, gone)
      BY <1>0, <3>1, ParkFacts
    <3>3. ASSUME NEW d \in Pending' PROVE mod'[d.module].grayResume
      <4>1. CASE d \in new
        BY <2>5, <3>2, <4>1 DEF Parks
      <4>2. CASE d \in ArchivedFor(m)
        <5>1. d.status = "pending"
          BY <3>3 DEF Pending
        <5>2. PICK e \in drafts : e.module = d.module /\ e.status = d.status
          BY <1>0, <4>2, ArchivedFacts
        <5>3. e \in Pending
          BY <5>1, <5>2 DEF Pending
        <5> QED BY <1>0, <1>1, <2>3, <5>2, <5>3 DEF ParkedWhilePending
      <4> QED BY <3>2, <3>3, <4>1, <4>2 DEF Pending, Parks
    <3> QED BY <3>3 DEF ParkedWhilePending
  <2> QED BY <2>2, <2>4, <2>5 DEF CommitOutcome, Files
<1>4. CASE EnvironmentStep
  <2>1. UNCHANGED drafts /\ \A k \in Module : KeptFlags(k)
    BY <1>0, <1>4, EnvironmentFacts DEF EnvironmentStep
  <2> QED BY <1>0, <1>1, <2>1 DEF KeptFlags, ParkedWhilePending, Pending
<1>5. CASE LockStep
  BY <1>0, <1>5, LockFacts DEF LockStep, ParkedWhilePending
<1> QED BY <1>2, <1>3, <1>4, <1>5, NextSplit

LEMMA CheckedStep ==
    ASSUME LoopInv, Next
    PROVE  CheckedInReview'
<1>0. /\ TypeOK /\ AbsentClean /\ SpecsExist /\ CheckedInReview
      /\ \A m \in Module : At(m, "CODE_REVIEW").action = "CODE_REVIEW"
  BY DEF LoopInv, At
<1> SUFFICES ASSUME NEW k \in Module, cur' = At(k, "CODE_REVIEW")
             PROVE  history'[k].checked # None
  BY DEF CheckedInReview, At
<1>1. CASE NextCall
  <2>1. UNCHANGED cur /\ history'[k].checked = history[k].checked
    BY <1>0, <1>1, NextCallFacts DEF NextCheckpoint, At
  <2> QED BY <1>0, <2>1 DEF CheckedInReview
<1>2. CASE \E m \in Module : Commit(m)
  <2>1. PICK m \in Module : Commit(m)
    BY <1>2
  <2>2. CommitOutcome(m) /\ cur.module = m
    BY <1>0, <2>1, CommitFacts
  <2>3. cur' # Idle
    BY NoneAssumption DEF At, Idle, NoneAssumption
  <2>4. PICK a \in Action :
          /\ cur' = At(m, a)
          /\ a = "CODE_REVIEW" => history'[m].checked = file[m].spec
    BY <2>2, <2>3 DEF CommitOutcome, Goes, Halts, Merges
  <2>5. k = m /\ a = "CODE_REVIEW"
    BY <2>4 DEF At
  <2> QED BY <1>0, <2>2, <2>4, <2>5 DEF SpecsExist
<1>3. CASE EnvironmentStep
  <2>1. UNCHANGED cur
    BY <1>0, <1>3, EnvironmentFacts, NoneAssumption
       DEF EnvironmentStep, EnvironmentCheckpoint, At, Idle, NoneAssumption
  <2>2. cur.action \notin CodeEditActions
    BY <1>0, <2>1 DEF CodeEditActions
  <2>3. history'[k].checked = history[k].checked
    BY <1>0, <1>3, <2>2, EnvironmentFacts DEF EnvironmentStep
  <2> QED BY <1>0, <2>1, <2>3 DEF CheckedInReview
<1>4. CASE LockStep
  BY <1>0, <1>4, LockFacts DEF LockStep, CheckedInReview
<1> QED BY <1>1, <1>2, <1>3, <1>4, NextSplit

LEMMA BuiltStep ==
    ASSUME LoopInv, Next
    PROVE  BuiltOnce'
<1>0. TypeOK /\ AbsentClean /\ SpecsExist /\ BuiltOnce
  BY DEF LoopInv
<1> SUFFICES ASSUME NEW k \in Module,
                    \/ mod'[k].everSynced \/ mod'[k].grayResume
                    \/ mod'[k].alignDone
                    \/ cur'.module = k /\ cur'.action \in PostBuild
             PROVE  history'[k].built
  BY DEF BuiltOnce
<1>1. CASE NextCall
  <2>1. NextFlags(k) /\ NextCheckpoint /\ history'[k].built = history[k].built
    BY <1>0, <1>1, NextCallFacts
  <2>2. CASE mod[k].everSynced \/ mod[k].grayResume \/ mod[k].alignDone
    BY <1>0, <2>1, <2>2 DEF BuiltOnce
  <2>3. CASE ~mod[k].everSynced /\ ~mod[k].grayResume /\ ~mod[k].alignDone
    <3>1. cur'.module = k /\ cur'.action \in PostBuild
      BY <2>1, <2>3 DEF NextFlags
    <3>2. UNCHANGED cur
      BY <2>1, <2>3, <3>1 DEF NextCheckpoint, At, PostBuild
    <3> QED BY <1>0, <2>1, <3>1, <3>2 DEF BuiltOnce
  <2> QED BY <2>2, <2>3
<1>2. CASE \E m \in Module : Commit(m)
  <2>1. PICK m \in Module : Commit(m)
    BY <1>2
  <2>2. CommitOutcome(m) /\ cur.module = m /\ cur.action \in Action
    BY <1>0, <2>1, CommitFacts
  <2>3. cur'.module \in {m, None}
    BY <2>2 DEF CommitOutcome, Goes, Halts, Merges, At, Idle
  <2>4. CASE k # m
    <3>1. mod'[k] = mod[k] /\ history'[k] = history[k] /\ cur'.module # k
      BY <2>2, <2>3, <2>4, NoneAssumption
         DEF CommitOutcome, OnlyModule, NoneAssumption
    <3> QED BY <1>0, <3>1 DEF BuiltOnce
  <2>5. CASE k = m
    <3>1. history'[m].built = (history[m].built \/ cur.action = "MAKER_STEP2_GREEN")
      BY <2>2 DEF CommitOutcome
    <3>2. CASE \/ mod[m].everSynced \/ mod[m].grayResume \/ mod[m].alignDone
               \/ cur.action \in PostBuild
      BY <1>0, <2>2, <2>5, <3>1, <3>2 DEF BuiltOnce
    <3>3. CASE cur.action \notin PostBuild /\ ~mod[m].everSynced
               /\ ~mod[m].grayResume /\ ~mod[m].alignDone
      <4>1. ~mod'[m].everSynced /\ ~mod'[m].grayResume /\ ~mod'[m].alignDone
        BY <2>2, <3>3 DEF CommitOutcome, CommitFlags, PostBuild
      <4>2. cur'.action \in PostBuild /\ cur' # Idle
        BY <2>5, <4>1, NoneAssumption DEF Idle, NoneAssumption
      <4>3. cur.action = "MAKER_STEP2_GREEN"
        BY <2>2, <3>3, <4>2 DEF CommitOutcome, Goes, Halts, Merges, At
      <4> QED BY <2>5, <3>1, <4>3
    <3> QED BY <3>2, <3>3
  <2> QED BY <2>4, <2>5
<1>3. CASE EnvironmentStep
  <2>1. /\ KeptFlags(k) /\ EnvironmentCheckpoint
        /\ history'[k].built = history[k].built
    BY <1>0, <1>3, EnvironmentFacts DEF EnvironmentStep
  <2>2. CASE mod[k].everSynced \/ mod[k].grayResume \/ mod[k].alignDone
    BY <1>0, <2>1, <2>2 DEF BuiltOnce
  <2>3. CASE ~mod[k].everSynced /\ ~mod[k].grayResume /\ ~mod[k].alignDone
    <3>1. cur'.module = k /\ cur'.action \in PostBuild
      BY <2>1, <2>3 DEF KeptFlags
    <3>2. UNCHANGED cur
      BY <2>1, <2>3, <3>1, NoneAssumption
         DEF EnvironmentCheckpoint, At, Idle, PostBuild, NoneAssumption
    <3> QED BY <1>0, <2>1, <3>1, <3>2 DEF BuiltOnce
  <2> QED BY <2>2, <2>3
<1>4. CASE LockStep
  BY <1>0, <1>4, LockFacts DEF LockStep, BuiltOnce
<1> QED BY <1>1, <1>2, <1>3, <1>4, NextSplit

LEMMA LoopInvInit == Init => LoopInv
<1> SUFFICES ASSUME Init PROVE LoopInv
  OBVIOUS
<1>1. /\ Absent.status = "ABSENT" /\ Absent.everSynced = FALSE
      /\ Absent.grayResume = FALSE /\ Absent.alignDone = FALSE
  BY DEF Absent
<1>2. \A m \in Module : mod[m] = Absent /\ cur.module # m
  BY NoneAssumption DEF Init, Idle, NoneAssumption
<1>3. AbsentClean /\ SpecsExist /\ BuiltOnce
  BY <1>1, <1>2 DEF AbsentClean, SpecsExist, BuiltOnce
<1>4. ParkedWhilePending
  BY DEF Init, ParkedWhilePending, Pending
<1>5. CheckedInReview
  BY <1>2 DEF CheckedInReview, At
<1> QED BY <1>3, <1>4, <1>5, InitType DEF LoopInv

LEMMA LoopInvStep == LoopInv /\ [Next]_vars => LoopInv'
<1> SUFFICES ASSUME LoopInv, [Next]_vars PROVE LoopInv'
  OBVIOUS
<1>1. CASE UNCHANGED vars
  BY <1>1 DEF vars, LoopInv, TypeOK, AbsentClean, SpecsExist,
     ParkedWhilePending, Pending, CheckedInReview, BuiltOnce
<1>2. CASE Next
  <2>1. TypeOK'
    BY StepType DEF LoopInv
  <2> QED BY <1>2, <2>1, RegisteredStep, ParkedStep, CheckedStep, BuiltStep
          DEF LoopInv
<1> QED BY <1>1, <1>2

LEMMA LoopInvAlways == Spec => []LoopInv
  BY LoopInvInit, LoopInvStep, PTL DEF Spec

-----------------------------------------------------------------------------
(* The safety theorems.                                                    *)

\* No scan, override, crash or session unparks a module whose gray drafts
\* still wait for an answer, so every answer is acted upon.
THEOREM ParkedUntilAnswered == Spec => []ParkedWhilePending
<1>1. LoopInv => ParkedWhilePending
  BY DEF LoopInv
<1> QED BY <1>1, LoopInvAlways, PTL

\* A step that merges is a commit of CHECKER or CODE_REVIEW.
LEMMA MergeIsCommit ==
    ASSUME LoopInv, Next, NEW m \in Module, Merged(m)
    PROVE  /\ cur.module = m
           /\ CommitOutcome(m)
           /\ cur.action \in {"CHECKER", "CODE_REVIEW"}
           /\ Merges(m)
           /\ Commit(m)
<1>0. /\ TypeOK /\ AbsentClean /\ SpecsExist
      /\ cur.module = m /\ cur' = Idle /\ cur # Idle
      /\ mod'[m].status = "SYNCED" /\ UNCHANGED <<drafts, moves>>
  BY NoneAssumption DEF LoopInv, Merged, Idle, NoneAssumption
<1>1. ~NextCall
  BY <1>0, NextCallFacts, NoneAssumption
     DEF NextCheckpoint, At, Idle, NoneAssumption
<1>2. ~EnvironmentStep
  BY <1>0, EnvironmentFacts, NoneAssumption
     DEF EnvironmentStep, EnvironmentCheckpoint, At, Idle, NoneAssumption
<1>3. ~LockStep
  BY <1>0, LockFacts DEF LockStep
<1>4. PICK k \in Module : Commit(k)
  BY <1>1, <1>2, <1>3, NextSplit
<1>5. k = m /\ CommitOutcome(m)
  BY <1>0, <1>4, CommitFacts
<1>6. ~Goes(m)
  BY <1>0, NoneAssumption DEF Goes, At, Idle, NoneAssumption
<1>7. ~Halts(m)
  <2> SUFFICES ASSUME NEW r \in ModuleState, NEW W \in SUBSET Finding,
                      W # {}, Park(m, r, W)
               PROVE  FALSE
    BY <1>0 DEF Halts
  <2>1. PICK top \in Nat, new \in SUBSET Draft, gone \in SUBSET Draft :
            Parks(m, W, top, new, gone)
    BY <1>0, ParkFacts
  <2>2. PICK d \in new : TRUE
    BY <2>1 DEF Parks
  <2>3. d \in drafts' /\ d.id > top
    BY <2>1, <2>2 DEF Parks
  <2>4. d \notin drafts
    <3>1. d.id \in Nat
      BY <2>1, <2>2 DEF Draft
    <3> QED BY <2>1, <2>3, <3>1 DEF IsTopId, Parks
  <2> QED BY <1>0, <2>3, <2>4
<1> QED BY <1>0, <1>4, <1>5, <1>6, <1>7 DEF CommitOutcome, Merges

\* Bedrock: for every history of runs, crashes, adjudications and overrides
\* a merge carries code that has not changed since a CHECKER found it clean.
THEOREM BedrockHolds == Spec => Bedrock
<1>1. LoopInv /\ [Next]_vars =>
        [\A m \in Module : Merged(m) => history'[m].checked # None]_vars
  <2> SUFFICES ASSUME LoopInv, Next, NEW m \in Module, Merged(m)
               PROVE  history'[m].checked # None
    OBVIOUS
  <2>1. Merges(m) /\ cur.module = m /\ cur.action \in {"CHECKER", "CODE_REVIEW"}
    BY MergeIsCommit
  <2>2. CASE cur.action = "CHECKER"
    BY <2>1, <2>2 DEF Merges, LoopInv, SpecsExist
  <2>3. CASE cur.action = "CODE_REVIEW"
    <3>1. cur = At(m, "CODE_REVIEW")
      BY <2>1, <2>3 DEF LoopInv, TypeOK, At, Idle
    <3> QED BY <2>1, <2>3, <3>1 DEF Merges, LoopInv, CheckedInReview
  <2> QED BY <2>1, <2>2, <2>3
<1> QED BY <1>1, LoopInvAlways, PTL DEF Spec, Bedrock

\* No module is merged whose code no MAKER ever wrote: neither the light path
\* nor an override nor a parked round leads past the implementation.
THEOREM BuiltBeforeMergeHolds == Spec => BuiltBeforeMerge
<1>1. LoopInv /\ [Next]_vars =>
        [\A m \in Module : Merged(m) => history'[m].built]_vars
  <2> SUFFICES ASSUME LoopInv, Next, NEW m \in Module, Merged(m)
               PROVE  history'[m].built
    OBVIOUS
  <2>1. /\ cur.module = m /\ cur.action \in PostBuild
        /\ history'[m].built = (history[m].built \/ cur.action = "MAKER_STEP2_GREEN")
    BY MergeIsCommit DEF PostBuild, CommitOutcome
  <2> QED BY <2>1 DEF LoopInv, BuiltOnce
<1> QED BY <1>1, LoopInvAlways, PTL DEF Spec, BuiltBeforeMerge

-----------------------------------------------------------------------------
(* The merged text.                                                        *)

\* CODE_REVIEW looks at code checked against the spec text that is on disk,
\* or somebody has edited that since.
Standing(h, f) == h.checked = f.spec \/ h.edited
CheckedOnDisk ==
    \A m \in Module :
        cur = At(m, "CODE_REVIEW") => Standing(history[m], file[m])

LEMMA CheckedOnDiskStep ==
    ASSUME LoopInv, CheckedOnDisk, Next
    PROVE  CheckedOnDisk'
<1>0. /\ TypeOK /\ AbsentClean /\ SpecsExist
      /\ \A m \in Module : At(m, "CODE_REVIEW").action = "CODE_REVIEW"
  BY DEF LoopInv, At
<1> SUFFICES ASSUME NEW k \in Module, cur' = At(k, "CODE_REVIEW")
             PROVE  Standing(history'[k], file'[k])
  BY DEF CheckedOnDisk, At
<1>1. CASE NextCall
  <2>1. UNCHANGED <<cur, file>> /\ history' = history
    <3>1. UNCHANGED file /\ NextCheckpoint
      BY <1>0, <1>1, NextCallFacts
    <3>2. UNCHANGED cur
      BY <3>1 DEF NextCheckpoint, At
    <3>3. UNCHANGED history
      BY <1>1 DEF NextCall, ResumeCurrent, ScanSpec, ScanPlan, SelectAligned,
                  SelectParked, SelectByStatus, SelectNothing
    <3> QED BY <3>1, <3>2, <3>3
  <2> QED BY <2>1 DEF CheckedOnDisk
<1>2. CASE \E m \in Module : Commit(m)
  <2>1. PICK m \in Module : Commit(m)
    BY <1>2
  <2>2. CommitOutcome(m) /\ UNCHANGED file
    BY <1>0, <2>1, CommitFacts
  <2>3. cur' # Idle
    BY NoneAssumption DEF At, Idle, NoneAssumption
  <2>4. PICK a \in Action :
          /\ cur' = At(m, a)
          /\ a = "CODE_REVIEW" => history'[m].checked = file[m].spec
    BY <2>2, <2>3 DEF CommitOutcome, Goes, Halts, Merges
  <2>5. k = m /\ a = "CODE_REVIEW"
    BY <2>4 DEF At
  <2> QED BY <2>2, <2>4, <2>5 DEF Standing
<1>3. CASE EnvironmentStep
  <2>1. UNCHANGED cur
    BY <1>0, <1>3, EnvironmentFacts, NoneAssumption
       DEF EnvironmentStep, EnvironmentCheckpoint, At, Idle, NoneAssumption
  <2>2. cur.module = k /\ cur.action = "CODE_REVIEW"
    BY <2>1 DEF At
  <2>3. history[k].checked # None /\ Standing(history[k], file[k])
    BY <2>1 DEF CheckedOnDisk, LoopInv, CheckedInReview
  <2>4. /\ file \in [Module -> File]
        /\ history \in [Module -> History]
    BY <1>0 DEF TypeOK, File
  <2>5. PICK m \in Module : \/ EditCode(m) \/ EditDocs(m) \/ EditSpec(m)
                            \/ EditPlan(m) \/ SpecResult(m) \/ SetStatus(m)
                            \/ Reset(m)
    BY <1>3 DEF EnvironmentStep
  <2>6. CASE EditDocs(m)
    <3>1. PICK p \in PlanText : file' = [file EXCEPT ![m].plan = p]
      BY <2>2, <2>6 DEF EditDocs, AgentAtWork
    <3>2. file'[k].spec = file[k].spec /\ history' = history
      BY <2>4, <2>6, <3>1 DEF EditDocs, File
    <3> QED BY <2>3, <3>2 DEF Standing
  <2>7. CASE EditSpec(m)
    <3>1. CASE m = k
      <4>1. PICK e \in BOOLEAN :
              /\ history' = [history EXCEPT ![m].edited = e]
              /\ history[m].checked # None => e = TRUE
        BY <1>0, <2>7, EditSpecNotes
      <4>2. history'[k].edited
        BY <2>3, <2>4, <3>1, <4>1 DEF History
      <4> QED BY <4>2 DEF Standing
    <3>2. CASE m # k
      BY <2>3, <2>4, <2>7, <3>2 DEF EditSpec, Standing
    <3> QED BY <3>1, <3>2
  <2>8. CASE EditPlan(m)
    BY <2>3, <2>4, <2>8 DEF EditPlan, File, Standing
  <2>9. ~EditCode(m)
    BY <2>2 DEF EditCode, AgentAtWork, CodeEditActions
  <2>10. CASE SpecResult(m) \/ SetStatus(m) \/ Reset(m)
    BY <2>3, <2>10 DEF SpecResult, SetStatus, Reset
  <2> QED BY <2>5, <2>6, <2>7, <2>8, <2>9, <2>10
<1>4. CASE LockStep
  BY <1>0, <1>4, LockFacts DEF LockStep, CheckedOnDisk
<1> QED BY <1>1, <1>2, <1>3, <1>4, NextSplit

\* CODE_REVIEW does not forget that somebody edited the spec.
LEMMA ReviewRemembersEdits ==
    ASSUME TypeOK, NEW m \in Module, Commit(m), cur.action = "CODE_REVIEW"
    PROVE  history'[m].edited = history[m].edited
<1>1. history \in [Module -> History]
  BY DEF TypeOK
<1>2. \A a \in Action : Committing(m, a) => a = "CODE_REVIEW"
  BY DEF Committing, At
<1>3. ReviewFindsIssues(m) \/ ReviewPasses(m)
  BY <1>2 DEF Commit, CommitScore, CommitClassify, CommitMakerStep0, CommitRed,
     CommitGreen, CheckerFindsErrors, CheckerBlocks, CheckerParks,
     CheckerPasses, CommitMakerFix, CommitAlignDocs, CommitReviewFix, Action
<1>4. CASE ReviewFindsIssues(m)
  BY <1>4 DEF ReviewFindsIssues
<1>5. CASE ReviewPasses(m)
  <2>1. PICK green \in TestOutcomes(mod[m]) :
            history' = [history EXCEPT
                ![m].tested = @ \/ (green /\ mod[m].status # "SYNCED")]
    BY <1>5 DEF ReviewPasses
  <2> QED BY <1>1, <2>1 DEF History
<1> QED BY <1>3, <1>4, <1>5

\* A merge registers the text that the code was checked against, whatever
\* was retried, overridden or edited before: the file can only differ from it
\* by an edit that came after the verdict.
THEOREM MergedAsCheckedHolds == Spec => MergedAsChecked
<1>1. Init => CheckedOnDisk
  BY NoneAssumption DEF Init, CheckedOnDisk, At, Idle, NoneAssumption
<1>2. LoopInv /\ CheckedOnDisk /\ [Next]_vars => CheckedOnDisk'
  <2>1. ASSUME LoopInv, CheckedOnDisk, UNCHANGED vars PROVE CheckedOnDisk'
    BY <2>1 DEF vars, CheckedOnDisk
  <2> QED BY <2>1, CheckedOnDiskStep
<1>3. LoopInv /\ CheckedOnDisk /\ [Next]_vars =>
        [\A m \in Module : Merged(m) =>
            /\ history'[m].checked # None
            /\ \/ Norm[history'[m].checked] = Norm[mod'[m].specHash]
               \/ history'[m].edited]_vars
  <2> SUFFICES ASSUME LoopInv, CheckedOnDisk, Next, NEW m \in Module, Merged(m)
               PROVE  /\ history'[m].checked # None
                      /\ \/ history'[m].checked = mod'[m].specHash
                         \/ history'[m].edited
    OBVIOUS
  <2>1. /\ Merges(m) /\ Commit(m)
        /\ cur.module = m /\ cur.action \in {"CHECKER", "CODE_REVIEW"}
    BY MergeIsCommit
  <2>2. file[m].spec # None
    BY <2>1 DEF LoopInv, SpecsExist
  <2>3. cur.action = "CODE_REVIEW" => cur = At(m, "CODE_REVIEW")
    BY <2>1 DEF LoopInv, TypeOK, At, Idle
  <2>4. CASE cur.action = "CHECKER"
    BY <2>1, <2>2, <2>4 DEF Merges
  <2>5. CASE cur.action = "CODE_REVIEW"
    <3>1. history'[m].edited = history[m].edited
      BY <2>1, <2>5, ReviewRemembersEdits DEF LoopInv
    <3>2. Standing(history[m], file[m]) /\ history[m].checked # None
      BY <2>1, <2>3, <2>5 DEF CheckedOnDisk, LoopInv, CheckedInReview
    <3> QED BY <2>1, <2>5, <3>1, <3>2 DEF Merges, Standing
  <2> QED BY <2>1, <2>4, <2>5
<1> QED BY <1>1, <1>2, <1>3, LoopInvAlways, PTL DEF Spec, MergedAsChecked

-----------------------------------------------------------------------------
(* Gray drafts: their numbers and the memory of rejections.                *)

\* No two stored drafts share a number.
UniqueIds == \A d, e \in drafts : d.id = e.id => d = e

\* The same question with the same answer, or with its first answer.
SameQuestion(d, e) ==
    /\ e.id = d.id /\ e.module = d.module /\ e.finding = d.finding
    /\ e.status \in {"pending", d.status}

\* Drafts change when a CHECKER parks its module and when they are answered.
LEMMA DraftsChange ==
    ASSUME Next
    PROVE  \/ UNCHANGED drafts
           \/ \E m \in Module : CheckerParks(m)
           \/ Resolve \/ PollArchive
<1>1. CASE NextCall
  BY <1>1 DEF NextCall
<1>2. CASE \E m \in Module : Commit(m)
  BY <1>2 DEF Commit, CommitScore, CommitClassify, CommitMakerStep0, CommitRed,
     CommitGreen, CheckerFindsErrors, CheckerBlocks, CheckerPasses,
     CommitMakerFix, CommitAlignDocs, ReviewFindsIssues, ReviewPasses,
     CommitReviewFix
<1>3. CASE EnvironmentStep
  BY <1>3 DEF EnvironmentStep, EditCode, EditDocs, EditSpec, EditPlan,
     SpecResult, SetStatus, Reset
<1>4. CASE LockStep
  BY <1>4 DEF LockStep, PassGate, BeginRun, BeginManual, Retry, Undirected, Release
<1> QED BY <1>1, <1>2, <1>3, <1>4, NextSplit

\* An answer replaces one draft or several by themselves, answered.
LEMMA AnswerFacts ==
    ASSUME TypeOK, Resolve \/ PollArchive
    PROVE  /\ \A d \in drafts' : \E e \in drafts : SameQuestion(d, e)
           /\ \A e \in drafts : \E d \in drafts' : e.id = d.id
           /\ UniqueIds => UniqueIds'
<1>0. drafts \in SUBSET Draft
  BY DEF TypeOK
<1>1. CASE Resolve
  <2>1. PICK d \in Pending, verdict \in {"accepted", "rejected"} :
          drafts' = (drafts \ {d}) \cup {[d EXCEPT !.status = verdict]}
    BY <1>1 DEF Resolve
  <2> DEFINE a == [d EXCEPT !.status = verdict]
  <2>2. /\ d \in drafts /\ d.status = "pending"
        /\ a.id = d.id /\ a.module = d.module /\ a.finding = d.finding
    BY <1>0, <2>1 DEF Pending, Draft
  <2>3. drafts' = (drafts \ {d}) \cup {a}
    BY <2>1
  <2> HIDE DEF a
  <2> QED BY <2>2, <2>3 DEF SameQuestion, UniqueIds
<1>2. CASE PollArchive
  <2> DEFINE arch(d) == [d EXCEPT !.status = "rejected", !.archived = TRUE]
  <2>1. \A d \in Draft : /\ arch(d).id = d.id /\ arch(d).module = d.module
                         /\ arch(d).finding = d.finding
    BY DEF Draft
  <2>2. \A d \in Stale : d \in drafts /\ d.status = "pending" /\ d \in Draft
    BY <1>0 DEF Stale, Pending
  <2>3. drafts' = (drafts \ Stale) \cup {arch(d) : d \in Stale}
    BY <1>2 DEF PollArchive
  <2> HIDE DEF arch
  <2> QED BY <2>1, <2>2, <2>3 DEF SameQuestion, UniqueIds
<1> QED BY <1>1, <1>2

\* Filing new drafts keeps the others, or their numbers, distinct and low.
LEMMA ParkNumbers ==
    ASSUME TypeOK, NEW m \in Module, CheckerParks(m)
    PROVE  /\ \A d \in drafts' :
                \/ /\ \A e \in drafts : e.id < d.id
                   /\ d.module = m /\ d.finding \in SoftWarnings(m)
                \/ \E e \in drafts : SameQuestion(d, e)
           /\ \A e \in drafts : \E d \in drafts' : e.id <= d.id
           /\ UniqueIds => UniqueIds'
<1>0. drafts \in SUBSET Draft /\ \A d \in Draft : d.id \in Nat
  BY DEF TypeOK, Draft
<1>1. PICK W \in (SUBSET SoftWarnings(m)) \ {{}} : Park(m, Checked(m), W)
  BY DEF CheckerParks
<1>2. W \in SUBSET Finding /\ W # {}
  BY <1>1 DEF SoftWarnings
<1>3. PICK top \in Nat, new \in SUBSET Draft, gone \in SUBSET Draft :
          Parks(m, W, top, new, gone)
  BY <1>1, <1>2, ParkFacts
<1>4. \A d \in new : \A e \in drafts : e.id < d.id
  BY <1>0, <1>3 DEF Parks, IsTopId
<1> DEFINE arch(d) == IF d.module = m /\ d.status # "pending"
                      THEN [d EXCEPT !.archived = TRUE] ELSE d
<1>5. \A d \in Draft : /\ arch(d).id = d.id /\ arch(d).module = d.module
                       /\ arch(d).finding = d.finding /\ arch(d).status = d.status
  BY DEF Draft
<1>6. drafts' = ({arch(d) : d \in drafts} \cup new) \ gone
  BY <1>3 DEF Parks, ArchivedFor
<1>7. PICK n \in new : n \in drafts'
  BY <1>3, <1>6 DEF Parks
<1> HIDE DEF arch
<1>8. ASSUME NEW d \in drafts'
      PROVE  \/ /\ \A e \in drafts : e.id < d.id
                /\ d.module = m /\ d.finding \in SoftWarnings(m)
             \/ \E e \in drafts : SameQuestion(d, e)
  <2>1. CASE d \in new
    BY <1>1, <1>3, <1>4, <2>1 DEF Parks
  <2>2. CASE d \in {arch(e) : e \in drafts}
    BY <1>0, <1>5, <2>2 DEF SameQuestion
  <2> QED BY <1>6, <1>8, <2>1, <2>2
<1>9. ASSUME UniqueIds PROVE UniqueIds'
  <2> SUFFICES ASSUME NEW d \in drafts', NEW e \in drafts', d.id = e.id
               PROVE  d = e
    BY DEF UniqueIds
  <2>1. CASE d \in new /\ e \in new
    BY <1>3, <2>1 DEF Parks
  <2>2. CASE d \in new /\ e \in {arch(f) : f \in drafts}
    BY <1>0, <1>4, <1>5, <2>2
  <2>3. CASE e \in new /\ d \in {arch(f) : f \in drafts}
    BY <1>0, <1>4, <1>5, <2>3
  <2>4. CASE d \in {arch(f) : f \in drafts} /\ e \in {arch(f) : f \in drafts}
    BY <1>0, <1>5, <1>9, <2>4 DEF UniqueIds
  <2> QED BY <1>6, <2>1, <2>2, <2>3, <2>4
<1>10. \A e \in drafts : \E d \in drafts' : e.id <= d.id
  BY <1>0, <1>4, <1>7
<1> QED BY <1>8, <1>9, <1>10

\* A number stands for one question for ever: it is never given again, though
\* the cap deletes drafts, and an answer once given is not changed.
THEOREM IdsNeverReissuedHolds == Spec => IdsNeverReissued
<1>1. Init => UniqueIds
  BY DEF Init, UniqueIds
<1>2. TypeOK /\ UniqueIds /\ [Next]_vars => UniqueIds'
  BY DraftsChange, AnswerFacts, ParkNumbers DEF vars, UniqueIds
<1>3. TypeOK /\ UniqueIds /\ [Next]_vars =>
      [/\ \A d \in drafts' :
            \/ \A e \in drafts : e.id < d.id
            \/ \E e \in drafts : /\ e.id = d.id /\ e.module = d.module
                               /\ e.finding = d.finding
                               /\ e.status \in {"pending", d.status}
       /\ \A d, e \in drafts' : d.id = e.id => d = e
       /\ \A e \in drafts : \E d \in drafts' : e.id <= d.id]_vars
  <2> SUFFICES ASSUME TypeOK, UniqueIds, Next
               PROVE  /\ \A d \in drafts' :
                            \/ \A e \in drafts : e.id < d.id
                            \/ \E e \in drafts : SameQuestion(d, e)
                      /\ UniqueIds'
                      /\ \A e \in drafts : \E d \in drafts' : e.id <= d.id
    BY DEF UniqueIds, SameQuestion
  <2>0. \A d \in drafts : d.id \in Nat
    BY DEF TypeOK, Draft
  <2>1. CASE UNCHANGED drafts
    BY <2>0, <2>1 DEF UniqueIds, SameQuestion
  <2>2. CASE \E m \in Module : CheckerParks(m)
    BY <2>2, ParkNumbers
  <2>3. CASE Resolve \/ PollArchive
    <3>1. /\ \A d \in drafts' : \E e \in drafts : SameQuestion(d, e)
          /\ \A e \in drafts : \E d \in drafts' : e.id = d.id
          /\ UniqueIds'
      BY <2>3, AnswerFacts
    <3>2. \A e \in drafts : \E d \in drafts' : e.id <= d.id
      BY <2>0, <3>1
    <3> QED BY <3>1, <3>2
  <2> QED BY <2>1, <2>2, <2>3, DraftsChange
<1> QED BY <1>1, <1>2, <1>3, TypeCorrect, PTL DEF Spec, IdsNeverReissued

\* A new draft never repeats a question whose rejection is still stored.
THEOREM RejectionsStickHolds == Spec => RejectionsStick
<1>1. TypeOK /\ [Next]_vars =>
      [\A d \in drafts' :
        (\A e \in drafts : e.id # d.id) =>
        ~\E e \in drafts : /\ e.status = "rejected"
                           /\ e.module = d.module /\ e.finding = d.finding]_vars
  <2> SUFFICES ASSUME TypeOK, Next, NEW d \in drafts',
                      \A e \in drafts : e.id # d.id,
                      NEW e \in drafts, e.status = "rejected",
                      e.module = d.module, e.finding = d.finding
               PROVE  FALSE
    OBVIOUS
  <2>1. PICK m \in Module : CheckerParks(m)
    BY DraftsChange, AnswerFacts DEF SameQuestion
  <2>2. d.module = m /\ d.finding \in SoftWarnings(m)
    BY <2>1, ParkNumbers DEF SameQuestion
  <2>3. e.finding \in Suppressed(m)
    BY <2>2 DEF Suppressed
  <2> QED BY <2>2, <2>3 DEF SoftWarnings
<1> QED BY <1>1, TypeCorrect, PTL DEF Spec, RejectionsStick

-----------------------------------------------------------------------------
(* A run that is pinned to a module.                                       *)

\* The step that a run works on belongs to a module of its scope.
RunInScope ==
    (lock.by = "run" /\ lock.phase = "commit")
    => cur.module \in InScope(lock.pin) \cup {None}

\* next() leaves a registered module out of scope as it is.
Untouched(ms, pin) ==
    \A k \in Module \ InScope(pin) : mod[k].status # "ABSENT" => ms[k] = mod[k]

LEMMA ScannedUntouched ==
    ASSUME NEW pin, NEW S \in SUBSET InScope(pin), NEW T \in SUBSET InScope(pin)
    PROVE  /\ Untouched(AbsorbCosmetic(Discovered, S), pin)
           /\ Untouched(InitPlanHash(AbsorbCosmetic(Discovered, S), T), pin)
           /\ Untouched(Scanned(pin), pin)
           /\ Untouched(Discovered, pin)
<1>1. InScope(pin) \subseteq Module
  BY DEF InScope
<1>2. Untouched(Discovered, pin)
  BY DEF Untouched, Discovered
<1>3. \A U \in SUBSET InScope(pin) :
        Untouched(AbsorbCosmetic(Discovered, U), pin)
  BY <1>1, <1>2 DEF Untouched, AbsorbCosmetic
<1>4. \A U, V \in SUBSET InScope(pin) :
        Untouched(InitPlanHash(AbsorbCosmetic(Discovered, U), V), pin)
  BY <1>1, <1>3 DEF Untouched, InitPlanHash
<1> QED BY <1>2, <1>3, <1>4 DEF Scanned

\* One module of the scope replaced, the rest as in ms.
LEMMA ReplacedUntouched ==
    ASSUME NEW pin, NEW ms, Untouched(ms, pin), DOMAIN ms = Module,
           NEW m \in InScope(pin), NEW r, mod' = [ms EXCEPT ![m] = r]
    PROVE  Untouched(mod', pin)
  BY DEF Untouched, InScope

LEMMA ScanDomains ==
    ASSUME NEW pin, NEW ms, NEW S
    PROVE  /\ DOMAIN AbsorbCosmetic(ms, S) = Module
           /\ DOMAIN InitPlanHash(ms, S) = Module
           /\ DOMAIN Scanned(pin) = Module
  BY DEF AbsorbCosmetic, InitPlanHash, Scanned

LEMMA NextInScope ==
    ASSUME TypeOK, NEW pin,
           \/ ResumeCurrent(pin) \/ ScanSpec(pin) \/ ScanPlan(pin)
           \/ SelectAligned(pin) \/ SelectParked(pin)
           \/ SelectByStatus(pin) \/ SelectNothing(pin)
    PROVE  /\ Untouched(mod', pin)
           /\ lock'.by = lock.by /\ lock'.pin = lock.pin
           /\ lock'.phase = "commit" =>
                 cur'.module \in InScope(pin) \/ lock.phase = "commit"
<1>0. lock \in Lock
  BY TypeParts
<1>1. \A m : m \in SpecEdits(pin) \cup PlanEdits(pin) => m \in InScope(pin)
  BY DEF SpecEdits, PlanEdits
<1>2. \A m : Selects(pin, m) => m \in InScope(pin)
  BY DEF Selects, FirstOf, Candidates, Resumable, TopPriority
<1>3. /\ lock'.by = lock.by /\ lock'.pin = lock.pin
      /\ SelectNothing(pin) => (lock'.phase = "commit" => lock.phase = "commit")
  BY <1>0 DEF ResumeCurrent, ScanSpec, ScanPlan, SelectAligned, SelectParked,
     SelectByStatus, SelectNothing, Directs, Stops, Lock
<1>4. \/ cur'.module \in InScope(pin) \/ SelectNothing(pin)
  <2>1. CASE ResumeCurrent(pin)
    BY <2>1 DEF ResumeCurrent
  <2>2. CASE ScanSpec(pin)
    <3>1. PICK m \in Module :
            m \in SpecEdits(pin) /\ cur' = At(m, EntryAction(mod[m]))
      BY <2>2 DEF ScanSpec, FirstOf
    <3> QED BY <1>1, <3>1 DEF At
  <2>3. CASE ScanPlan(pin)
    <3>1. PICK m \in Module :
            m \in PlanEdits(pin) /\ cur' = At(m, "MAKER_STEP1_RED")
      BY Zenon, <2>3 DEF ScanPlan, FirstOf
    <3> QED BY SMTT(30), <1>1, <3>1 DEF At
  <2>4. CASE SelectAligned(pin)
    <3>1. PICK m \in Module : Selects(pin, m) /\ cur' = At(m, "CHECKER")
      BY <2>4 DEF SelectAligned
    <3> QED BY <1>2, <3>1 DEF At
  <2>5. CASE SelectParked(pin)
    BY <1>2, <2>5 DEF SelectParked, At
  <2>6. CASE SelectByStatus(pin)
    BY <1>2, <2>6 DEF SelectByStatus, At
  <2> QED BY <2>1, <2>2, <2>3, <2>4, <2>5, <2>6
<1>5. Untouched(mod', pin)
  <2>1. CASE ResumeCurrent(pin)
    BY <2>1, ScannedUntouched DEF ResumeCurrent
  <2>2. CASE ScanSpec(pin)
    <3> DEFINE ms(m) == AbsorbCosmetic(Discovered, {k \in InScope(pin) : k < m})
    <3>1. PICK m \in Module :
            /\ m \in SpecEdits(pin)
            /\ mod' = [ms(m) EXCEPT ![m] = RecordSpecChange(@, file[m].spec)]
      BY <2>2 DEF ScanSpec, FirstOf
    <3>2. Untouched(ms(m), pin) /\ DOMAIN ms(m) = Module
      BY ScannedUntouched, ScanDomains
    <3> HIDE DEF ms
    <3> QED BY <1>1, <3>1, <3>2, ReplacedUntouched
  <2>3. CASE ScanPlan(pin)
    <3> DEFINE ms(m) == InitPlanHash(AbsorbCosmetic(Discovered, InScope(pin)),
                                     {k \in InScope(pin) : k < m})
               r(m) == [ms(m)[m] EXCEPT !.planHash = file[m].plan,
                                        !.status = "PARTIAL",
                                        !.makerAttempt = 0, !.reviewFix = 0]
    <3>1. PICK m \in Module :
            m \in PlanEdits(pin) /\ mod' = [ms(m) EXCEPT ![m] = r(m)]
      BY Zenon, <2>3 DEF ScanPlan, FirstOf
    <3>2. Untouched(ms(m), pin) /\ DOMAIN ms(m) = Module
      BY ScannedUntouched, ScanDomains
    <3> HIDE DEF ms, r
    <3> QED BY Zenon, <1>1, <3>1, <3>2, ReplacedUntouched
  <2>4. CASE SelectAligned(pin)
    <3> DEFINE r(m) == [Scanned(pin)[m] EXCEPT !.alignDone = FALSE,
                                               !.specHash = file[m].spec]
    <3>1. PICK m \in Module :
            Selects(pin, m) /\ mod' = [Scanned(pin) EXCEPT ![m] = r(m)]
      BY <2>4 DEF SelectAligned
    <3>2. Untouched(Scanned(pin), pin) /\ DOMAIN Scanned(pin) = Module
      BY ScannedUntouched, ScanDomains
    <3> HIDE DEF r
    <3> QED BY <1>2, <3>1, <3>2, ReplacedUntouched
  <2>5. CASE SelectParked(pin)
    <3>1. PICK m \in Module :
            /\ Selects(pin, m)
            /\ mod' = [Scanned(pin) EXCEPT ![m] = Resumed(@, m)]
      BY <2>5 DEF SelectParked
    <3>2. Untouched(Scanned(pin), pin) /\ DOMAIN Scanned(pin) = Module
      BY ScannedUntouched, ScanDomains
    <3> QED BY <1>2, <3>1, <3>2, ReplacedUntouched
  <2>6. CASE SelectByStatus(pin) \/ SelectNothing(pin)
    BY <2>6, ScannedUntouched DEF SelectByStatus, SelectNothing
  <2> QED BY <2>1, <2>2, <2>3, <2>4, <2>5, <2>6
<1> QED BY <1>3, <1>4, <1>5

\* After its commit a run is at its next call or at its end.
LEMMA CommitEndsStep ==
    ASSUME TypeOK, NEW m \in Module, Commit(m)
    PROVE  lock'.by = "run" => lock'.phase \in {"next", "done"}
<1>0. lock \in Lock
  BY TypeParts
<1>1. Loops \/ Stops
  BY DEF Commit, CommitScore, CommitClassify, CommitMakerStep0, CommitRed,
     CommitGreen, CheckerFindsErrors, CheckerBlocks, CheckerParks,
     CheckerPasses, CommitMakerFix, CommitAlignDocs, ReviewFindsIssues,
     ReviewPasses, CommitReviewFix, Proceed, Halt, Block, Park, Merge, MergeIf
<1> QED BY <1>0, <1>1 DEF Loops, Stops, Lock

LEMMA RunInScopeStep ==
    ASSUME LoopInv, RunInScope, Next
    PROVE  /\ RunInScope'
           /\ \A m \in Module :
                (/\ lock.by = "run" /\ lock.pin \notin {None, m}
                 /\ lock.phase # "blind"
                 /\ UNCHANGED moves /\ mod[m].status # "ABSENT")
                => mod'[m] = mod[m]
<1>0. /\ TypeOK /\ AbsentClean /\ SpecsExist
      /\ lock \in Lock /\ moves \in Nat /\ mod \in [Module -> ModuleState]
  BY TypeParts DEF LoopInv
<1>1. CASE NextCall
  <2>1. PICK pin \in IF lock.by = "run" THEN {lock.pin} ELSE Pins \cup {None} :
          \/ ResumeCurrent(pin) \/ ScanSpec(pin) \/ ScanPlan(pin)
          \/ SelectAligned(pin) \/ SelectParked(pin)
          \/ SelectByStatus(pin) \/ SelectNothing(pin)
    BY <1>1 DEF NextCall
  <2>2. lock.by = "run" => pin = lock.pin
    BY <2>1
  <2>3. lock.phase = "next"
    BY <1>1 DEF NextCall
  <2> QED BY <1>0, <2>1, <2>2, <2>3, NextInScope DEF RunInScope, Untouched, InScope
<1>2. CASE \E m \in Module : Commit(m)
  <2>1. PICK m \in Module : Commit(m)
    BY <1>2
  <2>2. CommitOutcome(m) /\ cur.module = m
    BY <1>0, <2>1, CommitFacts
  <2>3. lock.by = "run" => lock.phase \in {"commit", "blind"}
    BY <2>1 DEF Commit, CommitScore, CommitClassify, CommitMakerStep0, CommitRed,
       CommitGreen, CheckerFindsErrors, CheckerBlocks, CheckerParks,
       CheckerPasses, CommitMakerFix, CommitAlignDocs, ReviewFindsIssues,
       ReviewPasses, CommitReviewFix, Committing, AtStep
  <2>4. RunInScope'
    BY <1>0, <2>1, CommitEndsStep DEF RunInScope
  <2>5. lock.by = "run" /\ lock.phase # "blind" => m \in InScope(lock.pin)
    BY <2>2, <2>3, NoneAssumption DEF RunInScope, NoneAssumption
  <2> QED BY <2>2, <2>4, <2>5 DEF CommitOutcome, OnlyModule, InScope
<1>3. CASE EnvironmentStep
  <2>1. PICK m \in Module : \/ EditCode(m) \/ EditDocs(m) \/ EditSpec(m)
                            \/ EditPlan(m) \/ SpecResult(m) \/ SetStatus(m)
                            \/ Reset(m)
    BY <1>3 DEF EnvironmentStep
  <2>2. UNCHANGED lock
    BY <2>1 DEF EditCode, EditDocs, EditSpec, EditPlan, SpecResult, SetStatus, Reset
  <2>3. CASE lock.by = "run"
    <3>1. ~SpecResult(m)
      BY <2>3 DEF SpecResult, Unheld
    <3>2. UNCHANGED cur \/ cur' = Idle
      BY <2>1, <3>1 DEF EditCode, EditDocs, EditSpec, EditPlan, SetStatus, Reset,
         DropCheckpoint
    <3>3. UNCHANGED moves => UNCHANGED mod
      BY <1>0, <2>1, <3>1 DEF EditCode, EditDocs, EditSpec, EditPlan, SetStatus,
         Reset, Intervene
    <3> QED BY <2>2, <3>2, <3>3 DEF RunInScope, Idle
  <2>4. CASE lock.by # "run"
    BY <2>2, <2>4 DEF RunInScope
  <2> QED BY <2>3, <2>4
<1>4. CASE LockStep
  <2>1. UNCHANGED <<mod, cur>>
    BY <1>0, <1>4, LockFacts DEF LockStep
  <2>2. \/ lock'.by # "run" \/ lock'.phase # "commit"
        \/ /\ lock'.by = lock.by /\ lock'.pin = lock.pin
           /\ lock'.phase = lock.phase
    <3>1. CASE PassGate \/ Resolve \/ PollArchive
      BY <1>0, <3>1 DEF PassGate, Resolve, PollArchive, Lock
    <3>2. CASE BeginRun
      <4>1. CASE lock' = [lock EXCEPT !.gated = FALSE]
        BY <1>0, <4>1 DEF Lock
      <4>2. CASE \E pin \in Pins \cup {None} :
                   lock' = [by |-> "run", pin |-> pin, phase |-> "next",
                            gated |-> FALSE]
        BY <4>2
      <4> QED BY <3>2, <4>1, <4>2 DEF BeginRun
    <3>3. CASE BeginManual \/ Retry \/ Undirected \/ Release
      BY <1>0, <3>3 DEF BeginManual, Retry, Undirected, Release, Lock, Free
    <3> QED BY <1>4, <3>1, <3>2, <3>3 DEF LockStep
  <2> QED BY <2>1, <2>2 DEF RunInScope
<1> QED BY <1>1, <1>2, <1>3, <1>4, NextSplit

\* A run pinned to a module changes no registered module but that one, be it
\* by the scans, by a resumed checkpoint or by its commits, but for the commit
\* that follows a `next' which died before it printed what it directs.
THEOREM PinnedRunStaysInScopeHolds == Spec => PinnedRunStaysInScope
<1>1. Init => RunInScope
  BY DEF Init, RunInScope, Free
<1>2. LoopInv /\ RunInScope /\ [Next]_vars => RunInScope'
  <2>1. ASSUME RunInScope, UNCHANGED vars PROVE RunInScope'
    BY <2>1 DEF vars, RunInScope
  <2> QED BY <2>1, RunInScopeStep
<1>3. LoopInv /\ RunInScope /\ [Next]_vars =>
      [\A m \in Module :
        (/\ lock.by = "run" /\ lock.pin \notin {None, m}
         /\ lock.phase # "blind"
         /\ UNCHANGED moves /\ mod[m].status # "ABSENT") => mod'[m] = mod[m]]_vars
  BY RunInScopeStep
<1> QED BY <1>1, <1>2, <1>3, LoopInvAlways, PTL DEF Spec, PinnedRunStaysInScope
=============================================================================
