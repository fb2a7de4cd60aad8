----------------------------- MODULE StateStore -----------------------------
(***************************************************************************)
(* How state.py keeps state.json: a save writes a temporary file, copies   *)
(* the previous state.json over state.json.bak and renames the temporary   *)
(* file into place; a load that finds state.json missing or unparsable     *)
(* quarantines it and restores the backup, or starts from an empty state.  *)
(* A file's content is the version it holds, Torn (no JSON) or Absent.     *)
(* Only a run's processes save under .loop/lock; the other commands that   *)
(* save at most look at it first.                                          *)
(***************************************************************************)
EXTENDS Integers

CONSTANTS
    Writers,     \* load and save under .loop/lock: the runs
    Probers,     \* give up when the lock is held, and load and save without
                 \* it: the answers to drafts and the chat's spec_result
    Lockless,    \* load without looking, and save or not: set-status, reset,
                 \* set-project-root; the readers are those that never save
    MaxFaults,   \* bound: times state.json is damaged or deleted
    MaxVersion,  \* bound: no change is begun once as many versions are saved
    Torn, Absent, None

Processes == Writers \cup Probers \cup Lockless
Version == Nat

ASSUME StoreAssumption ==
    /\ Writers \cap (Probers \cup Lockless) = {}
    /\ None \notin Processes
    /\ MaxFaults \in Nat /\ MaxVersion \in Nat
ASSUME ContentAssumption ==
    Torn \notin Nat /\ Absent \notin Nat /\ Torn # Absent

VARIABLES
    state,      \* content of state.json
    bak,        \* content of state.json.bak
    lock,       \* the holder of .loop/lock, or None
    proc,       \* local state of the processes
    faults,     \* how often state.json was damaged
    saves,      \* observation only: the versions saved, their last number
    author,     \* observation only: who saved the last one
    recent,     \* observation only: the last two versions in force
    calm        \* observation only: nobody was killed, and no two processes
                \* were ever at the files together

observed == <<saves, author, recent, calm>>
vars == <<state, bak, lock, proc, faults, observed>>

Content == Version \cup {Torn, Absent}
Good(f) == f \in Version

\* view: the version loaded; copy: what a copy2 in progress read.
Idle == [pc |-> "idle", view |-> Absent, copy |-> Absent]

\* Changing state.json or its backup, or about to.
AtFiles(p) == proc[p].pc \in {"quarantine", "restore", "restoring", "save",
                              "backup", "replace"}

TypeOK ==
    /\ state \in Content
    /\ bak \in Content
    /\ lock \in Writers \cup {None}
    /\ proc \in [Processes ->
          [pc : {"idle", "open", "quarantine", "restore", "restoring",
                 "loaded", "save", "backup", "replace"},
           view : Version \cup {Absent}, copy : Content]]
    /\ faults \in 0..MaxFaults
    /\ saves \in Version
    /\ author \in Processes \cup {None}
    /\ recent \in Version \X Version
    /\ calm \in BOOLEAN

Goes(p, pc) == proc' = [proc EXCEPT ![p].pc = pc]

\* p comes to the files: calm ends if another is there.
Comes(p) ==
    /\ calm' = (calm /\ \A q \in Processes \ {p} : ~AtFiles(q))
    /\ UNCHANGED <<saves, author, recent>>

-----------------------------------------------------------------------------
(* load *)

\* Mutant of Begin: a run looks at the lock as a prober does, and goes on.
BeginByProbe(p) ==
    /\ proc[p] = Idle
    /\ p \in Writers \cup Probers => lock = None
    /\ Goes(p, "open")
    /\ UNCHANGED <<state, bak, lock, faults, observed>>

\* A run takes the lock or does not begin; a prober only looks.
Begin(p) ==
    /\ proc[p] = Idle
    /\ p \in Writers \cup Probers => lock = None
    /\ lock' = IF p \in Writers THEN p ELSE lock
    /\ Goes(p, "open")
    /\ UNCHANGED <<state, bak, faults, observed>>

Open(p) ==
    /\ proc[p].pc = "open"
    /\ IF Good(state)
       THEN /\ proc' = [proc EXCEPT ![p].pc = "loaded", ![p].view = state]
            /\ UNCHANGED observed
       ELSE /\ Goes(p, IF state = Absent THEN "restore" ELSE "quarantine")
            /\ Comes(p)
    /\ UNCHANGED <<state, bak, lock, faults>>

\* _recover_corrupt renames whatever state.json is by now.
Quarantine(p) ==
    /\ proc[p].pc = "quarantine"
    /\ state' = Absent
    /\ Goes(p, "restore")
    /\ UNCHANGED <<bak, lock, faults, observed>>

\* Mutant of Restore: an empty state although there is a backup.
RestoreNothing(p) ==
    /\ proc[p].pc = "restore"
    /\ Goes(p, "save")
    /\ UNCHANGED <<state, bak, lock, faults, observed>>

\* _restore_from_backup parses the backup and copies it over state.json; with
\* no good backup, init_state saves an empty state.
Restore(p) ==
    /\ proc[p].pc = "restore"
    /\ IF Good(bak)
       THEN /\ state' = Torn
            /\ proc' = [proc EXCEPT ![p].pc = "restoring", ![p].copy = bak]
       ELSE Goes(p, "save") /\ UNCHANGED state
    /\ UNCHANGED <<bak, lock, faults, observed>>

\* A file renamed away or into place meanwhile is not the one being written.
Restored(p) ==
    /\ proc[p].pc = "restoring"
    /\ state' = IF state = Torn THEN proc[p].copy ELSE state
    /\ proc' = [proc EXCEPT ![p] = [Idle EXCEPT !.pc = "loaded",
                                                !.view = proc[p].copy]]
    /\ recent' = <<proc[p].copy, proc[p].copy>>
    /\ UNCHANGED <<bak, lock, faults, saves, author, calm>>

-----------------------------------------------------------------------------
(* save *)

Change(p) ==
    /\ proc[p].pc = "loaded" /\ saves < MaxVersion
    /\ Goes(p, "save")
    /\ Comes(p)
    /\ UNCHANGED <<state, bak, lock, faults>>

\* Mutant of Backup: no backup is made.
BackupNever(p) ==
    /\ proc[p].pc = "save"
    /\ Goes(p, "replace")
    /\ UNCHANGED <<state, bak, lock, faults, observed>>

\* The temporary file is complete and synced; copy2 truncates the backup.
Backup(p) ==
    /\ proc[p].pc = "save"
    /\ IF state = Absent THEN Goes(p, "replace") /\ UNCHANGED bak
       ELSE /\ bak' = Torn
            /\ proc' = [proc EXCEPT ![p].pc = "backup", ![p].copy = state]
    /\ UNCHANGED <<state, lock, faults, observed>>

\* Two copies at once may mix.
BackedUp(p) ==
    /\ proc[p].pc = "backup"
    /\ \/ bak' = proc[p].copy
       \/ /\ \/ bak # Torn
             \/ \E q \in Processes \ {p} : proc[q].pc = "backup"
          /\ bak' = Torn
    /\ Goes(p, "replace")
    /\ UNCHANGED <<state, lock, faults, observed>>

Release(p) == lock' = IF lock = p THEN None ELSE lock

\* The rename.  init_state's save, of the empty version 0, ends a load; any
\* other saves the next version and ends the process.
Replace(p) ==
    /\ proc[p].pc = "replace"
    /\ IF proc[p].view = Absent
       THEN /\ state' = 0
            /\ proc' = [proc EXCEPT ![p] = [Idle EXCEPT !.pc = "loaded",
                                                        !.view = 0]]
            /\ UNCHANGED <<lock, saves, author>>
       ELSE /\ state' = saves + 1
            /\ saves' = saves + 1
            /\ author' = p
            /\ proc' = [proc EXCEPT ![p] = Idle]
            /\ Release(p)
    /\ recent' = <<state', recent[1]>>
    /\ UNCHANGED <<bak, faults, calm>>

Done(p) ==
    /\ proc[p].pc = "loaded"
    /\ proc' = [proc EXCEPT ![p] = Idle]
    /\ Release(p)
    /\ UNCHANGED <<state, bak, faults, observed>>

-----------------------------------------------------------------------------

\* kill -9 at any point, in the middle of a copy too; flock dies with it.
Kill(p) ==
    /\ proc[p] # Idle
    /\ proc' = [proc EXCEPT ![p] = Idle]
    /\ calm' = FALSE
    /\ Release(p)
    /\ UNCHANGED <<state, bak, faults, saves, author, recent>>

\* state.json is deleted, or damaged by something that is not the engine,
\* while nobody uses it.
Damage ==
    /\ faults < MaxFaults
    /\ \A p \in Processes : proc[p] = Idle
    /\ state' \in {Torn, Absent}
    /\ faults' = faults + 1
    /\ UNCHANGED <<bak, lock, proc, observed>>

\* `loop_engine init' has saved the empty state.
Init ==
    /\ state = 0
    /\ bak = Absent
    /\ lock = None
    /\ proc = [p \in Processes |-> Idle]
    /\ faults = 0
    /\ saves = 0
    /\ author = None
    /\ recent = <<0, 0>>
    /\ calm = TRUE

Next ==
    \/ \E p \in Processes :
        \/ Begin(p) \/ Open(p) \/ Quarantine(p) \/ Restore(p) \/ Restored(p)
        \/ Change(p) \/ Backup(p) \/ BackedUp(p) \/ Replace(p)
        \/ Done(p) \/ Kill(p)
    \/ Damage

Spec == Init /\ [][Next]_vars

-----------------------------------------------------------------------------
(* Properties.                                                             *)

\* Until something that is not the engine touches the files, kills at any step
\* included, state.json is an atomic store: no load, with the lock or without,
\* sees half a save, and a save destroys another's update only if one of the
\* two was made without the lock: two runs never do that to each other.
Store == INSTANCE AtomicStore WITH
    Careful <- Writers, Nobody <- None, Nothing <- Absent,
    value <- IF Good(state) THEN state ELSE 0,
    view <- [p \in Processes |-> proc[p].view]
Atomic == Store!Init /\ [][faults' = 0 => [Store!Next]_Store!vars]_vars

\* However often state.json is damaged, one of the last two versions in force
\* is intact on disk, unless a process was killed or two were at the files
\* together (which set-status beside a run may be, and two loads that both
\* find the damage); and every state is well typed.
Survives ==
    /\ TypeOK
    /\ calm /\ saves > 0 =>
        \E f \in {state, bak} : f \in {recent[1], recent[2]}

\* Then a load, with the lock or without, beside a writer too, gives one of
\* those two: damage costs one step.
LoadsRecover ==
    [][\A p \in Processes :
          calm' /\ proc[p].pc # "loaded" /\ proc'[p].pc = "loaded"
          => proc'[p].view \in {recent[1], recent[2]}]_vars
=============================================================================
