-------------------------------- MODULE Close --------------------------------
(***************************************************************************)
(* `loop_engine close' (cli.cmd_close, registry.close_requirement): when a *)
(* requirement is finished, the delta spec of each of its modules is       *)
(* merged into a main spec that all requirements of the domain share, its  *)
(* change directories are archived, and the registry marks it CLOSED.      *)
(*                                                                         *)
(* A main spec is a function from the names of its `### Requirement:'      *)
(* blocks to the requirement whose text they carry (Base: older than all,  *)
(* None: no such block).  The gates that read state.json are not modelled: *)
(* a close they refuse changes nothing.                                    *)
(***************************************************************************)
EXTENDS Naturals, Sequences

CONSTANTS
    None,
    Base,
    Missing,      \* a file that does not exist
    Req,          \* requirements, each closed by processes of its own
    Module,
    Main,         \* main specs of the domain
    Name,         \* names of requirement blocks
    ModulesOf,    \* Req -> the sequence of its modules
    MainOf,       \* Module -> the main spec it is merged into
    DeltasOf,     \* Module -> the delta specs it may have
    Concurrent    \* may several closes overlap?

\* ADDED, MODIFIED and REMOVED, as _validate_delta_plan accepts them.
Delta == {d \in [added : SUBSET Name, modified : SUBSET Name,
                 removed : SUBSET Name] :
            /\ d.added \cap d.modified = {} /\ d.added \cap d.removed = {}
            /\ d.modified \cap d.removed = {}
            /\ d.added \cup d.modified \cup d.removed # {}}

Mods(r) == {ModulesOf[r][i] : i \in DOMAIN ModulesOf[r]}

ASSUME ModuleAssumption ==
    /\ ModulesOf \in [Req -> Seq(Module)]
    /\ \A r \in Req : ModulesOf[r] # <<>>
    /\ \A r, q \in Req : r # q => Mods(r) \cap Mods(q) = {}
    /\ MainOf \in [Module -> Main]
    /\ DeltasOf \in [Module -> SUBSET Delta]
    /\ Concurrent \in BOOLEAN

VARIABLES
    main, temp,   \* the main specs, and the .tmp files beside them
    backups,      \* the copies in spec-backups
    archived,     \* is a module's change directory archived?
    closed,       \* the registry's CLOSED marks
    delta,        \* the modules' delta specs
    proc          \* the close of each requirement

vars == <<main, temp, backups, archived, closed, delta, proc>>

Author == Req \cup {Base, None}
Text == [Name -> Author]

Idle == [pc |-> "idle", at |-> 1,
         out |-> [m \in Module |-> Missing], old |-> {},
         snap |-> [r \in Req |-> FALSE]]

TypeOK ==
    /\ main \in [Main -> Text \cup {Missing}]
    /\ temp \in [Main -> Text \cup {Missing}]
    /\ backups \in [Main -> SUBSET Text]
    /\ archived \in [Module -> BOOLEAN]
    /\ closed \in [Req -> BOOLEAN]
    /\ delta \in [Module -> Delta]
    /\ \A r \in Req :
        proc[r] \in [pc : {"idle", "prepare", "backup", "write", "replace",
                           "archive", "load", "save"},
                     at : DOMAIN ModulesOf[r],
                     out : [Module -> Text \cup {Missing}],
                     old : SUBSET Module, snap : [Req -> BOOLEAN]]

-----------------------------------------------------------------------------
(* _merge_delta_spec, _transform_delta_spec                                *)

Names(d) == d.added \cup d.modified \cup d.removed
Blocks(text) == {n \in Name : text[n] # None}

\* Mutant of Conflict: a close that is repeated passes over what it finds.
ConflictNever(text, d) == FALSE
Conflict(text, d) ==
    \/ d.added \cap Blocks(text) # {}
    \/ ~(d.modified \cup d.removed \subseteq Blocks(text))

\* A block that is MODIFIED stands where it stood; one that is not there is
\* not put anywhere.
\* Mutant of Merged: the delta is the new main spec.
MergedAfresh(text, d, r) == [n \in Name |-> IF n \in Names(d) THEN r ELSE None]
Merged(text, d, r) ==
    [n \in Name |->
        CASE n \in d.added -> r
          [] n \in d.modified -> IF n \in Blocks(text) THEN r ELSE None
          [] n \in d.removed -> None
          [] OTHER -> text[n]]

\* A first main spec keeps every block of the delta, those under REMOVED too.
Transformed(d, r) == [n \in Name |-> IF n \in Names(d) THEN r ELSE None]

-----------------------------------------------------------------------------
(* cmd_close                                                               *)

Current(r) == ModulesOf[r][proc[r].at]
\* The loop over the modules: to the next one, or to what follows the loop.
Onward(r, p, pc) == IF p.at < Len(ModulesOf[r]) THEN [p EXCEPT !.at = @ + 1]
                    ELSE [p EXCEPT !.at = 1, !.pc = pc]
Becomes(r, p) == proc' = [proc EXCEPT ![r] = p]

\* An archived spec has no hash any more: it does not match the registered
\* one.  (A person whose close is refused because a main spec exists repeats
\* it with --merge-existing.)
Start(r) ==
    /\ proc[r] = Idle
    /\ Concurrent \/ \A q \in Req : proc[q] = Idle
    /\ \A m \in Mods(r) : ~archived[m]
    /\ Becomes(r, [Idle EXCEPT !.pc = "prepare"])
    /\ UNCHANGED <<main, temp, backups, archived, closed, delta>>

\* Every output is built before anything is written.
Prepare(r) ==
    /\ proc[r].pc = "prepare"
    /\ LET m == Current(r)
           d == delta[m]
           text == main[MainOf[m]]
           p == proc[r]
       IN  IF text = Missing
           THEN Becomes(r, Onward(r, [p EXCEPT !.out[m] = Transformed(d, r)],
                                  "backup"))
           ELSE IF Conflict(text, d) THEN Becomes(r, Idle)
           ELSE Becomes(r, Onward(r, [p EXCEPT !.out[m] = Merged(text, d, r),
                                               !.old = @ \cup {m}], "backup"))
    /\ UNCHANGED <<main, temp, backups, archived, closed, delta>>

\* Mutant of Copied: the copy is made of the new text.
CopiedOutput(r, t) == {proc[r].out[m] : m \in {m \in proc[r].old : MainOf[m] = t}}
Copied(r, t) == IF \E m \in proc[r].old : MainOf[m] = t THEN {main[t]} ELSE {}

BackUp(r) ==
    /\ proc[r].pc = "backup"
    /\ backups' = [t \in Main |-> backups[t] \cup Copied(r, t)]
    /\ Becomes(r, [proc[r] EXCEPT !.pc = "write"])
    /\ UNCHANGED <<main, temp, archived, closed, delta>>

WriteTemp(r) ==
    /\ proc[r].pc = "write"
    /\ temp' = [temp EXCEPT ![MainOf[Current(r)]] = proc[r].out[Current(r)]]
    /\ Becomes(r, Onward(r, proc[r], "replace"))
    /\ UNCHANGED <<main, backups, archived, closed, delta>>

Replace(r) ==
    /\ proc[r].pc = "replace"
    /\ LET t == MainOf[Current(r)]
       IN  /\ temp[t] # Missing
           /\ main' = [main EXCEPT ![t] = temp[t]]
           /\ temp' = [temp EXCEPT ![t] = Missing]
    /\ Becomes(r, Onward(r, proc[r], "archive"))
    /\ UNCHANGED <<backups, archived, closed, delta>>

\* The file was renamed already: for a module of the same name under another
\* change, or by another close.  The temporary files are removed.
ReplaceRaises(r) ==
    /\ proc[r].pc = "replace"
    /\ temp[MainOf[Current(r)]] = Missing
    /\ temp' = [t \in Main |-> IF \E m \in Mods(r) : MainOf[m] = t THEN Missing
                               ELSE temp[t]]
    /\ Becomes(r, Idle)
    /\ UNCHANGED <<main, backups, archived, closed, delta>>

\* Mutant of Archive: the registry is marked after the first directory.
ArchiveFirst(r) ==
    /\ proc[r].pc = "archive"
    /\ archived' = [archived EXCEPT ![Current(r)] = TRUE]
    /\ Becomes(r, [proc[r] EXCEPT !.at = 1, !.pc = "load"])
    /\ UNCHANGED <<main, temp, backups, closed, delta>>
Archive(r) ==
    /\ proc[r].pc = "archive"
    /\ archived' = [archived EXCEPT ![Current(r)] = TRUE]
    /\ Becomes(r, Onward(r, proc[r], "load"))
    /\ UNCHANGED <<main, temp, backups, closed, delta>>

\* close_requirement: requirements.json is loaded and saved without a lock.
RegistryLoads(r) ==
    /\ proc[r].pc = "load"
    /\ Becomes(r, [proc[r] EXCEPT !.pc = "save", !.snap = closed])
    /\ UNCHANGED <<main, temp, backups, archived, closed, delta>>

RegistrySaves(r) ==
    /\ proc[r].pc = "save"
    /\ closed' = [proc[r].snap EXCEPT ![r] = TRUE]
    /\ Becomes(r, Idle)
    /\ UNCHANGED <<main, temp, backups, archived, delta>>

\* The process is killed; a person closes again, or never does.
Die(r) ==
    /\ proc[r] # Idle
    /\ Becomes(r, Idle)
    /\ UNCHANGED <<main, temp, backups, archived, closed, delta>>

Init ==
    /\ delta \in [Module -> Delta]
    /\ \A m \in Module : delta[m] \in DeltasOf[m]
    /\ main \in [Main -> [Name -> {Base, None}] \cup {Missing}]
    /\ temp = [t \in Main |-> Missing]
    /\ backups = [t \in Main |-> {}]
    /\ archived = [m \in Module |-> FALSE]
    /\ closed = [r \in Req |-> FALSE]
    /\ proc = [r \in Req |-> Idle]

Next ==
    \E r \in Req :
        \/ Start(r) \/ Prepare(r) \/ BackUp(r) \/ WriteTemp(r) \/ Replace(r)
        \/ ReplaceRaises(r) \/ Archive(r) \/ RegistryLoads(r)
        \/ RegistrySaves(r) \/ Die(r)

Spec == Init /\ [][Next]_vars

-----------------------------------------------------------------------------
(* Properties, for closes that do not overlap but may die at any step and  *)
(* be repeated.                                                            *)

\* When a requirement is marked CLOSED, all it had to say is in the main
\* specs, where later work starts from (README.md: they are the baseline that
\* is inherited), and none of it is left in its changes.
InForce(r, m) ==
    /\ main[MainOf[m]] # Missing
    /\ \A n \in delta[m].added \cup delta[m].modified : main[MainOf[m]][n] = r
    /\ \A n \in delta[m].removed : main[MainOf[m]][n] \in {r, None}
ClosedIsMerged ==
    [][\A r \in Req : (closed'[r] /\ ~closed[r]) =>
                      \A m \in Mods(r) : InForce(r, m) /\ archived[m]]_vars

\* No text of a main spec is lost: what a rename replaces was copied before,
\* by this close or by one that died.
ReplacedIsBackedUp ==
    [][\A t \in Main : (main[t] # Missing /\ main'[t] # main[t]) =>
                       main[t] \in backups[t]]_vars

\* A close changes no block but those its own deltas name, whatever a dead
\* close has left in the temporary files; and every state is well typed.
OthersKept ==
    /\ []TypeOK
    /\ [][\A t \in Main : main'[t] # main[t] =>
           \E r \in Req : /\ proc[r].pc = "replace"
                          /\ \A n \in Name :
                               \/ main[t] # Missing /\ main'[t][n] = main[t][n]
                               \/ main[t] = Missing /\ main'[t][n] = None
                               \/ \E m \in Mods(r) : /\ MainOf[m] = t
                                                     /\ n \in Names(delta[m])]_vars
=============================================================================
