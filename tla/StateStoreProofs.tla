-------------------------- MODULE StateStoreProofs --------------------------
(* Theorems about StateStore, for any processes and any number of damages: *)
(* until state.json is damaged it is an AtomicStore, and damage costs one  *)
(* version unless a process was killed or two were at the files together.  *)
EXTENDS StateStore, TLAPS

-----------------------------------------------------------------------------
(* The inductive invariant.                                                *)

Pc == {"idle", "open", "quarantine", "restore", "restoring", "loaded", "save",
       "backup", "replace"}
Process == [pc : Pc, view : Version \cup {Absent}, copy : Content]
Saving == {"save", "backup", "replace"}

\* What a process carries from step to step of load and save: nothing before
\* it has loaded, a good copy of the backup while it restores, then what it
\* loaded.
Carries(p) ==
    /\ proc[p].pc = "idle" => proc[p] = Idle
    /\ proc[p].pc \in {"open", "quarantine", "restore", "restoring"}
        => proc[p].view = Absent
    /\ proc[p].pc = "restoring" => proc[p].copy \in Version
    /\ proc[p].pc = "loaded" => proc[p].view \in Version

Typed ==
    /\ state \in Content /\ bak \in Content
    /\ proc \in [Processes -> Process]
    /\ faults \in 0..MaxFaults
    /\ saves \in Version /\ author \in Processes \cup {None}
    /\ recent \in Version \X Version

\* A run in a load or a save holds the lock.
Locked ==
    /\ lock \in Writers \cup {None}
    /\ \A w \in Writers : lock = w <=> proc[w].pc # "idle"

\* Before the first damage nobody repairs, and a run that has loaded still
\* sees what it loaded, or the last save was made without the lock.
Whole ==
    /\ state = saves
    /\ \A p \in Processes :
        /\ proc[p].pc \notin {"quarantine", "restore", "restoring"}
        /\ proc[p].pc \in Saving => proc[p].view # Absent
    /\ \A w \in Writers :
        proc[w].view # Absent /\ author \in Writers => proc[w].view = state

\* What a process knows of the two files while all is calm.
Sees(p) ==
    /\ proc[p].pc = "quarantine" => ~Good(state)
    /\ proc[p].pc = "restore" => state = Absent
    /\ proc[p].pc = "restoring" => state = Torn /\ proc[p].copy = bak
    /\ proc[p].pc = "loaded" => Good(state)
    /\ proc[p].pc \in Saving =>
        IF proc[p].view = Absent
        THEN proc[p].pc # "backup" /\ state = Absent /\ ~Good(bak) /\ saves = 0
        ELSE Good(state)
    /\ proc[p].pc = "backup" => bak = Torn /\ proc[p].copy = recent[1]
    /\ proc[p].pc = "replace" /\ proc[p].view # Absent => bak = recent[1]

\* At most one process is at the files.
Alone(p) == \A q \in Processes : q # p => ~AtFiles(q)

\* What is intact is recent, and there is a backup unless one is being
\* written: that is why Survives outlives the next damage.
Recoverable ==
    /\ \A p \in Processes : AtFiles(p) => Alone(p)
    /\ Good(state) => state = recent[1]
    /\ Good(bak) => bak \in {recent[1], recent[2]}
    /\ saves = 0 => recent[1] = 0 /\ recent[2] = 0
    /\ saves > 0 /\ (\A p \in Processes : proc[p].pc # "backup") => Good(bak)
    /\ \A p \in Processes : Sees(p)

IInv ==
    /\ Typed /\ calm \in BOOLEAN
    /\ \A p \in Processes : Carries(p)
    /\ Locked
    /\ faults = 0 => Whole
    /\ calm => Recoverable

\* A step of p's load or save, or its death.
StepOf(p) ==
    \/ Begin(p) \/ Open(p) \/ Quarantine(p) \/ Restore(p) \/ Restored(p)
    \/ Change(p) \/ Backup(p) \/ BackedUp(p) \/ Replace(p)
    \/ Done(p) \/ Kill(p)

LEMMA InvInit == Init => IInv
<1> SUFFICES ASSUME Init PROVE IInv
  OBVIOUS
<1> USE StoreAssumption, ContentAssumption DEF Version
<1>1. Typed
  BY DEF Init, Typed, Process, Pc, Idle, Content
<1>2. calm \in BOOLEAN
  BY DEF Init
<1>3. \A p \in Processes : Carries(p)
  BY DEF Init, Carries, Idle
<1>4. Locked
  BY DEF Init, Locked, Idle, Processes
<1>5. Whole
  BY DEF Init, Whole, Idle, Saving, Processes
<1>6. Recoverable
  BY DEF Init, Recoverable, Good, Sees, Idle, Saving, AtFiles, Alone
<1> QED BY <1>1, <1>2, <1>3, <1>4, <1>5, <1>6 DEF IInv

-----------------------------------------------------------------------------
(* What a step of one process does to that process.                        *)

Becomes(p, pc, view, copy) ==
    proc' = [proc EXCEPT ![p] = [pc |-> pc, view |-> view, copy |-> copy]]

LEMMA Becoming ==
    ASSUME Typed, NEW p \in Processes, NEW pc \in Pc,
           NEW view \in Version \cup {Absent},
           NEW copy \in Content, Becomes(p, pc, view, copy)
    PROVE  /\ proc' \in [Processes -> Process]
           /\ \A q \in Processes : q # p => proc'[q] = proc[q]
           /\ proc'[p].pc = pc /\ proc'[p].view = view
           /\ proc'[p].copy = copy
  BY DEF Typed, Process, Becomes

\* Everything a step of p does, field by field.
LEMMA Fields ==
    ASSUME Typed, NEW p \in Processes
    PROVE  LET x == proc[p] IN
      /\ Begin(p) => Becomes(p, "open", Absent, Absent)
      /\ Done(p) \/ Kill(p) => Becomes(p, "idle", Absent, Absent)
      /\ Open(p) /\ Good(state) => Becomes(p, "loaded", state, x.copy)
      /\ Open(p) /\ ~Good(state) =>
          Becomes(p, IF state = Absent THEN "restore" ELSE "quarantine",
                  x.view, x.copy)
      /\ Quarantine(p) => Becomes(p, "restore", x.view, x.copy)
      /\ Restore(p) /\ Good(bak) => Becomes(p, "restoring", x.view, bak)
      /\ Restore(p) /\ ~Good(bak) => Becomes(p, "save", x.view, x.copy)
      /\ Restored(p) => Becomes(p, "loaded", x.copy, Absent)
      /\ Change(p) => Becomes(p, "save", x.view, x.copy)
      /\ Backup(p) /\ state = Absent => Becomes(p, "replace", x.view, x.copy)
      /\ Backup(p) /\ state # Absent => Becomes(p, "backup", x.view, state)
      /\ BackedUp(p) => Becomes(p, "replace", x.view, x.copy)
      /\ Replace(p) /\ x.view = Absent => Becomes(p, "loaded", 0, Absent)
      /\ Replace(p) /\ x.view # Absent => Becomes(p, "idle", Absent, Absent)
<1> DEFINE x == proc[p]
<1>1. x \in Process /\ proc \in [Processes -> Process]
  BY DEF Typed
<1>2. /\ Begin(p) => Becomes(p, "open", Absent, Absent)
      /\ Done(p) \/ Kill(p) => Becomes(p, "idle", Absent, Absent)
  BY <1>1 DEF Process, Begin, Done, Kill, Goes, Idle, Becomes
<1>3. Open(p) /\ Good(state) => Becomes(p, "loaded", state, x.copy)
  BY <1>1 DEF Process, Open, Becomes
<1>4. Open(p) /\ ~Good(state) =>
        Becomes(p, IF state = Absent THEN "restore" ELSE "quarantine",
                x.view, x.copy)
  BY <1>1 DEF Process, Open, Goes, Becomes
<1>5. Quarantine(p) => Becomes(p, "restore", x.view, x.copy)
  BY <1>1 DEF Process, Quarantine, Goes, Becomes
<1>6. Restore(p) /\ Good(bak) => Becomes(p, "restoring", x.view, bak)
  BY <1>1 DEF Process, Restore, Becomes
<1>7. Restore(p) /\ ~Good(bak) => Becomes(p, "save", x.view, x.copy)
  BY <1>1 DEF Process, Restore, Goes, Becomes
<1>8. Restored(p) => Becomes(p, "loaded", x.copy, Absent)
  BY <1>1 DEF Process, Restored, Idle, Becomes
<1>9. Change(p) => Becomes(p, "save", x.view, x.copy)
  BY <1>1 DEF Process, Change, Goes, Becomes
<1>10. Backup(p) /\ state = Absent => Becomes(p, "replace", x.view, x.copy)
  BY <1>1 DEF Process, Backup, Goes, Becomes
<1>11. Backup(p) /\ state # Absent => Becomes(p, "backup", x.view, state)
  BY <1>1 DEF Process, Backup, Becomes
<1>12. BackedUp(p) => Becomes(p, "replace", x.view, x.copy)
  BY <1>1 DEF Process, BackedUp, Goes, Becomes
<1>13. /\ Replace(p) /\ x.view = Absent => Becomes(p, "loaded", 0, Absent)
       /\ Replace(p) /\ x.view # Absent => Becomes(p, "idle", Absent, Absent)
  BY <1>1 DEF Process, Replace, Idle, Becomes
<1> QED BY <1>2, <1>3, <1>4, <1>5, <1>6, <1>7, <1>8, <1>9, <1>10, <1>11,
           <1>12, <1>13

Was(x, pc, view, copy) == x.pc = pc /\ x.view = view /\ x.copy = copy

\* The same, of the process's new state, which is well typed.
LEMMA After ==
    ASSUME Typed, NEW p \in Processes, Carries(p), StepOf(p)
    PROVE  LET x == proc[p]
               y == proc'[p] IN
      /\ proc' \in [Processes -> Process]
      /\ \A q \in Processes : q # p => proc'[q] = proc[q]
      /\ Begin(p) => Was(y, "open", Absent, Absent)
      /\ Done(p) \/ Kill(p) => Was(y, "idle", Absent, Absent)
      /\ Open(p) /\ Good(state) => Was(y, "loaded", state, x.copy)
      /\ Open(p) /\ ~Good(state) =>
          Was(y, IF state = Absent THEN "restore" ELSE "quarantine",
              x.view, x.copy)
      /\ Quarantine(p) => Was(y, "restore", x.view, x.copy)
      /\ Restore(p) /\ Good(bak) => Was(y, "restoring", x.view, bak)
      /\ Restore(p) /\ ~Good(bak) => Was(y, "save", x.view, x.copy)
      /\ Restored(p) => Was(y, "loaded", x.copy, Absent)
      /\ Change(p) => Was(y, "save", x.view, x.copy)
      /\ Backup(p) /\ state = Absent => Was(y, "replace", x.view, x.copy)
      /\ Backup(p) /\ state # Absent => Was(y, "backup", x.view, state)
      /\ BackedUp(p) => Was(y, "replace", x.view, x.copy)
      /\ Replace(p) /\ x.view = Absent => Was(y, "loaded", 0, Absent)
      /\ Replace(p) /\ x.view # Absent => Was(y, "idle", Absent, Absent)
<1> DEFINE x == proc[p]
           y == proc'[p]
           Fits(pc, view, copy) ==
             /\ pc \in Pc /\ view \in Version \cup {Absent}
             /\ copy \in Content
           Moved(pc, view, copy) ==
             /\ proc' \in [Processes -> Process]
             /\ \A q \in Processes : q # p => proc'[q] = proc[q]
             /\ Was(y, pc, view, copy)
<1>1. ASSUME NEW pc, NEW view, NEW copy,
             Fits(pc, view, copy), Becomes(p, pc, view, copy)
      PROVE  Moved(pc, view, copy)
  BY <1>1, Becoming DEF Was
<1>2. /\ x.pc \in Pc /\ x.view \in Version \cup {Absent}
      /\ x.copy \in Content
      /\ Absent \in Content
  BY DEF Typed, Process, Content
<1> HIDE DEF Moved
<1>3. ASSUME Begin(p)
      PROVE  Moved("open", Absent, Absent)
  <2>1. Fits("open", Absent, Absent)
    BY <1>2, <1>3 DEF Pc
  <2> QED BY <1>1, <1>3, <2>1, Fields
<1>4. ASSUME Done(p) \/ Kill(p)
      PROVE  Moved("idle", Absent, Absent)
  <2>1. Fits("idle", Absent, Absent)
    BY <1>2, <1>4 DEF Pc
  <2> QED BY <1>1, <1>4, <2>1, Fields
<1>5. ASSUME Open(p) /\ Good(state)
      PROVE  Moved("loaded", state, x.copy)
  <2>1. Fits("loaded", state, x.copy)
    BY <1>2, <1>5 DEF Pc, Good
  <2> QED BY <1>1, <1>5, <2>1, Fields
<1>6. ASSUME Open(p) /\ ~Good(state)
      PROVE  Moved(IF state = Absent THEN "restore" ELSE "quarantine",
                  x.view, x.copy)
  <2>1. Fits(IF state = Absent THEN "restore" ELSE "quarantine",
                  x.view, x.copy)
    BY <1>2, <1>6 DEF Pc
  <2> QED BY <1>1, <1>6, <2>1, Fields
<1>7. ASSUME Quarantine(p)
      PROVE  Moved("restore", x.view, x.copy)
  <2>1. Fits("restore", x.view, x.copy)
    BY <1>2, <1>7 DEF Pc
  <2> QED BY <1>1, <1>7, <2>1, Fields
<1>8. ASSUME Restore(p) /\ Good(bak)
      PROVE  Moved("restoring", x.view, bak)
  <2>1. Fits("restoring", x.view, bak)
    BY <1>2, <1>8 DEF Pc, Good, Typed
  <2> QED BY <1>1, <1>8, <2>1, Fields
<1>9. ASSUME (Restore(p) /\ ~Good(bak)) \/ Change(p)
      PROVE  Moved("save", x.view, x.copy)
  <2>1. Fits("save", x.view, x.copy)
    BY <1>2, <1>9 DEF Pc
  <2> QED BY <1>1, <1>9, <2>1, Fields
<1>10. ASSUME Restored(p)
      PROVE  Moved("loaded", x.copy, Absent)
  <2>1. Fits("loaded", x.copy, Absent)
    BY <1>2, <1>10 DEF Pc, Restored, Carries
  <2> QED BY <1>1, <1>10, <2>1, Fields
<1>11. ASSUME (Backup(p) /\ state = Absent) \/ BackedUp(p)
      PROVE  Moved("replace", x.view, x.copy)
  <2>1. Fits("replace", x.view, x.copy)
    BY <1>2, <1>11 DEF Pc
  <2> QED BY <1>1, <1>11, <2>1, Fields
<1>12. ASSUME Backup(p) /\ state # Absent
      PROVE  Moved("backup", x.view, state)
  <2>1. Fits("backup", x.view, state)
    BY <1>2, <1>12 DEF Pc, Typed
  <2> QED BY <1>1, <1>12, <2>1, Fields
<1>13. ASSUME Replace(p) /\ x.view = Absent
      PROVE  Moved("loaded", 0, Absent)
  <2>1. Fits("loaded", 0, Absent)
    BY <1>2, <1>13 DEF Pc, Version
  <2> QED BY <1>1, <1>13, <2>1, Fields
<1>14. ASSUME Replace(p) /\ x.view # Absent
      PROVE  Moved("idle", Absent, Absent)
  <2>1. Fits("idle", Absent, Absent)
    BY <1>2, <1>14 DEF Pc
  <2> QED BY <1>1, <1>14, <2>1, Fields
<1> QED BY <1>3, <1>4, <1>5, <1>6, <1>7, <1>8, <1>9, <1>10, <1>11, <1>12,
           <1>13, <1>14 DEF StepOf, Moved

-----------------------------------------------------------------------------
(* The parts of the invariant that always hold.                            *)

LEMMA CarriedOn ==
    ASSUME Typed, NEW p \in Processes, \A q \in Processes : Carries(q),
           StepOf(p)
    PROVE  \A q \in Processes : Carries(q)'
<1> DEFINE x == proc[p]
           y == proc'[p]
<1>1. /\ Carries(p)
      /\ x.pc \in Pc /\ x.view \in Version \cup {Absent}
      /\ x.copy \in Content
      /\ proc'[p] \in Process
  BY After DEF Typed, Process
<1>2. \A q \in Processes : q # p => Carries(q)'
  BY After DEF Carries
<1>3. CASE Begin(p) \/ Done(p) \/ Kill(p) \/ (Replace(p) /\ x.view # Absent)
  <2>1. Was(y, "open", Absent, Absent) \/ y = Idle
    BY <1>1, <1>3, After DEF Was, Idle, Process
  <2> QED BY <1>2, <2>1 DEF Was, Carries, Idle
<1>4. CASE Open(p) \/ Quarantine(p)
  <2>1. \/ /\ y.pc = "loaded" /\ y.view \in Version
        \/ /\ y.pc \in {"restore", "quarantine"} /\ y.view = x.view
           /\ x.pc \in {"open", "quarantine"}
    BY <1>4, After DEF Open, Quarantine, Was, Good
  <2> QED BY <1>1, <1>2, <2>1 DEF Carries
<1>5. CASE Restore(p)
  <2>1. /\ x.pc = "restore" /\ y.view = x.view
        /\ \/ y.pc = "restoring" /\ y.copy \in Version
           \/ y.pc = "save"
    BY <1>5, After DEF Restore, Was, Good
  <2> QED BY <1>1, <1>2, <2>1 DEF Carries
<1>6. CASE Restored(p) \/ (Replace(p) /\ x.view = Absent)
  <2>1. Was(y, "loaded", x.copy, Absent) \/ Was(y, "loaded", 0, Absent)
    BY <1>1, <1>6, After
  <2>2. Restored(p) => x.copy \in Version
    BY <1>1 DEF Restored, Carries
  <2>3. ~Restored(p) => Was(y, "loaded", 0, Absent)
    BY <1>1, <1>6, After
  <2>4. y.pc = "loaded" /\ y.view \in Version
    BY <2>1, <2>2, <2>3 DEF Was, Version
  <2> QED BY <1>1, <1>2, <2>4 DEF Carries
<1>7. CASE Change(p) \/ Backup(p) \/ BackedUp(p)
  <2>1. y.pc \in Saving
    BY <1>7, After DEF Was, Saving
  <2> QED BY <1>1, <1>2, <2>1 DEF Carries, Saving
<1> QED BY <1>3, <1>4, <1>5, <1>6, <1>7 DEF StepOf

LEMMA FilesTyped ==
    ASSUME Typed, NEW p \in Processes, Carries(p), StepOf(p)
    PROVE  Typed' /\ UNCHANGED faults
<1>1. /\ proc' \in [Processes -> Process]
      /\ proc[p] \in Process
  BY After DEF Typed
<1>2. CASE Begin(p) \/ Done(p) \/ Kill(p) \/ Open(p) \/ Change(p)
  BY <1>1, <1>2 DEF Begin, Done, Kill, Open, Change, Typed, observed, Comes
<1>3. CASE Quarantine(p) \/ Restore(p)
  BY <1>1, <1>3 DEF Quarantine, Restore, Typed, Content, observed
<1>4. CASE Restored(p)
  BY <1>1, <1>4 DEF Restored, Carries, Typed, Content
<1>5. CASE Backup(p) \/ BackedUp(p)
  BY <1>1, <1>5 DEF Backup, BackedUp, Typed, Process, Content, observed
<1>6. CASE Replace(p)
  <2>1. state' \in Version /\ saves' \in Version
    BY <1>6 DEF Replace, Typed, Version
  <2>2. recent' = <<state', recent[1]>> /\ recent[1] \in Version
    BY <1>6 DEF Replace, Typed
  <2>3. author' \in {author, p} /\ UNCHANGED <<bak, faults>>
    BY <1>6 DEF Replace
  <2> QED BY <1>1, <2>1, <2>2, <2>3 DEF Typed, Content
<1> QED BY <1>2, <1>3, <1>4, <1>5, <1>6 DEF StepOf

\* Calm stays what it was, but for a death and for a process that comes to
\* the files where another is.
LEMMA CalmIs ==
    ASSUME calm \in BOOLEAN, NEW p \in Processes, StepOf(p)
    PROVE  /\ calm' \in BOOLEAN /\ (calm' => calm) /\ (calm' => ~Kill(p))
           /\ calm' /\ Change(p) => Alone(p)
           /\ calm' /\ Open(p) /\ ~Good(state) => Alone(p)
<1>1. CASE Comes(p)
  <2>1. calm' = (calm /\ Alone(p))
    BY <1>1 DEF Comes, Alone
  <2>2. ~Kill(p) \/ calm' = FALSE
    BY DEF Kill
  <2> QED BY <2>1, <2>2
<1>2. CASE Kill(p)
  BY <1>2 DEF Kill
<1>3. CASE ~Comes(p) /\ ~Kill(p)
  <2>1. ~Change(p) /\ ~(Open(p) /\ ~Good(state))
    BY <1>3 DEF Change, Open
  <2>2. calm' = calm
    BY <1>3, <2>1 DEF StepOf, Begin, Open, Quarantine, Restore, Restored,
                      Backup, BackedUp, Replace, Done, observed
  <2> QED BY <1>3, <2>1, <2>2
<1> QED BY <1>1, <1>2, <1>3

LEMMA LockKept ==
    ASSUME Typed, NEW p \in Processes, Carries(p), StepOf(p), Locked
    PROVE  Locked'
<1> USE StoreAssumption, After DEF Processes, Was
<1>1. CASE Begin(p)
  BY <1>1 DEF Begin, Locked, Idle
<1>2. CASE Done(p) \/ Kill(p) \/ (Replace(p) /\ proc[p].view # Absent)
  <2>1. proc[p].pc # "idle" /\ proc'[p].pc = "idle" /\ Release(p)
    BY <1>2 DEF Done, Kill, Replace, Carries
  <2> QED BY <2>1 DEF Locked, Release
<1>3. CASE \/ Open(p) \/ Quarantine(p) \/ Restore(p) \/ Restored(p)
           \/ Change(p) \/ Backup(p) \/ BackedUp(p)
           \/ Replace(p) /\ proc[p].view = Absent
  <2>1. proc[p].pc # "idle" /\ proc'[p].pc # "idle" /\ UNCHANGED lock
    BY <1>3 DEF Open, Quarantine, Restore, Restored, Change, Backup, BackedUp,
                Replace
  <2> QED BY <2>1 DEF Locked
<1> QED BY <1>1, <1>2, <1>3 DEF StepOf

\* Two runs are never both in a load or a save.
LEMMA OneWriter ==
    ASSUME Locked, NEW w \in Writers, proc[w].pc # "idle"
    PROVE  \A v \in Writers : v # w => proc[v].pc = "idle"
  BY DEF Locked

-----------------------------------------------------------------------------
(* Before the first damage.                                                *)

\* What a step of p is to the abstract store.
LEMMA WholeSteps ==
    ASSUME Typed, Locked, Whole, \A q \in Processes : Carries(q),
           NEW p \in Processes, StepOf(p)
    PROVE  /\ Whole'
           /\ \/ /\ proc[p].view = Absent /\ proc'[p].view = state
                 /\ UNCHANGED <<state, author>>
              \/ /\ proc[p].view # Absent /\ proc'[p].view = Absent
                 /\ proc[p].view = state \/ ~(p \in Writers /\ author \in Writers)
                 /\ state' = state + 1 /\ author' = p
              \/ /\ proc[p].view # Absent /\ proc'[p].view = Absent
                 /\ UNCHANGED <<state, author>>
              \/ /\ proc'[p].view = proc[p].view
                 /\ UNCHANGED <<state, author>>
<1> DEFINE x == proc[p]
           y == proc'[p]
<1>1. /\ Carries(p) /\ x \in Process
      /\ \A q \in Processes : q # p => proc'[q] = proc[q]
      /\ state = saves /\ state \in Version
      /\ x.pc \notin {"quarantine", "restore", "restoring"}
      /\ x.pc \in Saving => x.view # Absent
      /\ p \in Writers /\ x.view # Absent /\ author \in Writers
          => x.view = state
      /\ Writers \subseteq Processes
  BY After DEF Typed, Whole, Processes
<1>2. CASE Begin(p) \/ Done(p) \/ Kill(p)
  <2>1. /\ y.pc \in {"open", "idle"} /\ y.view = Absent
        /\ Begin(p) => x.view = Absent
    BY <1>2, After DEF Begin, Idle, Was
  <2>2. UNCHANGED <<state, saves, author>>
    BY <1>2 DEF Begin, Done, Kill, observed
  <2> QED BY <1>1, <2>1, <2>2 DEF Whole, Saving
<1>3. CASE Open(p)
  <2>1. y.pc = "loaded" /\ y.view = state /\ x.view = Absent
    BY <1>1, <1>3, After DEF Open, Good, Was, Carries
  <2>2. UNCHANGED <<state, saves, author>>
    BY <1>1, <1>3 DEF Open, Good, observed
  <2> QED BY <1>1, <2>1, <2>2 DEF Whole, Saving
<1>4. CASE Change(p) \/ Backup(p) \/ BackedUp(p)
  <2>1. y.pc \in Saving /\ y.view = x.view /\ x.view # Absent
    BY <1>1, <1>4, ContentAssumption, After
       DEF Change, Backup, BackedUp, Was, Saving, Carries, Version
  <2>2. UNCHANGED <<state, saves, author>>
    BY <1>4 DEF Change, Backup, BackedUp, observed, Comes
  <2> QED BY <1>1, <2>1, <2>2 DEF Whole, Saving
<1>5. CASE Replace(p)
  <2>1. x.pc = "replace" /\ x.view # Absent
    BY <1>1, <1>5 DEF Replace, Saving
  <2>2. /\ y.pc = "idle" /\ y.view = Absent
        /\ state' = state + 1 /\ saves' = state' /\ author' = p
    BY <1>1, <1>5, <2>1, After DEF Replace, Was
  <2>3. ASSUME p \in Writers, NEW v \in Writers PROVE proc'[v].view = Absent
    <3>1. CASE v = p
      BY <2>2, <3>1
    <3>2. CASE v # p
      <4>1. proc[v].pc = "idle" /\ v \in Processes
        BY <1>1, <2>1, <2>3, <3>2, OneWriter
      <4>2. proc[v] = Idle
        BY <4>1 DEF Carries
      <4> QED BY <1>1, <3>2, <4>1, <4>2 DEF Idle
    <3> QED BY <3>1, <3>2
  <2>4. Whole'
    BY <1>1, <2>2, <2>3 DEF Whole, Saving
  <2> QED BY <1>1, <2>1, <2>2, <2>4
<1>6. ~Quarantine(p) /\ ~Restore(p) /\ ~Restored(p)
  BY <1>1 DEF Quarantine, Restore, Restored
<1> QED BY <1>2, <1>3, <1>4, <1>5, <1>6 DEF StepOf

LEMMA Refines ==
    ASSUME Typed, Locked, Whole, Whole', Typed',
           \A q \in Processes : Carries(q), NEW p \in Processes, StepOf(p)
    PROVE  [Store!Next]_Store!vars
<1> DEFINE V == [q \in Processes |-> proc[q].view]
           W == [q \in Processes |-> proc'[q].view]
<1>1. /\ state \in Version /\ state' \in Version
      /\ W = [V EXCEPT ![p] = proc'[p].view] /\ V[p] = proc[p].view
  BY After DEF Whole, Typed
<1>2. CASE /\ proc[p].view = Absent /\ proc'[p].view = state
           /\ UNCHANGED <<state, author>>
  <2>1. Store!Load(p)
    BY <1>1, <1>2 DEF Store!Load, Good
  <2> QED BY <2>1 DEF Store!Next
<1>3. CASE /\ proc[p].view # Absent /\ proc'[p].view = Absent
           /\ proc[p].view = state \/ ~(p \in Writers /\ author \in Writers)
           /\ state' = state + 1 /\ author' = p
  <2>1. Store!Commit(p)
    BY <1>1, <1>3 DEF Store!Commit, Store!Stale, Good
  <2> QED BY <2>1 DEF Store!Next
<1>4. CASE /\ proc[p].view # Absent /\ proc'[p].view = Absent
           /\ UNCHANGED <<state, author>>
  <2>1. Store!Drop(p)
    BY <1>1, <1>4 DEF Store!Drop, Good
  <2> QED BY <2>1 DEF Store!Next
<1>5. CASE proc'[p].view = proc[p].view /\ UNCHANGED <<state, author>>
  <2>1. W = V
    BY <1>1, <1>5
  <2> QED BY <1>5, <2>1 DEF Store!vars, Good
<1> QED BY <1>2, <1>3, <1>4, <1>5, WholeSteps

-----------------------------------------------------------------------------
(* While all is calm.                                                      *)

\* A step of p that leaves the files alone and does not take p to them.
LEMMA AwayStep ==
    ASSUME IInv, Recoverable, NEW p \in Processes,
           \/ Begin(p) \/ Done(p) \/ (Open(p) /\ Good(state))
    PROVE  /\ Recoverable'
           /\ proc'[p].pc = "loaded" => proc'[p].view = recent[1]
<1> DEFINE y == proc'[p]
<1>1. /\ Carries(p) /\ Typed /\ StepOf(p)
      /\ \A q \in Processes : q # p => proc'[q] = proc[q]
  BY After DEF IInv, StepOf
<1>2. /\ proc[p].pc \in {"idle", "loaded", "open"}
      /\ UNCHANGED <<state, bak, saves, recent>>
  BY DEF Begin, Done, Open, Idle, observed
<1>3. \/ y.pc \in {"open", "idle"}
      \/ y.pc = "loaded" /\ y.view = state /\ Good(state)
  <2>1. CASE Begin(p) \/ Done(p)
    BY <1>1, <2>1, After DEF Was
  <2>2. CASE Open(p) /\ Good(state)
    BY <1>1, <2>2, After DEF Was
  <2> QED BY <2>1, <2>2
<1>4. \A q \in Processes : (AtFiles(q)' => AtFiles(q)) /\ Sees(q)'
  BY <1>1, <1>2, <1>3 DEF Recoverable, Sees, Saving, AtFiles, Good
<1>5. \A q \in Processes : AtFiles(q)' => Alone(q)'
  BY <1>4 DEF Recoverable, Alone
<1>6. (\A q \in Processes : proc'[q].pc # "backup")
      => \A q \in Processes : proc[q].pc # "backup"
  BY <1>1, <1>2
<1>7. Recoverable'
  BY <1>2, <1>4, <1>5, <1>6 DEF Recoverable, Good
<1> QED BY <1>2, <1>3, <1>7 DEF Recoverable

\* A step of p at the files, where nobody else is.  Nobody else has loaded,
\* then, unless state.json is intact.
LEMMA FilesStep ==
    ASSUME IInv, Recoverable, NEW p \in Processes, Alone(p),
           \/ (Open(p) /\ ~Good(state)) \/ Quarantine(p) \/ Restore(p)
           \/ Restored(p) \/ Change(p) \/ Backup(p) \/ BackedUp(p)
           \/ Replace(p)
    PROVE  /\ Recoverable'
           /\ proc'[p].pc = "loaded"
              => proc'[p].view \in {recent[1], recent[2]}
<1> DEFINE x == proc[p]
           y == proc'[p]
           Now == /\ Good(state') => state' = recent'[1]
                  /\ Good(bak') => bak' \in {recent'[1], recent'[2]}
                  /\ saves' = 0 => recent'[1] = 0 /\ recent'[2] = 0
                  /\ saves' > 0 /\ y.pc # "backup" => Good(bak')
                  /\ Sees(p)'
                  /\ Good(state) => Good(state')
<1> USE ContentAssumption
<1>1. /\ Carries(p) /\ Typed /\ StepOf(p) /\ x.view \in Version \cup {Absent}
      /\ \A q \in Processes : q # p => proc'[q] = proc[q]
      /\ saves \in Nat /\ recent[1] \in Version /\ recent[2] \in Version
      /\ Torn \notin Version /\ Absent \notin Version
  BY After DEF IInv, StepOf, Typed, Process, Version
<1>2. /\ Sees(p)
      /\ Good(state) => state = recent[1]
      /\ Good(bak) => bak \in {recent[1], recent[2]}
      /\ saves = 0 => recent[1] = 0 /\ recent[2] = 0
      /\ saves > 0 /\ x.pc # "backup" => Good(bak)
  BY DEF Recoverable, Alone, AtFiles
<1>3. ASSUME Now PROVE Recoverable'
  <2>1. \A q \in Processes : q # p => ~AtFiles(q) /\ ~AtFiles(q)'
    BY <1>1 DEF Alone, AtFiles
  <2>2. \A q \in Processes : AtFiles(q)' => Alone(q)'
    BY <2>1 DEF Alone
  <2>3. ASSUME NEW q \in Processes, q # p PROVE Sees(q)'
    <3>1. Sees(q) /\ proc'[q] = proc[q]
      BY <1>1, <2>3 DEF Recoverable
    <3>2. proc[q].pc \notin {"quarantine", "restore", "restoring"} \cup Saving
      BY <2>1, <2>3 DEF AtFiles, Saving
    <3> QED BY <1>3, <3>1, <3>2 DEF Sees, Saving, Good
  <2>4. (\A q \in Processes : proc'[q].pc # "backup") => y.pc # "backup"
    OBVIOUS
  <2> QED BY <1>3, <2>2, <2>3, <2>4 DEF Recoverable, Good
<1>5. CASE Open(p) /\ ~Good(state)
  <2>1. UNCHANGED <<state, bak, saves, recent>> /\ x.pc = "open"
    BY <1>5 DEF Open, Comes
  <2>2. (y.pc = "restore" /\ state = Absent) \/ y.pc = "quarantine"
    BY <1>1, <1>5, After DEF Was
  <2>3. Sees(p)'
    BY <1>5, <2>1, <2>2 DEF Sees, Saving, Good
  <2>4. Now
    BY <1>2, <1>5, <2>1, <2>3 DEF Good
  <2> QED BY <1>3, <2>2, <2>4
<1>6. CASE Quarantine(p)
  <2>1. /\ x.pc = "quarantine" /\ y.pc = "restore" /\ state' = Absent
        /\ UNCHANGED <<bak, saves, recent>>
    BY <1>1, <1>6, After DEF Quarantine, Was, observed
  <2>2. ~Good(state)
    BY <1>2, <2>1 DEF Sees
  <2>3. Now
    BY <1>1, <1>2, <2>1, <2>2 DEF Sees, Saving, Good
  <2> QED BY <1>3, <2>1, <2>3
<1>7. CASE Restore(p) /\ Good(bak)
  <2>1. /\ x.pc = "restore" /\ y.pc = "restoring" /\ y.copy = bak
        /\ state' = Torn /\ UNCHANGED <<bak, saves, recent>>
    BY <1>1, <1>7, After DEF Restore, Was, observed
  <2>2. ~Good(state)
    BY <1>1, <1>2, <2>1 DEF Sees, Good
  <2>3. Now
    BY <1>1, <1>2, <2>1, <2>2 DEF Sees, Saving, Good
  <2> QED BY <1>3, <2>1, <2>3
<1>8. CASE Restore(p) /\ ~Good(bak)
  <2>1. /\ x.pc = "restore" /\ y.pc = "save" /\ y.view = Absent
        /\ UNCHANGED <<state, bak, saves, recent>>
    BY <1>1, <1>8, After DEF Restore, Was, Carries, observed
  <2>2. saves = 0 /\ state = Absent
    BY <1>1, <1>2, <1>8, <2>1 DEF Sees
  <2>3. Now
    BY <1>1, <1>2, <1>8, <2>1, <2>2 DEF Sees, Saving, Good
  <2> QED BY <1>3, <2>1, <2>3
<1>9. CASE Restored(p)
  <2>1. /\ x.pc = "restoring" /\ state = Torn /\ x.copy = bak /\ Good(bak)
        /\ y.pc = "loaded" /\ y.view = bak
    BY <1>1, <1>2, <1>9, After DEF Restored, Was, Carries, Sees, Good
  <2>2. /\ state' = bak /\ UNCHANGED <<bak, saves>>
        /\ recent' = <<bak, bak>>
    BY <1>9, <2>1 DEF Restored
  <2>3. saves = 0 => bak = 0
    BY <1>2, <2>1
  <2>4. Now
    BY <1>1, <2>1, <2>2, <2>3 DEF Sees, Saving, Good
  <2> QED BY <1>2, <1>3, <2>1, <2>4
<1>10. CASE Change(p)
  <2>1. /\ x.pc = "loaded" /\ x.view \in Version
        /\ UNCHANGED <<state, bak, saves, recent>>
        /\ y.pc = "save" /\ y.view = x.view
    BY <1>1, <1>10, After DEF Change, Was, Carries, Comes
  <2>2. Now
    BY <1>1, <1>2, <2>1 DEF Sees, Saving, Good
  <2> QED BY <1>3, <2>1, <2>2
<1>11. CASE Backup(p) /\ state = Absent
  <2>1. /\ x.pc = "save" /\ UNCHANGED <<state, bak, saves, recent>>
        /\ y.pc = "replace" /\ y.view = x.view
    BY <1>1, <1>11, After DEF Backup, Was, observed
  <2>2. x.view = Absent
    BY <1>1, <1>2, <1>11, <2>1 DEF Sees, Saving, Good
  <2>3. Now
    BY <1>1, <1>2, <2>1, <2>2 DEF Sees, Saving, Good
  <2> QED BY <1>3, <2>1, <2>3
<1>12. CASE Backup(p) /\ state # Absent
  <2>1. /\ x.pc = "save" /\ UNCHANGED <<state, saves, recent>>
        /\ y.pc = "backup" /\ y.view = x.view /\ y.copy = state
        /\ bak' = Torn
    BY <1>1, <1>12, After DEF Backup, Was, observed
  <2>2. x.view # Absent /\ Good(state)
    BY <1>1, <1>2, <1>12, <2>1 DEF Sees, Saving
  <2>3. Now
    BY <1>1, <1>2, <2>1, <2>2 DEF Sees, Saving, Good
  <2> QED BY <1>3, <2>1, <2>3
<1>13. CASE BackedUp(p)
  <2>1. /\ x.pc = "backup" /\ UNCHANGED <<state, saves, recent>>
        /\ y.pc = "replace" /\ y.view = x.view
    BY <1>1, <1>13, After DEF BackedUp, Was, observed
  <2>2. /\ bak = Torn /\ x.copy = recent[1] /\ x.view # Absent /\ Good(state)
    BY <1>2, <2>1 DEF Sees, Saving
  <2>3. \A q \in Processes \ {p} : proc[q].pc # "backup"
    BY DEF Alone, AtFiles
  <2>4. bak' = recent[1]
    BY <1>13, <2>2, <2>3 DEF BackedUp
  <2>5. Now
    BY <1>1, <1>2, <2>1, <2>2, <2>4 DEF Sees, Saving, Good
  <2> QED BY <1>3, <2>1, <2>5
<1>14. CASE Replace(p) /\ x.view = Absent
  <2>1. /\ x.pc = "replace" /\ y.pc = "loaded" /\ y.view = 0
        /\ state' = 0 /\ UNCHANGED <<bak, saves>>
        /\ recent' = <<0, recent[1]>>
    BY <1>1, <1>14, After DEF Replace, Was
  <2>2. saves = 0 /\ recent[1] = 0 /\ ~Good(bak)
    BY <1>2, <1>14, <2>1 DEF Sees, Saving
  <2>3. Now
    BY <1>1, <2>1, <2>2 DEF Sees, Saving, Good, Version
  <2> QED BY <1>3, <2>1, <2>2, <2>3
<1>15. CASE Replace(p) /\ x.view # Absent
  <2>1. /\ x.pc = "replace" /\ y.pc = "idle" /\ state' = saves + 1
        /\ bak' = bak /\ saves' = saves + 1
        /\ recent' = <<saves + 1, recent[1]>>
    BY <1>1, <1>15, After DEF Replace, Was
  <2>2. bak = recent[1]
    BY <1>2, <1>15, <2>1 DEF Sees
  <2>3. Now
    BY <1>1, <2>1, <2>2 DEF Sees, Saving, Good, Version
  <2> QED BY <1>3, <2>1, <2>3
<1> QED BY <1>5, <1>6, <1>7, <1>8, <1>9, <1>10, <1>11, <1>12, <1>13, <1>14,
           <1>15

LEMMA CalmStep ==
    ASSUME IInv, NEW p \in Processes, StepOf(p), calm'
    PROVE  /\ Recoverable'
           /\ proc[p].pc # "loaded" /\ proc'[p].pc = "loaded"
              => proc'[p].view \in {recent[1], recent[2]}
<1>1. /\ Recoverable /\ ~Kill(p)
      /\ Change(p) => Alone(p)
      /\ Open(p) /\ ~Good(state) => Alone(p)
  BY CalmIs DEF IInv
<1>2. AtFiles(p) => Alone(p)
  BY <1>1 DEF Recoverable
<1>3. CASE Begin(p) \/ Done(p) \/ (Open(p) /\ Good(state))
  BY <1>1, <1>3, AwayStep
<1>4. CASE (Open(p) /\ ~Good(state)) \/ Change(p)
  BY <1>1, <1>4, FilesStep
<1>5. CASE \/ Quarantine(p) \/ Restore(p) \/ Restored(p) \/ Backup(p)
           \/ BackedUp(p) \/ Replace(p)
  <2>1. AtFiles(p)
    BY <1>5 DEF AtFiles, Quarantine, Restore, Restored, Backup, BackedUp,
                Replace
  <2> QED BY <1>1, <1>2, <1>5, <2>1, FilesStep
<1> QED BY <1>1, <1>3, <1>4, <1>5 DEF StepOf

-----------------------------------------------------------------------------
(* state.json is damaged while nobody uses it.                             *)

LEMMA DamageStep ==
    ASSUME IInv, Damage
    PROVE  IInv' /\ faults' # 0 /\ UNCHANGED proc
<1> USE DEF Damage, observed
<1>1. Typed' /\ faults' # 0
  BY StoreAssumption DEF IInv, Typed, Content
<1>2. calm' \in BOOLEAN
  BY DEF IInv
<1>3. (\A p \in Processes : Carries(p)') /\ Locked'
  BY DEF IInv, Carries, Locked
<1>4. ASSUME calm PROVE Recoverable'
  <2>1. \A p \in Processes : proc[p].pc = "idle"
    BY DEF Idle
  <2>2. Recoverable /\ ~Good(state')
    BY <1>4, ContentAssumption DEF IInv, Good, Version
  <2> QED BY <2>1, <2>2
             DEF Recoverable, Good, Sees, Saving, AtFiles, Alone
<1> QED BY <1>1, <1>2, <1>3, <1>4 DEF IInv

-----------------------------------------------------------------------------
LEMMA InvStep == IInv /\ [Next]_vars => IInv'
<1> SUFFICES ASSUME IInv, [Next]_vars PROVE IInv'
  OBVIOUS
<1>1. ASSUME NEW p \in Processes, StepOf(p) PROVE IInv'
  <2>1. Typed' /\ UNCHANGED faults /\ Locked'
    BY <1>1, FilesTyped, LockKept DEF IInv
  <2>2. \A q \in Processes : Carries(q)'
    BY <1>1, CarriedOn DEF IInv
  <2>3. calm' \in BOOLEAN /\ (calm' => Recoverable')
    BY <1>1, CalmIs, CalmStep DEF IInv
  <2>4. faults' = 0 => Whole'
    BY <1>1, <2>1, WholeSteps DEF IInv
  <2> QED BY <2>1, <2>2, <2>3, <2>4 DEF IInv
<1>2. ASSUME UNCHANGED vars PROVE IInv'
  BY <1>2 DEF vars, observed, IInv, Typed, Carries, Locked, Whole,
              Recoverable, Sees, Alone, AtFiles
<1> QED BY <1>1, <1>2, DamageStep DEF Next, StepOf

LEMMA InvHolds == Spec => []IInv
  BY InvInit, InvStep, PTL DEF Spec

LEMMA InvImplies == IInv => Survives
<1> SUFFICES ASSUME IInv PROVE Survives
  OBVIOUS
<1>1. TypeOK
  BY DEF IInv, Typed, Locked, Process, Pc, TypeOK
<1>2. ASSUME calm, saves > 0
      PROVE  \E f \in {state, bak} : f \in {recent[1], recent[2]}
  <2>1. CASE \A p \in Processes : proc[p].pc # "backup"
    BY <1>2, <2>1 DEF IInv, Recoverable
  <2>2. CASE \E p \in Processes : proc[p].pc = "backup"
    <3>1. PICK p \in Processes : proc[p].pc = "backup"
      BY <2>2
    <3>2. Good(state)
      BY <1>2, <3>1 DEF IInv, Recoverable, Sees, Saving
    <3> QED BY <1>2, <3>2 DEF IInv, Recoverable
  <2> QED BY <2>1, <2>2
<1> QED BY <1>1, <1>2 DEF Survives

\* However often state.json is damaged or deleted, by _recover_corrupt's
\* backup or by state.json itself one of the last two versions in force is
\* there, unless a process was killed or two were at the files together.
THEOREM SurvivesAlways == Spec => []Survives
  BY InvHolds, InvImplies, PTL

\* Then what load returns, with the lock or without, beside a writer too, is
\* one of those two.
THEOREM LoadsRecoverAlways == Spec => LoadsRecover
<1>1. ASSUME IInv, [Next]_vars
      PROVE  [\A p \in Processes :
                calm' /\ proc[p].pc # "loaded" /\ proc'[p].pc = "loaded"
                => proc'[p].view \in {recent[1], recent[2]}]_vars
  <2>1. ASSUME NEW p \in Processes, StepOf(p), calm',
               NEW q \in Processes,
               proc[q].pc # "loaded", proc'[q].pc = "loaded"
        PROVE  proc'[q].view \in {recent[1], recent[2]}
    <3>1. q = p
      BY <1>1, <2>1, After DEF IInv
    <3> QED BY <1>1, <2>1, <3>1, CalmStep
  <2>2. CASE \E p \in Processes : StepOf(p)
    BY <2>1, <2>2
  <2>3. CASE Damage
    BY <1>1, <2>3, DamageStep
  <2> QED BY <1>1, <2>2, <2>3 DEF Next, StepOf
<1> QED BY <1>1, InvHolds, PTL DEF Spec, LoadsRecover

LEMMA StoreInit == Init => Store!Init
<1> SUFFICES ASSUME Init PROVE Store!Init
  OBVIOUS
<1>1. Good(state) /\ state = 0 /\ author = None
  BY DEF Init, Good, Version
<1>2. [p \in Processes |-> proc[p].view] = [p \in Processes |-> Absent]
  BY DEF Init, Idle
<1> QED BY <1>1, <1>2 DEF Store!Init

\* Up to the first damage, kills at any step and the processes that use
\* state.json without the lock included, load and save implement the atomic
\* store: every step is a load, a commit or an end of AtomicStore, or is
\* invisible to it; and a commit that destroys an update has one side that did
\* not hold the lock.
THEOREM AtomicHolds == Spec => Atomic
<1>1. ASSUME IInv, IInv', [Next]_vars
      PROVE  [faults' = 0 => [Store!Next]_Store!vars]_vars
  <2>1. ASSUME NEW p \in Processes, StepOf(p), faults' = 0
        PROVE  [Store!Next]_Store!vars
    BY <1>1, <2>1, FilesTyped, Refines DEF IInv
  <2>2. CASE Damage
    BY <1>1, <2>2, DamageStep
  <2> QED BY <1>1, <2>1, <2>2 DEF Next, StepOf
<1> QED BY <1>1, InvHolds, StoreInit, PTL DEF Spec, Atomic
=============================================================================
