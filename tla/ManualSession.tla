---------------------------- MODULE ManualSession ----------------------------
(***************************************************************************)
(* The lock of one requirement and its manual sessions (scheduler.py, from *)
(* acquire_lock to _cleanup_stale_manual): manual-begin starts a detached  *)
(* holder that keeps the lock, manual-end terminates it, cron's poll ends  *)
(* the sessions of dead holders, scheduler runs compete for the lock.      *)
(*                                                                         *)
(* The lock is the kernel's flock on .loop/lock (`flock'), the pid written *)
(* into that file is `content', and .loop/manual.json is `session' (the    *)
(* pid it names) with its age (`idle').  None of the three is changed      *)
(* together with another one.                                              *)
(***************************************************************************)
EXTENDS Naturals

CONSTANTS
    None,
    Holders,    \* holder processes, one for each manual-begin
    Runs,       \* processes that take the lock to work: runs, poll's archiving
    Probes,     \* processes that call is_locked
    Person,     \* whoever calls manual-end, next and commit
    Poll,       \* cron's poll, which cleans sessions up
    MaxMoves    \* bound: steps of the person, and processes that are killed

ASSUME ProcessAssumption ==
    /\ None \notin Holders \cup Runs \cup Probes
    /\ Holders \cap (Runs \cup Probes) = {} /\ Runs \cap Probes = {}
    /\ Person # Poll
ASSUME BoundAssumption == MaxMoves \in Nat

Enders == {Person, Poll}

VARIABLES
    flock,    \* who holds the kernel's lock
    content,  \* the pid in .loop/lock, None if empty or 0
    session,  \* the pid in .loop/manual.json, None without the file
    idle,     \* has manual.json not been written for an hour?
    begin,    \* manual-begin of each holder
    holder,   \* manual-hold
    term,     \* the holders that have a SIGTERM to die of
    run,
    ender,    \* manual_end and _cleanup_stale_manual, with the pid they read
    step,     \* the person's next or commit, with the pid manual_step read
    moves

vars == <<flock, content, session, idle, begin, holder, term, run, ender, step,
          moves>>

Alive == {"acquire", "write", "grace", "hold", "release", "unlock"}
Owning == Alive \ {"acquire"}

TypeOK ==
    /\ flock \in Holders \cup Runs \cup Probes \cup {None}
    /\ content \in Holders \cup Runs \cup {None}
    /\ session \in Holders \cup {None}
    /\ idle \in BOOLEAN
    /\ begin \in [Holders -> {"new", "wait", "write", "over"}]
    /\ holder \in [Holders -> Alive \cup {"new", "dead"}]
    /\ term \subseteq Holders
    /\ run \in [Runs -> {"off", "write", "work", "unlock"}]
    /\ ender \in [Enders -> [pc : {"idle", "alive", "load", "compare", "kill",
                                   "wait", "unlink", "late", "sweep"},
                             pid : Holders \cup {None}]]
    /\ step \in [pc : {"none", "work", "save"},
                 pid : Holders \cup {None}]
    /\ moves \in 0..MaxMoves
    \* Whoever believes to hold the lock does.
    /\ \A h \in Holders : holder[h] \in Owning => flock = h
    /\ \A r \in Runs : run[r] # "off" => flock = r

Idle == [pc |-> "idle", pid |-> None]
NoStep == [pc |-> "none", pid |-> None]

Move == moves < MaxMoves /\ moves' = moves + 1

\* The kernel drops the lock of a process that is gone.
Dies(h) ==
    /\ holder' = [holder EXCEPT ![h] = "dead"]
    /\ flock' = IF flock = h THEN None ELSE flock
    /\ term' = term \ {h}

\* SIGTERM is sent; it does nothing to a process that is gone.
Signals(h) ==
    /\ term' = IF holder[h] \in Alive THEN term \cup {h} ELSE term
    /\ UNCHANGED <<holder, flock>>

-----------------------------------------------------------------------------
(* acquire_lock, release_lock, is_locked                                   *)

Available == flock = None

\* Mutant of Refused: it releases the lock it did not get.
RefusedReleasing(h) == Dies(h) /\ content' = None
Refused(h) == Dies(h) /\ UNCHANGED content

HolderAcquires(h) ==
    /\ holder[h] = "acquire"
    /\ \/ /\ Available
          /\ flock' = h /\ holder' = [holder EXCEPT ![h] = "write"]
          /\ UNCHANGED <<content, term>>
       \/ ~Available /\ Refused(h)
    /\ UNCHANGED <<session, idle, begin, run, ender, step, moves>>

HolderWritesPid(h) ==
    /\ holder[h] = "write"
    /\ content' = h
    /\ holder' = [holder EXCEPT ![h] = "grace"]
    /\ UNCHANGED <<flock, session, idle, begin, term, run, ender, step, moves>>

\* release_lock writes "0" while it still holds the lock, then unlocks.
HolderBlanks(h) ==
    /\ holder[h] = "release"
    /\ content' = None
    /\ holder' = [holder EXCEPT ![h] = "unlock"]
    /\ UNCHANGED <<flock, session, idle, begin, term, run, ender, step, moves>>

HolderUnlocks(h) ==
    /\ holder[h] = "unlock"
    /\ Dies(h)
    /\ UNCHANGED <<content, session, idle, begin, run, ender, step, moves>>

\* The signal arrives, whatever the holder is at; it leaves its pid behind.
HolderTerminated(h) ==
    /\ h \in term
    /\ Dies(h)
    /\ UNCHANGED <<content, session, idle, begin, run, ender, step, moves>>

RunAcquires(r) ==
    /\ run[r] = "off" /\ Available
    /\ flock' = r
    /\ run' = [run EXCEPT ![r] = "write"]
    /\ UNCHANGED <<content, session, idle, begin, holder, term, ender, step,
                   moves>>

RunWritesPid(r) ==
    /\ run[r] = "write"
    /\ content' = r
    /\ run' = [run EXCEPT ![r] = "work"]
    /\ UNCHANGED <<flock, session, idle, begin, holder, term, ender, step,
                   moves>>

RunBlanks(r) ==
    /\ run[r] = "work"
    /\ content' = None
    /\ run' = [run EXCEPT ![r] = "unlock"]
    /\ UNCHANGED <<flock, session, idle, begin, holder, term, ender, step,
                   moves>>

RunUnlocks(r) ==
    /\ run[r] = "unlock"
    /\ flock' = None
    /\ run' = [run EXCEPT ![r] = "off"]
    /\ UNCHANGED <<content, session, idle, begin, holder, term, ender, step,
                   moves>>

\* is_locked takes the lock for a moment if it is free; whoever tries it then
\* is refused.
ProbeTakes(q) ==
    /\ Available
    /\ flock' = q
    /\ UNCHANGED <<content, session, idle, begin, holder, term, run, ender,
                   step, moves>>

ProbeDrops(q) ==
    /\ flock = q
    /\ flock' = None
    /\ UNCHANGED <<content, session, idle, begin, holder, term, run, ender,
                   step, moves>>

-----------------------------------------------------------------------------
(* manual_begin and manual_hold                                            *)

StartBegin(h) ==
    /\ begin[h] = "new"
    /\ begin' = [begin EXCEPT ![h] = "wait"]
    /\ holder' = [holder EXCEPT ![h] = "acquire"]
    /\ UNCHANGED <<flock, content, session, idle, term, run, ender, step,
                   moves>>

BeginSeesPid(h) ==
    /\ begin[h] = "wait" /\ content = h
    /\ begin' = [begin EXCEPT ![h] = "write"]
    /\ UNCHANGED <<flock, content, session, idle, holder, term, run, ender,
                   step, moves>>

BeginSeesDeath(h) ==
    /\ begin[h] = "wait" /\ holder[h] = "dead"
    /\ begin' = [begin EXCEPT ![h] = "over"]
    /\ UNCHANGED <<flock, content, session, idle, holder, term, run, ender,
                   step, moves>>

\* After ten seconds without the holder's pid in the file, or because
\* manual.json cannot be written.
BeginGivesUp(h) ==
    /\ begin[h] \in {"wait", "write"}
    /\ begin' = [begin EXCEPT ![h] = "over"]
    /\ Signals(h)
    /\ UNCHANGED <<content, session, idle, run, ender, step, moves>>

BeginWrites(h) ==
    /\ begin[h] = "write"
    /\ session' = h /\ idle' = FALSE
    /\ begin' = [begin EXCEPT ![h] = "over"]
    /\ UNCHANGED <<flock, content, holder, term, run, ender, step, moves>>

\* The person's shell is closed; the holder is in a session of its own.
BeginDies(h) ==
    /\ begin[h] \in {"wait", "write"}
    /\ Move
    /\ begin' = [begin EXCEPT ![h] = "over"]
    /\ UNCHANGED <<flock, content, session, idle, holder, term, run, ender,
                   step>>

\* Ten seconds after it took the lock, and every five seconds from then on,
\* the holder looks at the session file, which manual_begin may still be about
\* to write.
GraceOver(h) ==
    /\ holder[h] = "grace"
    /\ holder' = [holder EXCEPT ![h] = "hold"]
    /\ UNCHANGED <<flock, content, session, idle, begin, term, run, ender,
                   step, moves>>

\* Mutant of Expired: a holder without a session file stays.
ExpiredByAge == session # None /\ idle
Expired == session = None \/ idle

HolderExpires(h) ==
    /\ holder[h] = "hold" /\ Expired
    /\ holder' = [holder EXCEPT ![h] = "release"]
    /\ UNCHANGED <<flock, content, session, idle, begin, term, run, ender,
                   step, moves>>

AnHourPasses ==
    /\ session # None /\ ~idle
    /\ idle' = TRUE
    /\ UNCHANGED <<flock, content, session, begin, holder, term, run, ender,
                   step, moves>>

-----------------------------------------------------------------------------
(* manual_end; called by the person, and by _cleanup_stale_manual          *)

Goes(e, pc) == ender' = [ender EXCEPT ![e].pc = pc]
\* manual_end returns False: the poll then removes the file.
Fails(e) ==
    ender' = [ender EXCEPT ![e] =
                [Idle EXCEPT !.pc = IF e = Poll THEN "sweep" ELSE "idle"]]

StartEnd ==
    /\ ender[Person] = Idle
    /\ Goes(Person, "load")
    /\ UNCHANGED <<flock, content, session, idle, begin, holder, term, run,
                   step, moves>>

EndLoads(e) ==
    /\ ender[e].pc = "load"
    /\ IF session = None THEN Fails(e)
       ELSE ender' = [ender EXCEPT ![e] = [pc |-> "compare", pid |-> session]]
    /\ UNCHANGED <<flock, content, session, idle, begin, holder, term, run,
                   step, moves>>

EndCompares(e) ==
    /\ ender[e].pc = "compare"
    /\ IF content = ender[e].pid THEN Goes(e, "kill") ELSE Fails(e)
    /\ UNCHANGED <<flock, content, session, idle, begin, holder, term, run,
                   step, moves>>

\* The signal is sent; the holder dies of it when it dies.
EndKills(e) ==
    /\ ender[e].pc = "kill"
    /\ Signals(ender[e].pid)
    /\ Goes(e, "wait")
    /\ UNCHANGED <<content, session, idle, begin, run, step, moves>>

\* Mutant of SeenFree: the wait trusts the pid in the file.
SeenUnnamed(e) == content # ender[e].pid
SeenFree(e) == Available

EndSeesFree(e) ==
    /\ ender[e].pc = "wait" /\ SeenFree(e)
    /\ Goes(e, "unlink")
    /\ UNCHANGED <<flock, content, session, idle, begin, holder, term, run,
                   step, moves>>

\* Five seconds are over: the holder still lives, or the lock has a new one.
EndTimesOut(e) ==
    /\ ender[e].pc = "wait"
    /\ Goes(e, "late")
    /\ UNCHANGED <<flock, content, session, idle, begin, holder, term, run,
                   step, moves>>

\* Whoever removes the file records the run; another one finds none.
EndUnlinks(e) ==
    /\ ender[e].pc \in {"unlink", "late"}
    /\ IF session = None THEN Fails(e) /\ UNCHANGED <<session, idle>>
       ELSE /\ session' = None /\ idle' = FALSE
            /\ ender' = [ender EXCEPT ![e] = Idle]
    /\ UNCHANGED <<flock, content, begin, holder, term, run, step, moves>>

CleanUp ==
    /\ ender[Poll].pc = "idle" /\ session # None
    /\ ender' = [ender EXCEPT ![Poll] = [pc |-> "alive", pid |-> session]]
    /\ UNCHANGED <<flock, content, session, idle, begin, holder, term, run,
                   step, moves>>

CleanUpChecks ==
    /\ ender[Poll].pc = "alive"
    /\ IF holder[ender[Poll].pid] \in Alive
       THEN ender' = [ender EXCEPT ![Poll] = Idle]
       ELSE ender' = [ender EXCEPT ![Poll] = [Idle EXCEPT !.pc = "load"]]
    /\ UNCHANGED <<flock, content, session, idle, begin, holder, term, run,
                   step, moves>>

\* Mutant of Swept: what manual_end refused to remove stays.
SweptNever == UNCHANGED <<session, idle>>
Swept == session' = None /\ idle' = FALSE

CleanUpSweeps ==
    /\ ender[Poll].pc = "sweep"
    /\ Swept
    /\ ender' = [ender EXCEPT ![Poll] = Idle]
    /\ UNCHANGED <<flock, content, begin, holder, term, run, step, moves>>

-----------------------------------------------------------------------------
(* The person drives the loop: next and commit.                            *)

\* _require_lock asks whether anybody holds the lock.
StepStarts ==
    /\ step = NoStep
    /\ flock # None
    /\ Move
    /\ step' = [NoStep EXCEPT !.pc = "work"]
    /\ UNCHANGED <<flock, content, session, idle, begin, holder, term, run,
                   ender>>

\* next counts nothing; neither does a commit that fails.
StepOver ==
    /\ step.pc = "work"
    /\ step' = NoStep
    /\ UNCHANGED <<flock, content, session, idle, begin, holder, term, run,
                   ender, moves>>

CommitCounts ==
    /\ step.pc = "work" /\ session # None
    /\ step' = [pc |-> "save", pid |-> session]
    /\ UNCHANGED <<flock, content, session, idle, begin, holder, term, run,
                   ender, moves>>

\* manual_step writes back what it has read, whatever is there by now.
CommitSaves ==
    /\ step.pc = "save"
    /\ session' = step.pid /\ idle' = FALSE
    /\ step' = NoStep
    /\ UNCHANGED <<flock, content, begin, holder, term, run, ender, moves>>

-----------------------------------------------------------------------------
(* kill -9, OOM: the pid stays in the file.                                *)

KillHolder(h) ==
    /\ holder[h] \in Alive
    /\ Move /\ Dies(h)
    /\ UNCHANGED <<content, session, idle, begin, run, ender, step>>

KillRun(r) ==
    /\ run[r] # "off"
    /\ Move
    /\ flock' = None
    /\ run' = [run EXCEPT ![r] = "off"]
    /\ UNCHANGED <<content, session, idle, begin, holder, term, ender, step>>

Init ==
    /\ flock = None /\ content = None /\ session = None /\ idle = FALSE
    /\ begin = [h \in Holders |-> "new"]
    /\ holder = [h \in Holders |-> "new"]
    /\ run = [r \in Runs |-> "off"]
    /\ ender = [e \in Enders |-> Idle]
    /\ term = {} /\ step = NoStep /\ moves = 0

HolderNext(h) ==
    \/ HolderAcquires(h) \/ HolderWritesPid(h) \/ GraceOver(h)
    \/ HolderExpires(h) \/ HolderBlanks(h) \/ HolderUnlocks(h)
    \/ HolderTerminated(h)
BeginNext(h) ==
    BeginSeesPid(h) \/ BeginSeesDeath(h) \/ BeginGivesUp(h) \/ BeginWrites(h)
EndNext(e) ==
    \/ EndLoads(e) \/ EndCompares(e) \/ EndKills(e)
    \/ EndSeesFree(e) \/ EndTimesOut(e) \/ EndUnlinks(e)
CleanUpNext == CleanUp \/ CleanUpChecks \/ CleanUpSweeps
RunNext(r) == RunWritesPid(r) \/ RunBlanks(r) \/ RunUnlocks(r)
StepNext == StepOver \/ CommitCounts \/ CommitSaves

Next ==
    \/ \E h \in Holders : \/ StartBegin(h) \/ BeginNext(h) \/ HolderNext(h)
                          \/ BeginDies(h) \/ KillHolder(h)
    \/ \E r \in Runs : RunAcquires(r) \/ RunNext(r) \/ KillRun(r)
    \/ \E q \in Probes : ProbeTakes(q) \/ ProbeDrops(q)
    \/ \E e \in Enders : EndNext(e)
    \/ StartEnd \/ CleanUpNext \/ StepStarts \/ StepNext \/ AnHourPasses

Spec == Init /\ [][Next]_vars

\* Processes proceed, steps end (on their timeouts at the latest), cron polls,
\* time passes.  Nobody is obliged to call manual-end.
Fairness ==
    /\ \A h \in Holders : WF_vars(HolderNext(h)) /\ WF_vars(BeginNext(h))
    /\ \A r \in Runs : WF_vars(RunNext(r))
    /\ \A q \in Probes : WF_vars(ProbeDrops(q))
    /\ \A e \in Enders : WF_vars(EndNext(e))
    /\ WF_vars(CleanUpNext) /\ WF_vars(StepNext) /\ WF_vars(AnHourPasses)

FairSpec == Spec /\ Fairness

-----------------------------------------------------------------------------
(* Properties.                                                             *)

\* manual_end decides by the pid in .loop/lock whom it may terminate: if the
\* process that is named there still works, it is the one that has the lock,
\* and a working holder is named, so that its session can be ended; and every
\* state is well typed.
LockNamesHolder ==
    /\ TypeOK
    /\ \A h \in Holders :
        /\ holder[h] \in {"grace", "hold", "release"} => content = h
        /\ content = h => holder[h] \in Owning \cup {"dead"}
    /\ \A r \in Runs : run[r] = "work" => content = r

\* manual_end signals a pid that it has compared and then only watches the
\* lock.  If it saw the lock free within its five seconds, the holder of the
\* session it ends is gone, and nothing of it can act any more; only a wait
\* that ran out may unlink the session of a holder that is still dying.
EndedHolderGone ==
    \A e \in Enders :
        ender[e].pc = "unlink" => holder[ender[e].pid] = "dead"

\* No holder stays for ever, whoever was killed, gave up or walked away: the
\* lock is free for the scheduler again (manual_hold's grace and idle limits).
HoldersExpire == \A h \in Holders : (holder[h] \in Alive) ~> holder[h] = "dead"

\* No session file stays for ever either, not even one that a late commit or
\* a late manual-begin has written.
SessionsSwept == (session # None) ~> (session = None)

=============================================================================
