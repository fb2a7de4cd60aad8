------------------------- MODULE ManualSessionProofs -------------------------
(* Theorems about ManualSession, for any holders, runs and probes: the pid *)
(* in .loop/lock names the process that works under the lock, and a        *)
(* session whose lock was seen free at its end has no holder.              *)
EXTENDS ManualSession, TLAPS

-----------------------------------------------------------------------------
(* The inductive invariant.                                                *)

\* The flock is where its owners believe it is.
Owned ==
    /\ flock \in Holders \cup Runs \cup Probes \cup {None}
    /\ holder \in [Holders -> Alive \cup {"new", "dead"}]
    /\ run \in [Runs -> {"off", "write", "work", "unlock"}]
    /\ \A h \in Holders : holder[h] \in Owning => flock = h
    /\ \A r \in Runs : run[r] # "off" => flock = r

\* .loop/lock names whoever works under the lock, and no holder that waits.
Named ==
    /\ content \in Holders \cup Runs \cup {None}
    /\ \A h \in Holders :
        /\ holder[h] \in {"grace", "hold", "release"} => content = h
        /\ content = h => holder[h] \in Owning \cup {"dead"}
    /\ \A r \in Runs : run[r] = "work" => content = r

\* A holder is started once: one that is dead does not come back.
Started ==
    /\ begin \in [Holders -> {"new", "wait", "write", "over"}]
    /\ \A h \in Holders :
        begin[h] = "new" => holder[h] = "new" /\ h \notin term

LockInv == Owned /\ Named /\ Started

Files ==
    /\ session \in Holders \cup {None}
    /\ idle \in BOOLEAN
    /\ step \in [pc : {"none", "work", "save"}, pid : Holders \cup {None}]
    /\ term \subseteq Holders
    /\ moves \in 0..MaxMoves

EnderState == [pc : {"idle", "alive", "load", "compare", "kill", "wait",
                     "unlink", "late", "sweep"},
               pid : Holders \cup {None}]

\* Whoever compares, kills or waits has the pid of a session.
Aimed ==
    /\ ender \in [Enders -> EnderState]
    /\ \A e \in Enders :
        ender[e].pc \in {"compare", "kill", "wait", "unlink", "late"}
            => ender[e].pid \in Holders

\* Whatever pid is in a session file, or was read from one, is that of a
\* holder that some manual-begin has started.
Begun ==
    \A h \in Holders :
        \/ h = session \/ h = step.pid \/ \E e \in Enders : ender[e].pid = h
        => begin[h] # "new"

\* A holder that once had the lock has it, or is gone.
Had(h) == holder[h] \in Owning \cup {"dead"}

\* The pid that was compared is that of such a holder: whoever waits for the
\* lock waits for it.
Compared ==
    \A e \in Enders : ender[e].pc \in {"kill", "wait"} => Had(ender[e].pid)

IInv == LockInv /\ Files /\ Aimed /\ Begun /\ Compared /\ EndedHolderGone

LEMMA TypeIs == IInv => TypeOK
  BY DEF IInv, LockInv, Owned, Named, Started, Files, Aimed, EnderState, TypeOK

LEMMA InvImplies == IInv => LockNamesHolder /\ EndedHolderGone
  BY TypeIs DEF IInv, LockInv, Named, LockNamesHolder

LEMMA InvInit == Init => IInv
<1> SUFFICES ASSUME Init PROVE IInv
  OBVIOUS
<1>1. LockInv
  BY ProcessAssumption
     DEF Init, LockInv, Owned, Named, Started, Alive, Owning
<1>2. idle \in BOOLEAN
  BY DEF Init
<1>3. Files
  BY <1>2, BoundAssumption DEF Init, Files, NoStep
<1>4. Aimed /\ Compared /\ EndedHolderGone
  BY DEF Init, Aimed, EnderState, Compared, EndedHolderGone, Idle
<1>5. Begun
  BY ProcessAssumption DEF Init, Begun, NoStep, Idle
<1> QED BY <1>1, <1>3, <1>4, <1>5 DEF IInv

-----------------------------------------------------------------------------
(* The lock.                                                               *)

\* A holder that is gone stays so, and one that has the lock keeps it until
\* it is gone.
Onward ==
    \A g \in Holders : /\ holder[g] = "dead" => holder'[g] = "dead"
                       /\ Had(g) => Had(g)'

\* A process that is gone has no lock, and whoever else has it keeps it.
LEMMA DiesKeeps ==
    ASSUME LockInv, NEW h \in Holders, Dies(h), begin[h] # "new",
           UNCHANGED <<run, content>>,
           begin' \in [Holders -> {"new", "wait", "write", "over"}],
           \A g \in Holders : begin'[g] = "new" => begin[g] = "new"
    PROVE  LockInv' /\ Onward
<1> USE ProcessAssumption DEF LockInv
<1>1. /\ holder'[h] = "dead"
      /\ \A g \in Holders : g # h => holder'[g] = holder[g]
      /\ holder' \in [Holders -> Alive \cup {"new", "dead"}]
  BY DEF Dies, Owned
<1>2. Owned'
  BY <1>1 DEF Dies, Owned, Owning, Alive
<1>3. Named'
  BY <1>1 DEF Named, Owning, Alive
<1>4. Started'
  BY <1>1 DEF Started, Dies
<1>5. Onward
  BY <1>1 DEF Onward, Had, Owning, Alive
<1> QED BY <1>2, <1>3, <1>4, <1>5

\* What touches neither the lock nor its processes; a signal that is sent
\* does not either.
LEMMA LockStays ==
    ASSUME LockInv, UNCHANGED <<flock, content, holder, run>>,
           begin' \in [Holders -> {"new", "wait", "write", "over"}],
           \A g \in Holders : begin'[g] = "new" => begin[g] = "new",
           term' = term \/ \E h \in Holders : Signals(h)
    PROVE  LockInv' /\ Onward
<1>1. \A g \in Holders : begin[g] = "new" => g \notin term'
  <2>1. CASE term' = term
    BY <2>1 DEF LockInv, Started
  <2>2. CASE \E h \in Holders : Signals(h)
    BY <2>2 DEF LockInv, Started, Signals, Alive
  <2> QED BY <2>1, <2>2
<1>2. Owned' /\ Named'
  BY DEF LockInv, Owned, Named
<1>3. Started'
  BY <1>1 DEF LockInv, Started
<1>4. Onward
  BY DEF Onward, Had
<1> QED BY <1>2, <1>3, <1>4 DEF LockInv

LEMMA HolderLocks ==
    ASSUME LockInv, NEW h \in Holders, HolderNext(h) \/ KillHolder(h)
    PROVE  LockInv' /\ Onward
<1> USE ProcessAssumption DEF LockInv
<1>0. begin[h] # "new"
  BY DEF HolderNext, KillHolder, HolderAcquires, HolderWritesPid, GraceOver,
         HolderExpires, HolderBlanks, HolderUnlocks, HolderTerminated, Started,
         Alive
<1>1. ASSUME HolderAcquires(h) PROVE LockInv'
  <2>1. CASE Available /\ flock' = h /\ holder' = [holder EXCEPT ![h] = "write"]
             /\ UNCHANGED <<content, term>>
    <3>1. Owned'
      BY <1>1, <2>1 DEF HolderAcquires, Available, Owned, Owning, Alive
    <3>2. Named' /\ Started'
      BY <1>1, <2>1 DEF HolderAcquires, Owned, Named, Started, Owning, Alive
    <3> QED BY <3>1, <3>2
  <2>2. CASE Refused(h)
    BY <1>0, <1>1, <2>2, DiesKeeps DEF HolderAcquires, Refused, Started
  <2> QED BY <1>1, <2>1, <2>2 DEF HolderAcquires
<1>2. ASSUME HolderWritesPid(h) \/ HolderBlanks(h) PROVE LockInv'
  <2>1. flock = h /\ \A r \in Runs : run[r] = "off"
    BY <1>2 DEF HolderWritesPid, HolderBlanks, Owned, Owning, Alive
  <2>2. Owned'
    BY <1>2, <2>1 DEF HolderWritesPid, HolderBlanks, Owned, Owning, Alive
  <2>3. Named' /\ Started'
    BY <1>2, <2>1 DEF HolderWritesPid, HolderBlanks, Owned, Named, Started, Owning, Alive
  <2> QED BY <2>2, <2>3
<1>3. ASSUME GraceOver(h) \/ HolderExpires(h) PROVE LockInv'
  BY <1>3 DEF GraceOver, HolderExpires, Owned, Named, Started, Owning, Alive
<1>4. ASSUME HolderUnlocks(h) \/ HolderTerminated(h) \/ KillHolder(h)
      PROVE  LockInv'
  BY <1>0, <1>4, DiesKeeps
     DEF HolderUnlocks, HolderTerminated, KillHolder, Started
<1>5. Onward
  <2>1. \A g \in Holders : g # h => holder'[g] = holder[g]
    BY DEF HolderNext, KillHolder, HolderAcquires, HolderWritesPid, GraceOver,
           HolderExpires, HolderBlanks, HolderUnlocks, HolderTerminated,
           Refused, Dies, Owned
  <2>2. \/ holder'[h] \in Owning \cup {"dead"} /\ holder[h] # "dead"
        \/ holder'[h] = "dead"
    BY DEF HolderNext, KillHolder, HolderAcquires, HolderWritesPid, GraceOver,
           HolderExpires, HolderBlanks, HolderUnlocks, HolderTerminated,
           Refused, Dies, Owned, Owning, Alive
  <2> QED BY <2>1, <2>2 DEF Onward, Had
<1> QED BY <1>1, <1>2, <1>3, <1>4, <1>5 DEF HolderNext

LEMMA BeginLocks ==
    ASSUME LockInv, NEW h \in Holders,
           StartBegin(h) \/ BeginNext(h) \/ BeginDies(h)
    PROVE  LockInv' /\ Onward
<1> USE ProcessAssumption DEF LockInv
<1>1. ASSUME StartBegin(h) PROVE LockInv'
  BY <1>1 DEF StartBegin, Owned, Named, Started, Owning, Alive
<1>2. ASSUME BeginSeesPid(h) \/ BeginSeesDeath(h) \/ BeginWrites(h) \/ BeginDies(h)
      PROVE  LockInv'
  <2>1. /\ begin' \in [Holders -> {"new", "wait", "write", "over"}]
        /\ \A g \in Holders : begin'[g] = "new" => begin[g] = "new"
    BY <1>2 DEF BeginSeesPid, BeginSeesDeath, BeginWrites, BeginDies, Started
  <2> QED BY <1>2, <2>1, LockStays
             DEF BeginSeesPid, BeginSeesDeath, BeginWrites, BeginDies
<1>3. ASSUME BeginGivesUp(h) PROVE LockInv'
  <2>1. /\ begin' \in [Holders -> {"new", "wait", "write", "over"}]
        /\ \A g \in Holders : begin'[g] = "new" => begin[g] = "new"
    BY <1>3 DEF BeginGivesUp, Started
  <2> QED BY <1>3, <2>1, LockStays DEF BeginGivesUp, Signals
<1>4. Onward
  BY DEF StartBegin, BeginNext, BeginDies, BeginSeesPid, BeginSeesDeath,
         BeginGivesUp, BeginWrites, Signals, Owned, Started, Onward, Had,
         Owning, Alive
<1> QED BY <1>1, <1>2, <1>3, <1>4 DEF BeginNext

LEMMA RunLocks ==
    ASSUME LockInv, NEW r \in Runs, RunAcquires(r) \/ RunNext(r) \/ KillRun(r)
    PROVE  LockInv'
<1> USE ProcessAssumption DEF LockInv
<1>1. UNCHANGED <<holder, begin, term>>
  BY DEF RunAcquires, RunNext, RunWritesPid, RunBlanks, RunUnlocks, KillRun
<1>2. flock = None \/ flock = r
  BY DEF RunAcquires, Available, RunNext, RunWritesPid, RunBlanks, RunUnlocks,
         KillRun, Owned
<1>3. \A h \in Holders : holder[h] \notin Owning
  BY <1>2 DEF Owned
<1>4. \A q \in Runs : q # r => run[q] = "off" /\ run'[q] = "off"
  BY <1>2 DEF RunAcquires, RunNext, RunWritesPid, RunBlanks, RunUnlocks, KillRun, Owned
<1>5. Owned'
  BY <1>1, <1>3, <1>4
     DEF RunAcquires, RunNext, RunWritesPid, RunBlanks, RunUnlocks, KillRun, Owned
<1>6. Named'
  BY <1>1, <1>3, <1>4
     DEF RunAcquires, RunNext, RunWritesPid, RunBlanks, RunUnlocks, KillRun,
         Owned, Named, Owning, Alive
<1> QED BY <1>1, <1>5, <1>6 DEF Started

LEMMA ProbeLocks ==
    ASSUME LockInv, NEW q \in Probes, ProbeTakes(q) \/ ProbeDrops(q)
    PROVE  LockInv'
  BY ProcessAssumption
     DEF ProbeTakes, ProbeDrops, Available, LockInv, Owned, Named, Started

-----------------------------------------------------------------------------
(* Who ends a session.                                                     *)

\* manual_end and _cleanup_stale_manual kill only the pid they compared, and
\* report no session as ended whose holder they did not kill.
LEMMA EndAims ==
    ASSUME IInv, NEW e \in Enders, EndNext(e)
    PROVE  Aimed' /\ Begun'
<1> USE ProcessAssumption DEF Enders
<1>1. UNCHANGED <<begin, step>> /\ (session' = session \/ session' = None)
  BY DEF EndNext, EndLoads, EndCompares, EndKills, EndSeesFree, EndTimesOut,
         EndUnlinks
<1>2. /\ \A d \in Enders : d # e => ender'[d] = ender[d]
      /\ ender'[e].pid \in {ender[e].pid, session, None}
  BY DEF EndNext, EndLoads, EndCompares, EndKills, EndSeesFree, EndTimesOut,
         EndUnlinks,
         Fails, Goes, Idle, IInv, Aimed, EnderState
<1>3. ender' \in [Enders -> EnderState]
  BY DEF EndNext, EndLoads, EndCompares, EndKills, EndSeesFree, EndTimesOut,
         EndUnlinks,
         Fails, Goes, Idle, IInv, Aimed, EnderState, Files
<1>4. ender'[e].pc \in {"compare", "kill", "wait", "unlink", "late"}
      => ender'[e].pid \in Holders
  BY DEF EndNext, EndLoads, EndCompares, EndKills, EndSeesFree, EndTimesOut,
         EndUnlinks,
         Fails, Goes, Idle, IInv, Aimed, EnderState, Files
<1>5. Aimed'
  BY <1>2, <1>3, <1>4 DEF IInv, Aimed
<1>6. Begun'
  BY <1>1, <1>2 DEF IInv, Begun
<1> QED BY <1>5, <1>6

LEMMA EndLocks ==
    ASSUME IInv, NEW e \in Enders, EndNext(e)
    PROVE  LockInv' /\ Onward
<1>1. UNCHANGED <<flock, content, begin, holder, run>>
  BY DEF EndNext, EndLoads, EndCompares, EndKills, EndSeesFree, EndTimesOut,
         EndUnlinks, Signals
<1>2. term' = term \/ \E h \in Holders : Signals(h)
  BY DEF EndNext, EndLoads, EndCompares, EndKills, EndSeesFree, EndTimesOut,
         EndUnlinks, IInv, Aimed
<1> QED BY <1>1, <1>2, LockStays DEF IInv, LockInv, Started

\* A holder whose pid is in .loop/lock once had the lock; when the lock is free
\* it has it no more.
LEMMA EndEnds ==
    ASSUME IInv, NEW e \in Enders, EndNext(e)
    PROVE  Compared' /\ EndedHolderGone'
<1>1. UNCHANGED holder
  BY DEF EndNext, EndLoads, EndCompares, EndKills, EndSeesFree, EndTimesOut,
         EndUnlinks, Signals
<1>2. \A d \in Enders : d # e => ender'[d] = ender[d]
  BY DEF EndNext, EndLoads, EndCompares, EndKills, EndSeesFree, EndTimesOut,
         EndUnlinks, Fails, Goes, IInv, Aimed
<1>3. ASSUME ender'[e].pc = "kill" PROVE Had(ender'[e].pid)
  <2>1. /\ ender[e].pc = "compare" /\ content = ender[e].pid
        /\ ender'[e].pid = ender[e].pid
    BY <1>3 DEF EndNext, EndLoads, EndCompares, EndKills, EndSeesFree,
                EndTimesOut, EndUnlinks, Fails, Goes, Idle, IInv, Aimed,
                EnderState
  <2> QED BY <2>1 DEF IInv, Aimed, LockInv, Named, Had
<1>4. ASSUME ender'[e].pc = "wait" PROVE Had(ender'[e].pid)
  <2>1. ender[e].pc = "kill" /\ ender'[e].pid = ender[e].pid
    BY <1>4 DEF EndNext, EndLoads, EndCompares, EndKills, EndSeesFree,
                EndTimesOut, EndUnlinks, Fails, Goes, Idle, IInv, Aimed,
                EnderState
  <2> QED BY <2>1 DEF IInv, Compared
<1>5. ASSUME ender'[e].pc = "unlink" PROVE holder[ender'[e].pid] = "dead"
  <2>1. ender[e].pc = "wait" /\ ender'[e].pid = ender[e].pid /\ flock = None
    BY <1>5 DEF EndNext, EndLoads, EndCompares, EndKills, EndSeesFree,
                EndTimesOut, EndUnlinks, Fails, Goes, Idle, IInv, Aimed,
                EnderState, SeenFree, Available
  <2>2. Had(ender[e].pid) /\ ender[e].pid \in Holders
    BY <2>1 DEF IInv, Compared, Aimed
  <2> QED BY <2>1, <2>2, ProcessAssumption DEF IInv, LockInv, Owned, Had
<1>6. Compared'
  BY <1>1, <1>2, <1>3, <1>4 DEF IInv, Compared, Had
<1>7. EndedHolderGone'
  BY <1>1, <1>2, <1>5 DEF IInv, EndedHolderGone
<1> QED BY <1>6, <1>7

\* cron's poll starts from the session file; the person from nothing.
LEMMA CleanUpAims ==
    ASSUME IInv, CleanUpNext \/ StartEnd
    PROVE  Aimed' /\ Begun' /\ Compared' /\ EndedHolderGone' /\ LockInv'
<1> USE DEF Enders
<1>1. /\ UNCHANGED <<flock, content, begin, holder, term, run, step>>
      /\ session' = session \/ session' = None
  BY DEF CleanUpNext, CleanUp, CleanUpChecks, CleanUpSweeps, Swept, StartEnd
<1>2. \A e \in Enders :
        /\ ender'[e].pid \in {ender[e].pid, session, None}
        /\ \/ ender'[e] = ender[e]
           \/ ender'[e].pc \in {"idle", "alive", "load"}
  BY DEF CleanUpNext, CleanUp, CleanUpChecks, CleanUpSweeps, Swept, StartEnd,
         Goes, Idle, IInv, Aimed, EnderState
<1>3. ender' \in [Enders -> EnderState]
  BY DEF CleanUpNext, CleanUp, CleanUpChecks, CleanUpSweeps, Swept, StartEnd,
         Goes, Idle, IInv, Aimed, EnderState, Files
<1>4. LockInv'
  BY <1>1, LockStays DEF IInv, LockInv, Started
<1>5. Aimed'
  BY <1>2, <1>3 DEF IInv, Aimed
<1>6. Begun'
  BY <1>1, <1>2, ProcessAssumption DEF IInv, Begun
<1>7. Compared' /\ EndedHolderGone'
  BY <1>1, <1>2 DEF IInv, Compared, EndedHolderGone, Had
<1> QED BY <1>4, <1>5, <1>6, <1>7

-----------------------------------------------------------------------------
(* The files.                                                              *)

\* What the other processes and the person's steps do to the session file.
LEMMA OtherAims ==
    ASSUME IInv,
           \/ \E h \in Holders : \/ StartBegin(h) \/ BeginNext(h)
                                \/ HolderNext(h) \/ BeginDies(h)
                                \/ KillHolder(h)
           \/ \E r \in Runs : RunAcquires(r) \/ RunNext(r) \/ KillRun(r)
           \/ \E q \in Probes : ProbeTakes(q) \/ ProbeDrops(q)
           \/ StepStarts \/ StepNext \/ AnHourPasses
    PROVE  Aimed' /\ Begun'
<1> USE ProcessAssumption
<1> DEFINE Old == \A g \in Holders : begin'[g] = "new" => begin[g] = "new"
           Kept == /\ Old /\ UNCHANGED ender
                   /\ step'.pid \in {step.pid, session, None}
                   /\ \/ session' \in {session, step.pid}
                      \/ session' \in Holders /\ begin[session'] = "write"
<1>1. ASSUME NEW h \in Holders,
             \/ StartBegin(h) \/ BeginNext(h) \/ HolderNext(h)
             \/ BeginDies(h) \/ KillHolder(h)
      PROVE  Kept
  BY <1>1 DEF StartBegin, BeginNext, HolderNext, BeginDies, KillHolder,
     BeginSeesPid, BeginSeesDeath, BeginGivesUp, BeginWrites, HolderAcquires,
     HolderWritesPid, GraceOver, HolderExpires, HolderBlanks, HolderUnlocks,
     HolderTerminated, IInv, LockInv, Started
<1>2. ASSUME NEW r \in Runs, RunAcquires(r) \/ RunNext(r) \/ KillRun(r)
      PROVE  Kept
  BY <1>2 DEF RunAcquires, RunNext, KillRun, RunWritesPid, RunBlanks, RunUnlocks
<1>3. ASSUME NEW q \in Probes, ProbeTakes(q) \/ ProbeDrops(q)
      PROVE  Kept
  BY <1>3 DEF ProbeTakes, ProbeDrops
<1>4. ASSUME StepStarts \/ StepNext \/ AnHourPasses
      PROVE  Kept
  BY <1>4 DEF StepStarts, StepNext, StepOver, CommitCounts, CommitSaves,
     AnHourPasses, NoStep
<1>5. Kept
  BY <1>1, <1>2, <1>3, <1>4
<1>6. Aimed'
  BY <1>5 DEF IInv, Aimed
<1>7. Begun'
  BY <1>5 DEF IInv, Begun
<1> QED BY <1>6, <1>7

\* The files, and what the person knows, keep their types.
LEMMA FilesKept ==
    ASSUME IInv, Next
    PROVE  Files'
<1> USE ProcessAssumption, BoundAssumption DEF Enders
<1>1. ASSUME NEW h \in Holders,
             \/ StartBegin(h) \/ BeginNext(h) \/ HolderNext(h)
             \/ BeginDies(h) \/ KillHolder(h)
      PROVE  Files'
  <2>1. idle' \in BOOLEAN
    BY <1>1 DEF StartBegin, BeginNext, HolderNext, BeginDies, KillHolder,
       BeginSeesPid, BeginSeesDeath, BeginGivesUp, BeginWrites, HolderAcquires,
       HolderWritesPid, GraceOver, HolderExpires, HolderBlanks, HolderUnlocks,
       HolderTerminated, Dies, Signals, Refused, IInv, Files
  <2> QED
    BY <1>1, <2>1 DEF StartBegin, BeginNext, HolderNext, BeginDies, KillHolder,
       BeginSeesPid, BeginSeesDeath, BeginGivesUp, BeginWrites, HolderAcquires,
       HolderWritesPid, GraceOver, HolderExpires, HolderBlanks, HolderUnlocks,
       HolderTerminated, Dies, Signals, Refused, IInv, Files, Move
<1>2. ASSUME NEW r \in Runs, RunAcquires(r) \/ RunNext(r) \/ KillRun(r)
      PROVE  Files'
  <2>1. idle' \in BOOLEAN
    BY <1>2 DEF RunAcquires, RunNext, KillRun, RunWritesPid, RunBlanks,
       RunUnlocks, IInv, Files
  <2> QED
    BY <1>2, <2>1 DEF RunAcquires, RunNext, KillRun, RunWritesPid, RunBlanks,
       RunUnlocks, IInv, Files, Move
<1>3. ASSUME NEW q \in Probes, ProbeTakes(q) \/ ProbeDrops(q)
      PROVE  Files'
  BY <1>3 DEF ProbeTakes, ProbeDrops, IInv, Files
<1>4. ASSUME (\E e \in Enders : EndNext(e)) \/ StartEnd \/ CleanUpNext
      PROVE  Files'
  <2>1. idle' \in BOOLEAN
    BY <1>4 DEF EndNext, EndLoads, EndCompares, EndKills, EndSeesFree,
       EndTimesOut, EndUnlinks, StartEnd, CleanUpNext, CleanUp, CleanUpChecks, CleanUpSweeps, Swept,
       IInv, Files
  <2>2. term' \subseteq Holders
    <3>1. CASE \E e \in Enders : EndKills(e)
      BY <3>1 DEF EndKills, Signals, IInv, Files, Aimed
    <3>2. CASE ~\E e \in Enders : EndKills(e)
      BY <1>4, <3>2 DEF EndNext, EndLoads, EndCompares, EndSeesFree,
         EndTimesOut, EndUnlinks, StartEnd, CleanUpNext, CleanUp,
         CleanUpChecks, CleanUpSweeps, Swept, IInv, Files
    <3> QED BY <3>1, <3>2
  <2> QED
    BY <1>4, <2>1, <2>2 DEF EndNext, EndLoads, EndCompares, EndKills,
       EndSeesFree, EndTimesOut, EndUnlinks, StartEnd, CleanUpNext, CleanUp,
       CleanUpChecks, CleanUpSweeps, Swept, IInv, Files
<1>5. ASSUME StepStarts \/ StepNext \/ AnHourPasses
      PROVE  Files'
  <2>1. idle' \in BOOLEAN
    BY <1>5 DEF StepStarts, StepNext, StepOver, CommitCounts, CommitSaves,
       AnHourPasses, IInv, Files
  <2> QED
    BY <1>5, <2>1 DEF StepStarts, StepNext, StepOver, CommitCounts,
       CommitSaves, AnHourPasses, NoStep, IInv, Files, Move
<1> QED BY <1>1, <1>2, <1>3, <1>4, <1>5 DEF Next

-----------------------------------------------------------------------------
LEMMA InvStep == IInv /\ [Next]_vars => IInv'
<1> SUFFICES ASSUME IInv, [Next]_vars PROVE IInv'
  OBVIOUS
<1> DEFINE Ended == Onward /\ UNCHANGED ender
<1>1. ASSUME Ended PROVE Compared' /\ EndedHolderGone'
  <2>1. Compared'
    BY <1>1 DEF IInv, Aimed, Compared, Onward
  <2>2. EndedHolderGone'
    BY <1>1 DEF IInv, Aimed, EndedHolderGone, Onward
  <2> QED BY <2>1, <2>2
<1>2. ASSUME NEW h \in Holders,
             \/ StartBegin(h) \/ BeginNext(h) \/ HolderNext(h)
             \/ BeginDies(h) \/ KillHolder(h)
      PROVE  IInv'
  <2>1. UNCHANGED ender
    BY <1>2 DEF StartBegin, BeginNext, HolderNext, BeginDies, KillHolder,
       BeginSeesPid, BeginSeesDeath, BeginGivesUp, BeginWrites, HolderAcquires,
       HolderWritesPid, GraceOver, HolderExpires, HolderBlanks, HolderUnlocks,
       HolderTerminated
  <2>2. LockInv' /\ Ended
    BY <1>2, <2>1, BeginLocks, HolderLocks DEF IInv
  <2>3. Files' /\ Aimed' /\ Begun'
    BY <1>2, FilesKept, OtherAims DEF Next
  <2> QED BY <1>1, <2>2, <2>3 DEF IInv
<1>3. ASSUME \/ \E r \in Runs : RunAcquires(r) \/ RunNext(r) \/ KillRun(r)
             \/ \E q \in Probes : ProbeTakes(q) \/ ProbeDrops(q)
      PROVE  IInv'
  <2>1. Ended
    BY <1>3 DEF RunAcquires, RunNext, KillRun, RunWritesPid, RunBlanks,
                RunUnlocks, ProbeTakes, ProbeDrops, Onward, Had
  <2>2. LockInv'
    BY <1>3, RunLocks, ProbeLocks DEF IInv
  <2>3. Files' /\ Aimed' /\ Begun'
    BY <1>3, FilesKept, OtherAims DEF Next
  <2> QED BY <1>1, <2>1, <2>2, <2>3 DEF IInv
<1>4. ASSUME \E e \in Enders : EndNext(e) PROVE IInv'
  BY <1>4, FilesKept, EndLocks, EndAims, EndEnds DEF IInv, Next
<1>5. ASSUME StartEnd \/ CleanUpNext PROVE IInv'
  BY <1>5, FilesKept, CleanUpAims DEF IInv, Next
<1>6. ASSUME StepStarts \/ StepNext \/ AnHourPasses PROVE IInv'
  <2>1. Ended /\ UNCHANGED <<flock, content, holder, run, begin, term>>
    BY <1>6 DEF StepStarts, StepNext, StepOver, CommitCounts, CommitSaves,
                AnHourPasses, Onward, Had
  <2>2. LockInv'
    BY <2>1, LockStays DEF IInv, LockInv, Started
  <2>3. Files' /\ Aimed' /\ Begun'
    BY <1>6, FilesKept, OtherAims DEF Next
  <2> QED BY <1>1, <2>1, <2>2, <2>3 DEF IInv
<1>7. ASSUME UNCHANGED vars PROVE IInv'
  BY <1>7 DEF vars, IInv, LockInv, Owned, Named, Started, Files, Aimed, Begun,
              Compared, Had, EndedHolderGone
<1> QED BY <1>2, <1>3, <1>4, <1>5, <1>6, <1>7 DEF Next

LEMMA InvHolds == Spec => []IInv
  BY InvInit, InvStep, PTL DEF Spec

\* However manual-begin, the holders, manual-end, cron's cleanup, scheduler
\* runs and is_locked interleave, and whoever is killed, the pid that
\* acquire_lock has written names the process that works under the flock, and
\* never a holder that has not got it: manual_end terminates no bystander.
THEOREM LockNamesHolderAlways == Spec => []LockNamesHolder
  BY InvHolds, InvImplies, PTL

\* When manual_end saw the lock free within its five seconds, the holder whose
\* session it ends is gone: the pid it compared was written by a process that
\* had the lock, and that process has it until it is gone.
THEOREM EndedHolderGoneAlways == Spec => []EndedHolderGone
  BY InvHolds, InvImplies, PTL
=============================================================================
