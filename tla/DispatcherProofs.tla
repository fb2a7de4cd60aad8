-------------------------- MODULE DispatcherProofs --------------------------
(* Theorems about Dispatcher, for any number of requirements, actors and   *)
(* runs, any limits, and every interleaving of their reads and writes.     *)
EXTENDS Dispatcher, FiniteSetTheorems, TLAPS

USE DEF observed

-----------------------------------------------------------------------------
(* The inductive invariant.  Copies of the queue are written back after     *)
(* others have changed it, so what holds of the entries on disk must hold  *)
(* of those in every process' memory as well.                              *)

GoodEntry == {e \in Entry : e.suspended => ~e.approved}
GoodQueue == [Req -> GoodEntry \cup {None}]

ProcState ==
    [pc : {"idle", "scan", "merge", "mergeSave", "count", "dispatch", "bump",
           "bumpSave", "approve", "approveSave", "pin", "pinSave"},
     task : {"poll", "approve", "all", "resume", "repolled", None},
     req : Req \cup {None}, pin : Pins \cup {None},
     at : 1..(NRequirements + 1), list : GoodQueue, running : Nat,
     snap : GoodQueue]

\* An actor that needs a requirement has one.
GoodProc ==
    {x \in ProcState :
        /\ x.pc \in {"bump", "bumpSave"} => x.at \in Req /\ x.list[x.at] # None
        /\ x.pc \in {"approve", "approveSave"} => x.task = "all" \/ x.req \in Req
        /\ x.pc \in {"scan", "merge", "mergeSave"}
                => x.task = "poll" \/ x.req \in Req
        /\ x.pc \in {"pin", "pinSave"} => x.req \in Req}

GoodRun ==
    {x \in [pc : {"exited", "gate", "lock", "work", "clear", "clearSave"},
            req : Req \cup {None}, pin : Pins \cup {None}, snap : GoodQueue] :
        x.pc # "exited" => x.req \in Req}

IInv ==
    /\ pending \in GoodQueue
    /\ flock \in Actors \cup {None}
    /\ engine \in [Req -> Engine]
    /\ lock \in [Req -> {"free", "manual"} \cup Runs]
    /\ proc \in [Actors -> GoodProc]
    /\ run \in [Runs -> GoodRun]
    /\ moves \in Nat
    /\ unclean \in [Req -> 0..(MaxAutoRetries + 2)]

LEMMA GoodIsQueue == GoodQueue \subseteq Queue
  BY DEF GoodQueue, GoodEntry, Queue

LEMMA InvImplies ==
    IInv => SuspendedUnapproved /\ (crossed \subseteq Req => TypeOK)
<1> SUFFICES ASSUME IInv
             PROVE  SuspendedUnapproved /\ (crossed \subseteq Req => TypeOK)
  OBVIOUS
<1>1. pending \in Queue
  BY GoodIsQueue DEF IInv
<1>2. proc \in [Actors -> ProcState] /\ run \in [Runs -> GoodRun]
  BY DEF IInv, GoodProc
<1>3. crossed \subseteq Req => TypeOK
  BY <1>1, <1>2, GoodIsQueue DEF IInv, TypeOK, ProcState, GoodRun
<1>4. SuspendedUnapproved
  BY DEF IInv, SuspendedUnapproved, GoodQueue, GoodEntry
<1> QED BY <1>3, <1>4

-----------------------------------------------------------------------------
(* What the operators on entries and queues keep.                          *)

LEMMA EmptyGood == Empty \in GoodQueue
  BY DEF Empty, GoodQueue

LEMMA QueueUpdate ==
    ASSUME NEW q \in GoodQueue, NEW r \in Req, NEW e \in GoodEntry \cup {None}
    PROVE  [q EXCEPT ![r] = e] \in GoodQueue
  BY DEF GoodQueue

LEMMA NewEntryGood ==
    ASSUME NEW auto \in BOOLEAN
    PROVE  NewEntry(auto) \in GoodEntry
  BY SizeAssumption DEF NewEntry, GoodEntry, Entry

LEMMA DetectedGood ==
    ASSUME NEW r \in Req
    PROVE  Detected(r) \in GoodEntry \cup {None}
  BY NewEntryGood DEF Detected

LEMMA InheritsGood ==
    ASSUME NEW new \in GoodEntry, NEW old \in GoodEntry \cup {None}
    PROVE  Inherits(new, old) \in GoodEntry
<1>1. CASE old = None
  BY <1>1 DEF Inherits
<1>2. CASE old # None
  <2>1. /\ Inherits(new, old).approved = old.approved
        /\ Inherits(new, old).suspended = old.suspended
        /\ Inherits(new, old) \in Entry
    BY <1>2 DEF Inherits, GoodEntry, Entry
  <2> QED BY <1>2, <2>1 DEF GoodEntry
<1> QED BY <1>1, <1>2

LEMMA MergedGood ==
    ASSUME NEW fresh \in GoodQueue, NEW old \in GoodQueue
    PROVE  Merged(fresh, old) \in GoodQueue
<1>1. \A r \in Req : /\ fresh[r] \in GoodEntry \cup {None}
                     /\ old[r] \in GoodEntry \cup {None}
  BY DEF GoodQueue
<1>2. \A r \in Req : fresh[r] # None => Inherits(fresh[r], old[r]) \in GoodEntry
  BY <1>1, InheritsGood
<1> QED BY <1>1, <1>2 DEF Merged, GoodQueue

LEMMA ToDispatchGood ==
    ASSUME NEW fresh, NEW merged \in GoodQueue, NEW old
    PROVE  ToDispatch(fresh, merged, old) \in GoodQueue
  BY DEF ToDispatch, GoodQueue

LEMMA BumpAttemptGood ==
    ASSUME NEW e \in GoodEntry
    PROVE  BumpAttempt(e) \in GoodEntry
<1> DEFINE n == IF e.attempts > MaxAutoRetries THEN e.attempts
                ELSE e.attempts + 1
<1>1. e.attempts \in 0..(MaxAutoRetries + 1) /\ n \in 0..(MaxAutoRetries + 1)
  BY SizeAssumption DEF GoodEntry, Entry
<1>2. /\ e.approved \in BOOLEAN /\ e.suspended \in BOOLEAN
      /\ e.suspended => ~e.approved
  BY DEF GoodEntry, Entry
<1>3. /\ BumpAttempt(e) \in Entry
      /\ BumpAttempt(e).approved = (e.approved /\ n <= MaxAutoRetries)
      /\ BumpAttempt(e).suspended = (e.suspended \/ n > MaxAutoRetries)
  BY <1>1, <1>2 DEF BumpAttempt, GoodEntry, Entry
<1>4. n > MaxAutoRetries => ~(n <= MaxAutoRetries)
  BY <1>1, SizeAssumption
<1> QED BY <1>2, <1>3, <1>4 DEF GoodEntry

LEMMA ApprovedGood ==
    ASSUME NEW e \in GoodEntry
    PROVE  Approved(e) \in GoodEntry
<1>1. 0 \in 0..(MaxAutoRetries + 1)
  BY SizeAssumption
<1>2. Approved(e) \in Entry /\ Approved(e).suspended = FALSE
  BY <1>1 DEF Approved, GoodEntry, Entry
<1> QED BY <1>2 DEF GoodEntry

LEMMA IdleGood == Idle \in GoodProc /\ Exited \in GoodRun
<1>1. 1 \in 1..(NRequirements + 1)
  BY SizeAssumption
<1> QED BY <1>1, EmptyGood DEF Idle, Exited, GoodProc, ProcState, GoodRun

-----------------------------------------------------------------------------
(* One lemma per kind of step: an actor, a run or a requirement moves on.  *)

LEMMA ProcMoves ==
    ASSUME IInv, NEW p \in Actors, NEW x \in GoodProc,
           proc' = [proc EXCEPT ![p] = x]
    PROVE  proc' \in [Actors -> GoodProc]
  BY DEF IInv

LEMMA RunMoves ==
    ASSUME IInv, NEW i \in Runs, NEW x \in GoodRun,
           run' = [run EXCEPT ![i] = x]
    PROVE  run' \in [Runs -> GoodRun]
  BY DEF IInv

LEMMA EngineMoves ==
    ASSUME IInv, NEW r \in Req, NEW e \in Engine,
           engine' = [engine EXCEPT ![r] = e]
    PROVE  engine' \in [Req -> Engine]
  BY DEF IInv

LEMMA CleanTyped ==
    ASSUME IInv, NEW r, Clean(r)
    PROVE  unclean' \in [Req -> 0..(MaxAutoRetries + 2)]
<1>1. 0 \in 0..(MaxAutoRetries + 2)
  BY SizeAssumption
<1> QED BY <1>1 DEF IInv, Clean

LEMMA IntervenesTyped ==
    ASSUME IInv, NEW c, Intervene(c)
    PROVE  moves' \in Nat
  BY DEF IInv, Intervene

LEMMA ForksGood ==
    ASSUME IInv, NEW r \in Req, NEW pin \in Pins \cup {None}, Forks(r, pin)
    PROVE  run' \in [Runs -> GoodRun]
<1>1. PICK i \in Runs :
        run' = [run EXCEPT ![i] = [Exited EXCEPT !.pc = "gate", !.req = r,
                                                 !.pin = pin]]
  BY DEF Forks
<1>2. [Exited EXCEPT !.pc = "gate", !.req = r, !.pin = pin] \in GoodRun
  BY EmptyGood DEF Exited, GoodRun
<1> QED BY <1>1, <1>2, RunMoves

\* Poll: detection and merge.
LEMMA PollSteps ==
    ASSUME IInv, NEW p \in Actors,
           \/ Scan(p) \/ MergeLoad(p) \/ MergeSave(p) \/ Count(p)
           \/ Consider(p) \/ BumpLoad(p)
    PROVE  IInv'
<1> DEFINE me == proc[p]
<1>1. me \in GoodProc /\ me \in ProcState
  BY DEF IInv, GoodProc
<1>2. CASE Scan(p)
  <2>1. CASE me.at \in Req
    <3> DEFINE x == [me EXCEPT !.list[me.at] = Detected(me.at), !.at = me.at + 1]
    <3>1. proc' = [proc EXCEPT ![p] = x]
      BY <1>2, <2>1 DEF Scan, IInv
    <3>2. [me.list EXCEPT ![me.at] = Detected(me.at)] \in GoodQueue
      BY <1>1, <2>1, DetectedGood, QueueUpdate DEF ProcState
    <3>3. me.at + 1 \in 1..(NRequirements + 1)
      BY <2>1, SizeAssumption DEF Req
    <3>4. me.pc = "scan"
      BY <1>2 DEF Scan
    <3>5. x \in GoodProc
      BY <1>1, <3>2, <3>3, <3>4 DEF GoodProc, ProcState
    <3> HIDE DEF x
    <3> QED BY <1>2, <3>1, <3>5, ProcMoves DEF Scan, IInv
  <2>2. CASE me.at \notin Req
    <3>1. proc' = [proc EXCEPT ![p] = [me EXCEPT !.pc = "merge"]]
      BY <1>2, <2>2 DEF Scan, Goes, IInv
    <3>2. [me EXCEPT !.pc = "merge"] \in GoodProc
      BY <1>1, <1>2 DEF GoodProc, ProcState, Scan
    <3> QED BY <1>2, <3>1, <3>2, ProcMoves DEF Scan, IInv
  <2> QED BY <2>1, <2>2
<1>3. CASE MergeLoad(p) \/ BumpLoad(p)
  <2>1. PICK pc \in {"mergeSave", "bumpSave"} :
          /\ me.pc = IF pc = "mergeSave" THEN "merge" ELSE "bump"
          /\ flock' = p
          /\ proc' = [proc EXCEPT ![p] = [me EXCEPT !.pc = pc, !.snap = pending]]
          /\ UNCHANGED <<pending, engine, lock, run, moves, unclean>>
    BY <1>3 DEF MergeLoad, BumpLoad, LockedLoad, IInv
  <2>2. [me EXCEPT !.pc = pc, !.snap = pending] \in GoodProc
    BY <1>1, <2>1 DEF GoodProc, ProcState, IInv
  <2> QED BY <2>1, <2>2, ProcMoves DEF IInv
<1>4. CASE MergeSave(p)
  <2> DEFINE merged == Merged(me.list, me.snap)
             due == ToDispatch(me.list, merged, me.snap)
             polled == [Idle EXCEPT !.pc = "count", !.task = "poll", !.list = due]
             again == [Idle EXCEPT !.pc = "approve", !.task = "repolled",
                                   !.req = me.req, !.pin = me.pin]
  <2>1. /\ me.pc = "mergeSave" /\ pending' = merged /\ flock' = None
        /\ proc' = [proc EXCEPT ![p] = IF me.task = "poll" THEN polled ELSE again]
        /\ UNCHANGED <<engine, lock, run, moves, unclean>>
    BY <1>4 DEF MergeSave
  <2>2. merged \in GoodQueue /\ due \in GoodQueue
    BY <1>1, MergedGood, ToDispatchGood DEF ProcState
  <2> HIDE DEF merged, due
  <2>3. polled \in GoodProc
    BY <2>2, IdleGood DEF GoodProc, ProcState, Idle
  <2>4. me.task # "poll" => again \in GoodProc
    BY <1>1, <2>1, IdleGood DEF GoodProc, ProcState, Idle
  <2> HIDE DEF polled, again
  <2> QED BY <2>1, <2>2, <2>3, <2>4, ProcMoves DEF IInv
<1>5. CASE Count(p)
  <2> DEFINE due == IF me.task = "poll" THEN me.list ELSE pending
             n == Cardinality(Locked)
             x == [Idle EXCEPT !.pc = "dispatch", !.task = me.task,
                               !.running = n, !.list = due]
  <2>1. n \in Nat /\ due \in GoodQueue
    <3>1. IsFiniteSet(Req)
      BY FS_Interval, SizeAssumption DEF Req
    <3>2. n \in Nat
      BY <3>1, FS_Subset, FS_CardinalityType DEF Locked
    <3> QED BY <1>1, <3>2 DEF ProcState, IInv
  <2>2. proc' = [proc EXCEPT ![p] = x]
    BY <1>5 DEF Count
  <2> HIDE DEF due, n
  <2>3. x \in GoodProc
    BY <1>1, <2>1, IdleGood DEF GoodProc, ProcState, Idle
  <2> HIDE DEF x
  <2> QED BY <1>5, <2>2, <2>3, ProcMoves DEF Count, IInv
<1>6. CASE Consider(p)
  <2>1. CASE me.at \notin Req
    BY <1>6, <2>1, IdleGood, ProcMoves DEF Consider, IInv
  <2>2. CASE me.at \in Req /\ Dispatchable(p, me.at)
    <3>1. proc' = [proc EXCEPT ![p] = [me EXCEPT !.pc = "bump"]]
      BY <1>6, <2>2 DEF Consider, Goes, IInv
    <3>2. [me EXCEPT !.pc = "bump"] \in GoodProc
      BY <1>1, <2>2 DEF GoodProc, ProcState, Dispatchable
    <3> QED BY <1>6, <3>1, <3>2, ProcMoves DEF Consider, IInv
  <2>3. CASE me.at \in Req /\ ~Dispatchable(p, me.at)
    <3> DEFINE x == [me EXCEPT !.at = me.at + 1, !.list[me.at] = None]
    <3>1. proc' = [proc EXCEPT ![p] = x] /\ me.pc = "dispatch"
      BY <1>6, <2>3 DEF Consider, IInv
    <3>2. [me.list EXCEPT ![me.at] = None] \in GoodQueue
      BY <1>1, <2>3, QueueUpdate DEF ProcState
    <3>3. me.at + 1 \in 1..(NRequirements + 1)
      BY <2>3, SizeAssumption DEF Req
    <3>4. x \in GoodProc
      BY <1>1, <3>1, <3>2, <3>3 DEF GoodProc, ProcState
    <3> HIDE DEF x
    <3> QED BY <1>6, <3>1, <3>4, ProcMoves DEF Consider, IInv
  <2> QED BY <2>1, <2>2, <2>3
<1> QED BY <1>2, <1>3, <1>4, <1>5, <1>6

\* dispatch counts an attempt and forks, or suspends.
LEMMA BumpSteps ==
    ASSUME IInv, NEW p \in Actors, BumpSave(p)
    PROVE  IInv'
<1> DEFINE me == proc[p]
           r == me.at
           old == me.snap[r]
           new == IF old = None THEN None ELSE BumpAttempt(old)
           skipped == [me EXCEPT !.pc = "dispatch", !.at = r + 1,
                                 !.list[r] = None, !.snap = Empty]
           forked == [me EXCEPT !.pc = "dispatch", !.at = r + 1,
                                !.list[r] = None, !.snap = Empty,
                                !.running = me.running + 1]
<1>1. me \in GoodProc /\ me \in ProcState /\ me.pc = "bumpSave"
  BY DEF IInv, GoodProc, BumpSave
<1>2. /\ r \in Req /\ me.list[r] \in GoodEntry
      /\ old \in GoodEntry \cup {None} /\ new \in GoodEntry \cup {None}
  BY <1>1, BumpAttemptGood DEF GoodProc, ProcState, GoodQueue
<1>3. /\ flock' = None /\ UNCHANGED <<engine, lock, moves>>
      /\ pending' = IF old = None THEN pending
                    ELSE [me.snap EXCEPT ![r] = new]
  BY DEF BumpSave
<1>4. pending' \in GoodQueue
  BY <1>1, <1>2, <1>3, QueueUpdate DEF IInv, ProcState
<1>5. /\ [me.list EXCEPT ![r] = None] \in GoodQueue
      /\ r + 1 \in 1..(NRequirements + 1) /\ me.running + 1 \in Nat
  BY <1>1, <1>2, QueueUpdate, SizeAssumption DEF ProcState, Req
<1>6. skipped \in GoodProc /\ forked \in GoodProc
  BY <1>1, <1>5, EmptyGood DEF GoodProc, ProcState
<1>7. CASE new # None /\ new.suspended
  <2>1. proc' = [proc EXCEPT ![p] = skipped] /\ UNCHANGED <<run, unclean>>
    BY <1>7 DEF BumpSave, IInv
  <2> HIDE DEF skipped, forked, new, old, r
  <2> QED BY <1>3, <1>4, <1>6, <2>1, ProcMoves DEF IInv
<1>8. CASE ~(new # None /\ new.suspended)
  <2>1. /\ proc' = [proc EXCEPT ![p] = forked]
        /\ Forks(r, me.list[r].module)
        /\ unclean' = [unclean EXCEPT ![r] =
              IF @ < MaxAutoRetries + 2 THEN @ + 1 ELSE @]
    <3>1. proc' = [proc EXCEPT ![p] = forked]
      BY <1>8 DEF BumpSave
    <3>2. Forks(r, me.list[r].module)
      BY <1>8 DEF BumpSave
    <3> HIDE DEF forked
    <3>3. unclean' = [unclean EXCEPT ![r] =
             IF @ < MaxAutoRetries + 2 THEN @ + 1 ELSE @]
      BY <1>8 DEF BumpSave
    <3> QED BY <3>1, <3>2, <3>3
  <2>2. me.list[r].module \in Pins \cup {None}
    BY <1>2 DEF GoodEntry, Entry
  <2>3. run' \in [Runs -> GoodRun]
    BY <1>2, <2>1, <2>2, ForksGood
  <2>4. unclean' \in [Req -> 0..(MaxAutoRetries + 2)]
    <3>1. \A n \in 0..(MaxAutoRetries + 2) :
            (IF n < MaxAutoRetries + 2 THEN n + 1 ELSE n)
                \in 0..(MaxAutoRetries + 2)
      BY SizeAssumption
    <3> QED BY <1>2, <2>1, <3>1 DEF IInv
  <2>5. proc' \in [Actors -> GoodProc]
    BY <1>6, <2>1, ProcMoves
  <2> HIDE DEF skipped, forked, new, old, r
  <2> QED BY <1>3, <1>4, <2>3, <2>4, <2>5 DEF IInv
<1> QED BY <1>7, <1>8

\* An actor that is idle starts something.
LEMMA StartSteps ==
    ASSUME IInv, NEW p \in Actors,
           \/ StartPoll \/ StartApproveAll(p)
           \/ \E r \in Req : StartApprove(p, r) \/ StartResume(p, r)
                              \/ RunSpec(p, r)
    PROVE  IInv'
<1>0. Idle \in GoodProc /\ Idle \in ProcState /\ Cron \in Actors
  BY IdleGood, ProcessAssumption DEF GoodProc
<1>1. CASE StartPoll
  <2>1. [Idle EXCEPT !.pc = "scan", !.task = "poll"] \in GoodProc
    BY <1>0 DEF GoodProc, ProcState, Idle
  <2> QED BY <1>0, <1>1, <2>1, ProcMoves DEF StartPoll, IInv
<1>2. CASE StartApproveAll(p)
  <2>1. [Idle EXCEPT !.pc = "approve", !.task = "all"] \in GoodProc
    BY <1>0 DEF GoodProc, ProcState, Idle
  <2> QED BY <1>2, <2>1, ProcMoves, IntervenesTyped DEF StartApproveAll, IInv
<1>3. ASSUME NEW r \in Req, StartApprove(p, r) PROVE IInv'
  <2>1. [Idle EXCEPT !.pc = "approve", !.task = "approve", !.req = r] \in GoodProc
    BY <1>0 DEF GoodProc, ProcState, Idle
  <2> QED BY <1>3, <2>1, ProcMoves, IntervenesTyped DEF StartApprove, IInv
<1>4. ASSUME NEW r \in Req, StartResume(p, r) PROVE IInv'
  <2>1. PICK pin \in Pins \cup {None} :
          proc' = [proc EXCEPT ![p] = [Idle EXCEPT !.pc = "approve",
                               !.task = "resume", !.req = r, !.pin = pin]]
    BY <1>4 DEF StartResume
  <2>2. [Idle EXCEPT !.pc = "approve", !.task = "resume", !.req = r,
                     !.pin = pin] \in GoodProc
    BY <1>0 DEF GoodProc, ProcState, Idle
  <2>3. engine' \in [Req -> Engine]
    BY <1>4 DEF StartResume, IInv, Engine
  <2> QED BY <1>4, <2>1, <2>2, <2>3, ProcMoves, IntervenesTyped
             DEF StartResume, IInv
<1>5. ASSUME NEW r \in Req, RunSpec(p, r) PROVE IInv'
  <2>1. PICK pin \in Pins : Forks(r, pin)
    BY <1>5 DEF RunSpec
  <2>2. run' \in [Runs -> GoodRun]
    BY <2>1, ForksGood
  <2> QED BY <1>5, <2>2, IntervenesTyped DEF RunSpec, IInv
<1> QED BY <1>1, <1>2, <1>3, <1>4, <1>5

\* approve, pin_module.
LEMMA ApproveSteps ==
    ASSUME IInv, NEW p \in Actors,
           \/ ApproveLoad(p) \/ ApproveAllSave(p) \/ ApproveSave(p)
           \/ ApproveRefused(p) \/ PinLoad(p) \/ PinSave(p)
    PROVE  IInv'
<1> DEFINE me == proc[p]
           away == [me EXCEPT !.pc = "pin", !.snap = Empty]
           counting == [Idle EXCEPT !.pc = "count", !.task = "resume"]
<1>0. /\ me \in GoodProc /\ me \in ProcState
      /\ Idle \in GoodProc /\ Idle \in ProcState
  BY IdleGood DEF IInv, GoodProc
<1>c. counting \in GoodProc
  BY <1>0 DEF GoodProc, ProcState, Idle
<1>1. CASE ApproveLoad(p)
  <2>1. proc' = [proc EXCEPT ![p] = [me EXCEPT !.pc = "approveSave",
                                               !.snap = pending]]
    BY <1>1 DEF ApproveLoad, IInv
  <2>2. [me EXCEPT !.pc = "approveSave", !.snap = pending] \in GoodProc
    BY <1>0, <1>1 DEF ApproveLoad, GoodProc, ProcState, IInv
  <2> QED BY <1>1, <2>1, <2>2, ProcMoves DEF ApproveLoad, IInv
<1>2. CASE ApproveAllSave(p)
  <2> DEFINE chosen == {r \in Req : Approvable(me.snap[r], r)}
  <2>1. /\ pending' = [r \in Req |-> IF r \in chosen THEN Approved(me.snap[r])
                                     ELSE me.snap[r]]
        /\ unclean' = [r \in Req |-> IF r \in chosen THEN 0 ELSE unclean[r]]
        /\ proc' = [proc EXCEPT ![p] = Idle]
        /\ UNCHANGED <<flock, engine, lock, run, moves>>
    BY <1>2 DEF ApproveAllSave
  <2>2. \A r \in Req : me.snap[r] \in GoodEntry \cup {None}
    BY <1>0 DEF ProcState, GoodQueue
  <2>3. \A r \in chosen : Approved(me.snap[r]) \in GoodEntry
    BY <2>2, ApprovedGood DEF Approvable
  <2>4. pending' \in GoodQueue
    BY <2>1, <2>2, <2>3 DEF GoodQueue
  <2>5. unclean' \in [Req -> 0..(MaxAutoRetries + 2)]
    <3>1. 0 \in 0..(MaxAutoRetries + 2)
      BY SizeAssumption
    <3> QED BY <2>1, <3>1 DEF IInv
  <2> QED BY <1>0, <2>1, <2>4, <2>5, ProcMoves DEF IInv
<1>3. CASE ApproveSave(p)
  <2> DEFINE r == me.req
             e == me.snap[r]
  <2>1. /\ me.pc = "approveSave" /\ me.task # "all"
        /\ pending' = [me.snap EXCEPT ![r] = Approved(e)]
        /\ Approvable(e, r) /\ Clean(r) /\ Then(p)
        /\ UNCHANGED <<flock, engine, lock, run, moves>>
    BY <1>3 DEF ApproveSave
  <2>2. r \in Req
    BY <1>0, <2>1 DEF GoodProc
  <2>3. e \in GoodEntry
    BY <1>0, <2>1, <2>2 DEF ProcState, GoodQueue, Approvable
  <2>4. pending' \in GoodQueue
    BY <1>0, <2>1, <2>2, <2>3, ApprovedGood, QueueUpdate DEF ProcState
  <2>5. proc' \in [Actors -> GoodProc]
    <3>1. CASE me.task = "approve"
      <4>1. [Idle EXCEPT !.pc = "count", !.task = "approve"] \in GoodProc
        BY <1>0 DEF GoodProc, ProcState, Idle
      <4>2. \/ proc' = [proc EXCEPT ![p] = Idle]
            \/ proc' = [proc EXCEPT ![p] =
                          [Idle EXCEPT !.pc = "count", !.task = "approve"]]
        BY <2>1, <3>1 DEF Then
      <4> QED BY <1>0, <4>1, <4>2, ProcMoves
    <3>2. CASE me.task # "approve"
      <4>1. proc' = [proc EXCEPT ![p] = away]
        BY <2>1, <3>2 DEF Then
      <4>2. away \in GoodProc
        BY <1>0, <2>2, EmptyGood DEF GoodProc, ProcState
      <4> QED BY <4>1, <4>2, ProcMoves
    <3> QED BY <3>1, <3>2
  <2> QED BY <2>1, <2>4, <2>5, CleanTyped DEF IInv
<1>4. CASE ApproveRefused(p)
  <2> DEFINE again == [me EXCEPT !.pc = "scan", !.snap = Empty]
  <2>1. me.pc = "approveSave" /\ me.task # "all"
    BY <1>4 DEF ApproveRefused
  <2>2. away \in GoodProc /\ again \in GoodProc
    BY <1>0, <2>1, EmptyGood DEF GoodProc, ProcState
  <2>3. \/ proc' = [proc EXCEPT ![p] = away]
        \/ proc' = [proc EXCEPT ![p] = again]
        \/ proc' = [proc EXCEPT ![p] = Idle]
    BY <1>4 DEF ApproveRefused, IInv
  <2> HIDE DEF away, again
  <2>4. proc' \in [Actors -> GoodProc]
    BY <1>0, <2>2, <2>3, ProcMoves
  <2> QED BY <1>4, <2>4 DEF ApproveRefused, IInv
<1>5. CASE PinLoad(p)
  <2> DEFINE loaded == [me EXCEPT !.pc = "pinSave", !.snap = pending]
  <2>1. me.pc = "pin"
    BY <1>5 DEF PinLoad
  <2>2. loaded \in GoodProc
    BY <1>0, <2>1 DEF GoodProc, ProcState, IInv
  <2>3. \/ proc' = [proc EXCEPT ![p] = counting]
        \/ proc' = [proc EXCEPT ![p] = loaded]
    BY <1>5 DEF PinLoad, IInv
  <2> HIDE DEF counting, loaded
  <2>4. proc' \in [Actors -> GoodProc]
    BY <1>c, <2>2, <2>3, ProcMoves
  <2> QED BY <1>5, <2>4 DEF PinLoad, IInv
<1>6. CASE PinSave(p)
  <2> DEFINE r == me.req
             pinned == [me.snap[r] EXCEPT !.module = me.pin]
  <2>1. /\ me.pc = "pinSave" /\ proc' = [proc EXCEPT ![p] = counting]
        /\ pending' = IF me.snap[r] = None THEN pending
                      ELSE [me.snap EXCEPT ![r].module = me.pin]
        /\ UNCHANGED <<flock, engine, lock, run, moves, unclean>>
    BY <1>6 DEF PinSave
  <2>2. r \in Req /\ me.snap[r] \in GoodEntry \cup {None}
    BY <1>0, <2>1 DEF GoodProc, ProcState, GoodQueue
  <2>3. me.snap[r] # None => pinned \in GoodEntry
    BY <1>0, <2>2 DEF GoodEntry, Entry, ProcState
  <2>4. me.snap[r] # None => pending' = [me.snap EXCEPT ![r] = pinned]
    BY <1>0, <2>1, <2>2 DEF ProcState, GoodQueue
  <2> HIDE DEF pinned
  <2>5. pending' \in GoodQueue
    BY <1>0, <2>1, <2>2, <2>3, <2>4, QueueUpdate DEF ProcState, IInv
  <2> HIDE DEF counting
  <2> QED BY <1>c, <2>1, <2>5, ProcMoves DEF IInv
<1> QED BY <1>1, <1>2, <1>3, <1>4, <1>5, <1>6

\* run_requirement, seen from the queue.
LEMMA RunSteps ==
    ASSUME IInv, NEW i \in Runs, Finishes(i) \/ RunWorks(i)
    PROVE  IInv'
<1> DEFINE me == run[i]
           r == me.req
<1>0. /\ me \in GoodRun /\ Exited \in GoodRun
      /\ me.pc # "exited" => r \in Req
  BY IdleGood DEF IInv, GoodRun
<1>1. CASE RunGate(i)
  <2>1. [me EXCEPT !.pc = "lock"] \in GoodRun
    BY <1>0, <1>1 DEF RunGate, GoodRun
  <2>2. \/ run' = [run EXCEPT ![i] = Exited]
        \/ run' = [run EXCEPT ![i] = [me EXCEPT !.pc = "lock"]]
    BY <1>1 DEF RunGate
  <2>3. run' \in [Runs -> GoodRun]
    BY <1>0, <2>1, <2>2, RunMoves
  <2> QED BY <1>1, <2>3 DEF RunGate, IInv
<1>2. CASE RunLock(i)
  <2>1. me.pc = "lock" /\ r \in Req
    BY <1>0, <1>2 DEF RunLock
  <2>2. [me EXCEPT !.pc = "work"] \in GoodRun
    BY <1>0, <2>1 DEF GoodRun
  <2>3. CASE lock[r] = "free"
    <3>1. /\ lock' = [lock EXCEPT ![r] = i]
          /\ run' = [run EXCEPT ![i] = [me EXCEPT !.pc = "work"]]
      BY <1>2, <2>3 DEF RunLock
    <3>2. run' \in [Runs -> GoodRun]
      BY <2>2, <3>1, RunMoves
    <3>3. lock' \in [Req -> {"free", "manual"} \cup Runs]
      BY <2>1, <3>1 DEF IInv
    <3> QED BY <1>2, <3>2, <3>3 DEF RunLock, IInv
  <2>4. CASE lock[r] # "free"
    <3>1. run' = [run EXCEPT ![i] = Exited] /\ UNCHANGED lock
      BY <1>2, <2>4 DEF RunLock
    <3>2. run' \in [Runs -> GoodRun]
      BY <1>0, <3>1, RunMoves
    <3> QED BY <1>2, <3>1, <3>2 DEF RunLock, IInv
  <2> QED BY <2>3, <2>4
<1>3. CASE RunWorks(i)
  <2>1. r \in Req
    BY <1>0, <1>3 DEF RunWorks
  <2>2. engine' \in [Req -> Engine]
    BY <1>3, <2>1 DEF RunWorks, IInv, Engine
  <2> QED BY <1>3, <2>2 DEF RunWorks, IInv
<1>4. CASE RunParks(i)
  <2>1. r \in Req
    BY <1>0, <1>4 DEF RunParks
  <2>2. PICK w \in Found :
          engine' = [engine EXCEPT ![r] =
                       [work |-> w, current |-> FALSE, gray |-> TRUE]]
    BY <1>4 DEF RunParks
  <2>3. engine' \in [Req -> Engine]
    BY <2>1, <2>2, EngineMoves DEF Engine
  <2>4. lock' \in [Req -> {"free", "manual"} \cup Runs]
    BY <1>4 DEF RunParks, IInv
  <2> QED BY <1>0, <1>4, <2>3, <2>4, RunMoves, CleanTyped DEF RunParks, IInv
<1>5. CASE RunEnds(i)
  <2>1. [me EXCEPT !.pc = "clear"] \in GoodRun
    BY <1>0, <1>5 DEF RunEnds, GoodRun
  <2>2. run' = [run EXCEPT ![i] = [me EXCEPT !.pc = "clear"]]
    BY <1>5 DEF RunEnds
  <2>3. lock' \in [Req -> {"free", "manual"} \cup Runs]
    BY <1>5 DEF RunEnds, IInv
  <2> QED BY <1>5, <2>1, <2>2, <2>3, RunMoves, CleanTyped DEF RunEnds, IInv
<1>6. CASE ClearLoad(i)
  <2>1. [me EXCEPT !.pc = "clearSave", !.snap = pending] \in GoodRun
    BY <1>0, <1>6 DEF ClearLoad, GoodRun, IInv
  <2>2. run' = [run EXCEPT ![i] = [me EXCEPT !.pc = "clearSave", !.snap = pending]]
    BY <1>6 DEF ClearLoad
  <2> QED BY <1>6, <2>1, <2>2, RunMoves DEF ClearLoad, IInv
<1>7. CASE ClearSave(i)
  <2>1. r \in Req /\ me.snap \in GoodQueue
    BY <1>0, <1>7 DEF ClearSave, GoodRun
  <2>2. pending' = IF me.snap[r] = None THEN pending
                   ELSE [me.snap EXCEPT ![r] = None]
    BY <1>7 DEF ClearSave
  <2>3. pending' \in GoodQueue
    <3> HIDE DEF me, r
    <3> QED BY <2>1, <2>2, QueueUpdate DEF IInv
  <2> QED BY <1>0, <1>7, <2>3, RunMoves, CleanTyped DEF ClearSave, IInv
<1> QED BY <1>1, <1>2, <1>3, <1>4, <1>5, <1>6, <1>7 DEF Finishes

\* Kills, manual sessions, edits.
LEMMA OtherSteps ==
    ASSUME IInv,
           \/ \E p \in Actors : KillActor(p)
           \/ \E i \in Runs : KillRun(i)
           \/ \E r \in Req : BeginManual(r) \/ EndManual(r) \/ NewWork(r)
    PROVE  IInv'
<1>1. ASSUME NEW p \in Actors, KillActor(p) PROVE IInv'
  BY <1>1, IdleGood, ProcMoves, IntervenesTyped DEF KillActor, IInv
<1>2. ASSUME NEW i \in Runs, KillRun(i) PROVE IInv'
  <2>1. lock' \in [Req -> {"free", "manual"} \cup Runs]
    BY <1>2 DEF KillRun, IInv
  <2> QED BY <1>2, <2>1, IdleGood, RunMoves, IntervenesTyped DEF KillRun, IInv
<1>3. ASSUME NEW r \in Req, BeginManual(r) PROVE IInv'
  <2>1. lock' \in [Req -> {"free", "manual"} \cup Runs]
    BY <1>3 DEF BeginManual, IInv
  <2> QED BY <1>3, <2>1, IntervenesTyped DEF BeginManual, IInv
<1>4. ASSUME NEW r \in Req, EndManual(r) PROVE IInv'
  <2>1. lock' \in [Req -> {"free", "manual"} \cup Runs]
    BY <1>4 DEF EndManual, IInv
  <2>2. engine' \in [Req -> Engine]
    BY <1>4, EngineMoves DEF EndManual
  <2> QED BY <1>4, <2>1, <2>2 DEF EndManual, IInv
<1>5. ASSUME NEW r \in Req, NewWork(r) PROVE IInv'
  <2>1. "auto" \in Found
    BY ProcessAssumption
  <2>2. engine' \in [Req -> Engine]
    BY <1>5, <2>1 DEF NewWork, IInv, Engine
  <2> QED BY <1>5, <2>2, IntervenesTyped DEF NewWork, IInv
<1> QED BY <1>1, <1>2, <1>3, <1>4, <1>5

-----------------------------------------------------------------------------

LEMMA InvInit == Init => IInv
<1> SUFFICES ASSUME Init PROVE IInv
  OBVIOUS
<1>1. 0 \in 0..(MaxAutoRetries + 2)
  BY SizeAssumption
<1> QED BY <1>1, EmptyGood, IdleGood DEF Init, IInv

LEMMA InvStep == IInv /\ [Next]_vars => IInv'
<1> SUFFICES ASSUME IInv, [Next]_vars PROVE IInv'
  OBVIOUS
<1>1. CASE StartPoll
  BY <1>1, StartSteps, ProcessAssumption
<1>2. ASSUME NEW p \in Actors, Proceeds(p) PROVE IInv'
  BY <1>2, PollSteps, BumpSteps, ApproveSteps DEF Proceeds
<1>3. ASSUME NEW p \in Chat, Starts(p) PROVE IInv'
  BY <1>3, StartSteps DEF Starts, Chat
<1>4. ASSUME NEW i \in Runs, Finishes(i) \/ RunWorks(i) PROVE IInv'
  BY <1>4, RunSteps
<1>5. CASE UNCHANGED vars
  BY <1>5 DEF vars, IInv
<1> QED BY <1>1, <1>2, <1>3, <1>4, <1>5, OtherSteps DEF Next

-----------------------------------------------------------------------------
(* Who writes the queue, and what an observer makes of it.                 *)

\* Six steps write pending.json; two more end a run in good order.
LEMMA WhoWrites ==
    ASSUME [Next]_vars
    PROVE  \/ UNCHANGED <<pending, unclean, crossed>>
           \/ \E p \in Actors :
                \/ MergeSave(p) \/ BumpSave(p) \/ ApproveAllSave(p)
                \/ ApproveSave(p) \/ PinSave(p)
           \/ \E i \in Runs : ClearSave(i) \/ RunParks(i) \/ RunEnds(i)
<1> DEFINE Still == UNCHANGED <<pending, unclean, crossed>>
<1>1. UNCHANGED vars \/ StartPoll => Still
  BY DEF vars, StartPoll
<1>2. \A p \in Actors :
        \/ Scan(p) \/ MergeLoad(p) \/ Count(p) \/ Consider(p) \/ BumpLoad(p)
        \/ ApproveLoad(p) \/ ApproveRefused(p) \/ PinLoad(p) \/ KillActor(p)
        => Still
  BY DEF Scan, MergeLoad, LockedLoad, Count, Consider, BumpLoad, ApproveLoad,
         ApproveRefused, PinLoad, KillActor
<1>3. \A p \in Chat : Starts(p) => Still
  BY DEF Starts, StartApproveAll, StartApprove, StartResume, RunSpec
<1>4. \A i \in Runs :
        \/ RunGate(i) \/ RunLock(i) \/ ClearLoad(i) \/ RunWorks(i) \/ KillRun(i)
        => Still
  BY DEF RunGate, RunLock, ClearLoad, RunWorks, KillRun
<1>5. \A r \in Req : BeginManual(r) \/ EndManual(r) \/ NewWork(r) => Still
  BY DEF BeginManual, EndManual, NewWork
<1> HIDE DEF Still
<1>6. \/ Still
      \/ \E p \in Actors :
           \/ MergeSave(p) \/ BumpSave(p) \/ ApproveAllSave(p)
           \/ ApproveSave(p) \/ PinSave(p)
      \/ \E i \in Runs : ClearSave(i) \/ RunParks(i) \/ RunEnds(i)
  BY <1>1, <1>2, <1>3, <1>4, <1>5 DEF Next, Proceeds, Finishes
<1> QED BY <1>6 DEF Still

LEMMA CrossedStep ==
    ASSUME IInv, crossed \subseteq Req, [Next]_vars
    PROVE  crossed' \subseteq Req
<1>1. ASSUME NEW p \in Actors, BumpSave(p) PROVE crossed' \subseteq Req
  <2>1. proc[p].at \in Req
    BY <1>1 DEF IInv, GoodProc, BumpSave
  <2> QED BY <1>1, <2>1 DEF BumpSave, Outdated
<1>2. ASSUME NEW p \in Actors,
             MergeSave(p) \/ ApproveAllSave(p) \/ ApproveSave(p) \/ PinSave(p)
      PROVE  crossed' \subseteq Req
  BY <1>2 DEF MergeSave, ApproveAllSave, ApproveSave, PinSave, Outdated
<1>3. ASSUME NEW i \in Runs, ClearSave(i) \/ RunParks(i) \/ RunEnds(i)
      PROVE  crossed' \subseteq Req
  BY <1>3 DEF ClearSave, RunParks, RunEnds, Outdated
<1> QED BY <1>1, <1>2, <1>3, WhoWrites

\* Dispatcher is type correct.
THEOREM DispatcherTypes == Spec => []TypeOK
<1>1. Init => IInv /\ crossed \subseteq Req
  BY InvInit DEF Init
<1>2. IInv /\ crossed \subseteq Req /\ [Next]_vars
        => IInv' /\ (crossed \subseteq Req)'
  BY InvStep, CrossedStep
<1>3. IInv /\ crossed \subseteq Req => TypeOK
  BY InvImplies
<1> QED BY <1>1, <1>2, <1>3, PTL DEF Spec

\* No entry of pending.json is suspended and approved at once, although approve,
\* pin_module and _clear_approval write back old copies of the queue without
\* pending.json.lock (_merge_pending, _bump_attempt).
THEOREM SuspendedUnapprovedHolds == Spec => []SuspendedUnapproved
  BY InvInit, InvStep, InvImplies, PTL DEF Spec

-----------------------------------------------------------------------------
(* The crash loop guard: a second inductive invariant on top of the first. *)
(* The attempts of an approved entry count the forks of its requirement,   *)
(* wherever no outdated copy has had a part in the entry.                  *)

IsOn(q, r) == q[r] # None /\ q[r].approved

Counts(e, n) ==
    /\ n <= MaxAutoRetries
    /\ e # None /\ e.approved => n <= e.attempts /\ e.attempts <= MaxAutoRetries
Counted == \A r \in Req \ crossed : Counts(pending[r], unclean[r])

\* What a poll has detected is not approved.
Unapproved(list) == \A r \in Req : ~IsOn(list, r)
Detecting == {"scan", "merge", "mergeSave", "approve", "approveSave"}
Lists == \A p \in Actors : proc[p].pc \in Detecting => Unapproved(proc[p].list)

LEMMA ListsMove ==
    ASSUME IInv, Lists, NEW p \in Actors, NEW x,
           proc' = [proc EXCEPT ![p] = x],
           x.pc \in Detecting => Unapproved(x.list)
    PROVE  Lists'
  BY DEF IInv, Lists

LEMMA EmptyUnapproved == Unapproved(Empty)
  BY DEF Unapproved, IsOn, Empty

\* An actor that is idle, or starts, has detected nothing yet.
LEMMA ListsStart ==
    ASSUME IInv, Lists, NEW p \in Actors,
           \/ StartPoll /\ p = Cron
           \/ Starts(p) \/ KillActor(p)
    PROVE  Lists'
<1> DEFINE Fresh(x) == x.list = Empty
<1>1. UNCHANGED proc \/ \E x : Fresh(x) /\ proc' = [proc EXCEPT ![p] = x]
  <2>1. CASE StartPoll /\ p = Cron
    BY <2>1 DEF StartPoll, Idle
  <2>2. CASE StartApproveAll(p)
    BY <2>2 DEF StartApproveAll, Idle
  <2>3. ASSUME NEW r \in Req, StartApprove(p, r) PROVE <1>1!2
    BY <2>3 DEF StartApprove, Idle
  <2>4. ASSUME NEW r \in Req, StartResume(p, r) PROVE <1>1!2
    BY <2>4 DEF StartResume, Idle
  <2>5. ASSUME NEW r \in Req, RunSpec(p, r) PROVE UNCHANGED proc
    BY <2>5 DEF RunSpec
  <2>6. CASE KillActor(p)
    BY <2>6 DEF KillActor, Idle
  <2> HIDE DEF Fresh
  <2> QED BY <2>1, <2>2, <2>3, <2>4, <2>5, <2>6 DEF Starts
<1> QED BY <1>1, ListsMove, EmptyUnapproved DEF Lists

LEMMA ListsProceed ==
    ASSUME IInv, Lists, NEW p \in Actors, Proceeds(p)
    PROVE  Lists'
<1> DEFINE me == proc[p]
<1>0. /\ me \in ProcState /\ proc \in [Actors -> GoodProc]
      /\ Idle.list = Empty /\ Idle.pc = "idle"
  BY DEF IInv, GoodProc, Idle
<1>1. CASE Scan(p)
  <2>0. me.pc = "scan" /\ Unapproved(me.list)
    BY <1>1 DEF Scan, Lists, Detecting
  <2>1. CASE me.at \in Req
    <3> DEFINE l == [me.list EXCEPT ![me.at] = Detected(me.at)]
               x == [me EXCEPT !.list = l, !.at = me.at + 1]
    <3>1. proc' = [proc EXCEPT ![p] = x]
      BY <1>0, <1>1, <2>1 DEF Scan
    <3>2. x.list = l
      BY <1>0 DEF ProcState
    <3>3. Unapproved(l)
      <4>1. me.list \in GoodQueue
        BY <1>0 DEF ProcState
      <4>2. Detected(me.at) # None => ~Detected(me.at).approved
        BY DEF Detected, NewEntry
      <4> QED BY <2>0, <2>1, <4>1, <4>2 DEF Unapproved, IsOn, GoodQueue
    <3> HIDE DEF x, l
    <3> QED BY <3>1, <3>2, <3>3, ListsMove
  <2>2. CASE me.at \notin Req
    <3>1. proc' = [proc EXCEPT ![p] = [me EXCEPT !.pc = "merge"]]
      BY <1>0, <1>1, <2>2 DEF Scan, Goes
    <3>2. [me EXCEPT !.pc = "merge"].list = me.list
      BY <1>0 DEF ProcState
    <3> QED BY <2>0, <3>1, <3>2, ListsMove
  <2> QED BY <2>1, <2>2
<1>2. CASE MergeLoad(p) \/ ApproveLoad(p)
  <2>1. PICK x : /\ proc' = [proc EXCEPT ![p] = x]
                 /\ x.list = me.list
                 /\ me.pc \in {"merge", "approve"}
    <3>1. CASE MergeLoad(p)
      <4> DEFINE x == [me EXCEPT !.pc = "mergeSave", !.snap = pending]
      <4>1. proc' = [proc EXCEPT ![p] = x] /\ me.pc = "merge"
        BY <1>0, <3>1 DEF MergeLoad, LockedLoad
      <4>2. x.list = me.list
        BY <1>0 DEF ProcState
      <4> QED BY <4>1, <4>2
    <3>2. CASE ApproveLoad(p)
      <4> DEFINE x == [me EXCEPT !.pc = "approveSave", !.snap = pending]
      <4>1. proc' = [proc EXCEPT ![p] = x] /\ me.pc = "approve"
        BY <1>0, <3>2 DEF ApproveLoad
      <4>2. x.list = me.list
        BY <1>0 DEF ProcState
      <4> QED BY <4>1, <4>2
    <3> QED BY <1>2, <3>1, <3>2
  <2> QED BY <2>1, ListsMove DEF Lists, Detecting
<1>3. CASE ApproveRefused(p)
  <2> DEFINE away == [me EXCEPT !.pc = "pin", !.snap = Empty]
             again == [me EXCEPT !.pc = "scan", !.snap = Empty]
  <2>1. \/ proc' = [proc EXCEPT ![p] = away]
        \/ proc' = [proc EXCEPT ![p] = again]
        \/ proc' = [proc EXCEPT ![p] = Idle]
    BY <1>0, <1>3 DEF ApproveRefused
  <2>2. away.list = me.list /\ again.list = me.list /\ Unapproved(me.list)
    BY <1>0, <1>3 DEF ProcState, ApproveRefused, Lists, Detecting
  <2> HIDE DEF away, again
  <2> QED BY <1>0, <2>1, <2>2, ListsMove, EmptyUnapproved
<1>4. CASE \/ MergeSave(p) \/ Count(p) \/ Consider(p) \/ BumpLoad(p)
           \/ BumpSave(p) \/ ApproveAllSave(p) \/ ApproveSave(p)
           \/ PinLoad(p) \/ PinSave(p)
  <2>1. \E x : /\ proc' = [proc EXCEPT ![p] = x]
               /\ x.pc \notin Detecting \/ x.list = Empty
    <3>1. CASE MergeSave(p)
      <4> DEFINE l == ToDispatch(me.list, Merged(me.list, me.snap), me.snap)
                 x == [Idle EXCEPT !.pc = "count", !.task = "poll", !.list = l]
                 y == [Idle EXCEPT !.pc = "approve", !.task = "repolled",
                                   !.req = me.req, !.pin = me.pin]
      <4>1. \/ proc' = [proc EXCEPT ![p] = x]
            \/ proc' = [proc EXCEPT ![p] = y]
        BY <3>1 DEF MergeSave
      <4> HIDE DEF l
      <4>2. x.pc = "count" /\ y.list = Empty
        BY DEF Idle
      <4> HIDE DEF x, y
      <4> QED BY <4>1, <4>2 DEF Detecting
    <3>2. CASE Count(p)
      <4> DEFINE l == IF me.task = "poll" THEN me.list ELSE pending
                 x == [Idle EXCEPT !.pc = "dispatch", !.task = me.task,
                           !.running = Cardinality(Locked), !.list = l]
      <4>1. proc' = [proc EXCEPT ![p] = x]
        BY <3>2 DEF Count
      <4> HIDE DEF l
      <4>2. x.pc = "dispatch"
        BY DEF Idle
      <4> HIDE DEF x
      <4> QED BY <4>1, <4>2 DEF Detecting
    <3>3. CASE Consider(p)
      <4>1. me.pc = "dispatch"
        BY <3>3 DEF Consider
      <4> DEFINE x == [me EXCEPT !.at = me.at + 1, !.list[me.at] = None]
                 y == [me EXCEPT !.pc = "bump"]
      <4>2. \/ proc' = [proc EXCEPT ![p] = Idle]
            \/ proc' = [proc EXCEPT ![p] = y]
            \/ proc' = [proc EXCEPT ![p] = x]
        BY <1>0, <3>3 DEF Consider, Goes
      <4>3. x.pc = "dispatch" /\ y.pc = "bump"
        BY <1>0, <4>1 DEF ProcState
      <4> HIDE DEF x, y
      <4> QED BY <1>0, <4>2, <4>3 DEF Detecting
    <3>4. CASE BumpLoad(p)
      <4> DEFINE x == [me EXCEPT !.pc = "bumpSave", !.snap = pending]
      <4>1. proc' = [proc EXCEPT ![p] = x] /\ x.pc = "bumpSave"
        BY <1>0, <3>4 DEF BumpLoad, LockedLoad, ProcState
      <4> QED BY <4>1 DEF Detecting
    <3>5. CASE BumpSave(p)
      <4> DEFINE x == [me EXCEPT !.pc = "dispatch", !.at = me.at + 1,
                                 !.list[me.at] = None, !.snap = Empty]
                 y == [me EXCEPT !.pc = "dispatch", !.at = me.at + 1,
                                 !.list[me.at] = None, !.snap = Empty,
                                 !.running = me.running + 1]
      <4>1. \/ proc' = [proc EXCEPT ![p] = x]
            \/ proc' = [proc EXCEPT ![p] = y]
        BY <3>5 DEF BumpSave
      <4>2. x.pc = "dispatch" /\ y.pc = "dispatch"
        BY <1>0 DEF ProcState
      <4> HIDE DEF x, y
      <4> QED BY <4>1, <4>2 DEF Detecting
    <3>6. CASE ApproveAllSave(p)
      BY <1>0, <3>6 DEF ApproveAllSave
    <3>7. CASE ApproveSave(p)
      <4> DEFINE x == [me EXCEPT !.pc = "pin", !.snap = Empty]
                 y == [Idle EXCEPT !.pc = "count", !.task = "approve"]
      <4>1. \/ proc' = [proc EXCEPT ![p] = Idle]
            \/ proc' = [proc EXCEPT ![p] = x]
            \/ proc' = [proc EXCEPT ![p] = y]
        BY <3>7 DEF ApproveSave, Then
      <4>2. x.pc = "pin" /\ y.pc = "count"
        BY <1>0 DEF ProcState, Idle
      <4> HIDE DEF x, y
      <4> QED BY <1>0, <4>1, <4>2 DEF Detecting
    <3>8. CASE PinLoad(p) \/ PinSave(p)
      <4> DEFINE x == [me EXCEPT !.pc = "pinSave", !.snap = pending]
                 y == [Idle EXCEPT !.pc = "count", !.task = "resume"]
      <4>1. \/ proc' = [proc EXCEPT ![p] = x]
            \/ proc' = [proc EXCEPT ![p] = y]
        BY <1>0, <3>8 DEF PinLoad, PinSave
      <4>2. x.pc = "pinSave" /\ y.pc = "count"
        BY <1>0 DEF ProcState, Idle
      <4> HIDE DEF x, y
      <4> QED BY <4>1, <4>2 DEF Detecting
    <3> QED BY <1>4, <3>1, <3>2, <3>3, <3>4, <3>5, <3>6, <3>7, <3>8
  <2> QED BY <2>1, ListsMove, EmptyUnapproved
<1> QED BY <1>1, <1>2, <1>3, <1>4 DEF Proceeds

LEMMA ListsStep == IInv /\ Lists /\ [Next]_vars => Lists'
<1> SUFFICES ASSUME IInv, Lists, [Next]_vars PROVE Lists'
  OBVIOUS
<1>1. ASSUME UNCHANGED proc PROVE Lists'
  BY <1>1 DEF Lists
<1>2. ASSUME NEW i \in Runs, Finishes(i) \/ RunWorks(i) \/ KillRun(i)
      PROVE  UNCHANGED proc
  BY <1>2 DEF Finishes, RunGate, RunLock, RunParks, RunEnds, ClearLoad,
              ClearSave, RunWorks, KillRun
<1>3. ASSUME NEW r \in Req, BeginManual(r) \/ EndManual(r) \/ NewWork(r)
      PROVE  UNCHANGED proc
  BY <1>3 DEF BeginManual, EndManual, NewWork
<1>4. CASE UNCHANGED vars
  BY <1>1, <1>4 DEF vars
<1> QED BY <1>1, <1>2, <1>3, <1>4, ListsStart, ListsProceed, ProcessAssumption
        DEF Next, Chat

LEMMA LimitNat ==
    ASSUME IInv, NEW r \in Req
    PROVE  MaxAutoRetries \in Nat /\ unclean[r] \in Nat
  BY SizeAssumption DEF IInv

LEMMA EntryNat ==
    ASSUME NEW q \in GoodQueue, NEW r \in Req, q[r] # None
    PROVE  q[r] \in GoodEntry /\ q[r].attempts \in Nat
  BY SizeAssumption DEF GoodQueue, GoodEntry, Entry

LEMMA NoneCounts ==
    ASSUME MaxAutoRetries \in Nat
    PROVE  Counts(None, 0)
  BY DEF Counts

\* A new approval starts the count afresh.
LEMMA ApprovedCounts ==
    ASSUME NEW e \in GoodEntry, MaxAutoRetries \in Nat
    PROVE  Counts(Approved(e), 0)
<1>1. Approved(e).attempts = 0
  BY DEF Approved, GoodEntry, Entry
<1> QED BY <1>1 DEF Counts

\* What the poll writes for a requirement counts what the old entry did.
LEMMA MergedCounts ==
    ASSUME NEW fresh \in GoodQueue, NEW old \in GoodQueue, Unapproved(fresh),
           NEW r \in Req, NEW n, Counts(old[r], n)
    PROVE  Counts(Merged(fresh, old)[r], n)
<1> DEFINE e == Merged(fresh, old)[r]
<1>1. e = IF fresh[r] # None THEN Inherits(fresh[r], old[r])
          ELSE IF Carried(old[r], r) THEN old[r] ELSE None
  BY DEF Merged
<1>2. CASE fresh[r] = None
  BY <1>1, <1>2 DEF Counts
<1>3. CASE fresh[r] # None /\ old[r] = None
  BY <1>1, <1>3 DEF Counts, Inherits, Unapproved, IsOn
<1>4. CASE fresh[r] # None /\ old[r] # None
  <2>1. Inherits(fresh[r], old[r]) =
          [fresh[r] EXCEPT !.attempts = old[r].attempts,
              !.suspended = old[r].suspended, !.approved = old[r].approved]
    BY <1>4 DEF Inherits
  <2>2. fresh[r] \in Entry
    BY <1>4 DEF GoodQueue, GoodEntry
  <2>3. /\ Inherits(fresh[r], old[r]).attempts = old[r].attempts
        /\ Inherits(fresh[r], old[r]).approved = old[r].approved
    BY <2>1, <2>2 DEF Entry
  <2>4. e = Inherits(fresh[r], old[r])
    BY <1>1, <1>4
  <2> HIDE DEF e
  <2>5. e.attempts = old[r].attempts /\ e.approved = old[r].approved
    BY <2>3, <2>4
  <2> QED BY <1>4, <2>5 DEF Counts, e
<1> QED BY <1>2, <1>3, <1>4

\* Counting an attempt and forking keep in step; one attempt too many only
\* suspends.
LEMMA BumpCounts ==
    ASSUME NEW e \in GoodEntry, e.approved, NEW n \in Nat,
           n <= e.attempts, e.attempts <= MaxAutoRetries
    PROVE  /\ BumpAttempt(e).suspended => ~BumpAttempt(e).approved
           /\ ~BumpAttempt(e).suspended =>
                /\ n + 1 <= BumpAttempt(e).attempts
                /\ BumpAttempt(e).attempts <= MaxAutoRetries
<1>1. /\ e.attempts \in Nat /\ MaxAutoRetries \in Nat
      /\ e.approved \in BOOLEAN /\ e.suspended \in BOOLEAN
      /\ e \in Entry
  BY SizeAssumption DEF GoodEntry, Entry
<1>2. ~(e.attempts > MaxAutoRetries)
  BY <1>1
<1>3. BumpAttempt(e) = [e EXCEPT !.attempts = e.attempts + 1,
          !.approved = e.approved /\ e.attempts + 1 <= MaxAutoRetries,
          !.suspended = e.suspended \/ e.attempts + 1 > MaxAutoRetries]
  BY <1>1, <1>2 DEF BumpAttempt, Entry
<1>4. BumpAttempt(e).attempts = e.attempts + 1
  BY <1>1, <1>3 DEF Entry
<1>5. ~BumpAttempt(e).suspended => e.attempts + 1 <= MaxAutoRetries
  <2>1. CASE e.attempts + 1 > MaxAutoRetries
    <3>1. BumpAttempt(e).suspended = TRUE
      BY <1>1, <1>3, <2>1 DEF Entry
    <3> QED BY <3>1
  <2>2. CASE ~(e.attempts + 1 > MaxAutoRetries)
    BY <1>1, <2>2
  <2> QED BY <2>1, <2>2
<1>6. BumpAttempt(e) \in GoodEntry
  BY BumpAttemptGood
<1> QED BY <1>1, <1>4, <1>5, <1>6 DEF GoodEntry

LEMMA CountedBump ==
    ASSUME IInv, Counted, NEW p \in Actors, BumpSave(p)
    PROVE  Counted'
<1> DEFINE me == proc[p]
           r == me.at
           old == me.snap[r]
<1>0. /\ me \in ProcState /\ me.pc = "bumpSave" /\ r \in Req
      /\ unclean \in [Req -> 0..(MaxAutoRetries + 2)]
  BY DEF IInv, GoodProc, BumpSave
<1>1. \/ UNCHANGED unclean
      \/ unclean' = [unclean EXCEPT ![r] =
            IF unclean[r] < MaxAutoRetries + 2 THEN unclean[r] + 1
            ELSE unclean[r]]
  BY <1>0 DEF BumpSave
<1>2. CASE old = None
  <2>1. UNCHANGED pending /\ crossed' = crossed \cup {r}
    BY <1>2 DEF BumpSave
  <2>2. \A s \in Req \ {r} : unclean'[s] = unclean[s]
    BY <1>0, <1>1
  <2> QED BY <2>1, <2>2 DEF Counted
<1>3. CASE old # None
  <2>1. /\ pending' = [me.snap EXCEPT ![r] = BumpAttempt(old)]
        /\ crossed' = crossed \cup Outdated(me.snap)
                         \cup {s \in {r} : ~old.approved}
    BY <1>3 DEF BumpSave
  <2>2. me.snap \in GoodQueue
    BY <1>0 DEF ProcState
  <2>u. BumpAttempt(old).suspended => UNCHANGED unclean
    <3> DEFINE new == BumpAttempt(old)
    <3>1. new # None
      BY <1>0, <1>3, <2>2, BumpAttemptGood, EntryAssumption
         DEF GoodQueue, GoodEntry
    <3>2. new # None /\ new.suspended => UNCHANGED unclean
      BY <1>3 DEF BumpSave
    <3> HIDE DEF new
    <3> QED BY <3>1, <3>2 DEF new
  <2> SUFFICES ASSUME NEW s \in Req, s \notin crossed'
               PROVE  Counts(pending'[s], unclean'[s])
    BY DEF Counted
  <2>3. me.snap[s] = pending[s] /\ Counts(pending[s], unclean[s])
    BY <2>1 DEF Counted, Outdated
  <2>4. CASE s # r
    <3>1. pending'[s] = pending[s] /\ unclean'[s] = unclean[s]
      BY <1>0, <1>1, <2>1, <2>2, <2>3, <2>4 DEF GoodQueue
    <3> QED BY <2>3, <3>1
  <2>5. CASE s = r
    <3> DEFINE e == pending[r]
               n == unclean[r]
               b == BumpAttempt(e)
    <3>1. e = old /\ e.approved /\ Counts(e, n) /\ e # None
      BY <1>3, <2>1, <2>3, <2>5
    <3>2. e \in GoodEntry /\ e.attempts \in Nat
      BY <1>0, <3>1, EntryNat DEF IInv
    <3>3. n \in Nat /\ MaxAutoRetries \in Nat
      BY <1>0, LimitNat
    <3>4. n <= e.attempts /\ e.attempts <= MaxAutoRetries /\ n <= MaxAutoRetries
      BY <3>1 DEF Counts
    <3>5. pending'[s] = b
      BY <1>0, <2>1, <2>2, <2>5, <3>1 DEF GoodQueue
    <3>6. /\ b.suspended => ~b.approved /\ UNCHANGED unclean
          /\ ~b.suspended => n + 1 <= b.attempts /\ b.attempts <= MaxAutoRetries
      BY <2>u, <3>1, <3>2, <3>3, <3>4, BumpCounts
    <3>7. b.attempts \in Nat
      BY <3>2, <3>3, BumpAttemptGood DEF GoodEntry, Entry
    <3>8. unclean'[s] = n \/ unclean'[s] = n + 1
      BY <1>0, <1>1, <2>5
    <3> HIDE DEF b, e, n
    <3>9. CASE b.suspended
      <4>1. unclean'[s] = n
        BY <2>5, <3>6, <3>9 DEF n
      <4> QED BY <3>4, <3>5, <3>6, <3>9, <4>1 DEF Counts
    <3>10. CASE ~b.suspended
      BY <3>3, <3>4, <3>5, <3>6, <3>7, <3>8, <3>10 DEF Counts
    <3> QED BY <3>9, <3>10
  <2> QED BY <2>4, <2>5
<1> QED BY <1>2, <1>3

LEMMA CountedWrites ==
    ASSUME IInv, Lists, Counted, NEW p \in Actors,
           MergeSave(p) \/ ApproveAllSave(p) \/ ApproveSave(p) \/ PinSave(p)
    PROVE  Counted'
<1> DEFINE me == proc[p]
<1>0. /\ me \in ProcState /\ me \in GoodProc /\ me.snap \in GoodQueue
      /\ unclean \in [Req -> 0..(MaxAutoRetries + 2)]
      /\ MaxAutoRetries \in Nat
  BY SizeAssumption DEF IInv, GoodProc, ProcState
<1>1. CASE MergeSave(p)
  <2>1. /\ pending' = Merged(me.list, me.snap) /\ UNCHANGED unclean
        /\ crossed' = crossed \cup Outdated(me.snap) /\ me.pc = "mergeSave"
    BY <1>1 DEF MergeSave
  <2>2. Unapproved(me.list) /\ me.list \in GoodQueue
    BY <1>0, <2>1 DEF Lists, Detecting, ProcState
  <2> SUFFICES ASSUME NEW s \in Req, s \notin crossed'
               PROVE  Counts(pending'[s], unclean'[s])
    BY DEF Counted
  <2>3. Counts(me.snap[s], unclean[s])
    BY <2>1 DEF Counted, Outdated
  <2> QED BY <1>0, <2>1, <2>2, <2>3, MergedCounts
<1>2. CASE ApproveAllSave(p)
  <2> DEFINE chosen == {r \in Req : Approvable(me.snap[r], r)}
  <2>1. /\ pending' = [r \in Req |-> IF r \in chosen THEN Approved(me.snap[r])
                                     ELSE me.snap[r]]
        /\ unclean' = [r \in Req |-> IF r \in chosen THEN 0 ELSE unclean[r]]
        /\ crossed' = (crossed \cup Outdated(me.snap)) \ chosen
    BY <1>2 DEF ApproveAllSave
  <2>2. \A r \in chosen : me.snap[r] \in GoodEntry
    BY <1>0 DEF Approvable, GoodQueue
  <2> SUFFICES ASSUME NEW s \in Req, s \notin crossed'
               PROVE  Counts(pending'[s], unclean'[s])
    BY DEF Counted
  <2> HIDE DEF chosen
  <2>3. CASE s \in chosen
    BY <1>0, <2>1, <2>2, <2>3, ApprovedCounts
  <2>4. CASE s \notin chosen
    <3>1. me.snap[s] = pending[s] /\ Counts(pending[s], unclean[s])
      BY <2>1, <2>4 DEF Counted, Outdated
    <3> QED BY <2>1, <2>4, <3>1
  <2> QED BY <2>3, <2>4
<1>3. CASE ApproveSave(p)
  <2> DEFINE r == me.req
  <2>1. /\ pending' = [me.snap EXCEPT ![r] = Approved(me.snap[r])]
        /\ unclean' = [unclean EXCEPT ![r] = 0]
        /\ crossed' = (crossed \cup Outdated(me.snap)) \ {r}
        /\ me.pc = "approveSave" /\ me.task # "all" /\ me.snap[r] # None
    BY <1>3 DEF ApproveSave, Clean, Approvable
  <2>2. r \in Req
    BY <1>0, <2>1 DEF GoodProc
  <2>3. me.snap[r] \in GoodEntry
    BY <1>0, <2>1, <2>2 DEF GoodQueue
  <2> HIDE DEF r
  <2> SUFFICES ASSUME NEW s \in Req, s \notin crossed'
               PROVE  Counts(pending'[s], unclean'[s])
    BY DEF Counted
  <2>4. CASE s = r
    <3>1. pending'[s] = Approved(me.snap[r]) /\ unclean'[s] = 0
      BY <1>0, <2>1, <2>2, <2>4 DEF GoodQueue
    <3> QED BY <1>0, <2>3, <3>1, ApprovedCounts
  <2>5. CASE s # r
    <3>1. me.snap[s] = pending[s] /\ Counts(pending[s], unclean[s])
      BY <2>1, <2>5 DEF Counted, Outdated
    <3>2. pending'[s] = me.snap[s] /\ unclean'[s] = unclean[s]
      BY <1>0, <2>1, <2>5 DEF GoodQueue
    <3> QED BY <3>1, <3>2
  <2> QED BY <2>4, <2>5
<1>4. CASE PinSave(p)
  <2> DEFINE r == me.req
  <2>1. /\ UNCHANGED unclean /\ me.pc = "pinSave"
        /\ \/ UNCHANGED <<pending, crossed>>
           \/ /\ me.snap[r] # None
              /\ pending' = [me.snap EXCEPT ![r] =
                                [me.snap[r] EXCEPT !.module = me.pin]]
              /\ crossed' = crossed \cup Outdated(me.snap)
    BY <1>0, <1>4 DEF PinSave, GoodQueue
  <2>2. r \in Req
    BY <1>0, <2>1 DEF GoodProc
  <2> SUFFICES ASSUME NEW s \in Req, s \notin crossed',
                      me.snap[r] # None,
                      pending' = [me.snap EXCEPT ![r] =
                                    [me.snap[r] EXCEPT !.module = me.pin]],
                      crossed' = crossed \cup Outdated(me.snap)
               PROVE  Counts(pending'[s], unclean'[s])
    BY <2>1 DEF Counted
  <2>3. me.snap[s] = pending[s] /\ Counts(pending[s], unclean[s])
    BY DEF Counted, Outdated
  <2>4. CASE s # r
    BY <1>0, <2>1, <2>3, <2>4 DEF GoodQueue
  <2>5. CASE s = r
    <3> DEFINE e == pending[r]
               b == [e EXCEPT !.module = me.pin]
    <3>1. e \in Entry /\ pending'[s] = b
      BY <1>0, <2>2, <2>3, <2>5 DEF GoodQueue, GoodEntry
    <3>2. b.attempts = e.attempts /\ b.approved = e.approved
      BY <3>1 DEF Entry
    <3>3. e # None /\ Counts(e, unclean[s]) /\ unclean'[s] = unclean[s]
      BY <2>1, <2>3, <2>5
    <3> HIDE DEF b, e
    <3> QED BY <3>1, <3>2, <3>3 DEF Counts
  <2> QED BY <2>4, <2>5
<1> QED BY <1>1, <1>2, <1>3, <1>4

LEMMA CountedRuns ==
    ASSUME IInv, Counted, NEW i \in Runs,
           ClearSave(i) \/ RunParks(i) \/ RunEnds(i)
    PROVE  Counted'
<1> DEFINE me == run[i]
           r == me.req
<1>0. /\ me \in GoodRun /\ me.snap \in GoodQueue
      /\ unclean \in [Req -> 0..(MaxAutoRetries + 2)]
      /\ MaxAutoRetries \in Nat
  BY SizeAssumption DEF IInv, GoodRun
<1>1. unclean' = [unclean EXCEPT ![r] = 0]
  BY DEF ClearSave, RunParks, RunEnds, Clean
<1> SUFFICES ASSUME NEW s \in Req, s \notin crossed'
             PROVE  Counts(pending'[s], unclean'[s])
  BY DEF Counted
<1>2. CASE UNCHANGED <<pending, crossed>>
  <2>1. Counts(pending[s], unclean[s])
    BY <1>2 DEF Counted
  <2>2. CASE s = r
    <3>1. unclean'[s] = 0
      BY <1>0, <1>1, <2>2
    <3>2. pending[s] # None => pending[s].attempts \in Nat
      BY EntryNat DEF IInv
    <3> QED BY <1>0, <1>2, <2>1, <3>1, <3>2 DEF Counts
  <2>3. CASE s # r
    BY <1>0, <1>1, <1>2, <2>1, <2>3
  <2> QED BY <2>2, <2>3
<1>3. CASE /\ pending' = [me.snap EXCEPT ![r] = None]
           /\ crossed' = (crossed \cup Outdated(me.snap)) \ {r}
  <2>1. CASE s = r
    <3>1. pending'[s] = None /\ unclean'[s] = 0
      BY <1>0, <1>1, <1>3, <2>1 DEF GoodQueue
    <3> QED BY <1>0, <3>1, NoneCounts
  <2>2. CASE s # r
    <3>1. me.snap[s] = pending[s] /\ Counts(pending[s], unclean[s])
      BY <1>3, <2>2 DEF Counted, Outdated
    <3> QED BY <1>0, <1>1, <1>3, <2>2, <3>1 DEF GoodQueue
  <2> QED BY <2>1, <2>2
<1> QED BY <1>2, <1>3 DEF ClearSave, RunParks, RunEnds

LEMMA CountedStep == IInv /\ Lists /\ Counted /\ [Next]_vars => Counted'
<1> SUFFICES ASSUME IInv, Lists, Counted, [Next]_vars PROVE Counted'
  OBVIOUS
<1>1. ASSUME UNCHANGED <<pending, unclean, crossed>> PROVE Counted'
  BY <1>1 DEF Counted
<1> QED BY <1>1, WhoWrites, CountedBump, CountedWrites, CountedRuns

\* dispatch forks a requirement at most MAX_AUTO_RETRIES times without a run
\* that ends in good order or a new approval (_bump_attempt), whatever dies
\* and however loads and saves interleave, wherever no outdated copy of
\* pending.json (approve, pin_module and _clear_approval take no lock) has
\* since been written over its entry or used to fork it.
THEOREM CrashLoopGuardHolds == Spec => []CrashLoopGuard
<1>1. Init => IInv /\ Lists /\ Counted /\ crossed \subseteq Req
  <2> SUFFICES ASSUME Init PROVE Lists /\ Counted /\ crossed \subseteq Req
    BY InvInit
  <2>1. Lists
    BY DEF Init, Lists, Detecting, Idle
  <2>2. Counted
    BY SizeAssumption, NoneCounts DEF Init, Counted, Empty
  <2> QED BY <2>1, <2>2 DEF Init
<1>2. IInv /\ Lists /\ Counted /\ crossed \subseteq Req /\ [Next]_vars =>
        IInv' /\ Lists' /\ Counted' /\ (crossed \subseteq Req)'
  BY InvStep, ListsStep, CountedStep, CrossedStep
<1>3. IInv /\ Counted /\ crossed \subseteq Req => CrashLoopGuard
  BY InvImplies DEF Counted, Counts, CrashLoopGuard
<1> QED BY <1>1, <1>2, <1>3, PTL DEF Spec

-----------------------------------------------------------------------------
(* The fate of approvals.                                                  *)

\* Counting an attempt takes an approval away only to suspend the entry.
LEMMA BumpUnapproves ==
    ASSUME NEW e \in GoodEntry, e.approved, ~BumpAttempt(e).approved
    PROVE  BumpAttempt(e).suspended
<1> DEFINE n == IF e.attempts > MaxAutoRetries THEN e.attempts
                ELSE e.attempts + 1
<1>1. e.attempts \in Nat /\ MaxAutoRetries \in Nat /\ n \in Nat /\ e \in Entry
  BY SizeAssumption DEF GoodEntry, Entry
<1>2. BumpAttempt(e) = [e EXCEPT !.attempts = n,
          !.approved = e.approved /\ n <= MaxAutoRetries,
          !.suspended = e.suspended \/ n > MaxAutoRetries]
  BY <1>1 DEF BumpAttempt, Entry
<1> HIDE DEF n
<1>3. CASE n <= MaxAutoRetries
  <2>1. BumpAttempt(e).approved = TRUE
    BY <1>1, <1>2, <1>3 DEF Entry
  <2> QED BY <2>1
<1>4. CASE n > MaxAutoRetries
  <2>1. BumpAttempt(e).suspended = TRUE
    BY <1>1, <1>2, <1>4 DEF Entry
  <2> QED BY <2>1
<1> QED BY <1>1, <1>3, <1>4

\* An approval is used up only by the end of a run of that requirement, the
\* suspension, or a poll that finds nothing to do (_merge_pending); no other
\* write of pending.json loses it but that of a process whose copy never had
\* it, wherever that process was interrupted.
THEOREM ApprovalsConsumedHold == Spec => ApprovalsConsumed
<1> DEFINE Consumed(r) ==
        \/ \E i \in Runs : run[i].req = r /\ run[i].pc = "clearSave"
                           /\ run'[i] = Exited
        \/ pending'[r] # None /\ pending'[r].suspended
        \/ \E p \in Actors : /\ proc[p].pc = "mergeSave"
                             /\ proc[p].list[r] = None
                             /\ proc'[p] # proc[p]
        \/ Overwrites(r)
<1>1. ASSUME IInv, [Next]_vars, NEW r \in Req, Approval(r)
      PROVE  Consumed(r)
  <2>1. IsOn(pending, r) /\ ~IsOn(pending', r) /\ pending' # pending
    BY <1>1 DEF Approval, IsApproved, IsOn
  <2>2. ASSUME NEW i \in Runs, ClearSave(i) PROVE Consumed(r)
    <3>1. /\ run[i].pc = "clearSave" /\ run'[i] = Exited
          /\ run[i].snap \in GoodQueue
          /\ pending' = [run[i].snap EXCEPT ![run[i].req] = None]
      BY <1>1, <2>1, <2>2 DEF ClearSave, IInv, GoodRun
    <3>2. CASE run[i].req = r
      BY <3>1, <3>2
    <3>3. CASE run[i].req # r
      <4>1. ~ApprovedIn(run[i].snap, r)
        BY <2>1, <3>1, <3>3 DEF ApprovedIn, IsOn, GoodQueue
      <4>2. run'[i] # run[i]
        BY <3>1 DEF Exited
      <4> QED BY <3>1, <4>1, <4>2 DEF Overwrites
    <3> QED BY <3>2, <3>3
  <2>3. ASSUME NEW p \in Actors,
               \/ MergeSave(p) \/ BumpSave(p) \/ ApproveAllSave(p)
               \/ ApproveSave(p) \/ PinSave(p)
        PROVE  Consumed(r)
    <3> DEFINE me == proc[p]
               snap == me.snap
    <3>0. /\ me \in GoodProc /\ me \in ProcState /\ snap \in GoodQueue
          /\ me.list \in GoodQueue /\ proc \in [Actors -> GoodProc]
      BY <1>1 DEF IInv, GoodProc, ProcState
    <3>1. me.pc \in Saving /\ proc'[p] # me
      <4>1. CASE MergeSave(p)
        BY <3>0, <4>1 DEF MergeSave, Saving, Idle
      <4>2. CASE BumpSave(p)
        <5> DEFINE x == [me EXCEPT !.pc = "dispatch", !.at = me.at + 1,
                                   !.list[me.at] = None, !.snap = Empty]
                   y == [me EXCEPT !.pc = "dispatch", !.at = me.at + 1,
                                   !.list[me.at] = None, !.snap = Empty,
                                   !.running = me.running + 1]
        <5>1. \/ proc' = [proc EXCEPT ![p] = x]
              \/ proc' = [proc EXCEPT ![p] = y]
          BY <4>2 DEF BumpSave
        <5>2. x.pc = "dispatch" /\ y.pc = "dispatch"
          BY <3>0 DEF ProcState
        <5> HIDE DEF x, y
        <5>3. proc'[p].pc = "dispatch"
          BY <3>0, <5>1, <5>2
        <5> QED BY <4>2, <5>3 DEF BumpSave, Saving
      <4>3. CASE ApproveAllSave(p)
        BY <3>0, <4>3 DEF ApproveAllSave, Saving, Idle
      <4>4. CASE ApproveSave(p)
        <5> DEFINE x == [me EXCEPT !.pc = "pin", !.snap = Empty]
                   y == [Idle EXCEPT !.pc = "count", !.task = "approve"]
        <5>1. \/ proc' = [proc EXCEPT ![p] = Idle]
              \/ proc' = [proc EXCEPT ![p] = x]
              \/ proc' = [proc EXCEPT ![p] = y]
          BY <4>4 DEF ApproveSave, Then
        <5>2. x.pc = "pin" /\ y.pc = "count" /\ Idle.pc = "idle"
          BY <3>0 DEF ProcState, Idle
        <5> HIDE DEF x, y
        <5>3. proc'[p].pc \in {"idle", "pin", "count"}
          BY <3>0, <5>1, <5>2
        <5> QED BY <4>4, <5>3 DEF ApproveSave, Saving
      <4>5. CASE PinSave(p)
        BY <3>0, <4>5 DEF PinSave, Saving, Idle
      <4> QED BY <2>3, <4>1, <4>2, <4>3, <4>4, <4>5
    <3>2. CASE ~ApprovedIn(snap, r)
      BY <3>1, <3>2 DEF Overwrites
    <3>3. CASE ApprovedIn(snap, r)
      <4>0. snap[r] \in GoodEntry /\ snap[r] \in Entry /\ snap[r].approved
        BY <3>0, <3>3 DEF ApprovedIn, GoodQueue, GoodEntry
      <4>1. CASE MergeSave(p)
        <5>1. me.pc = "mergeSave" /\ pending' = Merged(me.list, snap)
          BY <4>1 DEF MergeSave
        <5>2. CASE me.list[r] # None
          <6>1. pending'[r] = [me.list[r] EXCEPT
                   !.attempts = snap[r].attempts,
                   !.suspended = snap[r].suspended,
                   !.approved = snap[r].approved]
            BY <3>3, <5>1, <5>2 DEF Merged, Inherits, ApprovedIn
          <6>2. me.list[r] \in Entry
            BY <3>0, <5>2 DEF GoodQueue, GoodEntry
          <6>3. pending'[r].approved = snap[r].approved /\ pending'[r] \in Entry
            BY <4>0, <6>1, <6>2 DEF Entry
          <6> QED BY <2>1, <4>0, <6>3, EntryAssumption DEF IsOn
        <5>3. CASE me.list[r] = None
          BY <3>1, <5>1, <5>3
        <5> QED BY <5>2, <5>3
      <4>2. CASE BumpSave(p)
        <5> DEFINE s == me.at
                   e == snap[r]
        <5>1. s \in Req /\ pending' = [snap EXCEPT ![s] = BumpAttempt(snap[s])]
          BY <2>1, <3>0, <4>2 DEF BumpSave, GoodProc
        <5>2. s = r
          BY <2>1, <3>3, <5>1 DEF IsOn, ApprovedIn, GoodQueue
        <5>3. pending'[r] = BumpAttempt(e)
          BY <3>0, <5>1, <5>2 DEF GoodQueue
        <5> HIDE DEF e
        <5>4. e \in GoodEntry /\ e.approved /\ BumpAttempt(e) \in Entry
          BY <4>0, BumpAttemptGood DEF e, GoodEntry
        <5>5. pending'[r] # None /\ ~BumpAttempt(e).approved
          BY <2>1, <5>3, <5>4, EntryAssumption DEF IsOn
        <5>6. BumpAttempt(e).suspended
          BY <5>4, <5>5, BumpUnapproves
        <5> QED BY <5>3, <5>5, <5>6
      <4>3. CASE ApproveAllSave(p)
        <5>1. pending'[r] = snap[r]
          BY <4>0, <4>3 DEF ApproveAllSave, Approvable
        <5> QED BY <2>1, <3>3, <5>1 DEF IsOn, ApprovedIn
      <4>4. CASE ApproveSave(p)
        <5>1. me.req # r /\ pending' = [snap EXCEPT ![me.req] =
                                            Approved(snap[me.req])]
          BY <4>0, <4>4 DEF ApproveSave, Approvable
        <5> QED BY <2>1, <3>0, <3>3, <5>1 DEF IsOn, ApprovedIn, GoodQueue
      <4>5. CASE PinSave(p)
        <5>1. pending' = [snap EXCEPT ![me.req] =
                             [snap[me.req] EXCEPT !.module = me.pin]]
          BY <2>1, <3>0, <4>5 DEF PinSave, GoodQueue
        <5>2. pending'[r] \in {snap[r], [snap[r] EXCEPT !.module = me.pin]}
          BY <3>0, <5>1 DEF GoodQueue
        <5>3. pending'[r].approved = snap[r].approved
          BY <4>0, <5>2 DEF Entry
        <5>4. me.pin \in Pins \cup {None}
          BY <3>0 DEF ProcState
        <5>5. pending'[r] \in Entry
          BY <4>0, <5>2, <5>4 DEF Entry
        <5> QED BY <2>1, <4>0, <5>3, <5>5, EntryAssumption DEF IsOn
      <4> QED BY <2>3, <4>1, <4>2, <4>3, <4>4, <4>5
    <3> QED BY <3>2, <3>3
  <2>4. ASSUME NEW i \in Runs, RunParks(i) \/ RunEnds(i) PROVE FALSE
    BY <2>1, <2>4 DEF RunParks, RunEnds
  <2> QED BY <1>1, <2>1, <2>2, <2>3, <2>4, WhoWrites
<1>2. IInv /\ [Next]_vars =>
        [\A r \in Req : Approval(r) => Consumed(r)]_vars
  BY <1>1
<1> QED BY <1>2, InvInit, InvStep, PTL DEF Spec, ApprovalsConsumed
=============================================================================
