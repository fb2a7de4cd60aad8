# loop_engine in TLA+

loop_engine drives a coding agent through specification documents: a
*requirement* is a directory with modules, each module has a `spec.md` and a
plan, and the engine decides step by step what the agent does next (score the
spec, plan, write tests, write code, check, fix, review), reads the agent's
report and moves the module on until it is SYNCED.  A scheduler starts such
runs from a queue of approved requirements; people approve, answer questions
("gray drafts") and edit specs through chat, the command line and the files.

This directory holds TLA+ modules of that program, configurations that check
them with TLC, and theorems with proofs for TLAPS.

## Inventory

| component | code | state | operations | hard about it |
|---|---|---|---|---|
| state machine | `machine.py`, `constants.py` | `state.json`: modules, `current` (resume checkpoint), gray drafts | `next`, `commit` (one handler per action), `resolve_gray_draft`, `record_spec_change` | long histories: parking, re-registration, overrides and crashes between any two steps |
| state store | `state.py` | `state.json`, `state.json.bak` | `load` (with recovery), `save` | kills inside a save, damage, readers without the lock |
| run | `scheduler.run_requirement` | counters of one run, `result.md` | ask `next`, start the agent, `commit`, retry, repair, stop | three child processes that hang, fail or print nonsense |
| queue | `scheduler.poll`, `approve`, `dispatch`, `pin_module`, `_clear_approval` | `pending.json`, `pending.json.lock` | detect, merge, approve, count, fork, clear | processes that share a file, only some of them under its lock |
| requirement lock, manual sessions | `scheduler.acquire_lock` ... `manual_end` | `.loop/lock`, `.loop/manual.json`, a holder process | begin, hold, step, end, clean up | a session that outlives its owner; probing a lock takes it |
| chat router | `wecom_server/router.py` | session files, spec snapshots, a lock per focus; acts on the above | detect the requirement, talk to the assistant G, make it register its edits, act on its reply: approve, adjudicate, run one spec, register a spec | turns of half an hour on a registry read before them; acts without the locks the scheduler takes |
| Feishu daemon | `feishu_server/server.py` | events seen, file buffer with timers, a queue per requirement | deduplicate, download, buffer, merge with a text, queue, reply | a thread per message, timers, redelivery |
| aibot daemon | `aibot_server/server.py` | the connection, messages seen, a queue and a worker per conversation, a thread pool | connect again, deduplicate, download, queue, reply, push, stop | a connection that breaks while anything is under way |
| close | `cli.cmd_close`, `registry.py` | main specs of the domain, `spec-backups`, `requirements.json` | merge deltas, back up, rename, archive, mark CLOSED | five kinds of files, no transaction: dies half-way, overlaps |
| parser, spec utilities, directives | `parser.py`, `spec_utils.py`, `directives.py` | none | read a report, hash a spec, build a directive | text |
| agent launcher, platform adapters, setup, report, hooks | `agent_cli.py`, `aibot_server/media.py`, `aibot_api.py`, `feishu_api.py`, `wecom_api.py`, `setup.py`, `report.py`, `scope_audit.py` | caches | adapters | I/O |

How they interact: cron starts `poll`, which detects work, merges it into
`pending.json` and dispatches approved entries: it forks a *run*.  The run
takes the requirement's `.loop/lock` and calls `next` and `commit` as child
processes until there is nothing to do, a person is needed or a limit is hit;
its `finally` releases the lock and removes the queue entry.  A daemon receives
a chat message and queues a job for it; the job asks the router, which gives
the message to G, an agent with a session per conversation and requirement,
and acts on the actions G's reply names.  These write `pending.json` and,
while no run holds the lock, `state.json`.

What makes the parts correct, in one line each: only checked and built code
merges; a question waits for its answer and its answer is acted upon; numbers
of questions are unique for ever; a run ends and never commits an old report;
an approval leads to a run or is visibly withdrawn; a crash loop stops;
`state.json` behaves as one atomic value; the lock's file names the lock's
holder and no manual session outlives its owner; a requirement that is marked
CLOSED is in the main specs, and no text of a main spec is lost; a message is
answered once, in its turn, or refused; what its author may not do, or a closed
requirement does not allow, no reply of G makes happen, and what its author
approved no reply of G swallows.

## Modules

### LoopMachine

The requirement: `file` (what is on disk), `mod`, `cur` and `drafts` (from
`state.json`), `lock` (who runs, with which `--module` pin, and whether it
calls `next` or `commit` next).  `next` is one action per case of its code
(`ResumeCurrent`, `ScanSpec`, `ScanPlan`, `SelectAligned`, `SelectParked`,
`SelectByStatus`, `SelectNothing`), `commit` one action per outcome of each
handler (`CommitScore` ... `CommitReviewFix`).  What an agent reports is the
choice of the commit action.  The environment edits files, registers specs,
answers drafts, sets statuses, and begins and ends sessions, and may do so under
a step that works on the module.  A run's `next` may die before its output
(`Undirected`: `run_requirement` does not look at the exit code), and its
`commit` then applies to the checkpoint that happens to be there (`blind`).
`history` is observed and never read: the text a module's code was last checked
against, whether somebody has edited `spec.md` since, and whether the code was
built, tested and reviewed since its last edit.

One constant switches the environment: `SlowGate` lets a run be overtaken between
its gate and its lock.

### Dispatcher

The queue and its processes: cron's poll, the chat server and the runs they
fork.  Each read-modify-write of `pending.json` is a load and a save, with the
copy held in between (`snap`); those of `_merge_pending` and `_update_pending`
hold `flock`, the others do not, and every interleaving is in the model: a save
may write back a copy that others have outdated.  A requirement is reduced to
what a poll sees of it (`engine`: kind of work, a checkpoint, pending drafts).
Two variables are observed and never read: `unclean` counts the forks of a
requirement since its last good end or approval, `crossed` has the requirements
whose entry somebody has since written back from an outdated copy, or has
dispatched though it was not approved in the file.

### RunLoop

`run_requirement` as a program: `pc`, its counters, the checkpoint `engine`
that `next` and `commit` keep, and how old `result.md` is.  Every child may
fail in every way the code distinguishes.

### StateStore, AtomicStore

`StateManager.load` and `save` file operation by file operation; a file holds
a version, is torn or is absent.  Three kinds of processes use them: `Writers`,
the children of a run, whose run holds `.loop/lock`; `Probers`, which look at the
lock, give up when it is held, and then load and save without it (the answers to
drafts, machine.py:118-133, and the chat's spec_result, router.py:827-895); and
`Lockless` ones, which do not look (set-status, reset, set-project-root, and all
readers).  `AtomicStore` is the promise: one value that a load returns whole and
a commit replaces in one step; and a commit may destroy an update only if one of
the two was made without the lock.  `calm` is observed: nobody was killed, and no
two processes were at the files together.

### ManualSession

The lock of one requirement, in the three places where it lives: the kernel's
`flock`, the pid written into `.loop/lock` (`content`) and the pid in
`.loop/manual.json` (`session`).  `acquire_lock` and `release_lock` change
them one after the other (`HolderAcquires`, `HolderWritesPid`, `HolderBlanks`,
`HolderUnlocks`, and the same for a run), `manual_begin` polls for its holder,
`manual_end` loads the session, compares, sends a SIGTERM, waits and unlinks,
poll's clean-up asks and then calls `manual_end`, the person's commands ask
`is_locked` and rewrite `manual.json`.  The signal (`term`) arrives when it does
(`HolderTerminated`), and the wait for the lock ends because it is free
(`EndSeesFree`) or because its five seconds are over (`EndTimesOut`).  Sessions
may be begun while others last, by other people too; `MaxMoves` bounds the
person's steps and the kills together.

### Close

`cmd_close` in its order: every output built (`Prepare`), all copies made
(`BackUp`), all temporary files written, all renamed, all changes archived,
the registry loaded and saved.  A main spec is a function from the names of
its requirement blocks to the requirement whose text they carry, which is what
a merge is about.  A close may die between any two steps and be repeated.
`Concurrent` lets closes overlap.

### ChatTurn

`wecom_server/router.py` from `dispatch` to the answer.  `job[t]` is the local
state of the thread that handles message `t`: the registry as it was at the
receipt (`known`), the session, G's reply and the round of the correction loop,
and in `act` the action that comes next.  `_llm_dispatch` is `Route`, `Mint`,
`Enter`, then `FirstReply`, `NoReply` or `TurnFails`, then `Correction` and
`NoCorrection`; `_process_llm_reply` is `Refreshed`, `Acting` and one action of
the model per action of the reply (`Approve`, `Register`, `Adjudicate`,
`AdjudicateAll`, `RunSpec`).  G's replies are chosen from `Replies`; its edits of
specs may leave a snapshot or not.  Of the engine the module keeps what these
actions test or change (`entry`, `partial`, `unreg`, `drafts`, `busy`), and lets
poll, runs and closes change it at any time.  `PerConversation` holds the
conversations of the aibot daemon, which queues by conversation; Feishu queues by
requirement.  `asked` is observed and never read: G has asked for an approval in
a reply to this message, and none has been tried since.  It outlives the message.

### SerialDesk, FeishuDesk, AibotDesk

`SerialDesk` is what a chat transport promises: a message becomes part of at most
one job or is refused, queues are bounded and served one job at a time in order.
`FeishuDesk` has `_handle_event` (`DeliverText`, `DeliverFile`, `DeliverOther`; a
repeated event does nothing), the threads that download (`fetching`, `saved`),
`_file_buffer` with its timers (`buffer`, `live`, and `fired` for a timer whose
thread comes late), the threads in `_process` (`prompts`) and the queues with
their workers.  `AibotDesk` has `_run` and `_session` (`link`), the frame that is
handled (`frame`), downloads in the pool, and the worker's steps; a send fails
unless the connection is up, and may fail then.  A shutdown cancels the tasks of
the event loop (`Leave`), and the program ends when the turns that are under way
in the pool have ended (`Off`: `asyncio.run` waits for its threads).  Both refine
`SerialDesk`: a job is the set of the messages in its prompt.

### MC modules

`MCLoopMachine`, `MCDispatcher`, `MCStateStore`, `MCRunLoop`,
`MCManualSession`, `MCClose`, `MCChatTurn`, `MCFeishuDesk` and `MCAibotDesk` add
what the configurations need: texts and their normal forms, symmetry of
interchangeable processes, the table of the machine's actions, the requirements
that are closed, the messages and G's replies.

`LoopMachine`, `RunLoop`, `Dispatcher` and `StateStore` see the same run at
four depths.  They are not composed into one state space.  What one takes for
granted another shows: `LoopMachine` and `Dispatcher` treat a lock as atomic
(`ManualSession`), a load and save under the lock as one step (`StateStore`,
run `store`), and `next` and `commit` as the only children (`RunLoop`).
`ChatTurn` takes for granted that a queue hands out one message after the
other, which `FeishuDesk` and `AibotDesk` show (`Serial`), and these that a turn
ends, which `ChatTurn` shows (`Answered`); it reads and writes `pending.json` in
one step, which `Dispatcher` takes apart.

## Runs

Twelve runs; the last one finds a disagreement between the code and what it
says of itself.  States are distinct states.  The type invariant `TypeOK` of every
module is checked: `loop_single` names it, in the other modules it is the first
conjunct of `CrashLoopGuard`, `Survives`, `AgentBudget`, `LockNamesHolder`,
`OthersKept`, `AibotTurnsApart`, `BufferTimed` and `InOrder` (`loop_pair` and
`dispatch_live` run the modules of `loop_single` and `dispatch`).

| run | states | what it asks |
|---|---|---|
| `loop_single` | 2.1 M | One module; runs and a manual session, edits at any time and under any step, set-status, adjudications, a gate that is overtaken, children that die.  `Bedrock`: code that merges was found clean by a CHECKER after its last edit.  `BuiltBeforeMerge`: some MAKER built it.  `MergedAsChecked`: a merge registers the text that the code was checked against, unless that was edited after the verdict.  `ParkedWhilePending`: a module with an open question is parked.  `RejectionsStick`: a rejected question is not asked again. |
| `loop_pair` | 2.7 M | Two modules, a cap of one draft, a `next` that dies.  `IdsNeverReissued`: draft numbers are unique though the cap deletes drafts.  `PinnedRunStaysInScope`: a run pinned to a module changes no other one, but for the step after such a `next`. |
| `dispatch` | 956 k | One requirement, cron, the chat server and two runs, any of which may be killed, in every interleaving, lost updates included.  `SuspendedUnapproved`: no entry is suspended and approved at once.  `CrashLoopGuard`: a run that keeps dying is forked at most `MaxAutoRetries` times, wherever no outdated copy was written over its entry or used to fork it. |
| `dispatch_live` | 538 k | The same with answers to drafts and one run.  `ApprovalsConsumed`: but for the save of a copy in which it was not yet, nothing but the end of a run, the suspension and a poll that finds no work takes an approval away.  Under fairness `ApprovedRuns`: what is approved and can start gets a run with the lock, or the approval is withdrawn. |
| `store` | 3.2 M | Two writers, a prober and a lockless process that load and save or only load, kills between any two file operations, `state.json` damaged or deleted twice between uses.  `Atomic`: until the first damage `StateStore` implements `AtomicStore`.  `Survives`: while all is calm one of the last two versions is on disk.  `LoadsRecover`: the next load finds it. |
| `run_loop` | 141 k | All failures of all children.  `FreshResult`: no stale report is committed.  `CommittedOnce`: none is committed twice.  `AgentBudget`: a step is given to two agents at most (those that repair a report's format come on top, two for each report).  `Terminates`: every run ends without the lock and cleared. |
| `manual_sessions` | 267 k | Two sessions that may overlap, a run, a probe, cron, the person and others, signals that arrive late.  `LockNamesHolder`: `.loop/lock` names who works under it.  `EndedHolderGone`: an end that saw the lock free has no living holder behind it.  Under fairness `HoldersExpire` and `SessionsSwept`: nothing of a session stays for ever. |
| `close` | 865 k | Three requirements, two of which share a main spec, one of which has two modules of one name; closes die at any step and are repeated.  `ClosedIsMerged`, `ReplacedIsBackedUp`, `OthersKept`. |
| `chat_turns` | 347 k | Two messages, each of a person or a group in aibot or of a Feishu user, about a requirement that is registered, edited, run and closed meanwhile.  `ApprovalCarried`: a message that is answered and has not failed is not over before the approval that one of G's replies asked for was tried.  `AibotTurnsApart`, `AibotSessionsStay`: a session of aibot has one turn at a time, and its file is written once.  `ReadOnlyInert`: groups and strangers change nothing.  `ClosedStays`: nor do messages to a closed requirement.  `Answered`. |
| `feishu` | 135 k | Six messages of two people, two requirements, room for one job.  `OnePlace`: a message is in one place until it has ended.  `BufferTimed`: files that wait have a timer.  `Serial`: refinement of `SerialDesk`.  `Concluded`: nothing received stays without reply or note. |
| `aibot` | 198 k | Five messages of two conversations, one thread, connections that break, a shutdown.  `InOrder`: a conversation is answered in its order.  `Serial`, `Concluded`; `StopEnds`: a shutdown ends the program. |
| `v_ApprovedByUser` | | *violated*, see below |

### Bounds, and why they are enough

* `loop_single`: `MaxMakerAttempts = 2` and `MaxReviewFixCycles = 1` make every
  counter pass through zero, an inner value and its limit; a budget larger by one
  repeats the inner value.  `MaxGrayDrafts = 2`, `MaxDraftId = 2`: a module with
  an answered and an open draft.  `MaxInterventions = 2` bounds what people do;
  the reachable disorders need an edit and an answer.
* `loop_pair`: the smallest cap, one attempt and no review fix, for the properties
  are about two modules and about the drafts' numbers; one intervention, which is
  an edit of a spec or a plan or a `next` that dies (answers are not counted).
  They do not read `history`, which the run hides (`VIEW`).  Spec texts of equal
  standing under `Norm` are interchangeable (`SYMMETRY`, in `loop_single` too).
* `dispatch`, `dispatch_live`: one retry, a place for one run.  `dispatch` has two
  run processes, which are interchangeable, so that a run that ends late meets its
  successor, and approve, approve-all, run-spec, manual sessions, edits and kills.
  `dispatch_live` has one, and approve, resume after adjudication, edits and
  kills: with all of them at once the state space is ten times larger.
  Competition of several requirements for `max_concurrency` is modelled and not
  checked.
* `store`: two versions besides the initial one and two faults, so that the backup
  is damaged as well or `state.json` is damaged again after its repair; two
  writers, which are interchangeable, for what the lock keeps apart, and one
  process of each kind that it does not.
* `run_loop`: `MaxSameAction = 3`, `MaxFailureRetries = 1` and `MaxFormatRepairs =
  2` are the code's own values; `MaxTotalSteps = 6` in place of 200 lets each of
  the limits be the first one reached.
* `manual_sessions`: two holders, for a second session begun while the first is
  being cleaned up; two moves.
* `close`: a main spec that exists or not, with any of its blocks; the deltas of
  `a1` are all valid ones over two names, those of `b1` all over one.
* `chat_turns`: two messages, for what one does between two steps of the other;
  one requirement, absent at first, so that a registry may be stale in both ways
  (it lacks the requirement, it shows it open); replies that register before and
  after approving, run, and adjudicate one or all; one correction round in place
  of two (`MaxRounds`), which is the first, the last and one in which the approval
  is dropped; one edit of one module.  `v_ApprovedByUser`: one message.
* `feishu`: two files and two texts of one person, so that a buffer is taken,
  refilled and flushed; room for one job in place of three, with up to four jobs
  of one queue.
* `aibot`: three messages in a conversation, the second one a file, so that the
  third arrives during the download; one thread, so that downloads and turns wait
  for each other; room for one job.  Reconnections are not bounded.

### Fairness

`Dispatcher`: cron polls again and again; a process that can proceed does, or
dies; a run ends (its children have timeouts); a manual session ends
(`ManualSession`, run `manual_sessions`).  `RunLoop`: one weak fairness for the
run, whose children end by their timeouts of 30 seconds, 6 hours and 95
minutes.  `ManualSession`: processes proceed, cron's clean-up is called, time
passes; people are not fair.  `ChatTurn`: the thread of a message goes on, for
the agent is killed after half an hour (`_run_llm_turn`); a thread that waits
for a lock gets it, as only two messages compete.  `FeishuDesk`, `AibotDesk`:
threads, timers, the tasks of the event loop go on, and downloads, turns and
pushes have timeouts; the platform owes nothing, a connection may break for
ever, nobody has to stop the daemon.  All of it is weak fairness.

## Findings

* `v_ApprovedByUser`: router.py:976 says that an approval must come from the
  user's own intent, lest G approve what it registered itself.
  `_process_llm_reply` asks for that intent for the action `approve`.  An
  `adjudicate` action with the number of a draft that is not pending resolves
  nothing, finds that no draft remains, and approves the requirement: G's reply
  registers a module and approves it without a word of the user.  (That the
  answer to the last draft approves is meant, and the property allows it.)

### Disagreements

Behaviours that the models reach and a reader of the code may not expect.  No
document speaks against them, or a property against them would say no more than
this list; no run is about them.  `GateBeforeMerge`, `TurnsApart` and
`StopHeeded` are properties in their modules that fail as said.

*The gate before a merge* (`LoopMachine!GateBeforeMerge`; `loop_single.cfg`
without its other properties).  README.md:475 says that the engine runs the
tests itself before SYNCED.  `_execute_synced` (machine.py:799) skips them for a
module that is SYNCED already, and a module that was re-registered and merged
while it was parked is parked still (`record_spec_change` leaves
`_gray_resume`): `next` resumes it from SYNCED through MAKER_FIX, and the code
is merged without the tests.

*Lost approvals.*  scheduler.py:154-159 explains why `pending.json` needs a lock
and takes it in `_merge_pending` and `_update_pending`; `approve`, `pin_module` and
`_clear_approval` do without.  A poll that overlaps an approve writes the approval
away, and so does the end of a run; the runs `dispatch` and `dispatch_live` contain
it.  `ApprovalsConsumed` exempts the save of a copy that was loaded before the
approval was in it, and `CrashLoopGuard` requirements whose entry was written over
from an outdated copy, or that were dispatched from one: an overwritten count of
attempts lets a crash loop go on for longer.

*Manual sessions that expire at work.*  skills/manual-loop/SKILL.md:6 promises the
scheduler's lock for the session.  Its holder gives up an hour after the last commit
was counted, also while a step is being worked on; a scheduler run takes the lock,
and the person's next commit is let in because *somebody* holds it.

*State machine.*  A BLOCKED module comes back to life through a left-over
`_gray_resume`.  The light path merges edited code without a CODE_REVIEW.  A
spec that is edited between the CHECKER's verdict and the merge is registered as
merged, unseen by any CHECKER, for `_execute_synced` takes the hash anew
(machine.py:793): `MergedAsChecked` exempts exactly the merges with such an edit
(`history.edited`).  GREEN and
MAKER_FIX share `maker_attempts`, so a failed GREEN costs a fix round.  The cap
on drafts deletes an answer that nobody acted upon before it deletes archived
ones.  A run pinned to a module overwrites another module's checkpoint.  A spec
edit is scanned before an answered draft is resumed, and restarts the module.
Drafts filed between a run's gate and its lock do not stop the run.

*Queue.*  Two dispatches in quick succession both count the locks before either
run has taken one, so `max_concurrency` is exceeded; the second may fork an
entry that is gone.  The end of a run removes whatever was approved while it
ran.  An entry can be suspended without a crash, when adjudications follow one
another.  A poll's merge drops the pin.

*State store.*  set-status, reset, set-project-root, the answers to drafts and
the chat's spec_result save `state.json` without the lock, the last two after a
look at it: of two updates that overlap, one of them made so, one is lost.  (In
`Atomic` this is the commit with a stale view, which it allows to nobody else; in
`LoopMachine` each of these commands is one step.)  The backup is overwritten in
place: a kill in the copy and damage to `state.json` before the next save lose
both; so may two processes that are at the files together after damage.

*Run.*  A retry counts as a repetition, so `repeat_limit` may come in place of
the retry.  The repeat counter ignores the module.  An exception in the loop is
reported as `max_steps`.  A `next` that crashes starts an agent without a
directive, and its report is committed to the checkpoint that is there, which may
be that of another module than the pinned one (`PinnedRunStaysInScope` exempts
that step).

*Manual sessions.*  poll's clean-up reads the session anew after it found the
holder dead: it may kill or unlink a session that began in between.
`manual_step` writes an ended session's file back, and it is recorded twice.
`manual_end` waits five seconds for the lock and then unlinks the session and
reports success, though the holder may still live and the lock be held.  A
manual-begin that is slow writes `manual.json` after its holder's grace, when the
holder has gone.
`is_locked` takes the lock for a moment: a beginner is refused because somebody
asked, and the gate of `next` and `commit` admits a person because somebody
else asked.

*Close.*  A close that died after its first rename finds its own blocks as
conflicts when it is repeated, and after its first archived directory a spec
without hash: it can never be completed by `close`.  Two modules of one name
have one main spec: the second output replaces the first, and the second rename
raises.  A block that a delta removes stays in a *first* main spec.  Closes that
overlap (`Concurrent = TRUE`) lose each other's mark in `requirements.json`,
each other's blocks and copies, and share `.tmp` names: all three properties of
the run fail then.

*Chat.*  router.py:1063 says that turns of one session never overlap.  In Feishu
they do (`ChatTurn!TurnsApart`): correction rounds run outside the lock, and a
message that only the classifier assigns to a requirement waits in another queue
than those that name it; two first messages of one person may each make the
session file, and what the first one told G is forgotten.  Adjudicating all
requirements passes over no closed one.  An adjudication without an entry in the
queue raises after its answers are saved, and the reply's further actions are
dropped.  A correction round whose agent does not start or is killed after half an
hour raises (router.py:1426 is outside the `try` of 1397-1404): the message fails,
and the approval that an earlier reply asked for is lost with it, though the
comment at 1429-1432 says that a correction round shall not swallow it.
`ApprovalCarried` exempts messages that failed, and shows that this is the only
way to lose one; but a correction that approves another requirement replaces the
earlier approval.  Actions run in the order of G's reply: an approval before a
registration does not find its work. An edit made with Bash, or more than five
minutes before the end of the turn, leaves no trace that the correction loop sees.

*aibot.*  Turns that are under way at a shutdown go on, and act; their replies are
not sent.  A shutdown that arrives while a connection is being made finds none to
close and is heeded only when that connection ends (`AibotDesk!StopHeeded`).  A
download that takes more than 90 seconds keeps frames from being read, so that
the heartbeat closes a healthy connection.  A job whose reply cannot be sent is
lost with its actions done, and a message that is delivered again after that is
a duplicate.

*Notifications.*  `notify_text` sends to the platform and chat of the user who
wrote last, also when it speaks to the one who approved.

## Proofs

`LoopMachineProofs` proves about `LoopMachine`, for any number of modules, any
texts, limits and environment constants that satisfy the assumptions of
`LoopMachine`:

| theorem | says |
|---|---|
| `TypeCorrect` | `Spec => []TypeOK` |
| `ParkedUntilAnswered` | `Spec => []ParkedWhilePending` |
| `BedrockHolds` | `Spec => Bedrock` |
| `BuiltBeforeMergeHolds` | `Spec => BuiltBeforeMerge` |
| `MergedAsCheckedHolds` | `Spec => MergedAsChecked` |
| `IdsNeverReissuedHolds` | `Spec => IdsNeverReissued` |
| `RejectionsStickHolds` | `Spec => RejectionsStick` |
| `PinnedRunStaysInScopeHolds` | `Spec => PinnedRunStaysInScope` |

The inductive invariant is `LoopInv`: the types; a module that is not registered
was never merged, parked or aligned (`AbsentClean`); a registered module has a
spec on disk, and the checkpoint names a registered module (`SpecsExist`);
`ParkedWhilePending`; a module whose checkpoint is CODE_REVIEW was found clean by
a CHECKER and not edited since (`CheckedInReview`); a module that was ever merged,
is parked or aligned, or whose checkpoint is past the MAKER, was built
(`BuiltOnce`).  None of the properties is inductive by itself.  A merge happens in
the commit of CHECKER or CODE_REVIEW: that the latter merges checked code needs to
be known of the checkpoint before (`CheckedInReview`), whatever `next` and the
environment do in between.  The light path skips the MAKER for a module that was
merged once, and a parked module is resumed behind it, so `BuiltBeforeMerge` needs
`BuiltOnce` of those flags; and these are false of a module that `next` has just
discovered only because of `AbsentClean`. `MergedAsChecked` adds that in
CODE_REVIEW the text on disk is the one that was checked, or was edited since
(`CheckedOnDisk`), `IdsNeverReissued` that numbers are unique among the stored
drafts, `PinnedRunStaysInScope` that the step `next` has directed is of the pinned
module (`RunInScope`).

The layout follows the model: type lemmas for each operator, `NextCallFacts`,
`CommitFacts` and `EnvironmentFacts`, which say once what each kind of step does
to a module, and on these the step lemmas of the invariant's parts, which do
not look into the actions again.

`DispatcherProofs` proves, for any number of requirements, actors, runs and pins
and any limits, with every interleaving of loads and saves:

- `DispatcherTypes`: `Spec => []TypeOK`;
- `SuspendedUnapprovedHolds`: `Spec => []SuspendedUnapproved`;
- `CrashLoopGuardHolds`: `Spec => []CrashLoopGuard`;
- `ApprovalsConsumedHold`: `Spec => ApprovalsConsumed`.

`approve`, `pin_module` and `_clear_approval` read the queue, and write
it back when others have changed it, so the invariant on `pending` alone is not
inductive: `IInv` demands of every copy in a process' memory (`list` and `snap`
of the actors, `snap` of the runs) what it demands of the file, and that an actor
which is about to change an entry has a requirement to change it for
(`GoodProc`, `GoodRun`).  First each operation on the queue is shown to keep it
good (`MergedGood`, `BumpAttemptGood`, `ApprovedGood`, ...), then each part of a
process to keep the invariant (`PollSteps`, `BumpSteps`, `StartSteps`,
`ApproveSteps`, `RunSteps`, `OtherSteps`).

The guard needs two invariants on top: that the attempts of an approved entry are
at least the forks that are not accounted for, and at most the limit (`Counted`),
for every requirement that is not in `crossed`; and that what a poll has detected is
not approved (`Lists`), for a merge must not bring an approval without its count.
The delicate step is the fork: `dispatch` decides on a list and counts an attempt in
the file, and between the two a run can end and remove the entry, or a poll replace
it.  Then the fork is not counted, and `crossed` says so (`CountedBump`).  Each
other write of the file either is of a fresh copy or marks what it changes
(`WhoWrites`, `CrossedStep`).

`RunLoopProofs` proves, for any modules, actions and limits, whatever the
children of a run do:

- `FreshResultHolds`, `AgentBudgetHolds`: `Spec => []FreshResult`,
  `Spec => []AgentBudget`;
- `CommittedOnceHolds`: `Spec => CommittedOnce`.

The invariant: a round begins below the limits on equal actions and on steps
(`Limits`), without which the counters leave their types; each agent but that of
the round in progress was paid for by a retry (`Paid`), which bounds the agents
by the retries and these by their limit; and what lies in `result.md` from the
start of the agent on was written by it and not read by a commit (`Fresh`).

`StateStoreProofs` proves, for any processes and any number of damages:

- `SurvivesAlways`: `Spec => []Survives`;
- `LoadsRecoverAlways`: `Spec => LoadsRecover`;
- `AtomicHolds`: `Spec => Atomic`, the refinement of `AtomicStore` up to the
  first damage.

`IInv` says what each process carries from step to step of `load` and `save`
(`Carries`), that a writer that is not idle has the lock (`Locked`), that before
the first damage `state.json` is good, nobody repairs it, and a writer still sees
what it loaded unless the last save was one without the lock (`Whole`), and that
while all is calm both files are at most one version old and there is a backup
unless one is being written (`Recoverable`).  `Whole` is what `AtomicStore`'s guard
on a commit needs: the store forbids a careful process to destroy a careful one's
update, and the view of the lock's holder is outdated only when the author of
the last save was not one.  `Survives` is not inductive: it needs both files to be
recent, because the next damage takes either, and the step in which the backup is
rewritten is safe only as the state it copies is good (`Sees`).

`ManualSessionProofs` proves, for any holders, runs, probes and enders:

- `LockNamesHolderAlways`: `Spec => []LockNamesHolder`;
- `EndedHolderGoneAlways`: `Spec => []EndedHolderGone`.

The invariant adds to both that the flock is where its owners believe it is
(`Owned`), that a holder which was started is not started again (`Started`), and
that a pid in a session file, or one that somebody read from there, is that of a
holder that was started (`Begun`).  `EndedHolderGone` then goes over two steps.
When `manual_end` compares, the pid in `.loop/lock` was written by a process that
had the lock (`Compared`); a holder keeps the lock until it is dead (`Onward`); so
when the lock is seen free afterwards, by whatever route and whoever took and
dropped it meanwhile, that holder is dead, with its signal or without.  Nothing is
claimed when the wait runs out.

`FeishuDeskProofs` proves, for any messages, users, requirements and capacity:

- `BufferTimedAlways`: `Spec => []BufferTimed`, which is inductive;
- `OnePlaceAlways`: `Spec => []OnePlace`, that a message that was seen is in
  exactly one place (from `Apart`, no two places, and `Kept`, no message is
  lost between them);
- `SerialHolds`: `Spec => Serial`, that `FeishuDesk` implements `SerialDesk`.
  The mapping takes as open what is in no queue and not answered.  A prompt that
  is queued or refused has to consist of open messages, which needs `Apart`: a
  message that was seen is in one place only, being downloaded, saved, buffered,
  in one prompt, or out.

`AibotDeskProofs` proves, for any messages, conversations, capacity and number of
threads:

- `InOrderHolds`: `Spec => []InOrder`;
- `SerialHolds`: `Spec => Serial`, with the same abstract specification.

`InOrder` follows from `Line`, which describes where the messages of a
conversation are: each was received once (`Once`); one that has not ended is the
worker's, in the queue or in the frame that is handled (`Placed`); the worker's
is before the queue's, and the queue is in the order of receipt (`Lined`); the
one that is still handled is the last one received, as the daemon handles one
frame at a time (`Handled`).  The last conjunct is what makes `Lined` survive an
enqueue: a download that takes long keeps the frames behind it from being read.

`ChatTurnProofs` proves, for any conversations of both daemons, requirements,
texts and replies, and any bounds on messages, rounds and edits:

- `AibotTurnsApartAlways`: `Spec => []AibotTurnsApart` (with the types), and
  `AibotSessionsStayHolds`: `Spec => AibotSessionsStay`;
- `ApprovalCarriedAlways`: `Spec => []ApprovalCarried`;
- `ReadOnlyInertHolds`: `Spec => ReadOnlyInert`, and `ClosedStaysHolds`: `Spec =>
  ClosedStays`.

The lock on G is released before the rounds of the correction loop, so it is not
what keeps the turns of a session apart.  The invariant, `Jobs`, shows what does:
messages are numbered as they come (`InTurn`), and as the queue of an aibot
conversation waits for the end of a message, at most one of them is between its
routing and its end (`OneAtATime`); the session file that this one looked for,
and is perhaps about to write, has then not changed (`Sessions`); and two files
never name the same session (`Made`).  None of these holds of Feishu's
conversations, whose queues are those of the requirements: there two messages can
both find no file, see Disagreements.  `JobAsked` says that an approval
that was asked for and not yet tried is in the reply at hand, among the actions that
are still due; its step is the lemma
`CarryGood` about the merge of a reply with its correction.  The two action
properties need, of the invariant, that `Current(t)` is an action G may ask for
(`CurrentGood`), and that only the actions of a reply change a message that has
come to them (`ActedOnActs`).

The assumptions are those that the modules state of their constants: processes,
runs and the like are different, `None` is none of them, limits are natural
numbers; in `Dispatcher` there is work that may be executed among the kinds of
work, and an entry of the queue is not `None`; in `FeishuDesk` and `AibotDesk`
there are finitely many messages, each of a kind, from a user or in a
conversation, and a queue with room for at least one; in `ChatTurn` an action of
a reply names a module of its requirement where it needs one.

Only model-checked: `Close`.  `ApprovedRuns`, `Terminates`, `HoldersExpire`,
`SessionsSwept`, `Answered`, `Concluded` and `StopEnds` are liveness properties
and stay with TLC, as TLAPS proves nothing about fairness.

## Not modelled

* `LoopMachine`: spec files are never deleted; the load and save of
  `state.json` by one command is one step; a report that the parser rejects
  leaves the state as it is; a plan is at its derived path; `_migrate` and
  `_backfill_ever_synced` (old files); duplicate warnings collapse;
  `current.attempt`, trace, audit and footprints; `next` and `commit` of people
  who are outside of the session that runs.  Modules are ordered by number.
* `Dispatcher`: `load_pending` and `running_count` of the chat's dispatch are
  one step; entries are in registry order; `trigger`, `approved_by`,
  `detected_at`; the archiving by poll is in `LoopMachine`; attempts saturate.
* `RunLoop`: gate and lock (in the other modules), the archive, session ids,
  people who drop the checkpoint during a run.
* `StateStore`: loss of power.  Kills are of processes, the files stay as
  written.
* `ManualSession`: `runs.json`, step counts, torn reads of `manual.json`, pids
  that the kernel reuses; that a `manual.json` which is torn, or whose requirement
  is CLOSED, stays: poll's clean-up passes over both.
* `Close`: the gates on `state.json`, which change nothing; the order of blocks,
  Purpose and further sections; change directories without a module; copies of
  one main spec made within one second.
* `ChatTurn`: prompts, prefixes, views; which requirement an unnamed message is
  about (any, as `recent.json` and the classifier may say); the removal and
  renaming of requirements; the pin of an adjudication (`Dispatcher`); a crash of
  the daemon, which loses its threads and queues and keeps only session files.
* `FeishuDesk`, `AibotDesk`: a restart of the daemon (buffers, queues and what was
  seen are in memory); events that come again after the quarter of an hour for
  which they are remembered; the order in which Feishu's threads reach the
  queue, which is any; receipts; `/notify` and `last_user.json`.
* The parser, the spec utilities, the directives, the launcher, the platform
  adapters, setup, report and hooks; see `components` in PROJECT.json.

## Plan

Done: the components above, in the order of their weight.  Next:

1. Proofs about `Close`, when closes do not overlap.
2. The report parser and the normal form of specs as operators, checked against
   reference definitions over bounded inputs; `scope_audit`.
3. `schedule.json` and the registry as files that several commands rewrite;
   `prune-worktrees`.
