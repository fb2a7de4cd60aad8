------------------------------ MODULE ChatTurn ------------------------------
(***************************************************************************)
(* A chat message from its receipt to its answer (wecom_server/router.py): *)
(* the requirement it is about, the conversation's session with the        *)
(* assistant G, G's turns, the rounds that make G register the specs it    *)
(* has edited, and the actions that G's reply asks for.                    *)
(*                                                                         *)
(* Two daemons call the router.  aibot queues the messages of each         *)
(* conversation, Feishu those of each requirement; within a queue one      *)
(* message is handled after the other.  Of the engine the module keeps     *)
(* what an action tests or changes: an entry of pending.json is always one *)
(* that may be executed, and pending.json, state.json and the lock are     *)
(* read and written in one step (Dispatcher and ManualSession take those   *)
(* apart).                                                                 *)
(***************************************************************************)
EXTENDS Naturals, Sequences, FiniteSets, SequencesExt

CONSTANTS
    None, Overall,   \* no requirement; a question about all of them
    Req, Module,
    ReqOf,           \* Module -> Req
    Registered,      \* the requirements registered at first
    Conv,            \* conversations: a person's single chat, or a group
    PerConversation, \* those of the aibot daemon
    ReadOnly,        \* groups, and people who are not on the allow list
    Texts,           \* messages: whose, what they name, whether they approve
    Replies,         \* the actions G may ask for, as sequences
    MaxMessages,     \* bound: messages received
    MaxRounds,       \* _CORRECTION_MAX_ROUNDS
    MaxEdits         \* bound: specs edited by G

Message == 1..MaxMessages
Mods(r) == {m \in Module : ReqOf[m] = r}

\* __JSON_ACTION__: adjudicating without a requirement is meant for all.
Payload == [act : {"approve", "register", "adjudicate", "run"},
            req : Req \cup {None}, mod : Module \cup {None}]

ASSUME ChatAssumption ==
    /\ ReqOf \in [Module -> Req]
    /\ IsFiniteSet(Req) /\ Registered \subseteq Req
    /\ PerConversation \subseteq Conv /\ ReadOnly \subseteq Conv
    /\ None \notin Req \cup Module /\ Overall \notin Req \cup Conv \cup {None}
    /\ Conv \cap Req = {}
    /\ Texts \subseteq [conv : Conv, names : Req \cup {None, Overall},
                         says : BOOLEAN]
    /\ MaxMessages \in Nat /\ MaxRounds \in Nat /\ MaxEdits \in Nat
    /\ \A rep \in Replies : rep \in Seq(Payload)
    /\ \A rep \in Replies : \A p \in Range(rep) :
        /\ p.act \in {"register", "run"} => p.mod \in Mods(p.req)
        /\ p.act = "approve" => p.req \in Req

VARIABLES
    registry,  \* requirements.json: each requirement's status
    entry,     \* pending.json
    partial,   \* modules that may be executed (PARTIAL, READY)
    unreg,     \* modules whose spec.md is not the one state.json knows
    drafts,    \* modules with a pending draft
    busy,      \* requirements whose lock a run holds
    closing,   \* requirements whose close has passed its gates
    session,   \* the session files; a session is named for who made it
    traces,    \* edits that a spec-snapshot will show when a turn ends
    edits,     \* specs edited by G so far
    job        \* the messages

engine == <<registry, entry, partial, unreg, drafts, busy, closing>>
chat == <<session, traces, edits>>
vars == <<registry, entry, partial, unreg, drafts, busy, closing,
          session, traces, edits, job>>

Status == {"absent", "open", "closed"}
\* A closed requirement has a session about its main spec, if there is one.
Focus == [on : Req \cup {None}, main : BOOLEAN]

Blank == [pc |-> "none", conv |-> None, names |-> None, says |-> FALSE,
          known |-> [r \in Req |-> "absent"],
          focus |-> [on |-> None, main |-> FALSE], sid |-> 0, new |-> FALSE,
          reply |-> <<>>, at |-> 1, past |-> {}, rounds |-> 0, asked |-> FALSE]

Ended == {"done", "failed"}
Locked == {"turn", "retry"}
Turning == {"turn", "retry", "correct"}

(***************************************************************************)
(* job[t]: names is the requirement its text names, says whether the text  *)
(* approves, known the registry as of its receipt; at is the action of the *)
(* reply that is due, past the requirements it has gone through.  asked is *)
(* an observation: some reply to t asked for an approval, and none of t's  *)
(* actions has been one.  It outlives t.                                   *)
(***************************************************************************)
Job == [pc : {"none", "queued", "mint", "wait", "act"} \cup Turning \cup Ended,
        conv : Conv \cup {None}, names : Req \cup {None, Overall},
        says : BOOLEAN, known : [Req -> Status], focus : Focus,
        sid : 0..MaxMessages, new : BOOLEAN, reply : Seq(Payload), at : Nat,
        past : SUBSET Req, rounds : 0..MaxRounds, asked : BOOLEAN]

TypeOK ==
    /\ registry \in [Req -> Status]
    /\ entry \in [Req -> {"none", "waiting", "approved"}]
    /\ partial \subseteq Module /\ unreg \subseteq Module
    /\ drafts \subseteq Module
    /\ busy \subseteq Req /\ closing \subseteq Req
    /\ session \in [Conv -> [Focus -> 0..MaxMessages]]
    /\ traces \subseteq Message \X Module
    /\ edits \in 0..MaxEdits
    /\ job \in [Message -> Job]
    /\ \A t \in Message : job[t].pc = "act" => job[t].at \in DOMAIN job[t].reply

MayWrite(t) == job[t].conv \notin ReadOnly
Finished(how, asked) == [Blank EXCEPT !.pc = how, !.asked = asked]
Ends(t, how) == job' = [job EXCEPT ![t] = Finished(how, job[t].asked)]

-----------------------------------------------------------------------------
(* Receipt, queue, routing.                                                *)

\* dispatch; the registry is read now, and the text compared with its names.
Receive(t) ==
    /\ job[t] = Blank
    /\ \A s \in 1..(t - 1) : job[s].pc # "none"
    /\ \E text \in Texts :
        /\ text.names \in Req => registry[text.names] # "absent"
        /\ job' = [job EXCEPT ![t] = [Blank EXCEPT
                     !.pc = "queued", !.conv = text.conv, !.known = registry,
                     !.names = text.names, !.says = text.says]]
    /\ UNCHANGED <<engine, chat>>

QueueOf(t) ==
    IF job[t].conv \in PerConversation THEN job[t].conv
    ELSE IF job[t].names \in Req THEN job[t].names ELSE Overall

\* Mutant of ItsTurn: each message is handled in a thread of its own.
ItsTurnAtOnce(t) == job[t].pc = "queued"
\* Mutant of ItsTurn: the next message is taken when the lock is free again.
ItsTurnAfterTurn(t) ==
    \A s \in 1..(t - 1) :
        job[s].pc \in {"correct", "act"} \cup Ended \/ QueueOf(s) # QueueOf(t)
\* The worker of t's queue has come to t.
ItsTurn(t) ==
    \A s \in 1..(t - 1) : job[s].pc \in Ended \/ QueueOf(s) # QueueOf(t)

\* A named requirement; else, unless the question is about all of them, the
\* one the conversation was about in the last half hour or what the classifier
\* says: it may be any.
About(t) ==
    CASE job[t].names \in Req -> {job[t].names}
      [] job[t].names = Overall -> {None}
      [] OTHER -> {r \in Req : registry[r] # "absent"} \cup {None}

\* _get_session_id looks for the session's file and, in Mint, writes it.
Route(t) ==
    /\ job[t].pc = "queued" /\ ItsTurn(t)
    /\ \E r \in About(t) :
        \E main \in IF r \in Req /\ job[t].known[r] = "closed" THEN BOOLEAN
                    ELSE {FALSE} :
            LET c == job[t].conv
                f == [on |-> r, main |-> main]
                sid == session[c][f]
            IN  job' = [job EXCEPT ![t].focus = f, ![t].sid = sid,
                          ![t].pc = IF sid = 0 THEN "mint" ELSE "wait"]
    /\ UNCHANGED <<engine, chat>>

Mint(t) ==
    /\ job[t].pc = "mint"
    /\ session' = [session EXCEPT ![job[t].conv][job[t].focus] = t]
    /\ job' = [job EXCEPT ![t].pc = "wait", ![t].sid = t, ![t].new = TRUE]
    /\ UNCHANGED <<engine, traces, edits>>

-----------------------------------------------------------------------------
(* G's turns.                                                              *)

SameLock(s, t) ==
    /\ job[s].focus = job[t].focus
    /\ job[s].conv \in PerConversation <=> job[t].conv \in PerConversation

\* _llm_lock: one lock per focus in each daemon.
Enter(t) ==
    /\ job[t].pc = "wait"
    /\ \A s \in Message : job[s].pc \in Locked => ~SameLock(s, t)
    /\ job' = [job EXCEPT ![t].pc = "turn"]
    /\ UNCHANGED <<engine, chat>>

\* G edits a spec.md.  Only the Edit tool leaves a snapshot, which counts for
\* five minutes of a turn of thirty; where nothing may be changed, a hook
\* denies the edit.
Edit(t, m) ==
    /\ job[t].pc \in Turning /\ MayWrite(t)
    /\ registry[ReqOf[m]] = "open"
    /\ edits < MaxEdits /\ edits' = edits + 1
    /\ unreg' = unreg \cup {m}
    /\ traces' \in {traces, traces \cup {<<job[t].sid, m>>}}
    /\ UNCHANGED <<registry, entry, partial, drafts, busy, closing, session,
                   job>>

Asks(reply, act) == \E p \in Range(reply) : p.act = act

\* _unregistered_edits; a read-only conversation cannot register any.
Missing(t, reply) ==
    IF MayWrite(t)
    THEN {m \in Module : <<job[t].sid, m>> \in traces}
           \ {p.mod : p \in {q \in Range(reply) : q.act = "register"}}
    ELSE {}

\* A snapshot of the registry that lacks a requirement is read anew.
Refreshed(t, reply) ==
    IF \E p \in Range(reply) : /\ p.req \in Req
                                /\ job[t].known[p.req] = "absent"
                                /\ registry[p.req] # "absent"
    THEN registry ELSE job[t].known

\* _process_llm_reply begins to act on a reply.
Acting(t, reply, asked) ==
    IF reply = <<>> THEN Finished("done", asked)
    ELSE [Blank EXCEPT !.pc = "act", !.conv = job[t].conv,
            !.names = job[t].names, !.says = job[t].says,
            !.known = Refreshed(t, reply), !.reply = reply, !.asked = asked]

Replied(t, reply, rounds) ==
    LET asked == job[t].asked \/ Asks(reply, "approve")
    IN  job' = [job EXCEPT ![t] =
                  IF rounds < MaxRounds /\ Missing(t, reply) # {}
                  THEN [@ EXCEPT !.pc = "correct", !.new = FALSE,
                          !.reply = reply, !.rounds = rounds, !.asked = asked]
                  ELSE Acting(t, reply, asked)]

FirstReply(t) ==
    /\ job[t].pc \in Locked
    /\ \E reply \in Replies : Replied(t, reply, 0)
    /\ UNCHANGED <<engine, chat>>

\* Nothing printed: a session that could not be resumed is created.
NoReply(t) ==
    /\ job[t].pc \in Locked
    /\ IF job[t].pc = "turn" /\ ~job[t].new
       THEN job' = [job EXCEPT ![t].pc = "retry"]
       ELSE Ends(t, "done")
    /\ UNCHANGED <<engine, chat>>

\* The agent does not start, or is killed after half an hour.  In a round of
\* the correction nothing catches that: the reply before it is dropped, with
\* an approval that it may ask for, and the daemon says that t has failed.
TurnFails(t) ==
    /\ job[t].pc \in Turning
    /\ Ends(t, "failed")
    /\ UNCHANGED <<engine, chat>>

\* Mutant of Carry: the corrected reply replaces the first.
CarryNothing(old, new) == new
\* An approval asked for before is not swallowed by a correction.  (The code
\* keeps the order of several; those of different requirements commute, and
\* of the same the second does nothing.)
Carry(old, new) ==
    IF Asks(new, "approve") THEN new
    ELSE new \o SetToSeq({p \in Range(old) : p.act = "approve"})

\* Mutant of Correction: the rounds are not counted.
CorrectionForever(t) ==
    /\ job[t].pc = "correct"
    /\ \E reply \in Replies :
        Replied(t, Carry(job[t].reply, reply), job[t].rounds)
    /\ UNCHANGED <<engine, chat>>
\* A round of the correction loop; the lock has been released.
Correction(t) ==
    /\ job[t].pc = "correct"
    /\ \E reply \in Replies :
        Replied(t, Carry(job[t].reply, reply), job[t].rounds + 1)
    /\ UNCHANGED <<engine, chat>>

NoCorrection(t) ==
    /\ job[t].pc = "correct"
    /\ job' = [job EXCEPT ![t] = Acting(t, job[t].reply, job[t].asked)]
    /\ UNCHANGED <<engine, chat>>

-----------------------------------------------------------------------------
(* What polling makes of the queue (see Dispatcher).                       *)

Detected(r, mods) == registry[r] = "open" /\ r \notin busy
                     /\ Mods(r) \cap mods # {}
Polled(mods) ==
    [r \in Req |->
        IF Detected(r, mods)
        THEN IF entry[r] = "none" THEN "waiting" ELSE entry[r]
        ELSE IF entry[r] = "approved" /\ r \in busy THEN "approved"
        ELSE "none"]
\* Questions about a spec that has changed are archived.
Stale(mods) == {m \in drafts : m \in mods /\ Detected(ReqOf[m], mods)}

Poll ==
    /\ entry' = Polled(partial \cup unreg)
    /\ drafts' = drafts \ Stale(unreg)
    /\ UNCHANGED <<registry, partial, unreg, busy, closing, chat, job>>

-----------------------------------------------------------------------------
(* _dispatch_json_action: one action of the reply at a time.               *)

Current(t) == job[t].reply[job[t].at]
Does(t, act) == job[t].pc = "act" /\ Current(t).act = act

Advanced(t) ==
    LET asked == job[t].asked /\ Current(t).act # "approve"
    IN  job' = [job EXCEPT ![t] =
                  IF job[t].at = Len(job[t].reply) THEN Finished("done", asked)
                  ELSE [job[t] EXCEPT !.at = @ + 1, !.past = {},
                          !.asked = asked]]

\* Mutant of Allowed: the registry is not looked at.
AllowedAlways(t) == MayWrite(t)
\* Mutant of Allowed: allowed_actions is not looked at.
AllowedToAll(t) == job[t].known[Current(t).req] = "open"
\* allowed_actions, and the freeze of what was closed when t was received.
Allowed(t) == MayWrite(t) /\ job[t].known[Current(t).req] = "open"

\* _user_intends_approve, then scheduler.approve.
Approve(t) ==
    /\ Does(t, "approve")
    /\ LET r == Current(t).req
       IN  entry' = IF job[t].says /\ Allowed(t) /\ entry[r] = "waiting"
                         /\ Mods(r) \cap drafts = {}
                    THEN [entry EXCEPT ![r] = "approved"] ELSE entry
    /\ Advanced(t)
    /\ UNCHANGED <<registry, partial, unreg, drafts, busy, closing, chat>>

\* _execute_spec_result; a close has moved the spec of its requirement away.
Register(t) ==
    /\ Does(t, "register")
    /\ LET m == Current(t).mod
           r == Current(t).req
       IN  IF /\ Allowed(t) /\ r \notin busy
              /\ m \in unreg /\ registry[r] = "open"
           THEN /\ partial' = partial \cup {m}
                /\ unreg' = unreg \ {m}
                /\ entry' = Polled(partial \cup unreg)
                /\ drafts' = drafts \ Stale(unreg \ {m})
           ELSE UNCHANGED <<partial, unreg, entry, drafts>>
    /\ Advanced(t)
    /\ UNCHANGED <<registry, busy, closing, chat>>

\* The requirements that an adjudication of all has still to go through.
Left(t) == {r \in Req : job[t].known[r] # "absent"} \ job[t].past

\* To the next requirement, or the next action.
GoesOn(t, r) ==
    IF Current(t).req = None /\ Left(t) # {r}
    THEN job' = [job EXCEPT ![t].past = @ \cup {r}]
    ELSE Advanced(t)

\* No draft is left: approve, after a poll if there is no entry.  Without an
\* entry the second attempt raises, and with it the message fails.
Resume(t, r, left) ==
    /\ drafts' = left
    /\ IF entry[r] # "none"
       THEN entry' = [entry EXCEPT ![r] = "approved"] /\ GoesOn(t, r)
       ELSE LET polled == Polled(partial \cup unreg)
            IN  IF polled[r] = "none"
                THEN entry' = polled /\ Ends(t, "failed")
                ELSE entry' = [polled EXCEPT ![r] = "approved"] /\ GoesOn(t, r)

Answer(t, r, answered) ==
    IF Mods(r) \cap (drafts \ answered) = {}
    THEN Resume(t, r, drafts \ answered)
    ELSE drafts' = drafts \ answered /\ UNCHANGED entry /\ GoesOn(t, r)

NothingToAnswer(t, r) == GoesOn(t, r) /\ UNCHANGED <<drafts, entry>>

AnswersSome(t, r) ==
    \E answered \in SUBSET (Mods(r) \cap drafts) : Answer(t, r, answered)

\* _execute_adjudicate.  The numbers given may be of no pending draft.
Adjudicate(t) ==
    /\ Does(t, "adjudicate")
    /\ LET r == Current(t).req
       IN  /\ r # None
           /\ IF ~Allowed(t) \/ r \in busy THEN NothingToAnswer(t, r)
              ELSE \/ Mods(r) \cap drafts = {} /\ NothingToAnswer(t, r)
                   \/ AnswersSome(t, r)
    /\ UNCHANGED <<registry, partial, unreg, busy, closing, chat>>

\* _execute_adjudicate_all goes through the registry, in an order that is not
\* modelled; no closed requirement is passed over.
AdjudicateAll(t) ==
    /\ Does(t, "adjudicate") /\ Current(t).req = None
    /\ \/ /\ ~MayWrite(t) \/ Left(t) = {}
          /\ Advanced(t) /\ UNCHANGED <<drafts, entry>>
       \/ /\ MayWrite(t)
          /\ \E r \in Left(t) :
                IF r \in busy \/ Mods(r) \cap drafts = {}
                THEN NothingToAnswer(t, r) ELSE AnswersSome(t, r)
    /\ UNCHANGED <<registry, partial, unreg, busy, closing, chat>>

\* _execute_run_spec forks a run of one module.
RunSpec(t) ==
    /\ Does(t, "run")
    /\ LET r == Current(t).req
       IN  busy' = IF /\ Allowed(t) /\ r \notin busy
                      /\ Mods(r) \cap drafts = {} /\ Current(t).mod \in partial
                   THEN busy \cup {r} ELSE busy
    /\ Advanced(t)
    /\ UNCHANGED <<registry, entry, partial, unreg, drafts, closing, chat>>

-----------------------------------------------------------------------------
(* Everything else.                                                        *)

\* A dispatch forks an approved run.
RunStarts(r) ==
    /\ entry[r] = "approved" /\ r \notin busy /\ Mods(r) \cap drafts = {}
    /\ busy' = busy \cup {r}
    /\ UNCHANGED <<registry, entry, partial, unreg, drafts, closing, chat, job>>

\* It has registered what was edited, and synced its modules or parked some.
RunEnds(r) ==
    /\ r \in busy
    /\ busy' = busy \ {r}
    /\ entry' = [entry EXCEPT ![r] = "none"]
    /\ \E parked \in SUBSET (Mods(r) \cap (partial \cup unreg)) :
        /\ partial' = (partial \ Mods(r)) \cup parked
        /\ drafts' = (drafts \ Mods(r)) \cup parked
    /\ unreg' = unreg \ Mods(r)
    /\ UNCHANGED <<registry, closing, chat, job>>

\* cmd_close: its gates, and long after them, without a lock, its mark.
CloseBegins(r) ==
    /\ registry[r] = "open" /\ r \notin busy \cup closing
    /\ Mods(r) \cap (partial \cup unreg \cup drafts) = {}
    /\ closing' = closing \cup {r}
    /\ UNCHANGED <<registry, entry, partial, unreg, drafts, busy, chat, job>>

CloseEnds(r) ==
    /\ r \in closing
    /\ closing' = closing \ {r}
    /\ registry' = [registry EXCEPT ![r] = "closed"]
    /\ UNCHANGED <<entry, partial, unreg, drafts, busy, chat, job>>

\* G, or a person, runs `loop_engine requirement-add'.
AddRequirement(r) ==
    /\ registry[r] = "absent"
    /\ registry' = [registry EXCEPT ![r] = "open"]
    /\ UNCHANGED <<entry, partial, unreg, drafts, busy, closing, chat, job>>

-----------------------------------------------------------------------------

Init ==
    /\ registry = [r \in Req |-> IF r \in Registered THEN "open" ELSE "absent"]
    /\ entry = [r \in Req |-> "none"]
    /\ partial = {} /\ unreg = {} /\ drafts = {}
    /\ busy = {} /\ closing = {}
    /\ session = [c \in Conv |-> [f \in Focus |-> 0]]
    /\ traces = {} /\ edits = 0
    /\ job = [t \in Message |-> Blank]

Acts(t) == Approve(t) \/ Register(t) \/ Adjudicate(t) \/ AdjudicateAll(t)
           \/ RunSpec(t)

\* What the thread that handles t does next.
Step(t) ==
    \/ Route(t) \/ Mint(t) \/ Enter(t)
    \/ FirstReply(t) \/ NoReply(t) \/ TurnFails(t)
    \/ Correction(t) \/ NoCorrection(t)
    \/ Acts(t)

Environment ==
    \/ Poll
    \/ \E r \in Req : \/ RunStarts(r) \/ RunEnds(r) \/ CloseBegins(r)
                      \/ CloseEnds(r) \/ AddRequirement(r)

Next ==
    \/ \E t \in Message :
        Receive(t) \/ Step(t) \/ (\E m \in Module : Edit(t, m))
    \/ Environment

Spec == Init /\ [][Next]_vars

\* A turn ends: the agent is killed after half an hour.  The worker of a
\* queue, a thread that holds or waits for a lock, and one that acts go on.
FairSpec == Spec /\ \A t \in Message : WF_vars(Step(t))

-----------------------------------------------------------------------------
(* Properties.                                                             *)

\* "the user's approval is not swallowed by the correction round": whatever G
\* drops while it is made to register its edits, when it has asked for an
\* approval in any reply to a message, the message is not over before one has
\* been tried, unless it has failed.  (Then it is lost, see TurnFails, and the
\* person is told of the failure and not of the approval.)
ApprovalCarried ==
    \A t \in Message : job[t].pc = "done" => ~job[t].asked

SameSession(s, t) == s # t /\ job[s].sid # 0 /\ job[s].sid = job[t].sid
\* "its LLM chat sessions must never overlap": no two turns in one session.
TurnsApart ==
    \A s, t \in Message :
        SameSession(s, t) => ~({job[s].pc, job[t].pc} \subseteq Turning)

\* In aibot's conversations that is so, corrections included, although those
\* hold no lock; and every state is well typed.
AibotTurnsApart ==
    /\ TypeOK
    /\ \A s, t \in Message :
        SameSession(s, t) /\ {job[s].conv, job[t].conv} \subseteq PerConversation
        => ~({job[s].pc, job[t].pc} \subseteq Turning)

\* What a conversation of aibot said before is never lost because two of its
\* messages made the same session file.
AibotSessionsStay ==
    [][\A c \in PerConversation : \A f \in Focus :
          session[c][f] # 0 => session'[c][f] = session[c][f]]_vars

ActedOn(t) == /\ job[t].pc = "act"
              /\ job'[t] # job[t]
Touches(r) ==
    \/ entry'[r] # entry[r]
    \/ busy' # busy
    \/ Mods(r) \cap partial' # Mods(r) \cap partial
    \/ Mods(r) \cap drafts' # Mods(r) \cap drafts

\* Through corrections, expansions and refreshed registries: nothing that is
\* said in a group or by a stranger changes what the engine works on.
ReadOnlyInert ==
    [][\A t \in Message :
          ActedOn(t) /\ job[t].conv \in ReadOnly => UNCHANGED engine]_vars

\* A requirement that was closed when a message was received is not approved,
\* registered or run by it, though G's reply may refresh the registry.
ClosedStays ==
    [][\A t \in Message : \A r \in Req :
          ActedOn(t) /\ job[t].known[r] = "closed" /\ Current(t).req = r
          => ~Touches(r)]_vars

\* "approve must be triggered by the user's own words, lest G approve what it
\* registered itself": or by the user's answer to the last pending draft.
ApprovedByUser ==
    [][\A t \in Message : \A r \in Req :
          /\ ActedOn(t) /\ entry[r] # "approved" /\ entry'[r] = "approved"
          => job[t].says \/ Mods(r) \cap drafts # {}]_vars

\* Every message is answered, though turns fail and wait for each other.
Answered ==
    \A t \in Message : job[t].pc = "queued" ~> job[t].pc \in Ended
=============================================================================
