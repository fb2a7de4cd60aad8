---------------------------- MODULE ChatTurnProofs ----------------------------
(* Theorems about ChatTurn, for any conversations, requirements, replies   *)
(* and bounds, with both daemons' queues and every interleaving of turns,  *)
(* polls, runs and closes.                                                 *)
EXTENDS ChatTurn, FiniteSetTheorems, TLAPS

-----------------------------------------------------------------------------
(* Replies.                                                                *)

\* What ChatAssumption says of the actions that G may ask for.
GoodPayload ==
    {p \in Payload : /\ p.act \in {"register", "run"} => p.mod \in Mods(p.req)
                     /\ p.act = "approve" => p.req \in Req}
GoodReply == Seq(GoodPayload)

LEMMA RepliesGood == Replies \subseteq GoodReply
<1> SUFFICES ASSUME NEW rep \in Replies PROVE rep \in GoodReply
  OBVIOUS
<1>1. /\ rep \in Seq(Payload)
      /\ \A p \in Range(rep) : p \in Payload => p \in GoodPayload
  BY ChatAssumption DEF GoodPayload
<1>2. \A i \in 1..Len(rep) : rep[i] \in GoodPayload
  BY <1>1 DEF Range
<1> QED BY <1>1, <1>2 DEF GoodReply

\* SetToSeq lists a finite set.
LEMMA SetToSeqLists ==
    ASSUME NEW S, IsFiniteSet(S)
    PROVE  /\ SetToSeq(S) \in Seq(S)
           /\ \A e \in S : \E i \in 1..Len(SetToSeq(S)) : SetToSeq(S)[i] = e
<1> DEFINE n == Cardinality(S)
           g == SetToSeq(S)
<1>1. n \in Nat /\ ExistsBijection(1..n, S)
  BY FS_CardinalityType
<1>2. \E f \in [1..n -> S] : IsInjective(f)
  BY <1>1 DEF ExistsBijection, Bijection, Injection, IsInjective
<1>3. g \in [1..n -> S] /\ IsInjective(g)
  BY <1>2 DEF SetToSeq
<1>4. g \in Injection(1..n, S)
  BY <1>3 DEF Injection, IsInjective
<1>5. IsFiniteSet(1..n) /\ Cardinality(1..n) = n
  BY <1>1, FS_Interval
<1> HIDE DEF g, n
<1>6. g \in Surjection(1..n, S)
  BY <1>4, <1>5, FS_Injection DEF n
<1>7. g \in Seq(S) /\ Len(g) = n
  BY <1>1, <1>3
<1> QED BY <1>6, <1>7 DEF Surjection, g

LEMMA CarryGood ==
    ASSUME NEW old \in GoodReply, NEW new \in GoodReply
    PROVE  /\ Carry(old, new) \in GoodReply
           /\ Asks(old, "approve") => Asks(Carry(old, new), "approve")
<1> DEFINE S == {p \in Range(old) : p.act = "approve"}
           kept == SetToSeq(S)
<1>1. /\ \A i \in 1..Len(old) : old[i] \in GoodPayload
      /\ DOMAIN old = 1..Len(old) /\ Len(old) \in Nat
  BY DEF GoodReply
<1>2. Range(old) = {old[i] : i \in 1..Len(old)}
  BY <1>1 DEF Range
<1>3. IsFiniteSet(Range(old))
  <2>1. IsFiniteSet(1..Len(old))
    BY <1>1, FS_Interval
  <2>2. old \in Surjection(1..Len(old), Range(old))
    BY <1>1, <1>2 DEF Surjection, GoodReply
  <2> QED BY <2>1, <2>2, FS_Surjection
<1>4. IsFiniteSet(S) /\ S \subseteq GoodPayload
  BY <1>1, <1>2, <1>3, FS_Subset
<1>5. /\ kept \in Seq(S)
      /\ \A e \in S : \E i \in 1..Len(kept) : kept[i] = e
  BY <1>4, SetToSeqLists
<1>6. kept \in Seq(GoodPayload)
  BY <1>4, <1>5
<1> HIDE DEF kept
<1>7. new \o kept \in GoodReply
  BY <1>6 DEF GoodReply
<1>8. ASSUME NEW e \in S PROVE e \in Range(new \o kept)
  <2>1. PICK i \in 1..Len(kept) : kept[i] = e
    BY <1>5
  <2>2. /\ Len(new) + i \in 1..Len(new \o kept)
        /\ (new \o kept)[Len(new) + i] = kept[i]
    BY <1>6, <2>1 DEF GoodReply
  <2>3. DOMAIN (new \o kept) = 1..Len(new \o kept)
    BY <1>7 DEF GoodReply
  <2> QED BY <2>1, <2>2, <2>3 DEF Range
<1>9. Carry(old, new) = IF Asks(new, "approve") THEN new ELSE new \o kept
  BY DEF Carry, kept
<1> QED BY <1>7, <1>8, <1>9 DEF Asks
-----------------------------------------------------------------------------
(* The inductive invariant.  Jobs says it of each message by itself, of the *)
(* messages together and of the session files: a conversation of aibot is  *)
(* at one message at a time, and that one alone is at its session.         *)

\* From its routing to its end.
Active == {"mint", "wait", "act"} \cup Turning
InSession == {"wait"} \cup Turning

JobTyped(x) == x \in Job /\ x.reply \in GoodReply

\* What is stored of a message fits the place it has come to.
JobPlaced(x) ==
    /\ x.pc \in Active \cup {"queued"} => x.conv \in Conv
    /\ x.pc \in InSession => x.sid # 0
    /\ x.pc = "act" => x.at \in DOMAIN x.reply
    /\ x.pc = "correct" => x.rounds < MaxRounds

\* An approval that was asked for and has not been tried is in the reply at
\* hand, and no action before it is due.
JobAsked(x) ==
    x.asked => /\ x.pc \in {"correct", "act", "failed"}
               /\ x.pc = "correct" => Asks(x.reply, "approve")
               /\ x.pc = "act" => \E i \in DOMAIN x.reply :
                                     i >= x.at /\ x.reply[i].act = "approve"

JobOk(x) == JobTyped(x) /\ JobPlaced(x) /\ JobAsked(x)

\* Messages are numbered in the order of their receipt.
InTurn ==
    \A s, t \in Message : s < t /\ job[t].pc # "none" => job[s].pc # "none"

OneAtATime ==
    \A s, t \in Message :
        s < t /\ job[s].conv = job[t].conv /\ job[t].conv \in PerConversation
              /\ job[t].pc \in Active
        => job[s].pc \in {"none"} \cup Ended

\* A session is named for the message that made its file, and in one file.
Made ==
    /\ \A c \in Conv : \A f \in Focus : session[c][f] # 0 =>
          job[session[c][f]].pc \notin {"none", "queued", "mint"}
    /\ \A c, d \in Conv : \A f, g \in Focus :
          session[c][f] # 0 /\ session[c][f] = session[d][g] => c = d /\ f = g

\* The file of aibot's conversation has not changed since it was looked for.
Sessions ==
    \A t \in Message : job[t].conv \in PerConversation =>
        /\ job[t].pc \in InSession =>
              session[job[t].conv][job[t].focus] = job[t].sid
        /\ job[t].pc = "mint" => session[job[t].conv][job[t].focus] = 0

Typed ==
    /\ registry \in [Req -> Status]
    /\ entry \in [Req -> {"none", "waiting", "approved"}]
    /\ partial \subseteq Module /\ unreg \subseteq Module
    /\ drafts \subseteq Module
    /\ busy \subseteq Req /\ closing \subseteq Req
    /\ traces \subseteq Message \X Module
    /\ edits \in 0..MaxEdits

Jobs ==
    /\ session \in [Conv -> [Focus -> 0..MaxMessages]]
    /\ job \in [Message -> Job]
    /\ \A t \in Message : JobOk(job[t])
    /\ InTurn /\ OneAtATime /\ Made /\ Sessions

IInv == Typed /\ Jobs

-----------------------------------------------------------------------------
(* The engine.                                                             *)

LEMMA PolledTyped ==
    ASSUME Typed, NEW mods
    PROVE  Polled(mods) \in [Req -> {"none", "waiting", "approved"}]
BY DEF Typed, Polled

\* The action of a reply that is due is one of those that G may ask for.
LEMMA CurrentGood ==
    ASSUME NEW t \in Message, JobOk(job[t]), job[t].pc = "act"
    PROVE  /\ Current(t) \in Payload
           /\ Current(t).act \in {"register", "run"} =>
                  Current(t).mod \in Mods(Current(t).req)
           /\ Current(t).act = "approve" => Current(t).req \in Req
<1>1. job[t].reply \in Seq(GoodPayload) /\ job[t].at \in DOMAIN job[t].reply
  BY DEF JobOk, JobTyped, JobPlaced, GoodReply
<1>2. Current(t) \in GoodPayload
  BY <1>1 DEF Current
<1> QED BY <1>2 DEF GoodPayload

\* What the actions that a reply asks for make of the engine.
LEMMA ActsTyped ==
    ASSUME Typed, NEW t \in Message, JobOk(job[t]), Acts(t)
    PROVE  Typed'
<1> DEFINE Entries == [Req -> {"none", "waiting", "approved"}]
<1>1. job[t].pc = "act"
  BY DEF Acts, Approve, Register, Adjudicate, AdjudicateAll, RunSpec, Does
<1>2. UNCHANGED <<registry, closing, session, traces, edits>>
  BY DEF Acts, Approve, Register, Adjudicate, AdjudicateAll, RunSpec, chat
<1>3. /\ Current(t) \in Payload
      /\ Current(t).act \in {"register", "run"} =>
            Current(t).mod \in Mods(Current(t).req)
      /\ Current(t).act = "approve" => Current(t).req \in Req
  BY <1>1, CurrentGood
<1>4. \A mods : Polled(mods) \in Entries
  BY PolledTyped
<1>5. entry \in Entries /\ partial \subseteq Module /\ unreg \subseteq Module
      /\ drafts \subseteq Module /\ busy \subseteq Req
  BY DEF Typed
<1> SUFFICES /\ entry' \in Entries /\ partial' \subseteq Module
             /\ unreg' \subseteq Module /\ drafts' \subseteq Module
             /\ busy' \subseteq Req
  BY <1>2 DEF Typed
<1>6. ASSUME NEW r \in Req, NEW left \in SUBSET Module, Resume(t, r, left)
      PROVE  entry' \in Entries /\ drafts' \subseteq Module
  <2> DEFINE polled == Polled(partial \cup unreg)
  <2>1. polled \in Entries
    BY <1>4
  <2>2. drafts' = left
    BY <1>6 DEF Resume
  <2>3. \/ entry' = [entry EXCEPT ![r] = "approved"]
        \/ entry' = polled
        \/ entry' = [polled EXCEPT ![r] = "approved"]
    BY <1>6 DEF Resume
  <2> HIDE DEF polled
  <2> QED BY <1>5, <2>1, <2>2, <2>3
<1>7. ASSUME NEW r \in Req, AnswersSome(t, r)
      PROVE  entry' \in Entries /\ drafts' \subseteq Module
  <2>1. PICK answered \in SUBSET (Mods(r) \cap drafts) : Answer(t, r, answered)
    BY <1>7 DEF AnswersSome
  <2>2. drafts \ answered \in SUBSET Module
    BY <1>5
  <2>3. CASE Resume(t, r, drafts \ answered)
    BY <2>2, <2>3, <1>6
  <2>4. CASE drafts' = drafts \ answered /\ UNCHANGED entry
    BY <2>2, <2>4, <1>5
  <2> QED BY <2>1, <2>3, <2>4 DEF Answer
<1>8. CASE Approve(t)
  <2>1. \/ entry' = [entry EXCEPT ![Current(t).req] = "approved"]
        \/ entry' = entry
    BY <1>8 DEF Approve
  <2>2. UNCHANGED <<partial, unreg, drafts, busy>>
    BY <1>8 DEF Approve
  <2> QED BY <1>5, <2>1, <2>2
<1>9. CASE Register(t)
  <2>1. Current(t).mod \in Module
    BY <1>3, <1>9 DEF Register, Does, Mods
  <2>2. UNCHANGED busy
    BY <1>9 DEF Register
  <2>3. \/ /\ partial' = partial \cup {Current(t).mod}
           /\ unreg' = unreg \ {Current(t).mod}
           /\ entry' = Polled(partial \cup unreg)
           /\ drafts' = drafts \ Stale(unreg \ {Current(t).mod})
        \/ UNCHANGED <<partial, unreg, entry, drafts>>
    BY <1>9 DEF Register
  <2> QED BY <1>4, <1>5, <2>1, <2>2, <2>3
<1>10. CASE Adjudicate(t)
  <2>1. UNCHANGED <<partial, unreg, busy>>
    BY <1>10 DEF Adjudicate
  <2>2. Current(t).req \in Req
    BY <1>3, <1>10 DEF Adjudicate, Payload
  <2>3. NothingToAnswer(t, Current(t).req) \/ AnswersSome(t, Current(t).req)
    BY <1>10 DEF Adjudicate
  <2> QED BY <1>5, <1>7, <2>1, <2>2, <2>3 DEF NothingToAnswer
<1>11. CASE AdjudicateAll(t)
  <2>1. UNCHANGED <<partial, unreg, busy>>
    BY <1>11 DEF AdjudicateAll
  <2>2. \/ UNCHANGED <<drafts, entry>>
        \/ \E r \in Req : NothingToAnswer(t, r) \/ AnswersSome(t, r)
    BY <1>11 DEF AdjudicateAll, Left
  <2> QED BY <1>5, <1>7, <2>1, <2>2 DEF NothingToAnswer
<1>12. CASE RunSpec(t)
  <2>1. UNCHANGED <<entry, partial, unreg, drafts>>
    BY <1>12 DEF RunSpec
  <2>2. Current(t).act = "run" /\ Current(t).req \in Req \cup {None}
    BY <1>3, <1>12 DEF RunSpec, Does, Payload
  <2>3. Current(t).req \in Req
    <3>1. Current(t).mod \in Mods(Current(t).req)
      BY <1>3, <2>2
    <3> QED BY <3>1, ChatAssumption DEF Mods
  <2>4. busy' = busy \cup {Current(t).req} \/ busy' = busy
    BY <1>12 DEF RunSpec
  <2> QED BY <1>5, <2>1, <2>3, <2>4
<1> QED BY <1>8, <1>9, <1>10, <1>11, <1>12 DEF Acts

-----------------------------------------------------------------------------
(* A message that is handled.                                              *)

LEMMA BlankTyped ==
    /\ Blank \in Job
    /\ Blank.pc = "none" /\ Blank.asked = FALSE /\ Blank.reply = <<>>
<1> DEFINE nothing == [on |-> None, main |-> FALSE]
           absent == [r \in Req |-> "absent"]
<1>1. nothing \in Focus
  BY DEF Focus
<1>2. absent \in [Req -> Status]
  BY DEF Status
<1>3. 0 \in 0..MaxMessages /\ 0 \in 0..MaxRounds
  BY ChatAssumption
<1>4. <<>> \in Seq(Payload) /\ {} \in SUBSET Req /\ FALSE \in BOOLEAN
  OBVIOUS
<1>5. Blank = [pc |-> "none", conv |-> None, names |-> None, says |-> FALSE,
               known |-> absent, focus |-> nothing, sid |-> 0, new |-> FALSE,
               reply |-> <<>>, at |-> 1, past |-> {}, rounds |-> 0,
               asked |-> FALSE]
  BY Zenon DEF Blank
<1> HIDE DEF nothing, absent
<1>6. Blank \in Job
  BY <1>1, <1>2, <1>3, <1>4, <1>5 DEF Job
<1> QED BY <1>5, <1>6

\* A message that has not come.
LEMMA BlankOk == JobOk(Blank)
BY BlankTyped DEF JobOk, JobTyped, JobPlaced, JobAsked, GoodReply, Active,
                  InSession, Turning

\* One that has ended.
LEMMA FinishedOk ==
    ASSUME NEW how \in Ended, NEW asked \in BOOLEAN, asked => how = "failed"
    PROVE  /\ JobOk(Finished(how, asked))
           /\ Finished(how, asked).pc = how
<1> DEFINE x == Finished(how, asked)
<1>1. x \in Job /\ x.pc = how /\ x.reply = <<>>
  BY BlankTyped DEF Finished, Job
<1>2. x.asked = asked
  BY BlankTyped DEF Finished, Job
<1> HIDE DEF x
<1>3. JobTyped(x)
  BY <1>1 DEF JobTyped, GoodReply
<1>4. JobPlaced(x)
  BY <1>1 DEF JobPlaced, Active, InSession, Turning, Ended
<1>5. JobAsked(x)
  BY <1>1, <1>2 DEF JobAsked
<1> QED BY <1>1, <1>3, <1>4, <1>5 DEF JobOk, x

\* Only t's record changes.
Alone(t) == /\ job' \in [Message -> Job]
            /\ \A s \in Message \ {t} : job'[s] = job[s]

LEMMA AloneIf ==
    ASSUME job \in [Message -> Job], NEW t \in Message, NEW x \in Job,
           job' = [job EXCEPT ![t] = x]
    PROVE  Alone(t) /\ job'[t] = x
BY DEF Alone

\* From its lock to its end a message keeps its conversation and its session,
\* and leaves the session files alone.
LEMMA JobStep ==
    ASSUME Jobs, session' = session, NEW t \in Message, Alone(t),
           JobOk(job'[t]),
           job[t].pc \in InSession \cup {"act"},
           job'[t].pc \in Turning \cup {"act"} \cup Ended,
           job'[t].pc \in Active => job'[t].conv = job[t].conv,
           job'[t].pc \in InSession => /\ job[t].pc \in InSession
                                      /\ job'[t].focus = job[t].focus
                                      /\ job'[t].sid = job[t].sid
    PROVE  Jobs'
<1> USE DEF Active, InSession, Turning, Ended
<1>1. /\ session' \in [Conv -> [Focus -> 0..MaxMessages]]
      /\ job' \in [Message -> Job]
  BY DEF Jobs, Alone
<1>2. \A s \in Message : JobOk(job'[s])
  BY DEF Jobs, Alone
<1>3. InTurn'
  BY DEF Jobs, InTurn, Alone
<1>4. OneAtATime'
  <2> SUFFICES ASSUME NEW s \in Message, NEW u \in Message, s < u,
                      job'[s].conv = job'[u].conv,
                      job'[u].conv \in PerConversation, job'[u].pc \in Active
               PROVE  job'[s].pc \in {"none"} \cup Ended
    BY DEF OneAtATime
  <2> USE DEF Alone
  <2>1. job[u].pc \in Active /\ job[u].conv = job'[u].conv
    BY DEF Jobs
  <2>2. CASE s = t
    <3>1. CASE job'[s].pc \in Ended
      BY <3>1
    <3>2. CASE job'[s].pc \in Active
      <4>1. job[s].conv = job'[s].conv
        BY <2>2, <3>2
      <4>2. job[s].pc \in {"none"} \cup Ended
        BY <4>1, <2>1 DEF Jobs, OneAtATime
      <4> QED BY <2>2, <4>2
    <3> QED BY <2>2, <3>1, <3>2
  <2>3. CASE s # t
    <3>1. job'[s] = job[s]
      BY <2>3
    <3> QED BY <2>1, <3>1 DEF Jobs, OneAtATime
  <2> QED BY <2>2, <2>3
<1>5. Made'
  <2>1. ASSUME NEW u \in Message, job[u].pc \notin {"none", "queued", "mint"}
        PROVE  job'[u].pc \notin {"none", "queued", "mint"}
    BY <2>1 DEF Alone
  <2>2. ASSUME NEW c \in Conv, NEW f \in Focus, session[c][f] # 0
        PROVE  session[c][f] \in Message
    BY <2>2, ChatAssumption DEF Jobs, Message
  <2> QED BY <2>1, <2>2 DEF Jobs, Made
<1>6. Sessions'
  <2> SUFFICES ASSUME NEW u \in Message, job'[u].conv \in PerConversation
               PROVE  /\ job'[u].pc \in InSession =>
                            session[job'[u].conv][job'[u].focus] = job'[u].sid
                      /\ job'[u].pc = "mint" =>
                            session[job'[u].conv][job'[u].focus] = 0
    BY DEF Sessions
  <2>1. CASE u = t
    BY <2>1 DEF Jobs, Sessions
  <2>2. CASE u # t
    <3>1. job'[u] = job[u]
      BY <2>2 DEF Alone
    <3> QED BY <3>1 DEF Jobs, Sessions
  <2> QED BY <2>1, <2>2
<1> QED BY <1>1, <1>2, <1>3, <1>4, <1>5, <1>6 DEF Jobs

\* Where a message goes in its turns, when it has no reply yet.
LEMMA WaitJobs ==
    ASSUME Jobs, NEW t \in Message, Enter(t) \/ NoReply(t) \/ TurnFails(t)
    PROVE  Jobs'
<1> USE DEF Turning, Ended, Locked
<1>1. JobOk(job[t]) /\ job[t] \in Job /\ job \in [Message -> Job]
  BY DEF Jobs
<1>2. session' = session /\ job[t].pc \in InSession
  BY DEF Enter, NoReply, TurnFails, chat, InSession
<1>3. ASSUME NEW pc \in {"turn", "retry"}, job[t].pc \in {"wait", "turn"},
             job' = [job EXCEPT ![t].pc = pc]
      PROVE  Jobs'
  <2> DEFINE x == [job[t] EXCEPT !.pc = pc]
  <2>1. x \in Job /\ x.pc = pc
    BY <1>1 DEF Job
  <2>2. /\ x.conv = job[t].conv /\ x.sid = job[t].sid
        /\ x.focus = job[t].focus /\ x.reply = job[t].reply
    BY <1>1 DEF Job
  <2>3. x.asked = FALSE
    <3>1. job[t].asked = FALSE
      BY <1>1, <1>3 DEF JobOk, JobAsked, Job
    <3> QED BY <1>1, <3>1 DEF Job
  <2>4. job' = [job EXCEPT ![t] = x]
    BY <1>3
  <2> HIDE DEF x
  <2>5. JobOk(x)
    <3>1. JobTyped(x)
      BY <1>1, <2>1, <2>2 DEF JobOk, JobTyped
    <3>2. JobPlaced(x)
      BY <1>1, <1>3, <2>1, <2>2 DEF JobOk, JobPlaced, Active, InSession
    <3> QED BY <2>3, <3>1, <3>2 DEF JobOk, JobAsked
  <2>6. Alone(t) /\ job'[t] = x
    BY <1>1, <2>1, <2>4, AloneIf
  <2> QED BY <1>2, <2>1, <2>2, <2>5, <2>6, JobStep DEF InSession
<1>4. ASSUME NEW how \in Ended, job[t].asked => how = "failed", Ends(t, how)
      PROVE  Jobs'
  <2> DEFINE x == Finished(how, job[t].asked)
  <2>1. JobOk(x) /\ x.pc = how
    <3>1. job[t].asked \in BOOLEAN
      BY <1>1 DEF Job
    <3> QED BY <1>4, <3>1, FinishedOk
  <2>2. job' = [job EXCEPT ![t] = x]
    BY <1>4 DEF Ends
  <2> HIDE DEF x
  <2>3. Alone(t) /\ job'[t] = x
    BY <1>1, <2>1, <2>2, AloneIf DEF JobOk, JobTyped
  <2> QED BY <1>2, <2>1, <2>3, JobStep DEF InSession, Active
<1>5. CASE Enter(t)
  BY <1>5, <1>3 DEF Enter
<1>6. CASE NoReply(t)
  <2>1. ~job[t].asked
    BY <1>1, <1>6 DEF NoReply, JobOk, JobAsked
  <2> QED BY <1>6, <2>1, <1>3, <1>4 DEF NoReply
<1>7. CASE TurnFails(t)
  BY <1>7, <1>4 DEF TurnFails
<1> QED BY <1>5, <1>6, <1>7

\* A reply is acted on: the message keeps its conversation.
LEMMA ActingOk ==
    ASSUME NEW t \in Message, JobOk(job[t]), job[t].pc \in Turning,
           registry \in [Req -> Status],
           NEW reply \in GoodReply, NEW asked \in BOOLEAN,
           asked => Asks(reply, "approve")
    PROVE  LET x == Acting(t, reply, asked)
           IN  /\ JobOk(x) /\ x.pc \in {"act"} \cup Ended
               /\ x.pc = "act" => x.conv = job[t].conv
<1> DEFINE x == Acting(t, reply, asked)
<1>1. reply \in Seq(Payload)
  BY DEF GoodReply, GoodPayload
<1>2. job[t] \in Job
  BY DEF JobOk, JobTyped
<1>3. CASE reply = <<>>
  <2>1. x = Finished("done", asked)
    BY <1>3 DEF Acting
  <2>2. ~Asks(<<>>, "approve")
    BY DEF Asks, Range
  <2>3. asked = FALSE
    BY <1>3, <2>2
  <2>4. JobOk(Finished("done", asked)) /\ Finished("done", asked).pc = "done"
    BY <2>3, FinishedOk DEF Ended
  <2> HIDE DEF x
  <2> QED BY <2>1, <2>4 DEF Ended, x
<1>4. CASE reply # <<>>
  <2> DEFINE known == Refreshed(t, reply)
  <2>1. x = [Blank EXCEPT !.pc = "act", !.conv = job[t].conv,
               !.names = job[t].names, !.says = job[t].says,
               !.known = known, !.reply = reply, !.asked = asked]
    BY <1>4 DEF Acting
  <2>2. known \in [Req -> Status]
    BY <1>2 DEF Refreshed, Job
  <2> HIDE DEF known
  <2>3. /\ job[t].conv \in Conv \cup {None}
        /\ job[t].names \in Req \cup {None, Overall}
        /\ job[t].says \in BOOLEAN
    BY <1>2 DEF Job
  <2>4. x \in Job
    BY <1>1, <2>1, <2>2, <2>3, BlankTyped DEF Job
  <2>5. x.pc = "act" /\ x.conv = job[t].conv /\ x.reply = reply /\ x.at = 1
    <3>1. Blank.at = 1
      BY DEF Blank
    <3> QED BY <2>1, <3>1, BlankTyped DEF Job
  <2>6. x.asked = asked
    BY <2>1, BlankTyped DEF Job
  <2>7. job[t].conv \in Conv
    BY DEF JobOk, JobPlaced, Active
  <2>8. 1 \in DOMAIN reply
    BY <1>1, <1>4
  <2> HIDE DEF x
  <2>9. JobTyped(x) /\ JobPlaced(x)
    BY <2>4, <2>5, <2>7, <2>8 DEF JobTyped, JobPlaced, InSession, Turning
  <2>10. ASSUME asked
         PROVE  \E i \in DOMAIN reply : i >= 1 /\ reply[i].act = "approve"
    <3>1. PICK p \in Range(reply) : p.act = "approve"
      BY <2>10 DEF Asks
    <3>2. PICK i \in DOMAIN reply : p = reply[i]
      BY <3>1 DEF Range
    <3>3. i \in Nat /\ i >= 1
      BY <1>1, <3>2
    <3> QED BY <3>1, <3>2, <3>3
  <2>11. JobAsked(x)
    BY <2>5, <2>6, <2>10 DEF JobAsked
  <2> QED BY <2>5, <2>9, <2>11 DEF JobOk, x
<1> QED BY <1>3, <1>4

LEMMA RepliedJobs ==
    ASSUME Typed, Jobs, session' = session,
           NEW t \in Message, job[t].pc \in Turning,
           NEW reply \in GoodReply, NEW rounds \in Nat,
           job[t].asked => Asks(reply, "approve"),
           Replied(t, reply, rounds)
    PROVE  Jobs'
<1> DEFINE asked == job[t].asked \/ Asks(reply, "approve")
           again == [job[t] EXCEPT !.pc = "correct", !.new = FALSE,
                       !.reply = reply, !.rounds = rounds, !.asked = asked]
           acts == Acting(t, reply, asked)
<1>1. JobOk(job[t]) /\ job[t] \in Job /\ job \in [Message -> Job]
  BY DEF Jobs
<1>2. asked \in BOOLEAN /\ (asked => Asks(reply, "approve"))
  BY <1>1 DEF Job
<1>3. job[t].pc \in InSession
  BY DEF InSession
<1>4. \/ rounds < MaxRounds /\ job' = [job EXCEPT ![t] = again]
      \/ job' = [job EXCEPT ![t] = acts]
  BY <1>1 DEF Replied
<1>5. CASE rounds < MaxRounds /\ job' = [job EXCEPT ![t] = again]
  <2>1. reply \in Seq(Payload)
    BY DEF GoodReply, GoodPayload
  <2>2. rounds \in 0..MaxRounds
    BY <1>5, ChatAssumption
  <2> HIDE DEF asked
  <2>3. again \in Job /\ again.pc = "correct" /\ again.conv = job[t].conv
    BY <1>1, <1>2, <2>1, <2>2 DEF Job, Turning
  <2>4. /\ again.reply = reply /\ again.rounds = rounds
        /\ again.sid = job[t].sid /\ again.focus = job[t].focus
    BY <1>1 DEF Job
  <2>5. again.asked = asked
    BY <1>1 DEF Job
  <2>6. job[t].conv \in Conv /\ job[t].sid # 0
    BY <1>1, <1>3 DEF JobOk, JobPlaced, Active, InSession
  <2> HIDE DEF again
  <2>7. JobTyped(again)
    BY <2>3, <2>4 DEF JobTyped
  <2>8. JobPlaced(again)
    BY <1>5, <2>3, <2>4, <2>6 DEF JobPlaced
  <2>9. JobAsked(again)
    BY <1>2, <2>3, <2>4, <2>5 DEF JobAsked
  <2>10. Alone(t) /\ job'[t] = again
    BY <1>1, <1>5, <2>3, AloneIf
  <2> QED BY <1>3, <2>3, <2>4, <2>7, <2>8, <2>9, <2>10, JobStep
          DEF JobOk, InSession, Turning
<1>6. CASE job' = [job EXCEPT ![t] = acts]
  <2>1. /\ JobOk(acts) /\ acts.pc \in {"act"} \cup Ended
        /\ acts.pc = "act" => acts.conv = job[t].conv
    BY <1>1, <1>2, ActingOk DEF Typed
  <2> HIDE DEF acts
  <2>2. Alone(t) /\ job'[t] = acts
    BY <1>1, <1>6, <2>1, AloneIf DEF JobOk, JobTyped
  <2> QED BY <1>3, <2>1, <2>2, JobStep DEF InSession, Turning, Active, Ended
<1> QED BY <1>4, <1>5, <1>6

\* Where a message goes with a reply.
LEMMA ReplyJobs ==
    ASSUME Typed, Jobs, NEW t \in Message,
           FirstReply(t) \/ Correction(t) \/ NoCorrection(t)
    PROVE  Jobs'
<1>1. JobOk(job[t]) /\ job[t] \in Job
  BY DEF Jobs
<1>2. session' = session /\ job[t].pc \in Turning
  BY DEF FirstReply, Correction, NoCorrection, chat, Locked, Turning
<1>3. CASE FirstReply(t)
  <2>1. PICK reply \in Replies : Replied(t, reply, 0)
    BY <1>3 DEF FirstReply
  <2>2. job[t].asked = FALSE
    BY <1>1, <1>3 DEF FirstReply, Locked, JobOk, JobAsked, Job, Ended
  <2>3. reply \in GoodReply
    BY RepliesGood
  <2> QED BY <1>2, <2>1, <2>2, <2>3, RepliedJobs
<1>4. CASE Correction(t)
  <2>1. PICK reply \in Replies :
            Replied(t, Carry(job[t].reply, reply), job[t].rounds + 1)
    BY <1>4 DEF Correction
  <2>2. reply \in GoodReply /\ job[t].reply \in GoodReply
    BY <1>1, RepliesGood DEF JobOk, JobTyped
  <2> DEFINE carried == Carry(job[t].reply, reply)
  <2>3. /\ carried \in GoodReply
        /\ Asks(job[t].reply, "approve") => Asks(carried, "approve")
    BY <2>2, CarryGood
  <2>4. job[t].asked => Asks(carried, "approve")
    BY <1>1, <1>4, <2>3 DEF Correction, JobOk, JobAsked
  <2>5. job[t].rounds + 1 \in Nat
    BY <1>1, ChatAssumption DEF Job
  <2>6. Replied(t, carried, job[t].rounds + 1)
    BY <2>1
  <2> HIDE DEF carried
  <2> QED BY <1>2, <2>3, <2>4, <2>5, <2>6, RepliedJobs
<1>5. CASE NoCorrection(t)
  <2> DEFINE x == Acting(t, job[t].reply, job[t].asked)
  <2>1. /\ job[t].reply \in GoodReply /\ job[t].asked \in BOOLEAN
        /\ job[t].asked => Asks(job[t].reply, "approve")
    BY <1>1, <1>5 DEF NoCorrection, JobOk, JobTyped, JobAsked, Job
  <2>2. /\ JobOk(x) /\ x.pc \in {"act"} \cup Ended
        /\ x.pc = "act" => x.conv = job[t].conv
    BY <1>1, <1>2, <2>1, ActingOk DEF Typed
  <2>3. job' = [job EXCEPT ![t] = x]
    BY <1>5 DEF NoCorrection
  <2> HIDE DEF x
  <2>4. Alone(t) /\ job'[t] = x
    BY <2>2, <2>3, AloneIf DEF Jobs, JobOk, JobTyped
  <2> QED BY <1>2, <2>2, <2>4, JobStep DEF InSession, Turning, Active, Ended
<1> QED BY <1>3, <1>4, <1>5

\* An action of the reply is done with: the next one, the next requirement
\* of an adjudication of all, or the end.
LEMMA ActsMove ==
    ASSUME NEW t \in Message, JobOk(job[t]), Acts(t)
    PROVE  /\ job[t].pc = "act" /\ session' = session
           /\ \/ Advanced(t) \/ Ends(t, "failed")
              \/ \E r \in Req : job' = [job EXCEPT ![t].past = @ \cup {r}]
<1>1. job[t].pc = "act" /\ session' = session
  BY DEF Acts, Approve, Register, Adjudicate, AdjudicateAll, RunSpec, Does, chat
<1>2. ASSUME NEW r \in Req, NothingToAnswer(t, r) \/ AnswersSome(t, r)
      PROVE  GoesOn(t, r) \/ Ends(t, "failed")
  BY <1>2 DEF NothingToAnswer, AnswersSome, Answer, Resume
<1>3. CASE Approve(t) \/ Register(t) \/ RunSpec(t)
  BY <1>1, <1>3 DEF Approve, Register, RunSpec
<1>4. CASE Adjudicate(t)
  <2>1. Current(t).req \in Req
    BY <1>1, <1>4, CurrentGood DEF Adjudicate, Payload
  <2>2. \/ NothingToAnswer(t, Current(t).req)
        \/ AnswersSome(t, Current(t).req)
    BY <1>4 DEF Adjudicate
  <2> QED BY <1>1, <1>2, <2>1, <2>2 DEF GoesOn
<1>5. CASE AdjudicateAll(t)
  <2>1. \/ Advanced(t)
        \/ \E r \in Req : NothingToAnswer(t, r) \/ AnswersSome(t, r)
    BY <1>5 DEF AdjudicateAll, Left
  <2> QED BY <1>1, <1>2, <2>1 DEF GoesOn
<1> QED BY <1>3, <1>4, <1>5 DEF Acts

LEMMA ActsJobs ==
    ASSUME Jobs, NEW t \in Message, Acts(t)
    PROVE  Jobs'
<1>1. JobOk(job[t]) /\ job[t] \in Job /\ job \in [Message -> Job]
  BY DEF Jobs
<1>2. /\ job[t].pc = "act" /\ session' = session
      /\ \/ Advanced(t) \/ Ends(t, "failed")
         \/ \E r \in Req : job' = [job EXCEPT ![t].past = @ \cup {r}]
  BY <1>1, ActsMove
<1>3. ASSUME NEW how \in Ended, NEW asked \in BOOLEAN,
             asked => how = "failed",
             job' = [job EXCEPT ![t] = Finished(how, asked)]
      PROVE  Jobs'
  <2> DEFINE x == Finished(how, asked)
  <2>1. JobOk(x) /\ x.pc = how
    BY <1>3, FinishedOk
  <2>2. job' = [job EXCEPT ![t] = x]
    BY <1>3
  <2> HIDE DEF x
  <2>3. Alone(t) /\ job'[t] = x
    BY <1>1, <2>1, <2>2, AloneIf DEF JobOk, JobTyped
  <2> QED BY <1>2, <2>1, <2>3, JobStep DEF Ended, Active, InSession, Turning
<1>4. ASSUME NEW at \in DOMAIN job[t].reply, NEW past \in SUBSET Req,
             NEW asked \in BOOLEAN,
             asked => \E i \in DOMAIN job[t].reply :
                          i >= at /\ job[t].reply[i].act = "approve",
             job' = [job EXCEPT ![t] = [job[t] EXCEPT !.at = at, !.past = past,
                                          !.asked = asked]]
      PROVE  Jobs'
  <2> DEFINE x == [job[t] EXCEPT !.at = at, !.past = past, !.asked = asked]
  <2>1. at \in Nat
    BY <1>1 DEF Job
  <2>2. x \in Job
    BY <1>1, <2>1 DEF Job
  <2>3. /\ x.pc = "act" /\ x.conv = job[t].conv /\ x.at = at
        /\ x.reply = job[t].reply
    BY <1>1, <1>2 DEF Job
  <2>4. x.asked = asked
    BY <1>1 DEF Job
  <2>5. job' = [job EXCEPT ![t] = x]
    BY <1>4
  <2> HIDE DEF x
  <2>6. JobTyped(x)
    BY <1>1, <2>2, <2>3 DEF JobOk, JobTyped
  <2>7. JobPlaced(x)
    BY <1>1, <1>2, <2>3 DEF JobOk, JobPlaced, Active, InSession, Turning
  <2>8. JobAsked(x)
    BY <1>4, <2>3, <2>4 DEF JobAsked
  <2>9. Alone(t) /\ job'[t] = x
    BY <1>1, <2>2, <2>5, AloneIf
  <2> QED BY <1>2, <2>3, <2>6, <2>7, <2>8, <2>9, JobStep
          DEF JobOk, InSession, Turning
<1>5. /\ job[t].at \in DOMAIN job[t].reply /\ job[t].past \in SUBSET Req
      /\ job[t].reply \in Seq(Payload) /\ job[t].asked \in BOOLEAN
  BY <1>1, <1>2 DEF JobOk, JobPlaced, Job
<1>6. CASE Ends(t, "failed")
  BY <1>3, <1>5, <1>6 DEF Ends, Ended
<1>7. CASE Advanced(t)
  <2> DEFINE asked == job[t].asked /\ Current(t).act # "approve"
  <2>1. asked \in BOOLEAN
    BY <1>5
  <2>2. ASSUME asked
        PROVE  \E i \in DOMAIN job[t].reply :
                   i > job[t].at /\ job[t].reply[i].act = "approve"
    <3>1. PICK i \in DOMAIN job[t].reply :
              i >= job[t].at /\ job[t].reply[i].act = "approve"
      BY <1>1, <1>2, <2>2 DEF JobOk, JobAsked
    <3>2. i # job[t].at
      BY <2>2, <3>1 DEF Current
    <3>3. i \in Nat /\ job[t].at \in Nat
      BY <1>5, <3>1
    <3> QED BY <3>1, <3>2, <3>3
  <2>3. CASE job[t].at = Len(job[t].reply)
    <3>1. ~asked
      BY <1>5, <2>2, <2>3
    <3>2. job' = [job EXCEPT ![t] = Finished("done", asked)]
      BY <1>7, <2>3 DEF Advanced
    <3> HIDE DEF asked
    <3> QED BY <1>3, <2>1, <3>1, <3>2 DEF Ended
  <2>4. CASE job[t].at # Len(job[t].reply)
    <3>1. job[t].at + 1 \in DOMAIN job[t].reply
      BY <1>5, <2>4
    <3>2. job' = [job EXCEPT ![t] =
                    [job[t] EXCEPT !.at = job[t].at + 1, !.past = {},
                       !.asked = asked]]
      BY <1>1, <1>7, <2>4 DEF Advanced
    <3>3. asked => \E i \in DOMAIN job[t].reply :
              i >= job[t].at + 1 /\ job[t].reply[i].act = "approve"
      BY <1>5, <2>2
    <3>4. {} \in SUBSET Req
      OBVIOUS
    <3> HIDE DEF asked
    <3> QED BY <1>4, <2>1, <3>1, <3>2, <3>3, <3>4
  <2> QED BY <2>3, <2>4
<1>8. ASSUME NEW r \in Req, job' = [job EXCEPT ![t].past = @ \cup {r}]
      PROVE  Jobs'
  <2>1. job[t].past \cup {r} \in SUBSET Req
    BY <1>5
  <2>2. [job[t] EXCEPT !.past = job[t].past \cup {r}] =
            [job[t] EXCEPT !.at = job[t].at, !.past = job[t].past \cup {r},
               !.asked = job[t].asked]
    BY <1>1 DEF Job
  <2>3. job' = [job EXCEPT ![t] =
                  [job[t] EXCEPT !.at = job[t].at,
                                 !.past = job[t].past \cup {r},
                                 !.asked = job[t].asked]]
    BY <1>8, <2>2
  <2>4. job[t].asked => \E i \in DOMAIN job[t].reply :
            i >= job[t].at /\ job[t].reply[i].act = "approve"
    BY <1>1, <1>2 DEF JobOk, JobAsked
  <2> QED BY <1>4, <1>5, <2>1, <2>3, <2>4
<1> QED BY <1>2, <1>6, <1>7, <1>8

-----------------------------------------------------------------------------
(* A message that comes, and one that its conversation's worker takes up.  *)

LEMMA ReceiveJobs ==
    ASSUME Typed, Jobs, NEW t \in Message, Receive(t)
    PROVE  Jobs'
<1> USE DEF Active, InSession, Turning, Ended
<1>1. PICK text \in Texts :
          job' = [job EXCEPT ![t] = [Blank EXCEPT
                    !.pc = "queued", !.conv = text.conv, !.known = registry,
                    !.names = text.names, !.says = text.says]]
  BY DEF Receive
<1> DEFINE x == [Blank EXCEPT !.pc = "queued", !.conv = text.conv,
                   !.known = registry, !.names = text.names, !.says = text.says]
<1>2. /\ text.conv \in Conv /\ text.names \in Req \cup {None, Overall}
      /\ text.says \in BOOLEAN
  BY ChatAssumption
<1>3. x \in Job
  BY <1>2, BlankTyped DEF Job, Typed
<1>4. x.pc = "queued" /\ x.conv \in Conv /\ x.reply = <<>>
  BY <1>2, BlankTyped DEF Job
<1>5. x.asked = FALSE
  BY BlankTyped DEF Job
<1>6. job \in [Message -> Job] /\ job[t].pc = "none" /\ session' = session
  BY BlankTyped DEF Jobs, Receive, chat
<1>7. job' = [job EXCEPT ![t] = x]
  BY <1>1
<1> HIDE DEF x
<1>8. Alone(t) /\ job'[t] = x
  BY <1>3, <1>6, <1>7, AloneIf
<1>9. JobOk(x)
  BY <1>3, <1>4, <1>5 DEF JobOk, JobTyped, JobPlaced, JobAsked, GoodReply
<1>10. \A s \in Message : s > t => job[s].pc = "none"
  BY <1>6 DEF Jobs, InTurn
<1>11. \A s \in Message : s < t => job[s].pc # "none"
  BY DEF Receive, Message
<1> USE DEF Alone
<1>12. \A s \in Message : JobOk(job'[s])
  BY <1>8, <1>9 DEF Jobs
<1>13. InTurn'
  <2> SUFFICES ASSUME NEW s \in Message, NEW u \in Message, s < u,
                      job'[u].pc # "none"
               PROVE  job'[s].pc # "none"
    BY DEF InTurn
  <2>1. CASE s = t
    BY <1>4, <1>8, <2>1
  <2>2. CASE u = t
    BY <1>8, <1>11, <2>2 DEF Message
  <2>3. CASE s # t /\ u # t
    BY <1>8, <2>3 DEF Jobs, InTurn
  <2> QED BY <2>1, <2>2, <2>3
<1>14. OneAtATime'
  <2> SUFFICES ASSUME NEW s \in Message, NEW u \in Message, s < u,
                      job'[s].conv = job'[u].conv,
                      job'[u].conv \in PerConversation, job'[u].pc \in Active
               PROVE  job'[s].pc \in {"none"} \cup Ended
    BY DEF OneAtATime
  <2>1. u # t /\ job'[u] = job[u]
    BY <1>4, <1>8
  <2>2. s # t /\ job'[s] = job[s]
    BY <1>8, <1>10, <2>1 DEF Message
  <2> QED BY <2>1, <2>2 DEF Jobs, OneAtATime
<1>15. Made'
  <2>1. ASSUME NEW c \in Conv, NEW f \in Focus, session[c][f] # 0
        PROVE  session[c][f] \in Message
    BY <2>1, ChatAssumption DEF Jobs, Message
  <2>2. \A u \in Message : job[u].pc # "none" => job'[u] = job[u]
    BY <1>6, <1>8
  <2> QED BY <1>6, <2>1, <2>2 DEF Jobs, Made
<1>16. Sessions'
  <2> SUFFICES ASSUME NEW u \in Message, job'[u].conv \in PerConversation
               PROVE  /\ job'[u].pc \in InSession =>
                            session[job'[u].conv][job'[u].focus] = job'[u].sid
                      /\ job'[u].pc = "mint" =>
                            session[job'[u].conv][job'[u].focus] = 0
    BY <1>6 DEF Sessions
  <2>1. CASE u = t
    BY <1>4, <1>8, <2>1
  <2>2. CASE u # t
    <3>1. job'[u] = job[u]
      BY <1>8, <2>2
    <3> QED BY <3>1 DEF Jobs, Sessions
  <2> QED BY <2>1, <2>2
<1> QED BY <1>6, <1>8, <1>12, <1>13, <1>14, <1>15, <1>16 DEF Jobs

\* Its queue lets a message of aibot be routed when those before it have ended.
LEMMA RouteJobs ==
    ASSUME Jobs, NEW t \in Message, Route(t)
    PROVE  Jobs'
<1> USE DEF Active, InSession, Turning, Ended
<1>1. JobOk(job[t]) /\ job[t] \in Job /\ job \in [Message -> Job]
  BY DEF Jobs
<1>2. job[t].pc = "queued" /\ ItsTurn(t) /\ session' = session
  BY DEF Route, chat
<1>3. PICK r \in About(t), main \in BOOLEAN :
          LET f == [on |-> r, main |-> main]
              sid == session[job[t].conv][f]
          IN  job' = [job EXCEPT ![t].focus = f, ![t].sid = sid,
                        ![t].pc = IF sid = 0 THEN "mint" ELSE "wait"]
  BY DEF Route
<1> DEFINE f == [on |-> r, main |-> main]
           sid == session[job[t].conv][f]
           pc == IF sid = 0 THEN "mint" ELSE "wait"
           x == [job[t] EXCEPT !.focus = f, !.sid = sid, !.pc = pc]
<1>4. r \in Req \cup {None}
  BY DEF About
<1>5. f \in Focus
  BY <1>4 DEF Focus
<1>6. job[t].conv \in Conv
  BY <1>1, <1>2 DEF JobOk, JobPlaced
<1>7. sid \in 0..MaxMessages
  BY <1>5, <1>6 DEF Jobs
<1>8. pc \in {"mint", "wait"} /\ (pc = "mint" <=> sid = 0)
  OBVIOUS
<1>9. job' = [job EXCEPT ![t] = x]
  BY <1>1, <1>3
<1>10. sid = session[job[t].conv][f]
  OBVIOUS
<1> HIDE DEF f, sid, pc
<1>11. x \in Job
  BY <1>1, <1>5, <1>7, <1>8 DEF Job
<1>12. /\ x.pc = pc /\ x.conv = job[t].conv /\ x.focus = f /\ x.sid = sid
       /\ x.reply = job[t].reply
  BY <1>1 DEF Job
<1>13. x.asked = FALSE
  <2>1. job[t].asked = FALSE
    BY <1>1, <1>2 DEF JobOk, JobAsked, Job
  <2> QED BY <1>1, <2>1 DEF Job
<1> HIDE DEF x
<1>14. Alone(t) /\ job'[t] = x
  BY <1>1, <1>9, <1>11, AloneIf
<1> USE DEF Alone
<1>15. \A s \in Message : JobOk(job'[s])
  <2>1. JobOk(x)
    <3>1. JobTyped(x)
      BY <1>1, <1>11, <1>12 DEF JobOk, JobTyped
    <3>2. JobPlaced(x)
      BY <1>6, <1>8, <1>12 DEF JobPlaced
    <3> QED BY <1>13, <3>1, <3>2 DEF JobOk, JobAsked
  <2> QED BY <1>14, <2>1 DEF Jobs
<1>16. InTurn'
  <2>1. \A s \in Message : job'[s].pc = "none" <=> job[s].pc = "none"
    BY <1>2, <1>8, <1>12, <1>14
  <2> QED BY <2>1 DEF Jobs, InTurn
<1>17. OneAtATime'
  <2> SUFFICES ASSUME NEW s \in Message, NEW u \in Message, s < u,
                      job'[s].conv = job'[u].conv,
                      job'[u].conv \in PerConversation, job'[u].pc \in Active
               PROVE  job'[s].pc \in {"none"} \cup Ended
    BY DEF OneAtATime
  <2>1. job[s].conv = job[u].conv /\ job[u].conv \in PerConversation
    BY <1>12, <1>14
  <2>2. CASE u = t
    <3>1. s \in 1..(t - 1) /\ s # t
      BY <2>2, ChatAssumption DEF Message
    <3>2. QueueOf(s) = QueueOf(t)
      BY <2>1, <2>2 DEF QueueOf
    <3>3. job[s].pc \in Ended
      BY <1>2, <3>1, <3>2 DEF ItsTurn
    <3> QED BY <1>14, <3>1, <3>3
  <2>3. CASE u # t
    <3>1. job[s].pc \in {"none"} \cup Ended
      BY <1>14, <2>1, <2>3 DEF Jobs, OneAtATime
    <3>2. s # t
      BY <1>2, <3>1
    <3> QED BY <1>14, <3>1, <3>2
  <2> QED BY <2>2, <2>3
<1>18. Made'
  <2>1. ASSUME NEW c \in Conv, NEW g \in Focus, session[c][g] # 0
        PROVE  session[c][g] \in Message
    BY <2>1, ChatAssumption DEF Jobs, Message
  <2>2. \A u \in Message : job[u].pc # "queued" => job'[u] = job[u]
    BY <1>2, <1>14
  <2> QED BY <1>2, <2>1, <2>2 DEF Jobs, Made
<1>19. Sessions'
  <2> SUFFICES ASSUME NEW u \in Message, job'[u].conv \in PerConversation
               PROVE  /\ job'[u].pc \in InSession =>
                            session[job'[u].conv][job'[u].focus] = job'[u].sid
                      /\ job'[u].pc = "mint" =>
                            session[job'[u].conv][job'[u].focus] = 0
    BY <1>2 DEF Sessions
  <2>1. CASE u = t
    BY <1>8, <1>10, <1>12, <1>14, <2>1
  <2>2. CASE u # t
    <3>1. job'[u] = job[u]
      BY <1>14, <2>2
    <3> QED BY <3>1 DEF Jobs, Sessions
  <2> QED BY <2>1, <2>2
<1> QED BY <1>2, <1>14, <1>15, <1>16, <1>17, <1>18, <1>19 DEF Jobs

\* Two messages of one conversation of aibot are not under way together.
LEMMA OneActive ==
    ASSUME Jobs, NEW s \in Message, NEW t \in Message,
           job[s].conv = job[t].conv, job[t].conv \in PerConversation,
           job[s].pc \in Active, job[t].pc \in Active
    PROVE  s = t
<1>1. s \in Nat /\ t \in Nat
  BY DEF Message
<1>2. \A u \in {s, t} : job[u].pc \notin {"none"} \cup Ended
  BY DEF Active, Turning, Ended
<1>3. ~(s < t) /\ ~(t < s)
  BY <1>2 DEF Jobs, OneAtATime
<1> QED BY <1>1, <1>3

\* A new session's file has no other message of its conversation to disturb.
LEMMA MintJobs ==
    ASSUME Jobs, NEW t \in Message, Mint(t)
    PROVE  Jobs'
<1> USE DEF Active, InSession, Turning, Ended
<1> DEFINE c == job[t].conv
           f == job[t].focus
           x == [job[t] EXCEPT !.pc = "wait", !.sid = t, !.new = TRUE]
<1>1. JobOk(job[t]) /\ job[t] \in Job /\ job \in [Message -> Job]
  BY DEF Jobs
<1>2. job[t].pc = "mint" /\ session' = [session EXCEPT ![c][f] = t]
  BY DEF Mint
<1>3. c \in Conv /\ f \in Focus
  BY <1>1, <1>2 DEF JobOk, JobPlaced, Job
<1>4. t \in 0..MaxMessages /\ t # 0
  BY ChatAssumption DEF Message
<1>5. x \in Job
  BY <1>1, <1>4 DEF Job
<1>6. /\ x.pc = "wait" /\ x.conv = c /\ x.focus = f /\ x.sid = t
      /\ x.reply = job[t].reply
  BY <1>1 DEF Job
<1>7. x.asked = FALSE
  <2>1. job[t].asked = FALSE
    BY <1>1, <1>2 DEF JobOk, JobAsked, Job
  <2> QED BY <1>1, <2>1 DEF Job
<1>8. job' = [job EXCEPT ![t] = x]
  BY DEF Mint
<1> HIDE DEF x
<1>9. Alone(t) /\ job'[t] = x
  BY <1>1, <1>5, <1>8, AloneIf
<1>10. session \in [Conv -> [Focus -> 0..MaxMessages]]
  BY DEF Jobs
<1> HIDE DEF c, f
<1>11. /\ session' \in [Conv -> [Focus -> 0..MaxMessages]]
       /\ session'[c][f] = t
       /\ \A d \in Conv : \A g \in Focus :
             d # c \/ g # f => session'[d][g] = session[d][g]
  BY <1>2, <1>3, <1>4, <1>10
<1>12. c = job[t].conv /\ f = job[t].focus
  BY DEF c, f
<1>13. \A s \in Message : JobOk(job'[s])
  <2>1. JobOk(x)
    <3>1. JobTyped(x)
      BY <1>1, <1>5, <1>6 DEF JobOk, JobTyped
    <3>2. JobPlaced(x)
      BY <1>3, <1>4, <1>6 DEF JobPlaced
    <3> QED BY <1>7, <3>1, <3>2 DEF JobOk, JobAsked
  <2> QED BY <1>9, <2>1 DEF Jobs, Alone
<1>14. \A s \in Message : /\ job'[s].conv = job[s].conv
                          /\ job'[s].pc \in Active <=> job[s].pc \in Active
                          /\ job'[s].pc = "none" <=> job[s].pc = "none"
                          /\ s # t => job'[s] = job[s]
  BY <1>2, <1>6, <1>9, <1>12 DEF Alone
<1>15. InTurn'
  BY <1>14 DEF Jobs, InTurn
<1>16. OneAtATime'
  <2> SUFFICES ASSUME NEW s \in Message, NEW u \in Message, s < u,
                      job'[s].conv = job'[u].conv,
                      job'[u].conv \in PerConversation, job'[u].pc \in Active
               PROVE  job'[s].pc \in {"none"} \cup Ended
    BY DEF OneAtATime
  <2>1. job[s].pc \in {"none"} \cup Ended
    BY <1>14 DEF Jobs, OneAtATime
  <2>2. s # t
    BY <1>2, <2>1
  <2> QED BY <1>14, <2>1, <2>2
<1>17. Made'
  <2>1. ASSUME NEW d \in Conv, NEW g \in Focus, session[d][g] # 0
        PROVE  /\ session[d][g] \in Message /\ session[d][g] # t
               /\ job[session[d][g]].pc \notin {"none", "queued", "mint"}
    BY <1>2, <1>10, <2>1, ChatAssumption DEF Jobs, Made, Message
  <2>2. job'[t].pc = "wait"
    BY <1>6, <1>9
  <2>3. ASSUME NEW d \in Conv, NEW g \in Focus, session'[d][g] # 0
        PROVE  job'[session'[d][g]].pc \notin {"none", "queued", "mint"}
    <3>1. CASE d = c /\ g = f
      BY <1>11, <2>2, <3>1
    <3>2. CASE d # c \/ g # f
      <4>1. session'[d][g] = session[d][g]
        BY <1>11, <3>2
      <4> QED BY <1>14, <2>1, <2>3, <4>1
    <3> QED BY <3>1, <3>2
  <2>4. ASSUME NEW d \in Conv, NEW e \in Conv, NEW g \in Focus, NEW h \in Focus,
               session'[d][g] # 0, session'[d][g] = session'[e][h]
        PROVE  d = e /\ g = h
    <3>1. CASE (d = c /\ g = f) \/ (e = c /\ h = f)
      BY <1>11, <2>1, <2>4, <3>1, <1>4
    <3>2. CASE (d # c \/ g # f) /\ (e # c \/ h # f)
      BY <1>11, <2>4, <3>2 DEF Jobs, Made
    <3> QED BY <3>1, <3>2
  <2> QED BY <2>3, <2>4 DEF Made
<1>18. Sessions'
  <2> SUFFICES ASSUME NEW u \in Message, job'[u].conv \in PerConversation
               PROVE  /\ job'[u].pc \in InSession =>
                            session'[job'[u].conv][job'[u].focus] = job'[u].sid
                      /\ job'[u].pc = "mint" =>
                            session'[job'[u].conv][job'[u].focus] = 0
    BY DEF Sessions
  <2>1. CASE u = t
    BY <1>6, <1>9, <1>11, <2>1
  <2>2. CASE u # t /\ job[u].pc \in InSession \cup {"mint"}
    <3>1. job'[u] = job[u] /\ job[u].pc \in Active
      BY <1>14, <2>2
    <3>2. job[u].conv # c
      BY <1>2, <1>12, <2>2, <3>1, OneActive
    <3>3. JobOk(job[u]) /\ job[u] \in Job
      BY DEF Jobs
    <3>4. job[u].conv \in Conv /\ job[u].focus \in Focus
      BY <3>1, <3>3 DEF JobOk, JobPlaced, Job
    <3>5. session'[job[u].conv][job[u].focus] =
              session[job[u].conv][job[u].focus]
      BY <1>11, <3>2, <3>4
    <3> QED BY <3>1, <3>5 DEF Jobs, Sessions
  <2>3. CASE u # t /\ job[u].pc \notin InSession \cup {"mint"}
    BY <1>14, <2>3
  <2> QED BY <2>1, <2>2, <2>3
<1> QED BY <1>9, <1>11, <1>13, <1>15, <1>16, <1>17, <1>18 DEF Jobs, Alone

-----------------------------------------------------------------------------
(* The invariant holds.                                                    *)

LEMMA InitIInv == Init => IInv
<1> SUFFICES ASSUME Init PROVE IInv
  OBVIOUS
<1>1. Typed
  BY ChatAssumption DEF Init, Typed, Status
<1>2. \A t \in Message : job[t] = Blank /\ job[t].pc = "none"
  BY BlankTyped DEF Init
<1>3. JobOk(Blank)
  BY BlankOk
<1>4. job \in [Message -> Job] /\ \A t \in Message : JobOk(job[t])
  BY <1>2, <1>3, BlankTyped DEF Init
<1>5. /\ session \in [Conv -> [Focus -> 0..MaxMessages]]
      /\ \A c \in Conv : \A f \in Focus : session[c][f] = 0
  BY ChatAssumption DEF Init
<1>6. InTurn /\ OneAtATime /\ Sessions
  BY <1>2 DEF InTurn, OneAtATime, Sessions, Active, InSession, Turning
<1>7. Made
  BY <1>5 DEF Made
<1> QED BY <1>1, <1>4, <1>5, <1>6, <1>7 DEF IInv, Jobs

\* What neither a message nor a session file has part in.
LEMMA JobsStay ==
    ASSUME Jobs, UNCHANGED <<session, job>>
    PROVE  Jobs'
BY DEF Jobs, InTurn, OneAtATime, Made, Sessions

\* Polls, runs, closes and `requirement-add'.
LEMMA EnvironmentTyped ==
    ASSUME Typed, Environment
    PROVE  Typed' /\ UNCHANGED <<session, job>>
<1>1. CASE Poll
  <2>1. Polled(partial \cup unreg) \in [Req -> {"none", "waiting", "approved"}]
    BY PolledTyped
  <2> QED BY <1>1, <2>1 DEF Poll, chat, Typed
<1>2. ASSUME NEW r \in Req, RunStarts(r)
      PROVE  Typed' /\ UNCHANGED <<session, job>>
  BY <1>2 DEF RunStarts, chat, Typed
<1>3. ASSUME NEW r \in Req, RunEnds(r)
      PROVE  Typed' /\ UNCHANGED <<session, job>>
  <2>1. PICK parked \in SUBSET (Mods(r) \cap (partial \cup unreg)) :
            /\ partial' = (partial \ Mods(r)) \cup parked
            /\ drafts' = (drafts \ Mods(r)) \cup parked
    BY <1>3 DEF RunEnds
  <2>2. parked \subseteq Module
    BY DEF Mods
  <2>3. partial' \subseteq Module /\ drafts' \subseteq Module
    BY <2>1, <2>2 DEF Typed
  <2>4. entry' \in [Req -> {"none", "waiting", "approved"}]
    BY <1>3 DEF RunEnds, Typed
  <2> QED BY <1>3, <2>3, <2>4 DEF RunEnds, chat, Typed
<1>4. ASSUME NEW r \in Req, CloseBegins(r)
      PROVE  Typed' /\ UNCHANGED <<session, job>>
  BY <1>4 DEF CloseBegins, chat, Typed
<1>5. ASSUME NEW r \in Req, CloseEnds(r)
      PROVE  Typed' /\ UNCHANGED <<session, job>>
  BY <1>5 DEF CloseEnds, chat, Typed, Status
<1>6. ASSUME NEW r \in Req, AddRequirement(r)
      PROVE  Typed' /\ UNCHANGED <<session, job>>
  BY <1>6 DEF AddRequirement, chat, Typed, Status
<1> QED BY <1>1, <1>2, <1>3, <1>4, <1>5, <1>6 DEF Environment

\* A snapshot is of the session of a turn, so of a message.
LEMMA EditTyped ==
    ASSUME Typed, Jobs, NEW t \in Message, NEW m \in Module, Edit(t, m)
    PROVE  Typed' /\ UNCHANGED <<session, job>>
<1>1. JobOk(job[t]) /\ job[t] \in Job /\ job[t].pc \in Turning
  BY DEF Jobs, Edit
<1>2. job[t].sid \in Message
  BY <1>1, ChatAssumption DEF JobOk, JobPlaced, InSession, Job, Message
<1>3. traces' \subseteq Message \X Module
  BY <1>2 DEF Edit, Typed
<1>4. edits' \in 0..MaxEdits /\ unreg' \subseteq Module
  BY ChatAssumption DEF Edit, Typed
<1> QED BY <1>3, <1>4 DEF Edit, Typed

LEMMA NextIInv == IInv /\ [Next]_vars => IInv'
<1> SUFFICES ASSUME Typed, Jobs, [Next]_vars PROVE Typed' /\ Jobs'
  BY DEF IInv
<1>1. ASSUME NEW t \in Message, Receive(t)
      PROVE  Typed' /\ Jobs'
  BY <1>1, ReceiveJobs DEF Receive, engine, chat, Typed
<1>2. ASSUME NEW t \in Message, Step(t)
      PROVE  Typed' /\ Jobs'
  <2>1. CASE Route(t)
    BY <2>1, RouteJobs DEF Route, engine, chat, Typed
  <2>2. CASE Mint(t)
    BY <2>2, MintJobs DEF Mint, engine, Typed
  <2>3. CASE Enter(t) \/ NoReply(t) \/ TurnFails(t)
    BY <2>3, WaitJobs DEF Enter, NoReply, TurnFails, engine, chat, Typed
  <2>4. CASE FirstReply(t) \/ Correction(t) \/ NoCorrection(t)
    BY <2>4, ReplyJobs
       DEF FirstReply, Correction, NoCorrection, engine, chat, Typed
  <2>5. CASE Acts(t)
    BY <2>5, ActsJobs, ActsTyped DEF Jobs
  <2> QED BY <1>2, <2>1, <2>2, <2>3, <2>4, <2>5 DEF Step
<1>3. ASSUME NEW t \in Message, NEW m \in Module, Edit(t, m)
      PROVE  Typed' /\ Jobs'
  BY <1>3, EditTyped, JobsStay
<1>4. CASE Environment
  BY <1>4, EnvironmentTyped, JobsStay
<1>5. CASE UNCHANGED vars
  BY <1>5, JobsStay DEF vars, Typed
<1> QED BY <1>1, <1>2, <1>3, <1>4, <1>5 DEF Next

LEMMA Invariant == Spec => []IInv
BY InitIInv, NextIInv, PTL DEF Spec

-----------------------------------------------------------------------------
(* The theorems.                                                           *)

\* Whatever G drops in the rounds of the correction loop, a message that is
\* answered and has not failed is not over before _process_llm_reply has come
\* to an approval, if G asked for one in any of its replies to it.
THEOREM ApprovalCarriedAlways == Spec => []ApprovalCarried
<1>1. IInv => ApprovalCarried
  BY DEF IInv, Jobs, JobOk, JobAsked, ApprovalCarried
<1> QED BY <1>1, Invariant, PTL

\* Of aibot's messages no two have a turn in one session, though the rounds of
\* the correction loop hold no lock; every state is well typed.
THEOREM AibotTurnsApartAlways == Spec => []AibotTurnsApart
<1>1. IInv => TypeOK
  BY DEF IInv, Typed, Jobs, JobOk, JobPlaced, TypeOK
<1>2. ASSUME IInv, NEW s \in Message, NEW t \in Message, SameSession(s, t),
             {job[s].conv, job[t].conv} \subseteq PerConversation,
             {job[s].pc, job[t].pc} \subseteq Turning
      PROVE  FALSE
  <2>1. /\ job[s].pc \in InSession /\ job[t].pc \in InSession
        /\ job[s].pc \in Active /\ job[t].pc \in Active
    BY <1>2 DEF InSession, Active
  <2>2. /\ session[job[s].conv][job[s].focus] = job[s].sid
        /\ session[job[t].conv][job[t].focus] = job[t].sid
    BY <1>2, <2>1 DEF IInv, Jobs, Sessions
  <2>3. job[s] \in Job /\ job[t] \in Job
    BY <1>2 DEF IInv, Jobs
  <2>4. job[s].focus \in Focus /\ job[t].focus \in Focus
    BY <2>3 DEF Job
  <2>5. job[s].conv \in Conv /\ job[t].conv \in Conv
    BY <1>2, ChatAssumption
  <2>6. job[s].conv = job[t].conv
    BY <1>2, <2>2, <2>4, <2>5 DEF IInv, Jobs, Made, SameSession
  <2>7. s = t
    BY <1>2, <2>1, <2>6, OneActive DEF IInv
  <2> QED BY <1>2, <2>7 DEF SameSession
<1>3. IInv => AibotTurnsApart
  BY <1>1, <1>2 DEF AibotTurnsApart
<1> QED BY <1>3, Invariant, PTL

\* _get_session_id looks for a session's file and writes it in another step;
\* in a conversation of aibot it never writes over one.
THEOREM AibotSessionsStayHolds == Spec => AibotSessionsStay
<1> DEFINE Stay == \A c \in PerConversation : \A f \in Focus :
                      session[c][f] # 0 => session'[c][f] = session[c][f]
<1>1. ASSUME Typed, Jobs, [Next]_vars, session' # session
      PROVE  \E t \in Message : Mint(t)
  <2>1. ASSUME NEW t \in Message, Acts(t) PROVE session' = session
    BY <1>1, <2>1, ActsMove DEF Jobs
  <2>2. CASE Environment
    BY <1>1, <2>2, EnvironmentTyped
  <2>3. ASSUME NEW t \in Message, Receive(t) \/ \E m \in Module : Edit(t, m)
        PROVE  session' = session
    BY <2>3 DEF Receive, Edit, chat
  <2>4. ASSUME NEW t \in Message, Step(t), ~Mint(t) PROVE session' = session
    BY <2>1, <2>4 DEF Step, Route, Enter, FirstReply, NoReply, TurnFails,
                      Correction, NoCorrection, chat
  <2> QED BY <1>1, <2>2, <2>3, <2>4 DEF Next, vars
<1>2. ASSUME Jobs, NEW t \in Message, Mint(t) PROVE Stay
  <2> DEFINE c == job[t].conv
             f == job[t].focus
  <2>1. JobOk(job[t]) /\ job[t] \in Job
    BY <1>2 DEF Jobs
  <2>2. c \in Conv /\ f \in Focus
    BY <1>2, <2>1 DEF Mint, JobOk, JobPlaced, Active, Job
  <2>3. session' = [session EXCEPT ![c][f] = t]
    BY <1>2 DEF Mint
  <2>4. c \in PerConversation => session[c][f] = 0
    BY <1>2 DEF Jobs, Sessions, Mint
  <2>5. PerConversation \subseteq Conv
    BY ChatAssumption
  <2>6. session \in [Conv -> [Focus -> 0..MaxMessages]]
    BY <1>2 DEF Jobs
  <2> HIDE DEF c, f
  <2> QED BY <2>2, <2>3, <2>4, <2>5, <2>6
<1>3. IInv /\ [Next]_vars => [Stay]_vars
  BY <1>1, <1>2 DEF IInv
<1> QED BY <1>3, Invariant, PTL DEF Spec, AibotSessionsStay

\* Only the actions of a reply change a message that has come to them.
LEMMA ActedOnActs ==
    ASSUME IInv, [Next]_vars, NEW t \in Message, ActedOn(t)
    PROVE  Acts(t)
<1>1. job[t].pc = "act" /\ job'[t] # job[t] /\ job \in [Message -> Job]
  BY DEF ActedOn, IInv, Jobs
<1>2. job' # job
  BY <1>1
<1>3. ~Environment
  BY <1>2, EnvironmentTyped DEF IInv
<1>4. ASSUME NEW s \in Message, NEW x, job' = [job EXCEPT ![s] = x]
      PROVE  s = t
  BY <1>1, <1>4
<1>5. ASSUME NEW s \in Message, Receive(s) PROVE FALSE
  <2>1. s = t
    BY <1>1, <1>5 DEF Receive
  <2> QED BY <1>1, <1>5, <2>1, BlankTyped DEF Receive
<1>6. ASSUME NEW s \in Message, NEW m \in Module, Edit(s, m) PROVE FALSE
  BY <1>2, <1>6 DEF Edit
<1>7. ASSUME NEW s \in Message, Step(s), ~Acts(s) PROVE FALSE
  <2>1. job[s].pc # "act"
    BY <1>7 DEF Step, Route, Mint, Enter, FirstReply, NoReply, TurnFails,
                Correction, NoCorrection, Locked, Turning
  <2>2. s # t
    BY <1>1, <2>1
  <2>3. job'[t] = job[t]
    BY <1>1, <1>7, <2>2 DEF Step, Route, Mint, Enter, FirstReply, NoReply,
           TurnFails, Correction, NoCorrection, Replied, Ends
  <2> QED BY <1>1, <2>3
<1>8. ASSUME NEW s \in Message, Acts(s) PROVE s = t
  <2>1. JobOk(job[s])
    BY DEF IInv, Jobs
  <2>2. \E x : job' = [job EXCEPT ![s] = x]
    BY <1>1, <1>8, <2>1, ActsMove DEF Advanced, Ends
  <2> QED BY <1>4, <2>2
<1> QED BY <1>2, <1>3, <1>5, <1>6, <1>7, <1>8 DEF Next, Step, vars

\* Whatever G's reply to a message of a group or a stranger asks for,
\* _dispatch_json_action does nothing to the engine.
THEOREM ReadOnlyInertHolds == Spec => ReadOnlyInert
<1> DEFINE Inert == \A t \in Message :
                ActedOn(t) /\ job[t].conv \in ReadOnly => UNCHANGED engine
<1>1. ASSUME NEW t \in Message, Acts(t), job[t].conv \in ReadOnly
      PROVE  UNCHANGED engine
  <2>1. ~MayWrite(t) /\ ~Allowed(t)
    BY <1>1 DEF MayWrite, Allowed
  <2>2. CASE Approve(t)
    BY <2>1, <2>2 DEF Approve, engine
  <2>3. CASE Register(t)
    BY <2>1, <2>3 DEF Register, engine
  <2>4. CASE Adjudicate(t)
    BY <2>1, <2>4 DEF Adjudicate, NothingToAnswer, engine
  <2>5. CASE AdjudicateAll(t)
    BY <2>1, <2>5 DEF AdjudicateAll, engine
  <2>6. CASE RunSpec(t)
    BY <2>1, <2>6 DEF RunSpec, engine
  <2> QED BY <1>1, <2>2, <2>3, <2>4, <2>5, <2>6 DEF Acts
<1>2. IInv /\ [Next]_vars => [Inert]_vars
  BY <1>1, ActedOnActs
<1> QED BY <1>2, Invariant, PTL DEF Spec, ReadOnlyInert

\* _dispatch_json_action approves, registers, adjudicates and runs nothing of
\* a requirement that the message's registry has as closed.
THEOREM ClosedStaysHolds == Spec => ClosedStays
<1> DEFINE Stays == \A t \in Message : \A r \in Req :
                ActedOn(t) /\ job[t].known[r] = "closed" /\ Current(t).req = r
                => ~Touches(r)
<1>1. ASSUME NEW t \in Message, NEW r \in Req, Acts(t),
             job[t].known[r] = "closed", Current(t).req = r
      PROVE  ~Touches(r)
  <2>1. ~Allowed(t) /\ Current(t).req # None
    BY <1>1, ChatAssumption DEF Allowed
  <2>2. CASE Approve(t)
    BY <2>1, <2>2 DEF Approve, Touches
  <2>3. CASE Register(t)
    BY <2>1, <2>3 DEF Register, Touches
  <2>4. CASE Adjudicate(t)
    BY <2>1, <2>4 DEF Adjudicate, NothingToAnswer, Touches
  <2>5. CASE AdjudicateAll(t)
    BY <2>1, <2>5 DEF AdjudicateAll
  <2>6. CASE RunSpec(t)
    BY <2>1, <2>6 DEF RunSpec, Touches
  <2> QED BY <1>1, <2>2, <2>3, <2>4, <2>5, <2>6 DEF Acts
<1>2. IInv /\ [Next]_vars => [Stays]_vars
  BY <1>1, ActedOnActs
<1> QED BY <1>2, Invariant, PTL DEF Spec, ClosedStays
=============================================================================
