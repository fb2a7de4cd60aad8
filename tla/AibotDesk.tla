------------------------------ MODULE AibotDesk ------------------------------
(***************************************************************************)
(* The aibot daemon (aibot_server/server.py): one WebSocket at a time,     *)
(* frames that are handled one after the other, a queue and a worker per   *)
(* conversation, a pool of threads for downloads and turns, and a control  *)
(* port that may stop it at any moment.                                    *)
(*                                                                         *)
(* The platform may deliver a message again after a reconnection, within   *)
(* the quarter of an hour that the daemon remembers it.  A send may always *)
(* fail, and does when there is no open connection.  What a turn does is   *)
(* left to ChatTurn.                                                       *)
(***************************************************************************)
EXTENDS Naturals, Sequences, FiniteSets, SequencesExt

CONSTANTS
    Msg, Conv, None,  \* messages, conversations
    Chat,             \* Msg -> Conv
    Kind,             \* Msg -> "text", "media" or "other"
    MaxPending,       \* _MAX_PENDING
    Pool              \* threads of the executor

ASSUME AibotAssumption ==
    /\ IsFiniteSet(Msg) /\ None \notin Msg
    /\ Chat \in [Msg -> Conv]
    /\ Kind \in [Msg -> {"text", "media", "other"}]
    /\ MaxPending \in Nat \ {0} /\ Pool \in Nat \ {0}

VARIABLES
    link,     \* of _run: down (backing off), connecting, up, closing; then
              \* leaving (asyncio.run waits for the threads), off
    stop,     \* _stop_event
    seen,     \* _seen: for each conversation, in the order of receipt
    frame,    \* where _handle_frame is with a message: none, fetch, queue
    fetching, \* messages whose files a thread of the pool downloads
    queue,    \* _queues
    job,      \* the message of each conversation's worker
    step,     \* of the worker: idle, wait (for a thread), turn, reply, push
    ended     \* how a message ended: open (not yet), told, lost, ignored

frames == <<seen, frame, fetching>>
workers == <<queue, job, step>>
vars == <<link, stop, seen, frame, fetching, queue, job, step, ended>>

TypeOK ==
    /\ link \in {"down", "connecting", "up", "closing", "leaving", "off"}
    /\ stop \in BOOLEAN
    /\ seen \in [Conv -> Seq(Msg)]
    /\ frame \in [Msg -> {"none", "fetch", "queue"}]
    /\ fetching \subseteq {m \in Msg : frame[m] = "fetch"}
    /\ queue \in [Conv -> Seq(Msg)]
    /\ job \in [Conv -> Msg \cup {None}]
    /\ step \in [Conv -> {"idle", "wait", "turn", "reply", "push"}]
    /\ \A c \in Conv : job[c] = None <=> step[c] = "idle"
    /\ ended \in [Msg -> {"open", "told", "lost", "ignored"}]

\* The tasks of the event loop go on.
Running == link \notin {"leaving", "off"}
End(m, how) == ended' = [ended EXCEPT ![m] = how]
\* What may become of a message when it is the last thing to be sent.
Sent == {"lost"} \cup IF link = "up" THEN {"told"} ELSE {}

Busy == Cardinality({c \in Conv : step[c] = "turn"}) + Cardinality(fetching)
FreeThread == Busy < Pool

-----------------------------------------------------------------------------
(* _run, _session, _heartbeat, _shutdown.                                  *)

\* Mutant of GoesOn: the flag is looked at only when the wait begins.
GoesOnAnyway == link = "down"
GoesOn == link = "down" /\ ~stop

Connect ==
    /\ GoesOn
    /\ link' = "connecting"
    /\ UNCHANGED <<stop, frames, workers, ended>>

\* A stop that was asked for meanwhile found no connection to close.
Connected ==
    /\ link = "connecting"
    /\ link' \in {"up", "down"}
    /\ UNCHANGED <<stop, frames, workers, ended>>

\* The connection is lost, another one has kicked it out, the subscription is
\* refused, or no frame was read for 90 seconds and the heartbeat closes it.
Breaks ==
    /\ link = "up"
    /\ link' = "closing"
    /\ UNCHANGED <<stop, frames, workers, ended>>

NoFrame == \A m \in Msg : frame[m] = "none"

\* The loop over the frames notices when it asks for the next.
SessionEnds ==
    /\ link = "closing" /\ NoFrame
    /\ link' = "down"
    /\ UNCHANGED <<stop, frames, workers, ended>>

\* POST /shutdown
Stop ==
    /\ Running
    /\ stop' = TRUE
    /\ link' = IF link = "up" THEN "closing" ELSE link
    /\ UNCHANGED <<frames, workers, ended>>

\* _run is over: every task is cancelled, and with it whatever waits.
Leave ==
    /\ link = "down" /\ stop
    /\ link' = "leaving"
    /\ UNCHANGED <<stop, frames, workers, ended>>

\* The program ends when the turns under way have, whose replies nobody sends.
Off ==
    /\ link = "leaving" /\ Busy = 0
    /\ link' = "off"
    /\ UNCHANGED <<stop, frames, workers, ended>>

-----------------------------------------------------------------------------
(* _handle_frame                                                           *)

Duplicate(m) == m \in ToSet(seen[Chat[m]])

\* Mutant of ReadsNext: a task of its own for each frame.
ReadsAtOnce == TRUE
ReadsNext == NoFrame

\* Frames that have arrived are read although the connection is closing.
Receive(m) ==
    /\ link \in {"up", "closing"} /\ ReadsNext /\ ~Duplicate(m)
    /\ seen' = [seen EXCEPT ![Chat[m]] = Append(@, m)]
    /\ CASE Kind[m] = "text" ->
              frame' = [frame EXCEPT ![m] = "queue"] /\ UNCHANGED ended
         [] Kind[m] = "media" ->
              frame' = [frame EXCEPT ![m] = "fetch"] /\ UNCHANGED ended
         [] OTHER -> UNCHANGED frame /\ End(m, "ignored")
    /\ UNCHANGED <<link, stop, fetching, workers>>

FetchStarts(m) ==
    /\ Running /\ frame[m] = "fetch" /\ m \notin fetching /\ FreeThread
    /\ fetching' = fetching \cup {m}
    /\ UNCHANGED <<link, stop, seen, frame, workers, ended>>

Fetched(m) ==
    /\ Running /\ m \in fetching
    /\ fetching' = fetching \ {m}
    /\ frame' = [frame EXCEPT ![m] = "queue"]
    /\ UNCHANGED <<link, stop, seen, workers, ended>>

FetchFails(m) ==
    /\ Running /\ m \in fetching
    /\ fetching' = fetching \ {m}
    /\ frame' = [frame EXCEPT ![m] = "none"]
    /\ \E how \in Sent : End(m, how)
    /\ UNCHANGED <<link, stop, seen, workers>>

\* Mutant of Room: one more than the queue has room for.
RoomForOneMore(c) == Len(queue[c]) <= MaxPending
Room(c) == Len(queue[c]) < MaxPending

Enqueue(m) ==
    /\ Running /\ frame[m] = "queue" /\ Room(Chat[m])
    /\ frame' = [frame EXCEPT ![m] = "none"]
    /\ queue' = [queue EXCEPT ![Chat[m]] = Append(@, m)]
    /\ UNCHANGED <<link, stop, seen, fetching, job, step, ended>>

\* The queue is full: a note.  If it cannot be sent, or if no job could be
\* built, the exception ends the session.
NoJob(m) ==
    /\ Running /\ frame[m] = "queue"
    /\ frame' = [frame EXCEPT ![m] = "none"]
    /\ \/ /\ ~Room(Chat[m]) /\ link = "up"
          /\ End(m, "told") /\ UNCHANGED link
       \/ /\ link' = "down"
          /\ End(m, "lost")
    /\ UNCHANGED <<stop, seen, fetching, workers>>

-----------------------------------------------------------------------------
(* _worker                                                                 *)

Moves(c, to) == step' = [step EXCEPT ![c] = to]

Take(c) ==
    /\ Running /\ step[c] = "idle" /\ queue[c] # <<>>
    /\ job' = [job EXCEPT ![c] = Head(queue[c])]
    /\ queue' = [queue EXCEPT ![c] = Tail(@)]
    /\ Moves(c, "wait")
    /\ UNCHANGED <<link, stop, frames, ended>>

TurnStarts(c) ==
    /\ Running /\ step[c] = "wait" /\ FreeThread
    /\ Moves(c, "turn")
    /\ UNCHANGED <<link, stop, frames, queue, job, ended>>

\* With a reply, or with an exception that is told instead.  A turn is a
\* thread, which goes on, and acts, when the tasks have been cancelled.
TurnEnds(c) ==
    /\ step[c] = "turn"
    /\ Moves(c, "reply")
    /\ UNCHANGED <<link, stop, frames, queue, job, ended>>

Done(c, how) ==
    /\ End(job[c], how)
    /\ job' = [job EXCEPT ![c] = None]
    /\ Moves(c, "idle")

\* On the stream of the message, else as a message of its own.
Reply(c) ==
    /\ Running /\ step[c] = "reply"
    /\ \/ link = "up" /\ Done(c, "told")
       \/ Moves(c, "push") /\ UNCHANGED <<job, ended>>
    /\ UNCHANGED <<link, stop, frames, queue>>

\* Mutant of Pushes: a push that fails ends the worker.
PushesOrDies == Sent \ {"lost"}
Pushes == Sent
Push(c) ==
    /\ Running /\ step[c] = "push"
    /\ \E how \in Pushes : Done(c, how)
    /\ UNCHANGED <<link, stop, frames, queue>>

-----------------------------------------------------------------------------

Init ==
    /\ link = "down" /\ stop = FALSE
    /\ seen = [c \in Conv |-> <<>>] /\ fetching = {}
    /\ frame = [m \in Msg |-> "none"]
    /\ queue = [c \in Conv |-> <<>>]
    /\ job = [c \in Conv |-> None]
    /\ step = [c \in Conv |-> "idle"]
    /\ ended = [m \in Msg |-> "open"]

Connection == Connect \/ Connected \/ SessionEnds \/ Leave \/ Off
Handle(m) == FetchStarts(m) \/ Fetched(m) \/ FetchFails(m)
             \/ Enqueue(m) \/ NoJob(m)
Worker(c) == Take(c) \/ TurnStarts(c) \/ TurnEnds(c) \/ Reply(c) \/ Push(c)

Next ==
    \/ Connection \/ Breaks \/ Stop
    \/ \E m \in Msg : Receive(m) \/ Handle(m)
    \/ \E c \in Conv : Worker(c)

Spec == Init /\ [][Next]_vars

\* The tasks of the event loop go on; downloads and turns have timeouts.  The
\* platform and the network owe nothing, and nobody needs to stop it.
FairSpec ==
    /\ Spec
    /\ WF_vars(Connection)
    /\ \A m \in Msg : WF_vars(Handle(m))
    /\ \A c \in Conv : WF_vars(Worker(c))

-----------------------------------------------------------------------------
(* Properties.                                                             *)

\* What SerialDesk sees of the daemon.
Waiting(c) == ToSet(queue[c]) \cup ({job[c]} \ {None})
Singles(q) == [i \in DOMAIN q |-> {q[i]}]
Open == {m \in Msg : ended[m] = "open"} \ (UNION {Waiting(c) : c \in Conv})
Queues == [c \in Conv |-> Singles(queue[c])]
Jobs == [c \in Conv |-> {job[c]} \ {None}]
Desk == INSTANCE SerialDesk WITH
            Key <- Conv, Capacity <- MaxPending,
            open <- Open, queue <- Queues, busy <- Jobs

\* The daemon does what a transport promises, though messages are delivered
\* again while they are fetched, wait or are being answered.
Serial == Desk!Spec

\* A conversation is answered in the order in which it spoke, whatever takes
\* long to download: when a message has its turn, those before it are settled;
\* and every state is well typed.
InOrder ==
    /\ TypeOK
    /\ \A c \in Conv : \A i, j \in DOMAIN seen[c] :
        i < j /\ job[c] = seen[c][j] => ended[seen[c][i]] # "open"

\* Everything gets a thread in the end, however few the pool has: what was
\* received is answered, refused or lost in a failing send, or the daemon is
\* stopped.
Concluded ==
    \A m \in Msg : m \in ToSet(seen[Chat[m]]) ~> ended[m] # "open" \/ ~Running

\* A stop that does not come while a connection is being made is heeded, and
\* one that does is heeded when that connection ends: the program ends, turns
\* and downloads under way or not.
StopEnds == (stop /\ link \in {"down", "closing"}) ~> link = "off"

\* "stop/status": a stop is always heeded.
StopHeeded == stop ~> link = "off"
=============================================================================
