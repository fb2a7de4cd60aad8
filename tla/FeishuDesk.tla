----------------------------- MODULE FeishuDesk -----------------------------
(***************************************************************************)
(* The Feishu daemon (feishu_server/server.py): events that the SDK may    *)
(* deliver again, a thread per message, files that wait for the text that  *)
(* says what to do with them, and a serial queue per requirement.          *)
(*                                                                         *)
(* A file and a text cannot share a message.  A file is downloaded and put *)
(* in its sender's buffer, with a timer; the sender's next text takes the  *)
(* buffer, or the timer does.  What the router makes of a prompt is left   *)
(* to ChatTurn: here a job is the set of the messages in its prompt, and   *)
(* its key is any.  The platform forgets a message before the daemon       *)
(* forgets that it has seen it (_DUP_CACHE_TTL, 15 minutes).               *)
(***************************************************************************)
EXTENDS Naturals, Sequences, FiniteSets, SequencesExt

CONSTANTS
    Msg, User, Key,  \* messages, their senders, requirements ("global" too)
    Kind,            \* Msg -> "text", "file", "post" or "other"
    From,            \* Msg -> User
    MaxPending       \* _MAX_PENDING

ASSUME FeishuAssumption ==
    /\ IsFiniteSet(Msg)
    /\ Kind \in [Msg -> {"text", "file", "post", "other"}]
    /\ From \in [Msg -> User]
    /\ MaxPending \in Nat \ {0}

VARIABLES
    waits,      \* file_wait_seconds is positive (configuration)
    seen,       \* _seen_events
    fetching,   \* file messages and posts whose files are being downloaded
    saved,      \* files that are downloaded and not buffered yet
    buffer,     \* _file_buffer: each user's files
    live,       \* users whose buffer has a timer that still runs
    fired,      \* threads of timers that have run out, for each user
    prompts,    \* threads in _process, each with the messages of its prompt
    queue,      \* _pending
    running,    \* the job of each queue's worker, {} when it is idle
    ended       \* messages that got a reply, a note, or were ignored

threads == <<fetching, saved, prompts>>
files == <<buffer, live, fired>>
desk == <<queue, running>>
vars == <<waits, seen, fetching, saved, buffer, live, fired, prompts,
          queue, running, ended>>

TypeOK ==
    /\ waits \in BOOLEAN
    /\ seen \subseteq Msg /\ ended \subseteq seen
    /\ fetching \subseteq seen /\ saved \subseteq seen
    /\ buffer \in [User -> SUBSET seen]
    /\ live \subseteq User
    /\ fired \in [User -> Nat]
    /\ prompts \subseteq SUBSET seen
    /\ queue \in [Key -> Seq(SUBSET seen)]
    /\ running \in [Key -> SUBSET seen]

-----------------------------------------------------------------------------
(* The buffer.                                                             *)

\* Mutant of Emptied: the files are looked up and not popped.
EmptiedNot(u) == /\ live' = live \ {u}
                 /\ UNCHANGED <<buffer, fired>>
\* _take_file_buffer; a timer that has run out can no longer be cancelled.
Emptied(u) == /\ buffer' = [buffer EXCEPT ![u] = {}]
              /\ live' = live \ {u}
              /\ UNCHANGED fired

\* Mutant of Timed: only the first file starts a timer.
TimedOnce(u) == IF buffer[u] = {} THEN live \cup {u} ELSE live \ {u}
\* _add_to_file_buffer cancels the timer there is and starts another.
Timed(u) == live \cup {u}

Buffer(m) ==
    /\ m \in saved
    /\ saved' = saved \ {m}
    /\ IF waits
       THEN /\ buffer' = [buffer EXCEPT ![From[m]] = @ \cup {m}]
            /\ live' = Timed(From[m])
            /\ UNCHANGED prompts
       ELSE /\ prompts' = prompts \cup {{m}}
            /\ UNCHANGED <<buffer, live>>
    /\ UNCHANGED <<waits, seen, fetching, fired, desk, ended>>

\* Time is up: a thread of its own will take the buffer, unless it comes late.
Expire(u) ==
    /\ u \in live
    /\ live' = live \ {u}
    /\ fired' = [fired EXCEPT ![u] = @ + 1]
    /\ UNCHANGED <<waits, seen, threads, buffer, desk, ended>>

\* _flush_file_buffer; what was buffered meanwhile goes with it.
Flush(u) ==
    /\ fired[u] > 0
    /\ fired' = [fired EXCEPT ![u] = @ - 1]
    /\ buffer' = [buffer EXCEPT ![u] = {}]
    /\ live' = live \ {u}
    /\ prompts' = IF buffer[u] = {} THEN prompts
                  ELSE prompts \cup {buffer[u]}
    /\ UNCHANGED <<waits, seen, fetching, saved, desk, ended>>

-----------------------------------------------------------------------------
(* Events.                                                                 *)

Duplicate(m) == m \in seen
Marked(m) == seen \cup {m}

\* _handle_event: the thread of the SDK.
DeliverText(m) ==
    /\ Kind[m] = "text" /\ ~Duplicate(m)
    /\ seen' = Marked(m)
    /\ prompts' = prompts \cup {{m} \cup buffer[From[m]]}
    /\ Emptied(From[m])
    /\ UNCHANGED <<waits, fetching, saved, desk, ended>>

DeliverFile(m) ==
    /\ Kind[m] \in {"file", "post"} /\ ~Duplicate(m)
    /\ seen' = Marked(m)
    /\ fetching' = fetching \cup {m}
    /\ UNCHANGED <<waits, saved, prompts, files, desk, ended>>

\* Pictures and the like are ignored, a post without text gets a note.
DeliverOther(m) ==
    /\ Kind[m] \in {"other", "post"} /\ ~Duplicate(m)
    /\ seen' = Marked(m)
    /\ ended' = ended \cup {m}
    /\ UNCHANGED <<waits, threads, files, desk>>

Downloaded(m) ==
    /\ m \in fetching
    /\ fetching' = fetching \ {m}
    /\ IF Kind[m] = "file"
       THEN saved' = saved \cup {m} /\ UNCHANGED prompts
       ELSE prompts' = prompts \cup {{m}} /\ UNCHANGED saved
    /\ UNCHANGED <<waits, seen, files, desk, ended>>

\* None of its files could be downloaded: the sender gets a note.
DownloadFails(m) ==
    /\ m \in fetching
    /\ fetching' = fetching \ {m}
    /\ ended' = ended \cup {m}
    /\ UNCHANGED <<waits, seen, saved, prompts, files, desk>>

-----------------------------------------------------------------------------
(* _process and the queues.                                                *)

\* Mutant of Room: one more than the queue has room for.
RoomForOneMore(k) == Len(queue[k]) <= MaxPending
Room(k) == Len(queue[k]) < MaxPending

Submit(S, k) ==
    /\ S \in prompts /\ Room(k)
    /\ prompts' = prompts \ {S}
    /\ queue' = [queue EXCEPT ![k] = Append(@, S)]
    /\ UNCHANGED <<waits, seen, fetching, saved, files, running, ended>>

\* The queue is full, or the registry cannot be read: a note.
Turned(S) ==
    /\ S \in prompts
    /\ prompts' = prompts \ {S}
    /\ ended' = ended \cup S
    /\ UNCHANGED <<waits, seen, fetching, saved, files, desk>>

\* _drain_pending
Begin(k) ==
    /\ running[k] = {} /\ queue[k] # <<>>
    /\ running' = [running EXCEPT ![k] = Head(queue[k])]
    /\ queue' = [queue EXCEPT ![k] = Tail(@)]
    /\ UNCHANGED <<waits, seen, threads, files, ended>>

\* Mutant of Replies: a handler that raises takes the worker with it.
RepliesOrDies(k) ==
    /\ \A m \in running[k] : Kind[m] # "post"
    /\ running[k] # {}
Replies(k) == running[k] # {}

\* _async_worker pushes the reply, or the exception; a push that fails is
\* not repeated.
Reply(k) ==
    /\ Replies(k)
    /\ ended' = ended \cup running[k]
    /\ running' = [running EXCEPT ![k] = {}]
    /\ UNCHANGED <<waits, seen, threads, files, queue>>

-----------------------------------------------------------------------------

Init ==
    /\ waits \in BOOLEAN
    /\ seen = {} /\ fetching = {} /\ saved = {} /\ prompts = {} /\ ended = {}
    /\ buffer = [u \in User |-> {}]
    /\ live = {}
    /\ fired = [u \in User |-> 0]
    /\ queue = [k \in Key |-> <<>>]
    /\ running = [k \in Key |-> {}]

Deliver(m) == DeliverText(m) \/ DeliverFile(m) \/ DeliverOther(m)
Handle(m) == Buffer(m) \/ Downloaded(m) \/ DownloadFails(m)
Process == \E S \in prompts : Turned(S) \/ (\E k \in Key : Submit(S, k))
Timer(u) == Expire(u) \/ Flush(u)
Worker(k) == Begin(k) \/ Reply(k)

Next ==
    \/ \E m \in Msg : Deliver(m) \/ Handle(m)
    \/ Process
    \/ \E u \in User : Timer(u)
    \/ \E k \in Key : Worker(k)

Spec == Init /\ [][Next]_vars

\* The threads and timers of the daemon; the platform owes nothing.  A turn
\* of G, a download and a push end: all three have timeouts.
FairSpec ==
    /\ Spec
    /\ \A m \in Msg : WF_vars(Handle(m))
    /\ WF_vars(Process)
    /\ \A u \in User : WF_vars(Timer(u))
    /\ \A k \in Key : WF_vars(Worker(k))

-----------------------------------------------------------------------------
(* Properties.                                                             *)

\* Where a message is: in a thread's prompt, a buffer, a worker's job, a job
\* that waits, a download, on its way to a buffer, or done with.
Places(m) ==
    {<<"prompt", S>> : S \in {T \in prompts : m \in T}}
    \cup {<<"buffer", u>> : u \in {v \in User : m \in buffer[v]}}
    \cup {<<"running", k>> : k \in {j \in Key : m \in running[j]}}
    \cup (UNION {{<<"queue", k, i>> :
                     i \in {j \in DOMAIN queue[k] : m \in queue[k][j]}}
                   : k \in Key})
    \cup {<<"fetching", n>> : n \in {m} \cap fetching}
    \cup {<<"saved", n>> : n \in {m} \cap saved}
    \cup {<<"ended", n>> : n \in {m} \cap ended}

\* "Single owner of the text-merge vs timer-flush race, so a file dispatches
\* exactly once": what was received is in one place, until it has ended.
OnePlace == \A m \in seen : Cardinality(Places(m)) = 1

\* Files that wait have somebody who will come for them: texts that take the
\* buffer, new files that replace the timer, and timers that come late leave
\* none behind; and every state is well typed.
BufferTimed ==
    /\ TypeOK
    /\ \A u \in User : buffer[u] # {} => u \in live \/ fired[u] > 0

\* Messages that are in no job any more or in one of a queue.
Listed(q) == UNION ToSet(q)
Out == ended \cup (UNION {running[k] \cup Listed(queue[k]) : k \in Key})

\* The daemon does what a transport promises, though the platform delivers
\* events again.
Desk == INSTANCE SerialDesk WITH
            Capacity <- MaxPending, busy <- running, open <- Msg \ Out
Serial == Desk!Spec

\* Nothing that was received waits for ever.  In the end it has got a reply or
\* a note, if the push went through, which nobody checks; or it was a picture
\* or the like, which is passed over in silence.
Concluded == \A m \in Msg : m \in seen ~> m \in ended
=============================================================================
