--------------------------- MODULE AibotDeskProofs ---------------------------
(* Theorems about AibotDesk, for any messages, conversations, capacities   *)
(* and number of threads: a conversation is answered in its order, and the *)
(* daemon does what SerialDesk promises.                                   *)
EXTENDS AibotDesk, TLAPS

-----------------------------------------------------------------------------
(* The inductive invariant: what a conversation said lies in a line.  What *)
(* has ended comes first or is scattered in it; of the rest, the message   *)
(* of the worker is before the queue, the queue is in the order of receipt *)
(* and the message that is still handled is the last.                      *)

Precedes(s, x, y) ==
    \E i, j \in DOMAIN s : i < j /\ s[i] = x /\ s[j] = y

\* A message is received once, in its own conversation, and ends after that.
Once ==
    /\ \A c \in Conv : \A i \in DOMAIN seen[c] : Chat[seen[c][i]] = c
    /\ \A c \in Conv : \A i, j \in DOMAIN seen[c] :
          seen[c][i] = seen[c][j] => i = j
    /\ \A m \in Msg : m \notin ToSet(seen[Chat[m]]) => ended[m] = "open"

Placed ==
    \A c \in Conv : \A i \in DOMAIN seen[c] :
        \/ ended[seen[c][i]] # "open"
        \/ seen[c][i] = job[c]
        \/ seen[c][i] \in ToSet(queue[c])
        \/ frame[seen[c][i]] # "none"

\* Waits or is answered: it has been received, has left the frame, is open.
Settling(s, at, end, m) ==
    m \in ToSet(s) /\ at[m] = "none" /\ end[m] = "open"

Lined ==
    /\ \A c \in Conv : job[c] # None => Settling(seen[c], frame, ended, job[c])
    /\ \A c \in Conv : \A q \in DOMAIN queue[c] :
          /\ Settling(seen[c], frame, ended, queue[c][q])
          /\ job[c] # None => Precedes(seen[c], job[c], queue[c][q])
    /\ \A c \in Conv : \A p, q \in DOMAIN queue[c] :
          p < q => Precedes(seen[c], queue[c][p], queue[c][q])

Handled ==
    \A m \in Msg : frame[m] # "none" =>
        /\ ended[m] = "open"
        /\ seen[Chat[m]] # <<>> /\ seen[Chat[m]][Len(seen[Chat[m]])] = m
        /\ \A n \in Msg : frame[n] # "none" => n = m

Line == Once /\ Placed /\ Lined /\ Handled

IInv == TypeOK /\ Line

LEMMA InvInOrder == IInv => InOrder
<1> SUFFICES ASSUME IInv, NEW c \in Conv,
                    NEW i \in DOMAIN seen[c], NEW j \in DOMAIN seen[c],
                    i < j, job[c] = seen[c][j], ended[seen[c][i]] = "open"
             PROVE  FALSE
  BY DEF InOrder, IInv
<1> DEFINE m == seen[c][i]
<1>1. /\ seen[c] \in Seq(Msg) /\ m \in Msg /\ seen[c][j] \in Msg
      /\ Chat[m] = c /\ i \in 1..Len(seen[c]) /\ j \in 1..Len(seen[c])
      /\ job[c] # None
  BY AibotAssumption DEF IInv, TypeOK, Line, Once
<1>2. CASE m = job[c]
  BY <1>1, <1>2 DEF IInv, Line, Once
<1>3. CASE m \in ToSet(queue[c])
  <2>1. PICK q \in DOMAIN queue[c] : m = queue[c][q]
    BY <1>3 DEF ToSet
  <2>2. Precedes(seen[c], job[c], m)
    BY <1>1, <2>1 DEF IInv, Line, Lined
  <2>3. PICK a, b \in DOMAIN seen[c] : a < b /\ seen[c][a] = job[c] /\ seen[c][b] = m
    BY <2>2 DEF Precedes
  <2>4. a = j /\ b = i
    BY <2>3 DEF IInv, Line, Once
  <2> QED BY <1>1, <2>3, <2>4
<1>4. CASE frame[m] # "none"
  <2>1. seen[c][Len(seen[c])] = m /\ Len(seen[c]) \in DOMAIN seen[c]
    BY <1>1, <1>4 DEF IInv, Line, Handled
  <2>2. Len(seen[c]) = i
    BY <2>1 DEF IInv, Line, Once
  <2> QED BY <1>1, <2>2
<1> QED BY <1>2, <1>3, <1>4 DEF IInv, Line, Placed

LEMMA InvInit == Init => IInv
<1> SUFFICES ASSUME Init PROVE IInv
  OBVIOUS
<1>1. <<>> \in Seq(Msg) /\ DOMAIN <<>> = {} /\ ToSet(<<>>) = {}
  BY DEF ToSet
<1>2. TypeOK
  BY <1>1, AibotAssumption DEF Init, TypeOK
<1>3. \A c \in Conv : DOMAIN seen[c] = {} /\ DOMAIN queue[c] = {}
  BY <1>1 DEF Init
<1>4. Once /\ Placed /\ Lined /\ Handled
  BY <1>3 DEF Init, Once, Placed, Lined, Handled
<1> QED BY <1>2, <1>4 DEF IInv, Line

-----------------------------------------------------------------------------
(* Sequences.                                                              *)

LEMMA AppendFacts ==
    ASSUME NEW X, NEW q \in Seq(X), NEW m \in X
    PROVE  /\ Append(q, m) \in Seq(X) /\ Append(q, m) # <<>>
           /\ Len(Append(q, m)) = Len(q) + 1 /\ Append(q, m)[Len(q) + 1] = m
           /\ DOMAIN Append(q, m) = DOMAIN q \cup {Len(q) + 1}
           /\ DOMAIN q = 1..Len(q)
           /\ \A i \in DOMAIN q : Append(q, m)[i] = q[i]
           /\ \A i \in DOMAIN q : i \in Nat /\ i < Len(q) + 1
           /\ ToSet(Append(q, m)) = ToSet(q) \cup {m}
<1> DEFINE a == Append(q, m)
<1>1. /\ a \in Seq(X) /\ a # <<>> /\ Len(q) \in Nat
      /\ Len(a) = Len(q) + 1 /\ a[Len(q) + 1] = m
      /\ DOMAIN a = 1..(Len(q) + 1) /\ DOMAIN q = 1..Len(q)
      /\ \A i \in 1..Len(q) : a[i] = q[i]
  OBVIOUS
<1> HIDE DEF a
<1>2. DOMAIN a = DOMAIN q \cup {Len(q) + 1}
  BY <1>1
<1>3. {a[i] : i \in DOMAIN a} = {q[i] : i \in DOMAIN q} \cup {m}
  BY <1>1, <1>2
<1> QED BY <1>1, <1>2, <1>3 DEF a, ToSet

LEMMA TailFacts ==
    ASSUME NEW X, NEW q \in Seq(X), q # <<>>
    PROVE  /\ Head(q) = q[1] /\ Head(q) \in X /\ 1 \in DOMAIN q
           /\ Tail(q) \in Seq(X) /\ Len(Tail(q)) = Len(q) - 1
           /\ \A i \in DOMAIN Tail(q) : /\ i \in Nat /\ i + 1 \in DOMAIN q
                                        /\ 1 < i + 1 /\ Tail(q)[i] = q[i + 1]
           /\ ToSet(q) = {Head(q)} \cup ToSet(Tail(q))
<1> DEFINE t == Tail(q)
<1>1. /\ Len(q) \in Nat \ {0} /\ DOMAIN q = 1..Len(q)
      /\ t \in Seq(X) /\ Len(t) = Len(q) - 1 /\ DOMAIN t = 1..(Len(q) - 1)
      /\ Head(q) = q[1] /\ q[1] \in X /\ \A i \in DOMAIN t : t[i] = q[i + 1]
  OBVIOUS
<1> HIDE DEF t
<1>2. {q[i] : i \in DOMAIN q} = {q[1]} \cup {t[i] : i \in DOMAIN t}
  <2>1. \A i \in DOMAIN q : i = 1 \/ (i - 1 \in DOMAIN t /\ (i - 1) + 1 = i)
    BY <1>1
  <2>2. 1 \in DOMAIN q /\ \A i \in DOMAIN t : i + 1 \in DOMAIN q
    BY <1>1
  <2>3. \A i \in DOMAIN q : i = 1 \/ q[i] = t[i - 1]
    BY <1>1, <2>1
  <2> QED BY <1>1, <2>1, <2>2, <2>3
<1> QED BY <1>1, <1>2 DEF t, ToSet

-----------------------------------------------------------------------------
(* Every step keeps the types.                                             *)

LEMMA TypeStep == TypeOK /\ [Next]_vars => TypeOK'
<1> SUFFICES ASSUME TypeOK, [Next]_vars PROVE TypeOK'
  OBVIOUS
<1> USE AibotAssumption DEF TypeOK
<1>1. CASE Connection \/ Breaks \/ Stop
  BY <1>1 DEF Connection, Connect, Connected, SessionEnds, Leave, Off, Breaks,
              Stop, frames, workers
<1>2. ASSUME NEW m \in Msg, Receive(m) PROVE TypeOK'
  <2>1. /\ Chat[m] \in Conv /\ seen[Chat[m]] \in Seq(Msg)
        /\ NoFrame /\ seen' = [seen EXCEPT ![Chat[m]] = Append(@, m)]
        /\ UNCHANGED <<link, stop, fetching, queue, job, step>>
    BY <1>2 DEF Receive, ReadsNext, workers
  <2>2. seen' \in [Conv -> Seq(Msg)]
    BY <2>1, AppendFacts
  <2>3. /\ \/ frame' = [frame EXCEPT ![m] = "queue"]
           \/ frame' = [frame EXCEPT ![m] = "fetch"]
           \/ UNCHANGED frame
        /\ \/ UNCHANGED ended
           \/ ended' = [ended EXCEPT ![m] = "ignored"]
    BY <1>2 DEF Receive, End
  <2>4. fetching = {}
    BY <2>1 DEF NoFrame
  <2>5. frame' \in [Msg -> {"none", "fetch", "queue"}]
    BY <2>3
  <2>6. ended' \in [Msg -> {"open", "told", "lost", "ignored"}]
    BY <2>3
  <2> QED BY <2>1, <2>2, <2>4, <2>5, <2>6
<1>3. ASSUME NEW m \in Msg, FetchStarts(m) \/ Fetched(m) PROVE TypeOK'
  <2>1. CASE FetchStarts(m)
    BY <2>1 DEF FetchStarts, workers
  <2>2. CASE Fetched(m)
    <3>1. /\ frame' \in [Msg -> {"none", "fetch", "queue"}]
          /\ fetching' \subseteq {n \in Msg : frame'[n] = "fetch"}
      BY <2>2 DEF Fetched
    <3> QED BY <2>2, <3>1 DEF Fetched, workers
  <2> QED BY <1>3, <2>1, <2>2
<1>12. ASSUME NEW m \in Msg, NEW how \in {"told", "lost"}, End(m, how),
             frame' = [frame EXCEPT ![m] = "none"], fetching' = fetching \ {m},
             UNCHANGED <<stop, seen, queue, job, step>>,
             link' \in {link, "down"}
      PROVE  TypeOK'
  <2>1. ended' \in [Msg -> {"open", "told", "lost", "ignored"}]
    BY <1>12 DEF End
  <2>2. /\ frame' \in [Msg -> {"none", "fetch", "queue"}]
        /\ fetching' \subseteq {n \in Msg : frame'[n] = "fetch"}
    BY <1>12
  <2> QED BY <1>12, <2>1, <2>2
<1>13. ASSUME NEW m \in Msg, FetchFails(m) PROVE TypeOK'
  BY <1>12, <1>13 DEF FetchFails, Sent, workers
<1>4. ASSUME NEW m \in Msg, Enqueue(m) PROVE TypeOK'
  <2>1. /\ Chat[m] \in Conv /\ queue[Chat[m]] \in Seq(Msg)
        /\ queue' = [queue EXCEPT ![Chat[m]] = Append(@, m)]
    BY <1>4 DEF Enqueue
  <2>2. queue' \in [Conv -> Seq(Msg)]
    BY <2>1, AppendFacts
  <2> QED BY <1>4, <2>2 DEF Enqueue
<1>5. ASSUME NEW m \in Msg, NoJob(m) PROVE TypeOK'
  <2>1. fetching' = fetching \ {m}
    BY <1>5 DEF NoJob
  <2>2. PICK how \in {"told", "lost"} : End(m, how) /\ link' \in {link, "down"}
    BY <1>5 DEF NoJob
  <2>3. /\ frame' = [frame EXCEPT ![m] = "none"]
        /\ UNCHANGED <<stop, seen, queue, job, step>>
    BY <1>5 DEF NoJob, workers
  <2> QED BY <1>12, <2>1, <2>2, <2>3
<1>6. ASSUME NEW c \in Conv, Take(c) PROVE TypeOK'
  <2>1. queue[c] \in Seq(Msg) /\ queue[c] # <<>>
    BY <1>6 DEF Take
  <2>2. Head(queue[c]) \in Msg /\ queue' \in [Conv -> Seq(Msg)]
    BY <1>6, <2>1, TailFacts DEF Take
  <2> QED BY <1>6, <2>2 DEF Take, Moves, frames
<1>7. ASSUME NEW c \in Conv, TurnStarts(c) \/ TurnEnds(c) PROVE TypeOK'
  <2>1. PICK to \in {"turn", "reply"} :
          /\ step[c] # "idle" /\ step' = [step EXCEPT ![c] = to]
          /\ UNCHANGED <<link, stop, seen, frame, fetching, queue, job, ended>>
    BY <1>7 DEF TurnStarts, TurnEnds, Moves, frames
  <2>2. \A d \in Conv : step'[d] = "idle" <=> step[d] = "idle"
    BY <2>1
  <2> QED BY <2>1, <2>2
<1>8. ASSUME NEW c \in Conv, NEW how \in {"told", "lost"}, Done(c, how),
             step[c] # "idle", UNCHANGED <<link, stop, frames, queue>>
      PROVE  TypeOK'
  BY <1>8 DEF Done, End, Moves, frames
<1>9. ASSUME NEW c \in Conv, Reply(c) PROVE TypeOK'
  <2>1. CASE Done(c, "told")
    BY <1>8, <1>9, <2>1 DEF Reply
  <2>2. CASE Moves(c, "push") /\ UNCHANGED <<job, ended>>
    BY <1>9, <2>2 DEF Reply, Moves, frames
  <2> QED BY <1>9, <2>1, <2>2 DEF Reply
<1>10. ASSUME NEW c \in Conv, Push(c) PROVE TypeOK'
  BY <1>8, <1>10 DEF Push, Pushes, Sent
<1>11. CASE UNCHANGED vars
  BY <1>11 DEF vars, frames, workers
<1> QED
  BY <1>1, <1>2, <1>3, <1>13, <1>4, <1>5, <1>6, <1>7, <1>9, <1>10, <1>11
     DEF Next, Handle, Worker

-----------------------------------------------------------------------------
(* Every step keeps the line.                                              *)

\* A message that is being handled ends: it waits nowhere.
LEMMA HandledEnds ==
    ASSUME TypeOK, Line, NEW m \in Msg, frame[m] # "none",
           NEW how \in {"told", "lost"}, End(m, how),
           frame' = [frame EXCEPT ![m] = "none"],
           UNCHANGED <<seen, queue, job>>
    PROVE  Line'
<1>1. /\ ended' = [ended EXCEPT ![m] = how]
      /\ \A n \in Msg : n # m => ended'[n] = ended[n] /\ frame'[n] = frame[n]
      /\ ended'[m] # "open" /\ frame'[m] = "none"
  BY DEF End, TypeOK
<1>2. \A c \in Conv : \A i \in DOMAIN seen[c] : seen[c][i] \in Msg
  BY DEF TypeOK
<1>3. m \in ToSet(seen[Chat[m]])
  <2>1. seen[Chat[m]] \in Seq(Msg) /\ seen[Chat[m]] # <<>>
    BY AibotAssumption DEF Line, Handled, TypeOK
  <2>2. Len(seen[Chat[m]]) \in DOMAIN seen[Chat[m]]
    BY <2>1
  <2> QED BY <2>2 DEF Line, Handled, ToSet
<1>4. Once'
  BY <1>1, <1>3 DEF Line, Once
<1>5. Placed'
  BY <1>1, <1>2 DEF Line, Placed
<1>6. \A c \in Conv, n \in Msg :
        Settling(seen[c], frame, ended, n) => Settling(seen'[c], frame', ended', n)
  BY <1>1 DEF Settling
<1>7. Lined'
  <2>1. \A c \in Conv : \A q \in DOMAIN queue[c] : queue[c][q] \in Msg
    BY DEF TypeOK
  <2>2. \A c \in Conv : job[c] # None => job[c] \in Msg
    BY DEF TypeOK
  <2>3. \A c \in Conv, x, y \in Msg : Precedes(seen[c], x, y) => Precedes(seen'[c], x, y)
    BY DEF Precedes
  <2> QED BY <1>6, <2>1, <2>2, <2>3 DEF Line, Lined
<1>8. Handled'
  BY <1>1 DEF Line, Handled
<1> QED BY <1>4, <1>5, <1>7, <1>8 DEF Line

\* The worker is done with its message.
LEMMA DoneEnds ==
    ASSUME TypeOK, Line, NEW c \in Conv, job[c] # None,
           NEW how \in {"told", "lost"}, Done(c, how),
           UNCHANGED <<seen, frame, queue>>
    PROVE  Line'
<1> DEFINE m == job[c]
<1>1. /\ m \in Msg /\ Settling(seen[c], frame, ended, m) /\ Chat[m] = c
  BY DEF TypeOK, Line, Lined, Once, Settling, ToSet
<1>2. /\ \A n \in Msg : n # m => ended'[n] = ended[n]
      /\ ended'[m] # "open" /\ job'[c] = None
      /\ \A d \in Conv : d # c => job'[d] = job[d]
  BY <1>1 DEF Done, End, TypeOK
<1>3. \A d \in Conv : \A i \in DOMAIN seen[d] : seen[d][i] \in Msg
  BY DEF TypeOK
<1>4. Once'
  BY <1>1, <1>2 DEF Line, Once, Settling
<1>5. Placed'
  BY <1>2, <1>3 DEF Line, Placed
<1>6. \A d \in Conv, n \in Msg :
        n # m /\ Settling(seen[d], frame, ended, n)
          => Settling(seen'[d], frame', ended', n)
  BY <1>2 DEF Settling
<1>7. \A d \in Conv : \A q \in DOMAIN queue[d] : queue[d][q] \in Msg \ {m}
  <2> SUFFICES ASSUME NEW d \in Conv, NEW q \in DOMAIN queue[d], queue[d][q] = m
               PROVE  FALSE
    BY DEF TypeOK
  <2>1. Settling(seen[d], frame, ended, m)
    BY DEF Line, Lined
  <2>2. d = c
    BY <1>1, <2>1 DEF Line, Once, Settling, ToSet
  <2>3. Precedes(seen[c], m, m)
    BY <2>2 DEF Line, Lined
  <2>4. PICK i, j \in DOMAIN seen[c] : i < j /\ seen[c][i] = m /\ seen[c][j] = m
    BY <2>3 DEF Precedes
  <2>5. i = j /\ i \in Nat
    BY <2>4 DEF Line, Once, TypeOK
  <2> QED BY <2>4, <2>5
<1>8. \A d \in Conv, x, y \in Msg : Precedes(seen[d], x, y) => Precedes(seen'[d], x, y)
  BY DEF Precedes
<1>9. \A d \in Conv : job'[d] # None => job'[d] = job[d] /\ job[d] \in Msg \ {m}
  <2> SUFFICES ASSUME NEW d \in Conv, job'[d] # None
               PROVE  job'[d] = job[d] /\ job[d] \in Msg \ {m}
    OBVIOUS
  <2>1. d # c /\ job'[d] = job[d]
    BY <1>2
  <2>2. Settling(seen[d], frame, ended, job[d]) /\ job[d] \in Msg
    BY <2>1 DEF Line, Lined, TypeOK
  <2>3. Chat[job[d]] = d
    BY <2>2 DEF Settling, ToSet, Line, Once
  <2> QED BY <1>1, <2>1, <2>2, <2>3
<1>10. Lined'
  <2>1. \A d \in Conv : job'[d] # None => Settling(seen'[d], frame', ended', job'[d])
    BY <1>6, <1>9 DEF Line, Lined
  <2>2. \A d \in Conv : \A q \in DOMAIN queue[d] :
          /\ Settling(seen'[d], frame', ended', queue'[d][q])
          /\ job'[d] # None => Precedes(seen'[d], job'[d], queue'[d][q])
    BY <1>6, <1>7, <1>8, <1>9 DEF Line, Lined
  <2>3. \A d \in Conv : \A p, q \in DOMAIN queue[d] :
          p < q => Precedes(seen'[d], queue'[d][p], queue'[d][q])
    BY <1>7, <1>8 DEF Line, Lined
  <2> QED BY <1>9, <2>1, <2>2, <2>3 DEF Lined
<1>11. Handled'
  BY <1>1, <1>2 DEF Line, Handled, Settling
<1> QED BY <1>4, <1>5, <1>10, <1>11 DEF Line

\* Nothing begins to wait or ends.
LEMMA LineStays ==
    ASSUME Line, UNCHANGED <<seen, queue, job, ended>>,
           \A n : frame'[n] = "none" <=> frame[n] = "none"
    PROVE  Line'
  BY DEF Line, Once, Placed, Lined, Handled, Settling, Precedes

LEMMA ReceiveKeeps ==
    ASSUME TypeOK, Line, NEW m \in Msg, Receive(m)
    PROVE  Line'
<1> SUFFICES ASSUME NEW c \in Conv, c = Chat[m], NEW q, q = seen[c]
             PROVE  Line'
  BY AibotAssumption
<1>1. /\ c \in Conv /\ q \in Seq(Msg)
      /\ m \notin ToSet(q) /\ seen' = [seen EXCEPT ![c] = Append(q, m)]
      /\ \A n \in Msg : frame[n] = "none"
      /\ UNCHANGED <<queue, job>>
  BY AibotAssumption DEF Receive, ReadsNext, NoFrame, Duplicate, workers, TypeOK
<1>2. /\ \A n \in Msg : n # m => ended'[n] = ended[n] /\ frame'[n] = frame[n]
      /\ \/ frame'[m] # "none" /\ ended'[m] = ended[m]
         \/ frame'[m] = "none" /\ ended'[m] # "open"
  BY <1>1 DEF Receive, End, TypeOK
<1>3. ended[m] = "open"
  BY <1>1 DEF Line, Once
<1>4. \A d \in Conv : d # c => seen'[d] = seen[d]
  BY <1>1 DEF TypeOK
<1>5. /\ DOMAIN seen'[c] = DOMAIN q \cup {Len(q) + 1}
      /\ \A i \in DOMAIN q : seen'[c][i] = q[i] /\ q[i] \in Msg \ {m}
      /\ seen'[c][Len(q) + 1] = m /\ ToSet(seen'[c]) = ToSet(q) \cup {m}
      /\ seen'[c] # <<>> /\ Len(seen'[c]) = Len(q) + 1
      /\ \A i \in DOMAIN q : i # Len(q) + 1
  <2>1. seen'[c] = Append(q, m)
    BY <1>1 DEF TypeOK
  <2>2. \A i \in DOMAIN q : q[i] \in ToSet(q) /\ q[i] \in Msg
    BY <1>1 DEF ToSet
  <2>3. \A i \in DOMAIN q : i < Len(q) + 1 /\ i \in Nat
    BY <1>1, AppendFacts
  <2>4. Len(q) \in Nat
    BY <1>1
  <2>5. \A i \in DOMAIN q : i # Len(q) + 1
    BY <2>3, <2>4
  <2> QED BY <1>1, <2>1, <2>2, <2>5, AppendFacts
<1>6. \A d \in Conv : \A i \in DOMAIN seen[d] :
         /\ i \in DOMAIN seen'[d] /\ seen'[d][i] = seen[d][i]
         /\ seen[d][i] \in Msg \ {m}
  <2> SUFFICES ASSUME NEW d \in Conv, d # c, NEW i \in DOMAIN seen[d]
               PROVE  seen[d][i] \in Msg \ {m}
    BY <1>4, <1>5
  <2>1. seen[d][i] \in Msg /\ Chat[seen[d][i]] = d
    BY DEF TypeOK, Line, Once
  <2> QED BY <2>1
<1>7. \A d \in Conv : \A i \in DOMAIN seen'[d] :
         i \in DOMAIN seen[d] \/ (d = c /\ i = Len(q) + 1)
  BY <1>4, <1>5
<1>8. \A d \in Conv : \A x, y : Precedes(seen[d], x, y) => Precedes(seen'[d], x, y)
  BY <1>6 DEF Precedes
<1>9. \A d \in Conv, n \in Msg :
        Settling(seen[d], frame, ended, n)
          => Settling(seen'[d], frame', ended', n) /\ n # m
  BY <1>2, <1>6 DEF Settling, ToSet
<1>10. Once'
  <2>1. \A d \in Conv : \A i \in DOMAIN seen'[d] : Chat[seen'[d][i]] = d
    BY <1>5, <1>6, <1>7 DEF Line, Once
  <2>2. \A d \in Conv : \A i, j \in DOMAIN seen'[d] :
           seen'[d][i] = seen'[d][j] => i = j
    BY <1>5, <1>6, <1>7 DEF Line, Once
  <2>3. \A n \in Msg : n \notin ToSet(seen'[Chat[n]]) => ended'[n] = "open"
    <3> SUFFICES ASSUME NEW n \in Msg, n \notin ToSet(seen'[Chat[n]])
                 PROVE  ended'[n] = "open"
      OBVIOUS
    <3>1. n # m
      BY <1>5
    <3>2. n \notin ToSet(seen[Chat[n]])
      BY <1>6, AibotAssumption DEF ToSet
    <3> QED BY <1>2, <3>1, <3>2 DEF Line, Once
  <2> QED BY <2>1, <2>2, <2>3 DEF Once
<1>11. Placed'
  BY <1>1, <1>2, <1>5, <1>6, <1>7 DEF Line, Placed
<1>12. Lined'
  <2>1. \A d \in Conv : /\ job[d] # None => job[d] \in Msg
                        /\ \A i \in DOMAIN queue[d] : queue[d][i] \in Msg
    BY DEF TypeOK
  <2> QED BY <1>1, <1>8, <1>9, <2>1 DEF Line, Lined
<1>13. Handled'
  BY <1>1, <1>2, <1>3, <1>5 DEF Handled
<1> QED BY <1>10, <1>11, <1>12, <1>13 DEF Line

LEMMA EnqueueKeeps ==
    ASSUME TypeOK, Line, NEW m \in Msg, Enqueue(m)
    PROVE  Line'
<1> SUFFICES ASSUME NEW c \in Conv, c = Chat[m], NEW q, q = queue[c]
             PROVE  Line'
  BY AibotAssumption
<1>1. /\ c \in Conv /\ q \in Seq(Msg) /\ seen[c] \in Seq(Msg)
      /\ frame[m] # "none" /\ frame' = [frame EXCEPT ![m] = "none"]
      /\ queue' = [queue EXCEPT ![c] = Append(q, m)]
      /\ UNCHANGED <<seen, job, ended>>
  BY AibotAssumption DEF Enqueue, TypeOK
<1>2. /\ \A n \in Msg : n # m => frame'[n] = frame[n] /\ frame[n] = "none"
      /\ frame'[m] = "none" /\ ended[m] = "open"
  BY <1>1 DEF TypeOK, Line, Handled
<1>3. \A d \in Conv : d # c => queue'[d] = queue[d]
  BY <1>1 DEF TypeOK
<1>4. /\ DOMAIN queue'[c] = DOMAIN q \cup {Len(q) + 1}
      /\ \A i \in DOMAIN q : queue'[c][i] = q[i] /\ q[i] \in Msg
      /\ queue'[c][Len(q) + 1] = m /\ ToSet(queue'[c]) = ToSet(q) \cup {m}
      /\ \A i \in DOMAIN q : i \in Nat /\ i < Len(q) + 1
      /\ Len(q) \in Nat
  <2>1. queue'[c] = Append(q, m)
    BY <1>1 DEF TypeOK
  <2>2. Len(q) \in Nat /\ \A i \in DOMAIN q : q[i] \in Msg
    BY <1>1
  <2> QED BY <1>1, <2>1, <2>2, AppendFacts
<1>5. Len(seen[c]) \in DOMAIN seen[c] /\ seen[c][Len(seen[c])] = m
  BY <1>1 DEF Line, Handled
<1>6. ASSUME NEW n \in Msg, n # m, n \in ToSet(seen[c])
      PROVE  Precedes(seen[c], n, m)
  <2>1. PICK i \in DOMAIN seen[c] : seen[c][i] = n
    BY <1>6 DEF ToSet
  <2>2. i < Len(seen[c])
    BY <1>1, <1>5, <1>6, <2>1
  <2> QED BY <1>5, <2>1, <2>2 DEF Precedes
<1>7. \A d \in Conv : \A x, y : Precedes(seen[d], x, y) => Precedes(seen'[d], x, y)
  BY <1>1 DEF Precedes
<1>8. \A d \in Conv, n \in Msg :
        Settling(seen[d], frame, ended, n)
          => Settling(seen'[d], frame', ended', n) /\ n # m
  BY <1>1, <1>2 DEF Settling
<1>9. Settling(seen'[c], frame', ended', m)
  BY <1>1, <1>2, <1>5 DEF Settling, ToSet
<1>10. Once'
  BY <1>1 DEF Line, Once
<1>11. Placed'
  <2>1. \A d \in Conv : ToSet(queue[d]) \subseteq ToSet(queue'[d])
    BY <1>3, <1>4
  <2>2. \A d \in Conv : \A i \in DOMAIN seen[d] :
           seen[d][i] \in Msg /\ (seen[d][i] = m => d = c)
    BY DEF TypeOK, Line, Once
  <2>3. m \in ToSet(queue'[c])
    BY <1>4
  <2> QED BY <1>1, <1>2, <2>1, <2>2, <2>3 DEF Line, Placed
<1>12. Lined'
  <2>1. \A d \in Conv : job[d] # None => job[d] \in Msg
    BY DEF TypeOK
  <2>2. \A d \in Conv : job'[d] # None => Settling(seen'[d], frame', ended', job'[d])
    BY <1>1, <1>8, <2>1 DEF Line, Lined
  <2>3. \A d \in Conv : d # c => \A i \in DOMAIN queue'[d] :
           /\ Settling(seen'[d], frame', ended', queue'[d][i])
           /\ job'[d] # None => Precedes(seen'[d], job'[d], queue'[d][i])
    <3>1. \A d \in Conv : \A i \in DOMAIN queue[d] : queue[d][i] \in Msg
      BY DEF TypeOK
    <3> QED BY <1>1, <1>3, <1>7, <1>8, <3>1 DEF Line, Lined
  <2>4. \A i \in DOMAIN q : /\ Settling(seen[c], frame, ended, q[i])
                            /\ job[c] # None => Precedes(seen[c], job[c], q[i])
    BY <1>1 DEF Line, Lined
  <2>5. \A i \in DOMAIN q : Precedes(seen[c], q[i], m)
    <3> SUFFICES ASSUME NEW i \in DOMAIN q PROVE Precedes(seen[c], q[i], m)
      OBVIOUS
    <3>1. Settling(seen[c], frame, ended, q[i])
      BY <2>4
    <3>2. q[i] \in ToSet(seen[c]) /\ q[i] # m
      BY <1>1, <3>1 DEF Settling
    <3> QED BY <1>4, <1>6, <3>2
  <2>6. job[c] # None => Precedes(seen[c], job[c], m)
    BY <1>1, <1>6, <1>8, <2>1 DEF Line, Lined, Settling
  <2>7. \A i \in DOMAIN queue'[c] :
           /\ Settling(seen'[c], frame', ended', queue'[c][i])
           /\ job'[c] # None => Precedes(seen'[c], job'[c], queue'[c][i])
    <3>1. ASSUME NEW i \in DOMAIN q
          PROVE  /\ Settling(seen'[c], frame', ended', q[i])
                 /\ job[c] # None => Precedes(seen'[c], job'[c], q[i])
      <4>1. /\ Settling(seen[c], frame, ended, q[i]) /\ q[i] \in Msg
            /\ job[c] # None => Precedes(seen[c], job[c], q[i])
        BY <1>4, <2>4
      <4> QED BY <1>1, <1>7, <1>8, <4>1
    <3>2. /\ Settling(seen'[c], frame', ended', m)
          /\ job[c] # None => Precedes(seen'[c], job'[c], m)
      BY <1>1, <1>7, <1>9, <2>6
    <3> QED BY <1>1, <1>4, <3>1, <3>2
  <2>8. \A d \in Conv : d # c => \A i, j \in DOMAIN queue'[d] :
           i < j => Precedes(seen'[d], queue'[d][i], queue'[d][j])
    BY <1>3, <1>7 DEF Line, Lined
  <2>9. \A i, j \in DOMAIN q : i < j => Precedes(seen[c], q[i], q[j])
    BY <1>1 DEF Line, Lined
  <2>10. \A i, j \in DOMAIN queue'[c] :
            i < j => Precedes(seen'[c], queue'[c][i], queue'[c][j])
    <3> SUFFICES ASSUME NEW i \in DOMAIN queue'[c], NEW j \in DOMAIN queue'[c],
                        i < j
                 PROVE  Precedes(seen[c], queue'[c][i], queue'[c][j])
      BY <1>1, <1>7
    <3>1. i \in DOMAIN q
      BY <1>4
    <3>2. CASE j \in DOMAIN q
      BY <1>4, <2>9, <3>1, <3>2
    <3>3. CASE j = Len(q) + 1
      BY <1>4, <2>5, <3>1, <3>3
    <3> QED BY <1>4, <3>2, <3>3
  <2> QED BY <2>2, <2>3, <2>7, <2>8, <2>10 DEF Lined
<1>13. Handled'
  BY <1>2 DEF Handled
<1> QED BY <1>10, <1>11, <1>12, <1>13 DEF Line

LEMMA TakeKeeps ==
    ASSUME TypeOK, Line, NEW c \in Conv, Take(c)
    PROVE  Line'
<1> SUFFICES ASSUME NEW q, q = queue[c]
             PROVE  Line'
  OBVIOUS
<1>1. /\ q \in Seq(Msg) /\ q # <<>> /\ job[c] = None
      /\ job' = [job EXCEPT ![c] = Head(q)]
      /\ queue' = [queue EXCEPT ![c] = Tail(q)]
      /\ UNCHANGED <<seen, frame, ended>>
  BY DEF Take, TypeOK, frames
<1>2. /\ job'[c] = Head(q) /\ queue'[c] = Tail(q)
      /\ \A d \in Conv : d # c => job'[d] = job[d] /\ queue'[d] = queue[d]
  BY <1>1 DEF TypeOK
<1>3. /\ Head(q) = q[1] /\ 1 \in DOMAIN q
      /\ ToSet(q) = {Head(q)} \cup ToSet(Tail(q))
      /\ \A i \in DOMAIN Tail(q) : /\ i + 1 \in DOMAIN q /\ 1 < i + 1
                                   /\ i \in Nat /\ Tail(q)[i] = q[i + 1]
  BY <1>1, TailFacts
<1>4. /\ \A i \in DOMAIN q : Settling(seen[c], frame, ended, q[i])
      /\ \A i, j \in DOMAIN q : i < j => Precedes(seen[c], q[i], q[j])
  BY DEF Line, Lined
<1>5. Once'
  BY <1>1 DEF Line, Once
<1>6. Placed'
  <2>1. \A d \in Conv : \A i \in DOMAIN seen[d] : seen[d][i] \in Msg /\ seen[d][i] # None
    BY AibotAssumption DEF TypeOK
  <2> QED BY <1>1, <1>2, <1>3, <2>1 DEF Line, Placed
<1>7. Lined'
  <2>1. \A d \in Conv : job'[d] # None => Settling(seen[d], frame, ended, job'[d])
    BY <1>2, <1>3, <1>4 DEF Line, Lined
  <2>2. \A d \in Conv : d # c => \A i \in DOMAIN queue'[d] :
           /\ Settling(seen[d], frame, ended, queue'[d][i])
           /\ job'[d] # None => Precedes(seen[d], job'[d], queue'[d][i])
    BY <1>2 DEF Line, Lined
  <2>3. \A i \in DOMAIN Tail(q) :
           /\ Settling(seen[c], frame, ended, Tail(q)[i])
           /\ Precedes(seen[c], Head(q), Tail(q)[i])
    BY <1>3, <1>4
  <2>4. \A d \in Conv : d # c => \A i, j \in DOMAIN queue'[d] :
           i < j => Precedes(seen[d], queue'[d][i], queue'[d][j])
    BY <1>2 DEF Line, Lined
  <2>5. \A i, j \in DOMAIN Tail(q) :
           i < j => Precedes(seen[c], Tail(q)[i], Tail(q)[j])
    <3> SUFFICES ASSUME NEW i \in DOMAIN Tail(q), NEW j \in DOMAIN Tail(q), i < j
                 PROVE  Precedes(seen[c], Tail(q)[i], Tail(q)[j])
      OBVIOUS
    <3>1. i + 1 < j + 1
      BY <1>3
    <3> QED BY <1>3, <1>4, <3>1
  <2>6. \A i \in DOMAIN queue'[c] :
           /\ Settling(seen[c], frame, ended, queue'[c][i])
           /\ job'[c] # None => Precedes(seen[c], job'[c], queue'[c][i])
    BY <1>2, <2>3
  <2>7. \A i, j \in DOMAIN queue'[c] :
           i < j => Precedes(seen[c], queue'[c][i], queue'[c][j])
    BY <1>2, <2>5
  <2> QED BY <1>1, <2>1, <2>2, <2>4, <2>6, <2>7 DEF Lined
<1>8. Handled'
  BY <1>1 DEF Line, Handled
<1> QED BY <1>5, <1>6, <1>7, <1>8 DEF Line

LEMMA InvStep == IInv /\ [Next]_vars => IInv'
<1> SUFFICES ASSUME TypeOK, Line, [Next]_vars PROVE Line'
  BY TypeStep DEF IInv
<1>1. CASE Connection \/ Breaks \/ Stop \/ UNCHANGED vars
  <2>1. UNCHANGED <<seen, frame, queue, job, ended>>
    BY <1>1 DEF Connection, Connect, Connected, SessionEnds, Leave, Off, Breaks,
                Stop, frames, workers, vars
  <2> QED BY <2>1, LineStays
<1>2. ASSUME NEW m \in Msg, FetchStarts(m) \/ Fetched(m) PROVE Line'
  <2>1. UNCHANGED <<seen, queue, job, ended>>
    BY <1>2 DEF FetchStarts, Fetched, workers
  <2>2. \A n : frame'[n] = "none" <=> frame[n] = "none"
    <3>1. CASE FetchStarts(m)
      BY <3>1 DEF FetchStarts
    <3>2. CASE Fetched(m)
      <4>1. frame[m] = "fetch" /\ frame' = [frame EXCEPT ![m] = "queue"]
        BY <3>2 DEF Fetched, TypeOK
      <4>2. DOMAIN frame = Msg /\ m \in Msg
        BY DEF TypeOK
      <4> QED BY <4>1, <4>2
    <3> QED BY <1>2, <3>1, <3>2
  <2> QED BY <2>1, <2>2, LineStays
<1>3. ASSUME NEW m \in Msg, FetchFails(m) \/ NoJob(m) PROVE Line'
  <2>1. /\ frame[m] # "none" /\ frame' = [frame EXCEPT ![m] = "none"]
        /\ UNCHANGED <<seen, queue, job>>
    BY <1>3 DEF FetchFails, NoJob, workers, TypeOK
  <2>2. \E how \in {"told", "lost"} : End(m, how)
    BY <1>3 DEF FetchFails, NoJob, Sent
  <2> QED BY <2>1, <2>2, HandledEnds
<1>4. ASSUME NEW c \in Conv, TurnStarts(c) \/ TurnEnds(c) PROVE Line'
  <2>1. UNCHANGED <<seen, frame, queue, job, ended>>
    BY <1>4 DEF TurnStarts, TurnEnds, frames
  <2> QED BY <2>1, LineStays
<1>5. ASSUME NEW c \in Conv, Reply(c) \/ Push(c) PROVE Line'
  <2>1. UNCHANGED <<seen, frame, queue>> /\ job[c] # None
    BY <1>5 DEF Reply, Push, frames, TypeOK
  <2>2. \/ UNCHANGED <<job, ended>>
        \/ \E how \in {"told", "lost"} : Done(c, how)
    BY <1>5 DEF Reply, Push, Pushes, Sent
  <2> QED BY <2>1, <2>2, DoneEnds, LineStays
<1> QED
  BY <1>1, <1>2, <1>3, <1>4, <1>5, ReceiveKeeps, EnqueueKeeps, TakeKeeps
     DEF Next, Handle, Worker

LEMMA InvAlways == Spec => []IInv
  BY InvInit, InvStep, PTL DEF Spec

\* Whatever takes long to download, whatever is delivered again and whichever
\* connection breaks: when a message is being answered, those that its
\* conversation sent before it are settled (_handle_frame, _enqueue, _worker);
\* and the module is type correct.
THEOREM InOrderHolds == Spec => []InOrder
  BY InvAlways, InvInOrder, PTL

-----------------------------------------------------------------------------
(* Refinement of SerialDesk.                                               *)

\* A function that differs from another at one point only.
LEMMA ExceptIs ==
    ASSUME NEW S, NEW f, NEW g, NEW c \in S, NEW v,
           f = [d \in S |-> f[d]], g = [d \in S |-> g[d]],
           g[c] = v, \A d \in S : d # c => g[d] = f[d]
    PROVE  g = [f EXCEPT ![c] = v]
  OBVIOUS

LEMMA SeqIs ==
    ASSUME NEW X, NEW q \in Seq(X)
    PROVE  DOMAIN q = 1..Len(q) /\ q = [i \in DOMAIN q |-> q[i]]
  OBVIOUS

LEMMA SinglesFacts ==
    ASSUME NEW X, NEW q \in Seq(X)
    PROVE  /\ Singles(q) \in Seq(SUBSET X) /\ Len(Singles(q)) = Len(q)
           /\ \A m \in X : Singles(Append(q, m)) = Append(Singles(q), {m})
           /\ q # <<>> => /\ Singles(q) # <<>> /\ Head(Singles(q)) = {Head(q)}
                         /\ Singles(Tail(q)) = Tail(Singles(q))
<1>1. /\ Singles(q) \in Seq(SUBSET X) /\ Len(Singles(q)) = Len(q)
      /\ DOMAIN Singles(q) = 1..Len(q) /\ \A i \in 1..Len(q) : Singles(q)[i] = {q[i]}
  <2>1. Len(q) \in Nat /\ q \in [1..Len(q) -> X]
    OBVIOUS
  <2>2. Singles(q) \in [1..Len(q) -> SUBSET X]
    BY <2>1 DEF Singles
  <2> QED BY <2>1, <2>2 DEF Singles
<1>2. ASSUME NEW m \in X PROVE Singles(Append(q, m)) = Append(Singles(q), {m})
  <2> SUFFICES ASSUME NEW a, a = Append(q, m), NEW b, b = Append(Singles(q), {m})
               PROVE  Singles(a) = b
    OBVIOUS
  <2>1. /\ DOMAIN a = DOMAIN q \cup {Len(q) + 1} /\ a[Len(q) + 1] = m
        /\ \A i \in DOMAIN q : a[i] = q[i]
    BY AppendFacts
  <2>2. /\ DOMAIN b = DOMAIN q \cup {Len(q) + 1} /\ b[Len(q) + 1] = {m}
        /\ \A i \in DOMAIN q : b[i] = {q[i]}
    BY <1>1, AppendFacts
  <2>3. b \in Seq(SUBSET X)
    BY <1>1, AppendFacts
  <2>4. b = [i \in DOMAIN b |-> b[i]]
    BY <2>3
  <2>5. \A i \in DOMAIN b : b[i] = {a[i]}
    BY <2>1, <2>2
  <2> QED BY <2>1, <2>2, <2>4, <2>5 DEF Singles
<1>3. ASSUME q # <<>>
      PROVE  /\ Singles(q) # <<>> /\ Head(Singles(q)) = {Head(q)}
             /\ Singles(Tail(q)) = Tail(Singles(q))
  <2>1. Len(q) \in Nat \ {0} /\ Head(q) = q[1]
    BY <1>3
  <2>2. Singles(q) # <<>> /\ Head(Singles(q)) = {Head(q)}
    BY <1>1, <2>1
  <2> SUFFICES ASSUME NEW t, t = Tail(q), NEW u, u = Tail(Singles(q))
               PROVE  Singles(t) = u
    BY <2>2
  <2>3. /\ t \in Seq(X) /\ Len(t) = Len(q) - 1
        /\ u \in Seq(SUBSET X) /\ Len(u) = Len(q) - 1
    BY <1>1, <1>3, <2>2, TailFacts
  <2>4. /\ DOMAIN t = 1..(Len(q) - 1) /\ DOMAIN u = 1..(Len(q) - 1)
        /\ u = [i \in DOMAIN u |-> u[i]]
    BY <2>3, SeqIs
  <2>5. \A i \in DOMAIN t : t[i] = q[i + 1] /\ i + 1 \in DOMAIN q
    BY <1>3, TailFacts
  <2>6. \A i \in DOMAIN u : u[i] = Singles(q)[i + 1]
    BY <1>1, <2>2, TailFacts
  <2>7. \A i \in DOMAIN u : u[i] = {t[i]}
    BY <2>4, <2>5, <2>6 DEF Singles
  <2> QED BY <2>4, <2>7 DEF Singles
<1> QED BY <1>1, <1>2, <1>3

\* What is open has been received by no worker yet.
LEMMA OpenIs ==
    ASSUME NEW m \in Msg
    PROVE  m \in Open <=> /\ ended[m] = "open"
                         /\ \A c \in Conv : /\ m \notin ToSet(queue[c])
                                            /\ m # job[c] \/ m = None
  BY DEF Open, Waiting

LEMMA DeskInit == Init => Desk!Init
<1> SUFFICES ASSUME Init PROVE Desk!Init
  OBVIOUS
<1>1. Singles(<<>>) = <<>> /\ ToSet(<<>>) = {}
  BY DEF Singles, ToSet
<1>2. Open = Msg
  <2>1. \A m \in Msg : m \in Open
    BY <1>1, OpenIs, AibotAssumption DEF Init
  <2> QED BY <2>1 DEF Open
<1>3. Queues = [c \in Conv |-> <<>>] /\ Jobs = [c \in Conv |-> {}]
  BY <1>1 DEF Init, Queues, Jobs
<1> QED BY <1>2, <1>3 DEF Desk!Init

\* A message that is handled is open: it waits in no queue.
LEMMA HandledOpen ==
    ASSUME TypeOK, Line, NEW m \in Msg, frame[m] # "none"
    PROVE  m \in Open
<1>1. ended[m] = "open"
  BY DEF Line, Handled
<1>2. \A c \in Conv : m # job[c]
  BY AibotAssumption DEF Line, Lined, Settling
<1>3. \A c \in Conv : m \notin ToSet(queue[c])
  BY DEF Line, Lined, Settling, ToSet
<1> QED BY <1>1, <1>2, <1>3, OpenIs

LEMMA Refuses ==
    ASSUME NEW m \in Msg, m \in Open, End(m, "told") \/ End(m, "lost")
                                      \/ End(m, "ignored"),
           ended \in [Msg -> {"open", "told", "lost", "ignored"}],
           UNCHANGED <<queue, job>>
    PROVE  Desk!Next
<1>1. Open' = Open \ {m} /\ UNCHANGED <<Queues, Jobs>>
  BY DEF End, Open, Waiting, Queues, Jobs
<1>2. Desk!Refuse({m})
  BY <1>1 DEF Desk!Refuse
<1> QED BY <1>2 DEF Desk!Next

LEMMA Submits ==
    ASSUME TypeOK, Line, NEW m \in Msg, Enqueue(m)
    PROVE  Desk!Next
<1> SUFFICES ASSUME NEW c \in Conv, c = Chat[m]
             PROVE  Desk!Next
  BY AibotAssumption
<1>1. /\ queue[c] \in Seq(Msg) /\ Len(queue[c]) < MaxPending
      /\ queue' = [queue EXCEPT ![c] = Append(queue[c], m)]
      /\ UNCHANGED <<job, ended>> /\ frame[m] # "none"
  BY DEF Enqueue, Room, TypeOK
<1>2. m \in Open
  BY <1>1, HandledOpen
<1>3. /\ queue'[c] = Append(queue[c], m)
      /\ \A d \in Conv : d # c => queue'[d] = queue[d]
  BY <1>1 DEF TypeOK
<1>4. /\ Singles(queue'[c]) = Append(Singles(queue[c]), {m})
      /\ Len(Singles(queue[c])) = Len(queue[c])
  <2>1. \A n \in Msg : Singles(Append(queue[c], n)) = Append(Singles(queue[c]), {n})
    BY <1>1, SinglesFacts
  <2>2. Len(Singles(queue[c])) = Len(queue[c])
    BY <1>1, SinglesFacts
  <2> QED BY <1>3, <2>1, <2>2, Zenon
<1>5. Queues' = [Queues EXCEPT ![c] = Append(Queues[c], {m})] /\ UNCHANGED Jobs
  <2>1. UNCHANGED Jobs
    BY <1>1 DEF Jobs
  <2>2. /\ Queues'[c] = Append(Queues[c], {m})
        /\ \A d \in Conv : d # c => Queues'[d] = Queues[d]
    BY <1>3, <1>4, Zenon DEF Queues
  <2>3. Queues = [d \in Conv |-> Queues[d]] /\ Queues' = [d \in Conv |-> Queues'[d]]
    BY Zenon DEF Queues
  <2> QED BY <2>1, <2>2, <2>3, ExceptIs
<1>6. Open' = Open \ {m}
  <2>1. ToSet(queue'[c]) = ToSet(queue[c]) \cup {m}
    BY <1>1, <1>3, AppendFacts
  <2> QED BY <1>1, <1>3, <2>1 DEF Open, Waiting
<1>7. Queues[c] = Singles(queue[c])
  BY DEF Queues
<1>8. Desk!Submit(c, {m})
  BY <1>1, <1>2, <1>4, <1>5, <1>6, <1>7 DEF Desk!Submit
<1> QED BY <1>8 DEF Desk!Next

LEMMA Begins ==
    ASSUME TypeOK, NEW c \in Conv, Take(c)
    PROVE  Desk!Next
<1>1. /\ queue[c] \in Seq(Msg) /\ queue[c] # <<>> /\ job[c] = None
      /\ job' = [job EXCEPT ![c] = Head(queue[c])]
      /\ queue' = [queue EXCEPT ![c] = Tail(queue[c])]
      /\ UNCHANGED ended
  BY DEF Take, TypeOK
<1>2. /\ job'[c] = Head(queue[c]) /\ queue'[c] = Tail(queue[c])
      /\ Head(queue[c]) \in Msg /\ Head(queue[c]) # None
      /\ \A d \in Conv : d # c => job'[d] = job[d] /\ queue'[d] = queue[d]
  BY <1>1, TailFacts, AibotAssumption DEF TypeOK
<1>3. /\ Singles(queue[c]) # <<>>
      /\ {job'[c]} \ {None} = Head(Singles(queue[c]))
      /\ Singles(queue'[c]) = Tail(Singles(queue[c]))
  BY <1>1, <1>2, SinglesFacts
<1>4. /\ Queues[c] = Singles(queue[c]) /\ Jobs[c] = {}
      /\ Queues' = [Queues EXCEPT ![c] = Tail(Queues[c])]
      /\ Jobs' = [Jobs EXCEPT ![c] = Head(Queues[c])]
  <2>1. Queues[c] = Singles(queue[c]) /\ Jobs[c] = {}
    BY <1>1, Zenon DEF Queues, Jobs
  <2>2. /\ Queues'[c] = Tail(Queues[c]) /\ Jobs'[c] = Head(Queues[c])
        /\ \A d \in Conv : d # c => Queues'[d] = Queues[d] /\ Jobs'[d] = Jobs[d]
    BY <1>2, <1>3, Zenon DEF Queues, Jobs
  <2>3. /\ Queues = [d \in Conv |-> Queues[d]] /\ Queues' = [d \in Conv |-> Queues'[d]]
        /\ Jobs = [d \in Conv |-> Jobs[d]] /\ Jobs' = [d \in Conv |-> Jobs'[d]]
    BY Zenon DEF Queues, Jobs
  <2>4. Queues' = [Queues EXCEPT ![c] = Tail(Queues[c])]
    BY <2>2, <2>3, ExceptIs
  <2>5. Jobs' = [Jobs EXCEPT ![c] = Head(Queues[c])]
    BY <2>2, <2>3, ExceptIs
  <2> QED BY <2>1, <2>4, <2>5
<1>5. Open' = Open
  <2>1. ToSet(queue[c]) = {Head(queue[c])} \cup ToSet(queue'[c])
    BY <1>1, <1>2, TailFacts
  <2>2. Waiting(c)' = Waiting(c) /\ \A d \in Conv : d # c => Waiting(d)' = Waiting(d)
    BY <1>1, <1>2, <2>1 DEF Waiting
  <2>3. \A d \in Conv : Waiting(d)' = Waiting(d)
    BY <2>2
  <2> QED BY <1>1, <2>3 DEF Open
<1>6. Desk!Begin(c)
  BY <1>3, <1>4, <1>5 DEF Desk!Begin
<1> QED BY <1>6 DEF Desk!Next

LEMMA Finishes ==
    ASSUME TypeOK, NEW c \in Conv, job[c] # None,
           NEW how \in {"told", "lost"}, Done(c, how), UNCHANGED queue
    PROVE  Desk!Next
<1>1. /\ job[c] \in Msg /\ ended' = [ended EXCEPT ![job[c]] = how]
      /\ job' = [job EXCEPT ![c] = None]
  BY DEF Done, End, TypeOK
<1>2. UNCHANGED Queues /\ Jobs' = [Jobs EXCEPT ![c] = {}] /\ Jobs[c] # {}
  BY <1>1 DEF Queues, Jobs, TypeOK
<1>3. Open' = Open
  <2>1. \A n \in Msg : n # job[c] => ended'[n] = ended[n]
    BY <1>1 DEF TypeOK
  <2>2. job[c] \notin Open /\ job[c] \notin Open'
    BY <1>1 DEF Open, Waiting, TypeOK
  <2>3. \A d \in Conv : d # c => Waiting(d)' = Waiting(d)
    BY <1>1 DEF Waiting, TypeOK
  <2>4. Waiting(c) = Waiting(c)' \cup {job[c]}
    BY <1>1 DEF Waiting, TypeOK
  <2>5. \A n \in Msg \ {job[c]} : n \in Open' <=> n \in Open
    BY <2>1, <2>3, <2>4 DEF Open
  <2> QED BY <2>2, <2>5 DEF Open
<1>4. Desk!Finish(c)
  BY <1>2, <1>3 DEF Desk!Finish
<1> QED BY <1>4 DEF Desk!Next

LEMMA DeskStep == IInv /\ [Next]_vars => [Desk!Next]_Desk!vars
<1> SUFFICES ASSUME TypeOK, Line, [Next]_vars PROVE [Desk!Next]_Desk!vars
  BY DEF IInv
<1>1. UNCHANGED <<queue, job, ended>> => UNCHANGED Desk!vars
  BY DEF Desk!vars, Open, Waiting, Queues, Jobs
<1>2. CASE Connection \/ Breaks \/ Stop \/ UNCHANGED vars
  <2>1. UNCHANGED <<queue, job, ended>>
    BY <1>2 DEF Connection, Connect, Connected, SessionEnds, Leave, Off, Breaks,
                Stop, workers, vars
  <2> QED BY <1>1, <2>1
<1>3. ASSUME NEW m \in Msg, Receive(m) PROVE [Desk!Next]_Desk!vars
  <2>1. UNCHANGED <<queue, job>> /\ (UNCHANGED ended \/ End(m, "ignored"))
    BY <1>3 DEF Receive, workers
  <2>2. m \in Open
    <3>1. m \notin ToSet(seen[Chat[m]]) /\ ended[m] = "open"
      BY <1>3 DEF Receive, Duplicate, Line, Once
    <3>2. \A c \in Conv : \A n \in ToSet(seen[c]) : Chat[n] = c
      BY DEF Line, Once, ToSet
    <3>3. \A c \in Conv : m \notin ToSet(queue[c]) /\ m # job[c]
      BY <3>1, <3>2, AibotAssumption DEF Line, Lined, Settling, ToSet
    <3> QED BY <3>1, <3>3, OpenIs
  <2>3. ended \in [Msg -> {"open", "told", "lost", "ignored"}]
    BY DEF TypeOK
  <2>4. CASE UNCHANGED ended
    BY <1>1, <2>1, <2>4
  <2>5. CASE End(m, "ignored")
    BY <2>1, <2>2, <2>3, <2>5, Refuses
  <2> QED BY <2>1, <2>4, <2>5
<1>4. ASSUME NEW m \in Msg, FetchStarts(m) \/ Fetched(m)
      PROVE  [Desk!Next]_Desk!vars
  BY <1>1, <1>4 DEF FetchStarts, Fetched, workers
<1>5. ASSUME NEW m \in Msg, FetchFails(m) \/ NoJob(m) PROVE [Desk!Next]_Desk!vars
  <2>1. UNCHANGED <<queue, job>> /\ frame[m] # "none"
    BY <1>5 DEF FetchFails, NoJob, workers, TypeOK
  <2>2. End(m, "told") \/ End(m, "lost")
    BY <1>5 DEF FetchFails, NoJob, Sent
  <2>3. ended \in [Msg -> {"open", "told", "lost", "ignored"}]
    BY DEF TypeOK
  <2> QED BY <2>1, <2>2, <2>3, HandledOpen, Refuses
<1>6. ASSUME NEW c \in Conv, TurnStarts(c) \/ TurnEnds(c)
      PROVE  [Desk!Next]_Desk!vars
  BY <1>1, <1>6 DEF TurnStarts, TurnEnds
<1>7. ASSUME NEW c \in Conv, Reply(c) \/ Push(c) PROVE [Desk!Next]_Desk!vars
  <2>1. UNCHANGED queue /\ job[c] # None
    BY <1>7 DEF Reply, Push, TypeOK
  <2>2. \/ UNCHANGED <<job, ended>>
        \/ \E how \in {"told", "lost"} : Done(c, how)
    BY <1>7 DEF Reply, Push, Pushes, Sent
  <2> QED BY <1>1, <2>1, <2>2, Finishes
<1> QED
  BY <1>2, <1>3, <1>4, <1>5, <1>6, <1>7, Submits, Begins
     DEF Next, Handle, Worker

\* The daemon does what SerialDesk promises: a message, delivered again after any
\* reconnection, becomes at most one job or is refused; a conversation's queue
\* takes no more jobs than it has room for, and its worker does them in order,
\* one after the other (_dedup, _enqueue, _worker).
THEOREM SerialHolds == Spec => Serial
  BY InvAlways, DeskInit, DeskStep, PTL DEF Spec, Serial, Desk!Spec
=============================================================================
