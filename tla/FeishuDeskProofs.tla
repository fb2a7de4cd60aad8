-------------------------- MODULE FeishuDeskProofs --------------------------
(* Theorems about FeishuDesk, for any messages, users, requirements and    *)
(* capacity: no file is left in a buffer without a timer, and the daemon   *)
(* does what SerialDesk promises, however often events are delivered.      *)
EXTENDS FeishuDesk, FiniteSetTheorems, TLAPS

-----------------------------------------------------------------------------
(* Types and timers.                                                       *)

\* What is queued stays typed while more and more messages are seen.
LEMMA SeenGrows ==
    ASSUME TypeOK, NEW S, seen \subseteq S
    PROVE  /\ buffer \in [User -> SUBSET S]
           /\ prompts \subseteq SUBSET S
           /\ queue \in [Key -> Seq(SUBSET S)]
           /\ running \in [Key -> SUBSET S]
<1>1. \A q \in Seq(SUBSET seen) : q \in Seq(SUBSET S)
  OBVIOUS
<1> QED BY <1>1 DEF TypeOK

LEMMA BufferTimedInit == Init => BufferTimed
  BY DEF Init, BufferTimed, TypeOK

LEMMA BufferTimedStep == BufferTimed /\ [Next]_vars => BufferTimed'
<1> SUFFICES ASSUME BufferTimed, [Next]_vars
             PROVE  BufferTimed'
  OBVIOUS
<1> USE FeishuAssumption DEF BufferTimed, TypeOK
<1>1. ASSUME NEW m \in Msg, DeliverText(m) PROVE BufferTimed'
  <2>1. From[m] \in User /\ seen' = seen \cup {m}
    BY <1>1 DEF DeliverText, Marked
  <2>2. buffer' \in [User -> SUBSET seen'] /\ prompts' \subseteq SUBSET seen'
    BY <1>1, <2>1, SeenGrows DEF DeliverText, Emptied
  <2>3. queue' \in [Key -> Seq(SUBSET seen')] /\ running' \in [Key -> SUBSET seen']
    BY <1>1, <2>1, SeenGrows DEF DeliverText, desk
  <2> QED BY <1>1, <2>1, <2>2, <2>3 DEF DeliverText, Emptied
<1>2. ASSUME NEW m \in Msg, DeliverFile(m) \/ DeliverOther(m) PROVE BufferTimed'
  <2>1. /\ seen' = seen \cup {m}
        /\ UNCHANGED <<waits, saved, prompts, buffer, live, fired, queue, running>>
    BY <1>2 DEF DeliverFile, DeliverOther, Marked, threads, files, desk
  <2>2. /\ buffer' \in [User -> SUBSET seen']
        /\ prompts' \subseteq SUBSET seen'
        /\ queue' \in [Key -> Seq(SUBSET seen')]
        /\ running' \in [Key -> SUBSET seen']
    BY <2>1, SeenGrows
  <2> QED BY <1>2, <2>1, <2>2 DEF DeliverFile, DeliverOther, threads
<1>3. ASSUME NEW m \in Msg, Buffer(m) PROVE BufferTimed'
  <2>1. From[m] \in User /\ m \in seen
    BY <1>3 DEF Buffer
  <2>2. CASE waits
    <3>1. buffer' \in [User -> SUBSET seen] /\ live' \subseteq User
      BY <1>3, <2>1, <2>2 DEF Buffer, Timed
    <3>2. \A u \in User : buffer'[u] # {} => u \in live' \/ fired[u] > 0
      BY <1>3, <2>1, <2>2 DEF Buffer, Timed
    <3> QED BY <1>3, <2>2, <3>1, <3>2 DEF Buffer, desk
  <2>3. CASE ~waits
    BY <1>3, <2>1, <2>3 DEF Buffer, desk
  <2> QED BY <2>2, <2>3
<1>4. ASSUME NEW m \in Msg, Downloaded(m) \/ DownloadFails(m) PROVE BufferTimed'
  <2>1. m \in seen /\ {m} \in SUBSET seen
    BY <1>4 DEF Downloaded, DownloadFails
  <2>2. prompts' \subseteq SUBSET seen /\ saved' \subseteq seen
    BY <1>4, <2>1 DEF Downloaded, DownloadFails
  <2>3. /\ UNCHANGED <<waits, seen, buffer, live, fired, queue, running>>
        /\ fetching' = fetching \ {m} /\ ended' \subseteq seen
    BY <1>4, <2>1 DEF Downloaded, DownloadFails, files, desk
  <2> QED BY <2>2, <2>3
<1>5. ASSUME NEW S \in prompts, Turned(S) PROVE BufferTimed'
  BY <1>5 DEF Turned, files, desk
<1>6. ASSUME NEW S \in prompts, NEW k \in Key, Submit(S, k) PROVE BufferTimed'
  <2>1. S \in SUBSET seen /\ queue[k] \in Seq(SUBSET seen)
    OBVIOUS
  <2>2. queue' \in [Key -> Seq(SUBSET seen)]
    BY <1>6, <2>1 DEF Submit
  <2> QED BY <1>6, <2>2 DEF Submit, files
<1>7. ASSUME NEW u \in User, Expire(u) \/ Flush(u) PROVE BufferTimed'
  <2>1. CASE Expire(u)
    BY <2>1 DEF Expire, threads, desk
  <2>2. CASE Flush(u)
    <3>1. /\ fired' = [fired EXCEPT ![u] = fired[u] - 1]
          /\ fired[u] > 0 /\ fired[u] \in Nat
          /\ buffer' = [buffer EXCEPT ![u] = {}]
          /\ live' = live \ {u}
      BY <2>2 DEF Flush
    <3>2. fired' \in [User -> Nat] /\ buffer' \in [User -> SUBSET seen]
      BY <3>1
    <3>3. buffer[u] \in SUBSET seen /\ prompts' \subseteq SUBSET seen
      BY <2>2 DEF Flush
    <3>4. \A v \in User : buffer'[v] # {} => v \in live' \/ fired'[v] > 0
      BY <3>1
    <3> QED BY <2>2, <3>1, <3>2, <3>3, <3>4 DEF Flush, desk
  <2> QED BY <1>7, <2>1, <2>2
<1>8. ASSUME NEW k \in Key, Begin(k) PROVE BufferTimed'
  <2>1. queue[k] \in Seq(SUBSET seen) /\ queue[k] # <<>>
    BY <1>8 DEF Begin
  <2>2. Head(queue[k]) \in SUBSET seen /\ Tail(queue[k]) \in Seq(SUBSET seen)
    BY <2>1
  <2> QED BY <1>8, <2>2 DEF Begin, threads, files
<1>9. ASSUME NEW k \in Key, Reply(k) PROVE BufferTimed'
  BY <1>9 DEF Reply, threads, files
<1>10. CASE UNCHANGED vars
  BY <1>10 DEF vars
<1> QED
  BY <1>1, <1>2, <1>3, <1>4, <1>5, <1>6, <1>7, <1>8, <1>9, <1>10
     DEF Next, Deliver, Handle, Process, Timer, Worker

\* A file never waits in a buffer without a timer, running or run out, that
\* will come for it (_add_to_file_buffer, _take_file_buffer,
\* _flush_file_buffer); and the module is type correct.
THEOREM BufferTimedAlways == Spec => []BufferTimed
  BY BufferTimedInit, BufferTimedStep, PTL DEF Spec

-----------------------------------------------------------------------------
(* Refinement of SerialDesk.                                               *)

LEMMA AppendedSet ==
    ASSUME NEW X, NEW q \in Seq(X), NEW S \in X
    PROVE  Listed(Append(q, S)) = Listed(q) \cup S
<1> DEFINE a == Append(q, S)
<1>1. DOMAIN a = 1..(Len(q) + 1) /\ DOMAIN q = 1..Len(q) /\ Len(q) \in Nat
  OBVIOUS
<1>2. a[Len(q) + 1] = S /\ \A i \in 1..Len(q) : a[i] = q[i]
  OBVIOUS
<1>3. {a[i] : i \in DOMAIN a} = {q[i] : i \in DOMAIN q} \cup {S}
  <2>1. \A i \in DOMAIN a : i \in DOMAIN q \/ i = Len(q) + 1
    BY <1>1
  <2>2. Len(q) + 1 \in DOMAIN a /\ \A i \in DOMAIN q : i \in DOMAIN a
    BY <1>1
  <2> HIDE DEF a
  <2> QED BY <1>1, <1>2, <2>1, <2>2
<1> QED BY <1>3 DEF ToSet, Listed

LEMMA HeadTailSet ==
    ASSUME NEW X, NEW q \in Seq(X), q # <<>>
    PROVE  Listed(q) = Head(q) \cup Listed(Tail(q))
<1> DEFINE t == Tail(q)
<1>1. /\ Len(q) \in Nat \ {0} /\ DOMAIN q = 1..Len(q)
      /\ DOMAIN t = 1..(Len(q) - 1)
  OBVIOUS
<1>2. Head(q) = q[1] /\ \A i \in DOMAIN t : t[i] = q[i + 1]
  OBVIOUS
<1>3. {q[i] : i \in DOMAIN q} = {q[1]} \cup {t[i] : i \in DOMAIN t}
  <2>1. \A i \in DOMAIN q : i = 1 \/ (i - 1 \in DOMAIN t /\ (i - 1) + 1 = i)
    BY <1>1
  <2>2. 1 \in DOMAIN q /\ \A i \in DOMAIN t : i + 1 \in DOMAIN q
    BY <1>1
  <2>3. \A i \in DOMAIN q : i = 1 \/ q[i] = t[i - 1]
    BY <1>2, <2>1
  <2> HIDE DEF t
  <2> QED BY <1>2, <2>1, <2>2, <2>3
<1> QED BY <1>2, <1>3 DEF ToSet, Listed

LEMMA OutSeen == ASSUME TypeOK PROVE Out \subseteq seen
<1>1. ASSUME NEW k \in Key PROVE Listed(queue[k]) \subseteq seen
  <2>1. queue[k] \in Seq(SUBSET seen)
    BY DEF TypeOK
  <2>2. \A i \in DOMAIN queue[k] : queue[k][i] \in SUBSET seen
    BY <2>1
  <2> QED BY <2>2 DEF ToSet, Listed
<1> QED BY <1>1 DEF TypeOK, Out

(***************************************************************************)
(* Every message that was seen is in one place: what is downloaded, files  *)
(* that are saved, prompts, buffers, and Out have no message in common.    *)
(***************************************************************************)
Apart ==
    /\ fetching \cap saved = {}
    /\ (fetching \cup saved) \cap Out = {}
    /\ \A S \in prompts : /\ S # {}
                          /\ S \cap (fetching \cup saved \cup Out) = {}
    /\ \A S, T \in prompts : S = T \/ S \cap T = {}
    /\ \A u \in User : buffer[u] \cap (fetching \cup saved \cup Out) = {}
    /\ \A u \in User, S \in prompts : buffer[u] \cap S = {}
    /\ \A u, v \in User : u = v \/ buffer[u] \cap buffer[v] = {}

Inv == TypeOK /\ Apart

LEMMA InvInit == Init => Inv /\ Out = {}
<1>1. <<>> \in Seq({}) /\ Listed(<<>>) = {}
  BY DEF ToSet, Listed
<1> QED BY <1>1 DEF Init, Inv, TypeOK, Apart, Out

\* How the steps that put messages into Out change it.
LEMMA OutOfSubmit ==
    ASSUME TypeOK, NEW S \in prompts, NEW k \in Key, Submit(S, k)
    PROVE  Out' = Out \cup S
<1>1. queue[k] \in Seq(SUBSET seen) /\ S \in SUBSET seen
  BY DEF TypeOK
<1>2. /\ queue' = [queue EXCEPT ![k] = Append(queue[k], S)]
      /\ UNCHANGED <<ended, running>>
  BY DEF Submit
<1>3. Listed(queue'[k]) = Listed(queue[k]) \cup S
  <2>1. queue'[k] = Append(queue[k], S)
    BY <1>2 DEF TypeOK
  <2>2. Listed(Append(queue[k], S)) = Listed(queue[k]) \cup S
    BY <1>1, AppendedSet
  <2> QED BY <2>1, <2>2, Zenon
<1>4. \A j \in Key \ {k} : queue'[j] = queue[j]
  BY <1>2 DEF TypeOK
<1> QED BY <1>2, <1>3, <1>4 DEF Out

LEMMA OutOfBegin ==
    ASSUME TypeOK, NEW k \in Key, Begin(k)
    PROVE  Out' = Out
<1>1. queue[k] \in Seq(SUBSET seen) /\ queue[k] # <<>> /\ running[k] = {}
  BY DEF TypeOK, Begin
<1>2. /\ queue' = [queue EXCEPT ![k] = Tail(queue[k])]
      /\ running' = [running EXCEPT ![k] = Head(queue[k])]
      /\ UNCHANGED ended
  BY DEF Begin
<1>3. Listed(queue[k]) = running'[k] \cup Listed(queue'[k])
  <2>1. queue'[k] = Tail(queue[k]) /\ running'[k] = Head(queue[k])
    BY <1>2 DEF TypeOK
  <2>2. Listed(queue[k]) = Head(queue[k]) \cup Listed(Tail(queue[k]))
    BY <1>1, HeadTailSet
  <2> QED BY <2>1, <2>2, Zenon
<1>4. \A j \in Key \ {k} : queue'[j] = queue[j] /\ running'[j] = running[j]
  BY <1>2 DEF TypeOK
<1> QED BY <1>1, <1>2, <1>3, <1>4 DEF Out

LEMMA OutOfReply ==
    ASSUME TypeOK, NEW k \in Key, Reply(k)
    PROVE  Out' = Out
<1>1. /\ ended' = ended \cup running[k]
      /\ running' = [running EXCEPT ![k] = {}]
      /\ UNCHANGED queue
  BY DEF Reply
<1>2. running'[k] = {} /\ \A j \in Key \ {k} : running'[j] = running[j]
  BY <1>1 DEF TypeOK
<1> QED BY <1>1, <1>2 DEF Out

LEMMA OutOfEnding ==
    ASSUME NEW S, ended' = ended \cup S, UNCHANGED desk
    PROVE  Out' = Out \cup S
  BY DEF Out, desk

LEMMA OutUnchanged ==
    ASSUME UNCHANGED <<ended, desk>>
    PROVE  Out' = Out
  BY DEF Out, desk

LEMMA ApartStep == Inv /\ [Next]_vars => Apart'
<1> SUFFICES ASSUME TypeOK, Apart, [Next]_vars
             PROVE  Apart'
  BY DEF Inv
<1> USE FeishuAssumption DEF Apart
<1>0. Out \subseteq seen
  BY OutSeen
<1>1. ASSUME NEW m \in Msg, DeliverText(m) PROVE Apart'
  <2> DEFINE u == From[m]
             S == {m} \cup buffer[u]
  <2>1. /\ u \in User /\ m \notin seen
        /\ prompts' = prompts \cup {S}
        /\ buffer' = [buffer EXCEPT ![u] = {}]
        /\ UNCHANGED <<fetching, saved>>
    BY <1>1 DEF DeliverText, Emptied, Duplicate
  <2>2. Out' = Out
    BY <1>1, OutUnchanged DEF DeliverText
  <2>3. /\ m \notin fetching \cup saved \cup Out
        /\ \A T \in prompts : m \notin T
        /\ \A v \in User : m \notin buffer[v]
    BY <1>0, <2>1 DEF TypeOK
  <2>4. \A v \in User : buffer'[v] = IF v = u THEN {} ELSE buffer[v]
    BY <2>1 DEF TypeOK
  <2>5. /\ S # {} /\ S \cap (fetching \cup saved \cup Out) = {}
        /\ \A T \in prompts : S \cap T = {}
        /\ \A v \in User : buffer'[v] \cap S = {}
    BY <2>1, <2>3, <2>4
  <2> HIDE DEF S, u
  <2> QED BY <2>1, <2>2, <2>4, <2>5
<1>2. ASSUME NEW m \in Msg, DeliverFile(m) PROVE Apart'
  <2>1. /\ m \notin seen /\ fetching' = fetching \cup {m}
        /\ UNCHANGED <<saved, prompts, buffer>>
    BY <1>2 DEF DeliverFile, Duplicate, files
  <2>2. Out' = Out
    BY <1>2, OutUnchanged DEF DeliverFile
  <2>3. /\ m \notin saved \cup Out
        /\ \A T \in prompts : m \notin T
        /\ \A v \in User : m \notin buffer[v]
    BY <1>0, <2>1 DEF TypeOK
  <2> QED BY <2>1, <2>2, <2>3
<1>3. ASSUME NEW m \in Msg, DeliverOther(m) PROVE Apart'
  <2>1. m \notin seen /\ UNCHANGED <<fetching, saved, prompts, buffer>>
    BY <1>3 DEF DeliverOther, Duplicate, threads, files
  <2>2. Out' = Out \cup {m}
    BY <1>3, OutOfEnding DEF DeliverOther
  <2>3. /\ m \notin fetching \cup saved
        /\ \A T \in prompts : m \notin T
        /\ \A v \in User : m \notin buffer[v]
    BY <2>1 DEF TypeOK
  <2> QED BY <2>1, <2>2, <2>3
<1>4. ASSUME NEW m \in Msg, Buffer(m) PROVE Apart'
  <2>1. From[m] \in User /\ m \in saved /\ saved' = saved \ {m}
    BY <1>4 DEF Buffer
  <2>2. Out' = Out /\ UNCHANGED fetching
    BY <1>4, OutUnchanged DEF Buffer
  <2>3. /\ m \notin fetching \cup Out
        /\ \A T \in prompts : m \notin T
        /\ \A v \in User : m \notin buffer[v]
    BY <2>1
  <2>4. CASE waits
    <3>1. /\ \A v \in User : buffer'[v] = IF v = From[m] THEN buffer[v] \cup {m}
                                          ELSE buffer[v]
          /\ UNCHANGED prompts
      BY <1>4, <2>1, <2>4 DEF Buffer, TypeOK
    <3>2. \A v \in User : buffer'[v] \subseteq buffer[v] \cup {m}
      BY <3>1
    <3>3. \A v \in User :
             /\ buffer'[v] \cap (fetching \cup saved' \cup Out) = {}
             /\ \A T \in prompts : buffer'[v] \cap T = {}
      BY <2>1, <2>3, <3>2
    <3>4. \A v, w \in User : v = w \/ buffer'[v] \cap buffer'[w] = {}
      <4> SUFFICES ASSUME NEW v \in User, NEW w \in User, v # w
                   PROVE  buffer'[v] \cap buffer'[w] = {}
        OBVIOUS
      <4>1. buffer[v] \cap buffer[w] = {}
        OBVIOUS
      <4>2. m \notin buffer[v] /\ m \notin buffer[w]
        BY <2>3
      <4>3. buffer'[v] = buffer[v] \/ buffer'[w] = buffer[w]
        BY <3>1
      <4> QED BY <3>2, <4>1, <4>2, <4>3
    <3> QED BY <2>1, <2>2, <3>1, <3>3, <3>4
  <2>5. CASE ~waits
    <3>1. prompts' = prompts \cup {{m}} /\ UNCHANGED buffer
      BY <1>4, <2>5 DEF Buffer
    <3>2. /\ {m} # {} /\ {m} \cap (fetching \cup saved' \cup Out) = {}
          /\ \A T \in prompts : {m} \cap T = {}
          /\ \A v \in User : buffer[v] \cap {m} = {}
      BY <2>1, <2>3
    <3> QED BY <2>1, <2>2, <3>1, <3>2
  <2> QED BY <2>4, <2>5
<1>5. ASSUME NEW m \in Msg, Downloaded(m) PROVE Apart'
  <2>1. m \in fetching /\ fetching' = fetching \ {m} /\ UNCHANGED buffer
    BY <1>5 DEF Downloaded, files
  <2>2. Out' = Out
    BY <1>5, OutUnchanged DEF Downloaded
  <2>3. \/ saved' = saved \cup {m} /\ UNCHANGED prompts
        \/ prompts' = prompts \cup {{m}} /\ UNCHANGED saved
    BY <1>5 DEF Downloaded
  <2>4. /\ m \notin saved \cup Out
        /\ \A T \in prompts : m \notin T
        /\ \A v \in User : m \notin buffer[v]
    BY <2>1
  <2> QED BY <2>1, <2>2, <2>3, <2>4
<1>6. ASSUME NEW m \in Msg, DownloadFails(m) PROVE Apart'
  <2>1. /\ m \in fetching /\ fetching' = fetching \ {m}
        /\ UNCHANGED <<saved, prompts, buffer>>
    BY <1>6 DEF DownloadFails, files
  <2>2. Out' = Out \cup {m}
    BY <1>6, OutOfEnding DEF DownloadFails
  <2> QED BY <2>1, <2>2
<1>7. ASSUME NEW S \in prompts, Turned(S) \/ \E k \in Key : Submit(S, k)
      PROVE  Apart'
  <2>1. prompts' = prompts \ {S} /\ UNCHANGED <<fetching, saved, buffer>>
    BY <1>7 DEF Turned, Submit, files
  <2>2. Out' = Out \cup S
    BY <1>7, OutOfSubmit, OutOfEnding DEF Turned
  <2> QED BY <2>1, <2>2
<1>8. ASSUME NEW u \in User, Expire(u) PROVE Apart'
  <2>1. Out' = Out /\ UNCHANGED <<fetching, saved, prompts, buffer>>
    BY <1>8, OutUnchanged DEF Expire, threads
  <2> QED BY <2>1
<1>9. ASSUME NEW u \in User, Flush(u) PROVE Apart'
  <2>1. Out' = Out /\ UNCHANGED <<fetching, saved>>
    BY <1>9, OutUnchanged DEF Flush
  <2>2. \A v \in User : buffer'[v] = IF v = u THEN {} ELSE buffer[v]
    BY <1>9 DEF Flush, TypeOK
  <2>3. \/ buffer[u] = {} /\ UNCHANGED prompts
        \/ buffer[u] # {} /\ prompts' = prompts \cup {buffer[u]}
    BY <1>9 DEF Flush
  <2> QED BY <2>1, <2>2, <2>3
<1>10. ASSUME NEW k \in Key, Begin(k) \/ Reply(k) PROVE Apart'
  <2>1. Out' = Out /\ UNCHANGED <<fetching, saved, prompts, buffer>>
    BY <1>10, OutOfBegin, OutOfReply DEF Begin, Reply, threads, files
  <2> QED BY <2>1
<1>11. CASE UNCHANGED vars
  <2>1. Out' = Out /\ UNCHANGED <<fetching, saved, prompts, buffer>>
    BY <1>11, OutUnchanged DEF vars, desk
  <2> QED BY <2>1
<1> QED
  BY <1>1, <1>2, <1>3, <1>4, <1>5, <1>6, <1>7, <1>8, <1>9, <1>10, <1>11
     DEF Next, Deliver, Handle, Process, Timer, Worker

LEMMA ApartAlways == Spec => []Apart
<1>1. Init => Apart
  BY InvInit DEF Inv
<1>2. BufferTimed /\ Apart /\ [Next]_vars => Apart'
  BY ApartStep DEF Inv, BufferTimed
<1> QED BY <1>1, <1>2, BufferTimedAlways, PTL DEF Spec

LEMMA DeskInit == Init => Desk!Init
  BY InvInit DEF Init, Desk!Init

LEMMA DeskStep == TypeOK /\ Apart /\ [Next]_vars => [Desk!Next]_Desk!vars
<1> SUFFICES ASSUME TypeOK, Apart, [Next]_vars
             PROVE  [Desk!Next]_Desk!vars
  OBVIOUS
<1> DEFINE Idles == Out' = Out /\ UNCHANGED <<queue, running>>
<1>0. Out \subseteq seen /\ seen \subseteq Msg
  BY OutSeen DEF TypeOK
<1>1. Idles => UNCHANGED Desk!vars
  BY DEF Desk!vars
<1>2. ASSUME NEW S, S # {}, S \subseteq Msg \ Out, Out' = Out \cup S,
             UNCHANGED <<queue, running>>
      PROVE  Desk!Next
  <2>1. Desk!Refuse(S)
    BY <1>2 DEF Desk!Refuse
  <2> QED BY <1>2, <2>1 DEF Desk!Next
<1>3. ASSUME NEW m \in Msg, DeliverText(m) \/ DeliverFile(m) PROVE Idles
  BY <1>3, OutUnchanged DEF DeliverText, DeliverFile, desk
<1>4. ASSUME NEW m \in Msg, DeliverOther(m) PROVE Desk!Next
  <2>1. m \notin Out /\ Out' = Out \cup {m} /\ UNCHANGED <<queue, running>>
    BY <1>0, <1>4, OutOfEnding DEF DeliverOther, Duplicate, desk
  <2> QED BY <1>2, <2>1
<1>5. ASSUME NEW m \in Msg, Buffer(m) \/ Downloaded(m) PROVE Idles
  BY <1>5, OutUnchanged DEF Buffer, Downloaded, desk
<1>6. ASSUME NEW m \in Msg, DownloadFails(m) PROVE Desk!Next
  <2>1. m \notin Out /\ Out' = Out \cup {m} /\ UNCHANGED <<queue, running>>
    BY <1>6, OutOfEnding DEF DownloadFails, desk, Apart
  <2> QED BY <1>2, <2>1
<1>7. ASSUME NEW S \in prompts PROVE S # {} /\ S \in SUBSET (Msg \ Out)
  BY <1>0, <1>7 DEF TypeOK, Apart
<1>8. ASSUME NEW S \in prompts, Turned(S) PROVE Desk!Next
  <2>1. Out' = Out \cup S /\ UNCHANGED <<queue, running>>
    BY <1>8, OutOfEnding DEF Turned, desk
  <2> QED BY <1>2, <1>7, <2>1
<1>9. ASSUME NEW S \in prompts, NEW k \in Key, Submit(S, k) PROVE Desk!Next
  <2>1. Out' = Out \cup S
    BY <1>9, OutOfSubmit
  <2>2. Desk!Submit(k, S)
    BY <1>7, <1>9, <2>1 DEF Submit, Room, Desk!Submit
  <2>3. S \in SUBSET Msg
    BY <1>7
  <2> QED BY <2>2, <2>3 DEF Desk!Next
<1>10. ASSUME NEW u \in User, Timer(u) PROVE Idles
  BY <1>10, OutUnchanged DEF Timer, Expire, Flush, desk
<1>11. ASSUME NEW k \in Key, Begin(k) PROVE Desk!Next
  <2>1. Desk!Begin(k)
    BY <1>11, OutOfBegin DEF Begin, Desk!Begin
  <2> QED BY <2>1 DEF Desk!Next
<1>12. ASSUME NEW k \in Key, Reply(k) PROVE Desk!Next
  <2>1. Desk!Finish(k)
    BY <1>12, OutOfReply DEF Reply, Replies, Desk!Finish
  <2> QED BY <2>1 DEF Desk!Next
<1>13. CASE UNCHANGED vars
  BY <1>1, <1>13, OutUnchanged DEF vars, desk
<1> HIDE DEF Idles
<1> QED
  BY <1>1, <1>3, <1>4, <1>5, <1>6, <1>8, <1>9, <1>10, <1>11, <1>12, <1>13
     DEF Next, Deliver, Handle, Process, Worker

\* The daemon does what SerialDesk promises: a message, delivered however often,
\* buffered, merged into a text or flushed by a timer, becomes part of at most
\* one job or is refused, and a queue takes no more jobs than it has room for
\* and does them in order, one after the other (_handle_event, _process,
\* _drain_pending).
THEOREM SerialHolds == Spec => Serial
<1>1. Spec => []TypeOK
  BY BufferTimedAlways, PTL DEF BufferTimed
<1> QED BY <1>1, ApartAlways, DeskInit, DeskStep, PTL DEF Spec, Serial, Desk!Spec

-----------------------------------------------------------------------------
(* One place.                                                              *)

\* Nothing that was received is lost.
Kept == \A m \in seen :
    \/ m \in fetching \cup saved \cup Out
    \/ \E S \in prompts : m \in S
    \/ \E u \in User : m \in buffer[u]

\* In Out, jobs that wait, jobs that run and messages that have ended have no
\* message in common either.
OutApart ==
    /\ \A k \in Key : ended \cap running[k] = {}
    /\ \A k, j \in Key : k = j \/ running[k] \cap running[j] = {}
    /\ \A k \in Key : \A i \in DOMAIN queue[k] :
        /\ ended \cap queue[k][i] = {}
        /\ \A j \in Key : queue[k][i] \cap running[j] = {}
        /\ \A j \in Key : \A l \in DOMAIN queue[j] :
            (k = j /\ i = l) \/ queue[k][i] \cap queue[j][l] = {}

LEMMA OutHas ==
    /\ ended \subseteq Out
    /\ \A k \in Key : running[k] \subseteq Out
    /\ \A k \in Key : \A i \in DOMAIN queue[k] : queue[k][i] \subseteq Out
    /\ \A m \in Out : \/ m \in ended
                      \/ \E k \in Key : m \in running[k]
                      \/ \E k \in Key : \E i \in DOMAIN queue[k] :
                            m \in queue[k][i]
  BY DEF Out, Listed, ToSet

LEMMA KeptStep ==
    ASSUME TypeOK, Kept, [Next]_vars
    PROVE  Kept'
<1> USE FeishuAssumption DEF Kept
<1>1. ASSUME NEW m \in Msg, DeliverText(m) PROVE Kept'
  <2> DEFINE u == From[m]
             S == {m} \cup buffer[u]
  <2>1. /\ u \in User /\ seen' = seen \cup {m} /\ Out' = Out
        /\ prompts' = prompts \cup {S}
        /\ UNCHANGED <<fetching, saved>>
        /\ \A v \in User : v # u => buffer'[v] = buffer[v]
    BY <1>1, OutUnchanged DEF DeliverText, Emptied, Marked, TypeOK
  <2>2. m \in S /\ S \in prompts' /\ \A n \in buffer[u] : n \in S
    BY <2>1
  <2> HIDE DEF S, u
  <2> QED BY <2>1, <2>2
<1>2. ASSUME NEW m \in Msg, DeliverFile(m) \/ DeliverOther(m) PROVE Kept'
  <2>1. /\ seen' = seen \cup {m}
        /\ UNCHANGED <<saved, prompts, buffer>> /\ fetching \subseteq fetching'
    BY <1>2 DEF DeliverFile, DeliverOther, Marked, threads, files
  <2>2. Out \subseteq Out' /\ m \in fetching' \cup Out'
    BY <1>2, OutUnchanged, OutOfEnding DEF DeliverFile, DeliverOther
  <2> QED BY <2>1, <2>2
<1>3. ASSUME NEW m \in Msg, Buffer(m) PROVE Kept'
  <2>1. /\ From[m] \in User /\ saved' = saved \ {m} /\ Out' = Out
        /\ UNCHANGED <<seen, fetching>>
    BY <1>3, OutUnchanged DEF Buffer
  <2>2. /\ prompts \subseteq prompts'
        /\ \A v \in User : buffer[v] \subseteq buffer'[v]
        /\ m \in buffer'[From[m]] \/ {m} \in prompts'
    <3>1. CASE waits
      <4>1. UNCHANGED prompts
        BY <1>3, <3>1 DEF Buffer
      <4>2. \A v \in User : buffer'[v] = IF v = From[m] THEN buffer[v] \cup {m}
                                         ELSE buffer[v]
        BY <1>3, <2>1, <3>1 DEF Buffer, TypeOK
      <4> QED BY <2>1, <4>1, <4>2
    <3>2. CASE ~waits
      <4>1. prompts' = prompts \cup {{m}} /\ UNCHANGED buffer
        BY <1>3, <3>2 DEF Buffer
      <4> QED BY <4>1
    <3> QED BY <3>1, <3>2
  <2> QED BY <2>1, <2>2
<1>4. ASSUME NEW m \in Msg, Downloaded(m) \/ DownloadFails(m) PROVE Kept'
  <2>1. /\ fetching' = fetching \ {m} /\ UNCHANGED <<seen, buffer>>
        /\ saved \subseteq saved' /\ prompts \subseteq prompts'
    BY <1>4 DEF Downloaded, DownloadFails, files
  <2>2. Out \subseteq Out' /\ (m \in saved' \cup Out' \/ {m} \in prompts')
    BY <1>4, OutUnchanged, OutOfEnding DEF Downloaded, DownloadFails
  <2> QED BY <2>1, <2>2
<1>5. ASSUME NEW S \in prompts, Turned(S) \/ \E k \in Key : Submit(S, k)
      PROVE  Kept'
  <2>1. /\ prompts' = prompts \ {S}
        /\ UNCHANGED <<seen, fetching, saved, buffer>>
    BY <1>5 DEF Turned, Submit, files
  <2>2. Out' = Out \cup S
    BY <1>5, OutOfSubmit, OutOfEnding DEF Turned
  <2> QED BY <2>1, <2>2
<1>6. ASSUME NEW u \in User, Expire(u) PROVE Kept'
  <2>1. Out' = Out /\ UNCHANGED <<seen, fetching, saved, prompts, buffer>>
    BY <1>6, OutUnchanged DEF Expire, threads
  <2> QED BY <2>1
<1>7. ASSUME NEW u \in User, Flush(u) PROVE Kept'
  <2>1. Out' = Out /\ UNCHANGED <<seen, fetching, saved>>
    BY <1>7, OutUnchanged DEF Flush
  <2>2. /\ \A v \in User : v # u => buffer'[v] = buffer[v]
        /\ prompts \subseteq prompts'
        /\ buffer[u] # {} => buffer[u] \in prompts'
    BY <1>7 DEF Flush, TypeOK
  <2> QED BY <2>1, <2>2
<1>8. ASSUME NEW k \in Key, Begin(k) \/ Reply(k) PROVE Kept'
  <2>1. Out' = Out /\ UNCHANGED <<seen, fetching, saved, prompts, buffer>>
    BY <1>8, OutOfBegin, OutOfReply DEF Begin, Reply, threads, files
  <2> QED BY <2>1
<1>9. CASE UNCHANGED vars
  <2>1. Out' = Out /\ UNCHANGED <<seen, fetching, saved, prompts, buffer>>
    BY <1>9, OutUnchanged DEF vars, desk
  <2> QED BY <2>1
<1> QED
  BY <1>1, <1>2, <1>3, <1>4, <1>5, <1>6, <1>7, <1>8, <1>9
     DEF Next, Deliver, Handle, Process, Timer, Worker

LEMMA OutApartStep ==
    ASSUME TypeOK, Apart, OutApart, [Next]_vars
    PROVE  OutApart'
<1> USE FeishuAssumption
<1>1. ASSUME NEW S, S \cap Out = {}, ended' = ended \cup S, UNCHANGED desk
      PROVE  OutApart'
  BY <1>1, OutHas DEF OutApart, desk
<1>2. ASSUME UNCHANGED <<ended, desk>> PROVE OutApart'
  BY <1>2 DEF OutApart, desk
<1>3. ASSUME NEW m \in Msg, Deliver(m) \/ Handle(m) PROVE OutApart'
  <2>1. CASE DeliverOther(m)
    <3>1. m \notin Out
      BY <2>1, OutSeen DEF DeliverOther, Duplicate
    <3> QED BY <1>1, <2>1, <3>1 DEF DeliverOther
  <2>2. CASE DownloadFails(m)
    <3>1. m \notin Out
      BY <2>2 DEF DownloadFails, Apart
    <3> QED BY <1>1, <2>2, <3>1 DEF DownloadFails
  <2>3. CASE DeliverText(m) \/ DeliverFile(m) \/ Buffer(m) \/ Downloaded(m)
    BY <1>2, <2>3 DEF DeliverText, DeliverFile, Buffer, Downloaded
  <2> QED BY <1>3, <2>1, <2>2, <2>3 DEF Deliver, Handle
<1>4. ASSUME NEW S \in prompts, Turned(S) PROVE OutApart'
  <2>1. S \cap Out = {}
    BY DEF Apart
  <2>2. ended' = ended \cup S /\ UNCHANGED desk
    BY <1>4 DEF Turned
  <2> QED BY <1>1, <2>1, <2>2
<1>5. ASSUME NEW S \in prompts, NEW k \in Key, Submit(S, k) PROVE OutApart'
  <2>1. /\ S \cap Out = {} /\ UNCHANGED <<ended, running>>
        /\ queue[k] \in Seq(SUBSET seen) /\ S \in SUBSET seen
        /\ \A j \in Key : j # k => queue'[j] = queue[j]
        /\ queue'[k] = Append(queue[k], S)
    BY <1>5 DEF Submit, Apart, TypeOK
  <2>2. \A i \in DOMAIN queue'[k] :
          \/ i \in DOMAIN queue[k] /\ queue'[k][i] = queue[k][i]
          \/ i = Len(queue[k]) + 1 /\ i \notin DOMAIN queue[k]
             /\ queue'[k][i] = S
    BY <2>1
  <2>3. \A j \in Key : \A i \in DOMAIN queue'[j] :
          \/ i \in DOMAIN queue[j] /\ queue'[j][i] = queue[j][i]
          \/ j = k /\ i = Len(queue[k]) + 1 /\ queue'[j][i] = S
    BY <2>1, <2>2
  <2>4. /\ ended \cap S = {}
        /\ \A j \in Key : S \cap running[j] = {}
        /\ \A j \in Key : \A i \in DOMAIN queue[j] : S \cap queue[j][i] = {}
    BY <2>1, OutHas
  <2> QED BY <2>1, <2>3, <2>4 DEF OutApart
<1>6. ASSUME NEW k \in Key, Begin(k) PROVE OutApart'
  <2>1. /\ UNCHANGED ended /\ queue[k] \in Seq(SUBSET seen)
        /\ queue[k] # <<>>
        /\ \A j \in Key : j # k => /\ queue'[j] = queue[j]
                                  /\ running'[j] = running[j]
        /\ queue'[k] = Tail(queue[k]) /\ running'[k] = Head(queue[k])
    BY <1>6 DEF Begin, TypeOK
  <2> DEFINE Was(j, i) == IF j = k THEN i + 1 ELSE i
  <2>2. 1 \in DOMAIN queue[k] /\ running'[k] = queue[k][1]
    BY <2>1
  <2>3. \A i \in DOMAIN Tail(queue[k]) :
          /\ i \in Nat \ {0} /\ i + 1 \in DOMAIN queue[k]
          /\ Tail(queue[k])[i] = queue[k][i + 1]
    BY <2>1
  <2>4. \A i \in DOMAIN queue'[k] :
          /\ i \in Nat \ {0} /\ i + 1 \in DOMAIN queue[k]
          /\ queue'[k][i] = queue[k][i + 1]
    BY <2>1, <2>3, Zenon
  <2>5. \A j \in Key : \A i \in DOMAIN queue'[j] :
          /\ Was(j, i) \in DOMAIN queue[j]
          /\ queue'[j][i] = queue[j][Was(j, i)]
          /\ ~(j = k /\ Was(j, i) = 1)
          /\ \A l \in DOMAIN queue'[j] : Was(j, i) = Was(j, l) => i = l
    <3> SUFFICES ASSUME NEW j \in Key, NEW i \in DOMAIN queue'[j]
                 PROVE  /\ Was(j, i) \in DOMAIN queue[j]
                        /\ queue'[j][i] = queue[j][Was(j, i)]
                        /\ ~(j = k /\ Was(j, i) = 1)
                        /\ \A l \in DOMAIN queue'[j] :
                             Was(j, i) = Was(j, l) => i = l
      OBVIOUS
    <3>1. CASE j = k
      <4>1. /\ i \in Nat \ {0} /\ i + 1 \in DOMAIN queue[j]
            /\ queue'[j][i] = queue[j][i + 1]
            /\ \A l \in DOMAIN queue'[j] : l \in Nat
        BY <2>4, <3>1
      <4>2. \A l : Was(j, l) = l + 1
        BY <3>1
      <4> HIDE DEF Was
      <4> QED BY <3>1, <4>1, <4>2
    <3>2. CASE j # k
      <4>1. queue'[j] = queue[j]
        BY <2>1, <3>2
      <4>2. \A l : Was(j, l) = l
        BY <3>2
      <4> HIDE DEF Was
      <4> QED BY <3>2, <4>1, <4>2
    <3> QED BY <3>1, <3>2
  <2> HIDE DEF Was
  <2>6. /\ \A j \in Key : ended \cap running'[j] = {}
        /\ \A j, l \in Key : j = l \/ running'[l] \cap running'[j] = {}
    BY <2>1, <2>2 DEF OutApart
  <2>7. ASSUME NEW j \in Key, NEW i \in DOMAIN queue'[j]
        PROVE  /\ ended \cap queue'[j][i] = {}
               /\ \A l \in Key : queue'[j][i] \cap running'[l] = {}
    <3>1. queue[j][Was(j, i)] \cap queue[k][1] = {}
      BY <2>2, <2>5, <2>7 DEF OutApart
    <3>2. \A l \in Key : queue[j][Was(j, i)] \cap running[l] = {}
      BY <2>5, <2>7 DEF OutApart
    <3>3. queue'[j][i] = queue[j][Was(j, i)]
      BY <2>5, <2>7
    <3>4. ended \cap queue[j][Was(j, i)] = {}
      BY <2>5, <2>7 DEF OutApart
    <3> QED BY <2>1, <2>2, <3>1, <3>2, <3>3, <3>4
  <2>8. ASSUME NEW j \in Key, NEW i \in DOMAIN queue'[j],
               NEW h \in Key, NEW l \in DOMAIN queue'[h]
        PROVE  (j = h /\ i = l) \/ queue'[j][i] \cap queue'[h][l] = {}
    <3>1. \/ j = h /\ Was(j, i) = Was(h, l)
          \/ queue[j][Was(j, i)] \cap queue[h][Was(h, l)] = {}
      BY <2>5, <2>8 DEF OutApart
    <3> QED BY <2>5, <2>8, <3>1
  <2> QED BY <2>1, <2>6, <2>7, <2>8 DEF OutApart
<1>7. ASSUME NEW k \in Key, Reply(k) PROVE OutApart'
  <2>1. /\ ended' = ended \cup running[k] /\ running'[k] = {}
        /\ \A j \in Key : j # k => running'[j] = running[j]
        /\ UNCHANGED queue
    BY <1>7 DEF Reply, TypeOK
  <2> QED BY <2>1 DEF OutApart
<1>8. ASSUME NEW u \in User, Timer(u) PROVE OutApart'
  BY <1>2, <1>8 DEF Timer, Expire, Flush
<1>9. CASE UNCHANGED vars
  BY <1>2, <1>9 DEF vars, desk
<1> QED
  BY <1>3, <1>4, <1>5, <1>6, <1>7, <1>8, <1>9 DEF Next, Process, Worker

LEMMA OneIn ==
    ASSUME NEW P, NEW x, P = {x}
    PROVE  Cardinality(P) = 1
  BY FS_Singleton

\* Somewhere, and nowhere else.
LEMMA PlacesOne ==
    ASSUME TypeOK, Apart, Kept, OutApart
    PROVE  OnePlace
<1> SUFFICES ASSUME NEW m \in seen
             PROVE  \E x : Places(m) = {x}
  BY OneIn DEF OnePlace
<1> DEFINE P == {<<"prompt", S>> : S \in {T \in prompts : m \in T}}
           B == {<<"buffer", u>> : u \in {v \in User : m \in buffer[v]}}
           R == {<<"running", k>> : k \in {j \in Key : m \in running[j]}}
           Q == UNION {{<<"queue", k, i>> :
                          i \in {j \in DOMAIN queue[k] : m \in queue[k][j]}}
                        : k \in Key}
           F == {<<"fetching", n>> : n \in {m} \cap fetching}
           D == {<<"saved", n>> : n \in {m} \cap saved}
           E == {<<"ended", n>> : n \in {m} \cap ended}
<1>1. Places(m) = P \cup B \cup R \cup Q \cup F \cup D \cup E
  BY DEF Places
<1>2. /\ (\A S \in prompts : m \notin S) => P = {}
      /\ (\A u \in User : m \notin buffer[u]) => B = {}
      /\ m \notin fetching => F = {}
      /\ m \notin saved => D = {}
      /\ m \notin ended => E = {}
  OBVIOUS
<1>3. /\ (\A k \in Key : m \notin running[k]) => R = {}
      /\ (\A k \in Key : \A i \in DOMAIN queue[k] : m \notin queue[k][i])
         => Q = {}
  OBVIOUS
<1>4. m \notin Out => R = {} /\ Q = {} /\ E = {}
  BY <1>2, <1>3, OutHas
<1>5. CASE m \in fetching
  <2>1. F = {<<"fetching", m>>}
    BY <1>5
  <2>2. m \notin saved \cup Out
    BY <1>5 DEF Apart
  <2>3. P = {} /\ B = {} /\ D = {}
    BY <1>2, <1>5, <2>2 DEF Apart
  <2> QED BY <1>1, <1>4, <2>1, <2>2, <2>3
<1>6. CASE m \in saved
  <2>1. D = {<<"saved", m>>}
    BY <1>6
  <2>2. m \notin fetching \cup Out
    BY <1>6 DEF Apart
  <2>3. P = {} /\ B = {} /\ F = {}
    BY <1>2, <1>6, <2>2 DEF Apart
  <2> QED BY <1>1, <1>4, <2>1, <2>2, <2>3
<1>7. ASSUME NEW S \in prompts, m \in S PROVE \E x : Places(m) = {x}
  <2>1. m \notin fetching \cup saved \cup Out
    BY <1>7 DEF Apart
  <2>2. B = {} /\ F = {} /\ D = {}
    BY <1>2, <1>7, <2>1 DEF Apart
  <2>3. \A T \in prompts : m \in T <=> T = S
    BY <1>7 DEF Apart
  <2>4. P = {<<"prompt", S>>}
    BY <2>3
  <2> QED BY <1>1, <1>4, <2>1, <2>2, <2>4
<1>8. ASSUME NEW u \in User, m \in buffer[u] PROVE \E x : Places(m) = {x}
  <2>1. m \notin fetching \cup saved \cup Out
    BY <1>8 DEF Apart
  <2>2. P = {} /\ F = {} /\ D = {}
    BY <1>2, <1>8, <2>1 DEF Apart
  <2>3. \A v \in User : m \in buffer[v] <=> v = u
    BY <1>8 DEF Apart
  <2>4. B = {<<"buffer", u>>}
    BY <2>3
  <2> QED BY <1>1, <1>4, <2>1, <2>2, <2>4
<1>9. CASE m \in Out
  <2>1. P = {} /\ B = {} /\ F = {} /\ D = {}
    BY <1>2, <1>9 DEF Apart
  <2>2. CASE m \in ended
    <3>1. E = {<<"ended", m>>}
      BY <2>2
    <3>2. R = {} /\ Q = {}
      BY <1>3, <2>2 DEF OutApart
    <3> QED BY <1>1, <2>1, <3>1, <3>2
  <2>3. ASSUME NEW k \in Key, m \in running[k]
        PROVE  \E x : Places(m) = {x}
    <3>1. E = {} /\ Q = {}
      BY <1>2, <1>3, <2>3 DEF OutApart
    <3>2. \A j \in Key : m \in running[j] <=> j = k
      BY <2>3 DEF OutApart
    <3>3. R = {<<"running", k>>}
      BY <3>2
    <3> QED BY <1>1, <2>1, <3>1, <3>3
  <2>4. ASSUME NEW k \in Key, NEW i \in DOMAIN queue[k], m \in queue[k][i]
        PROVE  \E x : Places(m) = {x}
    <3>1. E = {} /\ R = {}
      BY <1>2, <1>3, <2>4 DEF OutApart
    <3>2. \A j \in Key : \A l \in DOMAIN queue[j] :
            m \in queue[j][l] <=> j = k /\ l = i
      BY <2>4 DEF OutApart
    <3>3. Q = {<<"queue", k, i>>}
      BY <3>2
    <3> QED BY <1>1, <2>1, <3>1, <3>3
  <2> QED BY <1>9, <2>2, <2>3, <2>4, OutHas
<1> QED BY <1>5, <1>6, <1>7, <1>8, <1>9 DEF Kept

\* A received message is in exactly one of the places where the daemon keeps
\* messages, until it has ended there: the text that takes the buffer, the
\* timer that flushes it and the download that fills it never have the same
\* file, and lose none (_take_file_buffer, _flush_file_buffer).
THEOREM OnePlaceAlways == Spec => []OnePlace
<1> DEFINE I == Kept /\ OutApart
<1>1. Init => I
  BY DEF Init, Kept, OutApart
<1>2. TypeOK /\ Apart /\ I /\ [Next]_vars => I'
  BY KeptStep, OutApartStep
<1>3. TypeOK /\ Apart /\ I => OnePlace
  BY PlacesOne
<1>4. Spec => []TypeOK
  BY BufferTimedAlways, PTL DEF BufferTimed
<1> HIDE DEF I
<1> QED BY <1>1, <1>2, <1>3, <1>4, ApartAlways, PTL DEF Spec
=============================================================================
