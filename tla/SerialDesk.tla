----------------------------- MODULE SerialDesk -----------------------------
(***************************************************************************)
(* What a chat transport promises of the messages it receives, whatever    *)
(* the platform delivers twice and whichever of its threads comes first: a *)
(* message becomes part of at most one job or is refused; a queue takes no *)
(* more jobs than it has room for, and does one after the other, in the    *)
(* order it took them.                                                     *)
(***************************************************************************)
EXTENDS Sequences, Naturals

CONSTANTS
    Msg, Key,    \* messages, and the keys of queues
    Capacity     \* jobs that may wait in a queue

VARIABLES
    open,        \* messages that are in no job yet
    queue,       \* Key -> jobs that wait
    busy         \* Key -> the job being done, {} if there is none

vars == <<open, queue, busy>>

Init ==
    /\ open = Msg
    /\ queue = [k \in Key |-> <<>>]
    /\ busy = [k \in Key |-> {}]

Submit(k, S) ==
    /\ S # {} /\ S \subseteq open /\ Len(queue[k]) < Capacity
    /\ open' = open \ S
    /\ queue' = [queue EXCEPT ![k] = Append(@, S)]
    /\ UNCHANGED busy

Refuse(S) ==
    /\ S # {} /\ S \subseteq open
    /\ open' = open \ S
    /\ UNCHANGED <<queue, busy>>

Begin(k) ==
    /\ queue[k] # <<>> /\ busy[k] = {}
    /\ busy' = [busy EXCEPT ![k] = Head(queue[k])]
    /\ queue' = [queue EXCEPT ![k] = Tail(@)]
    /\ UNCHANGED open

Finish(k) ==
    /\ busy[k] # {}
    /\ busy' = [busy EXCEPT ![k] = {}]
    /\ UNCHANGED <<open, queue>>

Next ==
    \/ \E S \in SUBSET Msg : Refuse(S) \/ (\E k \in Key : Submit(k, S))
    \/ \E k \in Key : Begin(k) \/ Finish(k)

Spec == Init /\ [][Next]_vars
=============================================================================
