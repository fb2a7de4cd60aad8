----------------------------- MODULE AtomicStore -----------------------------
(***************************************************************************)
(* What a requirement's state.json promises to the processes that use it:  *)
(* one value, which a load returns and a commit replaces in one step by    *)
(* the next version; and the careful processes, which are those that keep  *)
(* the lock from their load to their commit, lose no update among          *)
(* themselves.                                                             *)
(***************************************************************************)
EXTENDS Naturals

CONSTANTS Processes, Careful, Nobody, Nothing

VARIABLES value,   \* the version in the store
          author,  \* who committed it
          view     \* the version each process has loaded, or Nothing

vars == <<value, author, view>>

TypeOK ==
    /\ value \in Nat
    /\ author \in Processes \cup {Nobody}
    /\ view \in [Processes -> Nat \cup {Nothing}]

Load(p) ==
    /\ view[p] = Nothing
    /\ view' = [view EXCEPT ![p] = value]
    /\ UNCHANGED <<value, author>>

\* What p has loaded is not the value any more: to commit is to destroy an
\* update.
Stale(p) == view[p] # value

Commit(p) ==
    /\ view[p] # Nothing
    /\ Stale(p) => ~(p \in Careful /\ author \in Careful)
    /\ value' = value + 1
    /\ author' = p
    /\ view' = [view EXCEPT ![p] = Nothing]

\* p is done without saving, or has died.
Drop(p) ==
    /\ view[p] # Nothing
    /\ view' = [view EXCEPT ![p] = Nothing]
    /\ UNCHANGED <<value, author>>

Init ==
    /\ value = 0
    /\ author = Nobody
    /\ view = [p \in Processes |-> Nothing]
Next == \E p \in Processes : Load(p) \/ Commit(p) \/ Drop(p)
Spec == Init /\ [][Next]_vars
=============================================================================
