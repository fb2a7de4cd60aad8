---------------------------- MODULE MCFeishuDesk ----------------------------
(* A person who sends two files and two texts, another who sends a post and *)
(* a picture; two requirements.                                             *)
EXTENDS FeishuDesk

CONSTANTS f1, f2, t1, t2, p1, i1, ann, bob, k1, k2

SomeKinds == (f1 :> "file") @@ (f2 :> "file") @@ (t1 :> "text")
             @@ (t2 :> "text") @@ (p1 :> "post") @@ (i1 :> "other")
Senders == [m \in {f1, f2, t1, t2, p1, i1} |-> IF m \in {p1, i1} THEN bob ELSE ann]
=============================================================================
