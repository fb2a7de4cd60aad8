------------------------------- MODULE MCClose -------------------------------
(***************************************************************************)
(* Requirement a has two modules and b one, which shares a main spec with  *)
(* a's first.  The two modules of c bear the same name under two changes,  *)
(* so they have one main spec, that of a's second.  The deltas that meet   *)
(* in t1 are a's, arbitrary, and b's, about n1; the others are fixed.      *)
(***************************************************************************)
EXTENDS Close

CONSTANTS a, b, c, a1, a2, b1, c1, c2, t1, t2, n1, n2

Requirements == [r \in Req |-> CASE r = a -> <<a1, a2>>
                                 [] r = b -> <<b1>>
                                 [] r = c -> <<c1, c2>>]
Mains == [m \in Module |-> IF m \in {a1, b1} THEN t1 ELSE t2]
Modifying(n) == [added |-> {}, modified |-> {n}, removed |-> {}]
OneBlock == {d \in Delta : d.added \cup d.modified \cup d.removed = {n1}}
Deltas == [m \in Module |->
    CASE m = a1 -> Delta
      [] m = b1 -> OneBlock
      [] m = c2 -> {Modifying(n2)}
      [] OTHER -> {Modifying(n1)}]
=============================================================================
