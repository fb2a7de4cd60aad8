----------------------------- MODULE MCChatTurn -----------------------------
(* Two messages of a person, in aibot and in Feishu, and of a group; a     *)
(* requirement that is registered on the way.                              *)
EXTENDS ChatTurn

CONSTANTS r1, m1, person, group, other

ModuleOwner == [m \in {m1} |-> r1]

Text(c, names, says) == [conv |-> c, names |-> names, says |-> says]
SomeTexts ==
    {Text(person, None, TRUE), Text(group, Overall, TRUE),
     Text(other, r1, TRUE), Text(other, None, FALSE)}

P(act, r, m) == [act |-> act, req |-> r, mod |-> m]
ApproveR1 == P("approve", r1, None)
RegisterM1 == P("register", r1, m1)
SomeReplies ==
    {<<>>, <<RegisterM1, ApproveR1>>,
     <<ApproveR1, P("run", r1, m1)>>,
     <<P("adjudicate", r1, None)>>, <<P("adjudicate", None, None)>>}
=============================================================================
