----------------------------- MODULE MCAibotDesk -----------------------------
(* A text, a file and a text in one conversation, a text and a voice        *)
(* message in another; one thread for both.                                 *)
EXTENDS AibotDesk

CONSTANTS a1, a2, a3, b1, b2, ann, team

Chats == [m \in {a1, a2, a3, b1, b2} |-> IF m \in {b1, b2} THEN team ELSE ann]
Kinds == [m \in {a1, a2, a3, b1, b2} |->
            CASE m = a2 -> "media" [] m = b2 -> "other" [] OTHER -> "text"]
=============================================================================
