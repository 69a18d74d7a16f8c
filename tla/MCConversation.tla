--------------------------- MODULE MCConversation ---------------------------
(* Conversation with every list of up to three messages as a request. *)
EXTENDS Conversation

CONSTANTS a, b

Said == {Message("System", "prompt", 0), Message("User", "task", 0),
         Message("Assistant", "thought", 0)}
Called == {Calling(Message("Assistant", "thought", 0), ids) : ids \in {<<a>>, <<b>>, <<a, b>>}}
Responded == {Responding(Message("Tool", "result", 0), id) : id \in {a, b}}

Numbered(ms) == [i \in DOMAIN ms |-> [ms[i] EXCEPT !.n = i]]
Lists == {Numbered(ms) : ms \in BoundedSeq(Said \cup Called \cup Responded, 3) \ {<<>>}}
=============================================================================
