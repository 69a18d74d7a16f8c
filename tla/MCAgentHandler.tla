--------------------------- MODULE MCAgentHandler ---------------------------
(* Two sessions over one agent with one tool that can be called in two     *)
(* ways, both control plane tools, and a call that cannot be executed.     *)
EXTENDS AgentHandler

CONSTANTS s1, s2, x, y, done, pause, bad, t

ToolCalls    == {x, y, pause}
ControlCalls == {x, done, pause, bad}

KindOf(c) == IF c \in {x, y} THEN "tool" ELSE IF c = done THEN "done"
             ELSE IF c = pause THEN "pause" ELSE "invalid"
CallKinds == [c \in Calls |-> KindOf(c)]
OneTool   == [c \in Calls \cap {x, y} |-> t]

NoneAlike == {}
=============================================================================
