------------------------------ MODULE Messages ------------------------------
(***************************************************************************)
(* The messages of a conversation (core_types.rs), what MessageValidator   *)
(* (llm/message_validator.rs) makes of a list of them, and how the three   *)
(* providers (llm/providers) put a list on the wire.                       *)
(*                                                                         *)
(* What a message says is left out but for its origin (body) and its place *)
(* among those the caller made (n, 0 for one the stack made up).           *)
(***************************************************************************)
EXTENDS Lists

CONSTANTS
  Ids,    \* tool call ids
  NoId    \* a message without tool_call_id

ASSUME IdsAssumption == Ids # {} /\ NoId \notin Ids

Roles     == {"System", "User", "Assistant", "Tool"}
Providers == {"OpenAI", "Anthropic", "Gemini"}

Message(role, body, n) ==
  [role |-> role, body |-> body, n |-> n, calls |-> <<>>, re |-> NoId]

Calling(m, ids)     == [m EXCEPT !.calls = ids]
Responding(m, id)   == [m EXCEPT !.re = id]
HasRole(m, roles)   == m.role \in roles
OfRoles(ms, roles)  == Sublist(ms, {i \in DOMAIN ms : HasRole(ms[i], roles)})
CallIds(m)          == ToSet(m.calls)
HasCalls(m)         == HasRole(m, {"Assistant"}) /\ m.calls # <<>>
Responds(m, id)     == HasRole(m, {"Tool"}) /\ m.re = id

-----------------------------------------------------------------------------
(* MessageValidator *)

(* A call is answered by a tool message after it, if no user message came  *)
(* in between.                                                             *)
Answered(ms, i, id) ==
  \E j \in i + 1 .. Len(ms) :
     /\ Responds(ms[j], id)
     /\ \A k \in i + 1 .. j - 1 : ms[k].role # "User"

OrphanedCalls(ms, i) ==
  IF HasCalls(ms[i])
  THEN Sublist(ms[i].calls, {k \in DOMAIN ms[i].calls : ~Answered(ms, i, ms[i].calls[k])})
  ELSE <<>>

(* A response is matched to a call anywhere in the list.                   *)
OrphanedResponse(ms, i) ==
  /\ HasRole(ms[i], {"Tool"}) /\ ms[i].re # NoId
  /\ \A j \in DOMAIN ms : HasCalls(ms[j]) => ms[i].re \notin CallIds(ms[j])

Issues(ms) == {i \in DOMAIN ms : OrphanedCalls(ms, i) # <<>> \/ OrphanedResponse(ms, i)}

Synthetic(id) == Responding(Message("Tool", "synthetic", 0), id)

(* A variant with a bug, to test ValidatedIsValid: one call is completed.  *)
FixedOneCall(ms, i) ==
  IF OrphanedResponse(ms, i) THEN <<Message("System", ms[i].body, ms[i].n)>>
  ELSE <<ms[i]>> \o (IF OrphanedCalls(ms, i) = <<>> THEN <<>>
                     ELSE <<Synthetic(Head(OrphanedCalls(ms, i)))>>)

(* A variant with a bug, to test ToolRuleKept: an orphaned response is     *)
(* left as it is.                                                          *)
FixedCallsOnly(ms, i) ==
  <<ms[i]>> \o [k \in DOMAIN OrphanedCalls(ms, i) |->
                   Synthetic(OrphanedCalls(ms, i)[k])]

(* What becomes of message i: a response without its call turns into a     *)
(* system message, a call without its responses is followed by made up     *)
(* ones.                                                                   *)
Fixed(ms, i) ==
  IF OrphanedResponse(ms, i) THEN <<Message("System", ms[i].body, ms[i].n)>>
  ELSE <<ms[i]>> \o [k \in DOMAIN OrphanedCalls(ms, i) |->
                        Synthetic(OrphanedCalls(ms, i)[k])]

ValidateAndFix(ms) == FlattenSeq([i \in DOMAIN ms |-> Fixed(ms, i)])

-----------------------------------------------------------------------------
(* The wire: a system instruction and turns of one or more messages.       *)

LastSystem(ms) ==
  LET systems == OfRoles(ms, {"System"})
  IN IF systems = <<>> THEN <<>> ELSE <<Last(systems)>>

Turns(ms)   == [i \in DOMAIN ms |-> <<ms[i]>>]
Flush(part) == IF part = <<>> THEN <<>> ELSE <<part>>

(* convert_messages collects the content of a user's and of an assistant's *)
(* turn; a tool result joins the user's without ending the assistant's.    *)
Convert(acc, m) ==
  CASE m.role = "User"      -> [out  |-> acc.out \o Flush(acc.asst),
                                user |-> Append(acc.user, m), asst |-> <<>>]
    [] m.role = "Assistant" -> [out  |-> acc.out \o Flush(acc.user),
                                user |-> <<>>, asst |-> Append(acc.asst, m)]
    [] m.role = "Tool"      -> [acc EXCEPT !.user = Append(@, m)]
    [] OTHER                -> acc

ConvertMessages(ms) ==
  LET acc[k \in 0 .. Len(ms)] ==
        IF k = 0 THEN [out |-> <<>>, user |-> <<>>, asst |-> <<>>]
        ELSE Convert(acc[k - 1], ms[k])
      end == acc[Len(ms)]
  IN end.out \o Flush(end.user) \o Flush(end.asst)

ConvertToGeminiContents(ms) == Turns(OfRoles(ms, Roles \ {"System"}))
FormatMessages(ms)          == Turns(ms)

Wire(provider, ms) ==
  CASE provider = "OpenAI"    -> [system |-> <<>>, turns |-> FormatMessages(ms)]
    [] provider = "Anthropic" -> [system |-> LastSystem(ms), turns |-> ConvertMessages(ms)]
    [] provider = "Gemini"    -> [system |-> LastSystem(ms),
                                  turns  |-> ConvertToGeminiContents(ms)]

(* The providers' rule: the responses of all calls of a message follow it  *)
(* at once, and there is no other response.                                *)
ToolRule(ms) ==
  LET Follows(i, j) == /\ j > i
                       /\ \A k \in i + 1 .. j : HasRole(ms[k], {"Tool"})
  IN /\ \A i \in DOMAIN ms : HasCalls(ms[i]) =>
          \A id \in CallIds(ms[i]) :
             \E j \in DOMAIN ms : Follows(i, j) /\ Responds(ms[j], id)
     /\ \A j \in DOMAIN ms : HasRole(ms[j], {"Tool"}) =>
          \E i \in DOMAIN ms : /\ Follows(i, j) /\ HasCalls(ms[i])
                               /\ ms[j].re \in CallIds(ms[i])

Verdict(wire) ==
  CASE wire.turns = <<>>                     -> "empty"
    [] ~ToolRule(FlattenSeq(wire.turns))     -> "tools"
    [] OTHER                                 -> "fine"
=============================================================================
