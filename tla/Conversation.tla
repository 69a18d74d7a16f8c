---------------------------- MODULE Conversation ----------------------------
(***************************************************************************)
(* An agent, its memory and its LLM: run_step sends the system prompt and  *)
(* the memory's context, and adds what came of it to the memory, whose     *)
(* summaries go through the same client.  What run_step does about tools   *)
(* is in Agent.tla; here a step is the messages it leaves behind.          *)
(*                                                                         *)
(* The client is also used without an agent, with any list of messages.    *)
(***************************************************************************)
EXTENDS Memory, LlmStack, Replies

CONSTANTS
  Requests,    \* the lists a caller without an agent asks with
  MaxSteps,    \* config.max_steps
  MaxAdded     \* bound: messages added between two calls of clear_memory

ASSUME BoundsAssumption == MaxSteps \in Nat /\ MaxAdded \in Nat

(* Where a message comes from.                                             *)
Bodies == {"prompt", "summary", "lines", "task", "thought", "result", "recovery",
           "synthetic", "notice", "continue"}

LLMMessages == [role : Roles, body : Bodies, n : Nat, calls : Seq(Ids), re : Ids \cup {NoId}]

(* A message's number is its place in the caller's list.                   *)
ASSUME RequestsAssumption ==
  \A ms \in Requests : ms \in Seq(LLMMessages) /\ \A i \in DOMAIN ms : ms[i].n = i

VARIABLES
  caller,      \* "agent" or "library"
  strategy,    \* the configured memory
  messages,    \* the memory's messages
  summary,     \* its summary: none, of the lines given, or of something else
  added,       \* messages added since the memory was cleared
  pc,          \* where the run stands
  todo,        \* what the run has yet to add, its first being added
  next,        \* what it does after that
  round        \* its steps so far

memoryVars == <<messages, summary, added>>
runVars    == <<pc, todo, next, round>>
configVars == <<caller, strategy, provider>>
vars       == <<configVars, memoryVars, runVars, call>>

Pcs == {"idle", "adding", "summing", "stepping"}

Prompt  == Message("System", "prompt", 0)
Lines   == Message("System", "lines", 0)
Task    == Message("User", "task", 0)
Thought == Message("Assistant", "thought", 0)
Result  == Responding(Message("Tool", "result", 0), CHOOSE id \in Ids : TRUE)
Again   == Message("System", "recovery", 0)

TypeOK ==
  /\ caller \in {"agent", "library"} /\ strategy \in Strategies /\ provider \in Providers
  /\ Len(messages) <= MaxAdded /\ added \in 0 .. MaxAdded
  /\ summary \in {"none", "lines", "other"}
  /\ pc \in Pcs /\ next \in {"step", "stop"} /\ round \in 0 .. MaxSteps
  /\ call.pc \in {"idle", "attempt", "sent", "answered", "failed"}
  /\ pc \in {"summing", "stepping"} => call.pc # "idle"

Init ==
  /\ caller \in {"agent", "library"}
  /\ strategy \in Strategies /\ provider \in Providers
  /\ caller = "library" => strategy = "Window"
  /\ messages = <<>> /\ summary = "none" /\ added = 0
  /\ pc = "idle" /\ todo = <<>> /\ next = "stop" /\ round = 0
  /\ call = NoCall

-----------------------------------------------------------------------------
(* The run: add_user_task_to_memory, then run_step until it stops.         *)

Room == 1 + MaxSteps * (MaxCalls + 2)

AddUserTask ==
  /\ caller = "agent" /\ pc = "idle"
  /\ added + Room <= MaxAdded
  /\ pc' = "adding" /\ todo' = <<Task>> /\ next' = "step" /\ round' = 0
  /\ UNCHANGED <<configVars, memoryVars, call>>

EndRun == pc' = "idle" /\ todo' = <<>> /\ UNCHANGED <<next, round>>

(* add_message: the window is done at once, the others may need a summary. *)
AddMessage ==
  /\ pc = "adding" /\ todo # <<>>
  /\ LET pushed == Push(strategy, messages, [Head(todo) EXCEPT !.n = added + 1])
     IN /\ messages' = Kept(strategy, pushed)
        /\ IF Leaving(strategy, pushed) = <<>>
           THEN todo' = Tail(todo) /\ UNCHANGED <<pc, call>>
           ELSE pc' = "summing" /\ Generate(<<Lines>>, FALSE) /\ UNCHANGED todo
  /\ added' = added + 1
  /\ UNCHANGED <<configVars, summary, next, round>>

(* predict_new_summary takes whatever came back; nothing is no summary.    *)
SummaryArrives ==
  /\ pc = "summing" /\ call.pc = "answered"
  /\ \E r \in Responses(provider) :
       summary' = CASE UnwrapOrDefault(r) = "empty"  -> "none"
                    [] Contains(call.sent, Lines)    -> "lines"
                    [] OTHER                         -> "other"
  /\ messages' = IF strategy = "Summary" THEN <<>> ELSE messages
  /\ pc' = "adding" /\ todo' = Tail(todo) /\ call' = NoCall
  /\ UNCHANGED <<configVars, added, next, round>>

(* The error ends the run, but for a recovery message it is only logged.   *)
SummaryFails ==
  /\ pc = "summing" /\ call.pc = "failed"
  /\ call' = NoCall
  /\ \/ /\ Head(todo) = Again
        /\ pc' = "adding" /\ todo' = Tail(todo) /\ UNCHANGED <<next, round>>
     \/ Head(todo) # Again /\ EndRun
  /\ UNCHANGED <<configVars, memoryVars>>

RunStep ==
  /\ pc = "adding" /\ todo = <<>>
  /\ next = "step" /\ round < MaxSteps
  /\ pc' = "stepping" /\ round' = round + 1
  /\ Generate(<<Prompt>> \o GetContext(strategy, messages, summary # "none"), TRUE)
  /\ UNCHANGED <<configVars, memoryVars, todo, next>>

RunEnds ==
  /\ pc = "adding" /\ todo = <<>>
  /\ next = "stop" \/ round = MaxSteps
  /\ EndRun
  /\ UNCHANGED <<configVars, memoryVars, call>>

(* The response: text or not, and tool calls, of which the last may be a   *)
(* loop that ends in a recovery message.  The assistant's message is added *)
(* without the calls, the results with their ids.                          *)
StepAnswered ==
  /\ pc = "stepping" /\ call.pc = "answered"
  /\ \E r \in Responses(provider), looped \in BOOLEAN, after \in {"step", "stop"} :
       /\ r.calls > 0 => call.withTools
       /\ looped => r.calls > 0 /\ after = "step"
       /\ r.calls = 0 => after = IF r.text = "words" THEN "stop" ELSE "step"
       /\ next' = after
       /\ todo' = (IF r.text = "none" THEN <<>> ELSE <<Thought>>)
                    \o [i \in 1 .. (IF looped THEN r.calls - 1 ELSE r.calls) |-> Result]
                    \o (IF looped THEN <<Again>> ELSE <<>>)
  /\ pc' = "adding" /\ call' = NoCall
  /\ UNCHANGED <<configVars, memoryVars, round>>

StepFails ==
  /\ pc = "stepping" /\ call.pc = "failed"
  /\ EndRun /\ call' = NoCall
  /\ UNCHANGED <<configVars, memoryVars>>

(* The client goes away: the run is dropped at the await where it stands.  *)
DropRun ==
  /\ pc \in {"summing", "stepping"}
  /\ EndRun /\ call' = NoCall
  /\ UNCHANGED <<configVars, memoryVars>>

ClearMemory ==
  /\ caller = "agent" /\ pc = "idle"
  /\ messages' = <<>> /\ summary' = "none" /\ added' = 0
  /\ UNCHANGED <<configVars, runVars, call>>

-----------------------------------------------------------------------------
(* The client without an agent. *)

Ask ==
  /\ caller = "library" /\ call.pc = "idle"
  /\ \E ms \in Requests : Generate(ms, TRUE)
  /\ UNCHANGED <<configVars, memoryVars, runVars>>

Return ==
  /\ caller = "library" /\ call.pc \in {"answered", "failed"}
  /\ call' = NoCall
  /\ UNCHANGED <<configVars, memoryVars, runVars>>

Generating == LlmStep /\ UNCHANGED <<caller, strategy, memoryVars, runVars>>

Next ==
  \/ AddUserTask \/ AddMessage \/ SummaryArrives \/ SummaryFails
  \/ RunStep \/ RunEnds \/ StepAnswered \/ StepFails \/ DropRun
  \/ ClearMemory \/ Ask \/ Return \/ Generating

(* The client's loops are polled while they have something to do, and a    *)
(* request to a provider is answered or fails: weak fairness of Generating, *)
(* which is enabled as long as the client is busy.                         *)
Busy == call.pc \in {"attempt", "sent"}

Fairness == []<>~Busy \/ []<><<Generating>>_vars

Spec == Init /\ [][Next]_vars /\ Fairness

-----------------------------------------------------------------------------
(* No list the agent's client sends breaks the providers' rule on tool     *)
(* calls, although the memory keeps the results without the calls and      *)
(* evicts, and truncation and fallbacks cut, anywhere; and its messages    *)
(* reach the provider in the order they were made, although the conversion *)
(* for Anthropic lets a tool result overtake the assistant's message       *)
(* before it.                                                              *)
ToolRuleKept ==
  caller = "agent" /\ call.pc = "sent" =>
    LET ns == Numbers(FlattenSeq(Wire(provider, call.sent).turns))
    IN /\ ToolRule(call.sent)
       /\ \A i, j \in DOMAIN ns : i < j => ns[i] < ns[j]

(* What a memory holds is the end of the conversation, without a hole,     *)
(* through evictions, failed and dropped summaries and recovered loops.    *)
MemoryIsRecent ==
  \A i \in DOMAIN messages : messages[i].n = added - Len(messages) + i
=============================================================================
