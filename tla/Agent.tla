------------------------------- MODULE Agent -------------------------------
(***************************************************************************)
(* Agent::run_step (agent.rs): one LLM response, then its tool calls in    *)
(* order, each through the loop detector, the circuit breaker of its tool  *)
(* and the authorization handler before it is executed.                    *)
(*                                                                         *)
(* The task that runs a step holds the agent's mutex throughout, so its    *)
(* own state changes in one place only; at every await (the LLM, the       *)
(* authorization, the tool) the rest of the program moves on and the step  *)
(* may be dropped.  AgentHandler.tla says who runs steps and when.         *)
(*                                                                         *)
(* The conversation memory is not part of the state; that adding to it may *)
(* fail, with a summarising memory, is.                                    *)
(***************************************************************************)
EXTENDS LoopDetector

CONSTANTS
  Tools,       \* names of the tools that can be executed
  ToolOf,      \* the tool a call names, for the calls of kind "tool"
  Kind,        \* what a call names, see Kinds
  MaxCalls     \* bound: the most calls the LLM puts in one response

(* "done" is a valid assistant_done; "progress" and "pause" are valid      *)
(* report_progress calls, the latter with one of the three reasons that    *)
(* need the user; "invalid" is a call that cannot be executed: an unknown  *)
(* tool, no executor or RAG, or bad arguments of a control plane tool.     *)
Kinds == {"tool", "done", "progress", "pause", "invalid"}

ASSUME MaxCallsAssumption == MaxCalls \in Nat
ASSUME KindAssumption == Kind \in [Calls -> Kinds]
ASSUME ToolOfAssumption ==
  ToolOf \in [{c \in Calls : Kind[c] = "tool"} -> Tools]

VARIABLES
  mode,         \* config.authorization_mode
  hasHandler,   \* whether authorization_handler is set
  allApproved,  \* all_tools_approved
  failures,     \* consecutive_tool_failures
  policy,       \* what the handler's configuration says, as in Consent.tla
  pc,           \* where run_step stands
  step,         \* step_number
  response,     \* the tool calls of the LLM's response
  at,           \* which of them is being handled
  outcome,      \* what run_step returned
  answer,       \* history: the handler's answer to the call at hand
  saidAll       \* history: somebody has answered "All"

approvalVars == <<mode, hasHandler, allApproved, policy, saidAll>>
stepVars     == <<pc, step, response, at, outcome, answer>>
agentVars    == <<approvalVars, failures, stepVars, detectorVars>>

MaxConsecutiveFailures == 2

AuthorizationMode == {"Allow", "Deny", "Ask"}
Answers  == {"none", "Yes", "No", "All", "Err"}

(* "hint": a final answer with words like "let me", which the UI handler   *)
(* takes for a wish to go on.                                              *)
Outcomes == {"none", "final", "hint", "continue", "loop", "error"}

Call == response[at]

(* The response asks for the user's input, says its list of tool calls. *)
Pausing == \E i \in DOMAIN response : Kind[response[i]] = "pause"

Return(o) ==
  /\ pc' = "returned"
  /\ outcome' = o
  /\ UNCHANGED <<step, response, at>>

(* add_tool_observation: the next call is due, or the memory failed. *)
Observe ==
  \/ /\ pc' = "calling"
     /\ at' = at + 1
     /\ UNCHANGED <<step, response, outcome>>
  \/ Return("error")

Await(label) ==
  /\ pc' = label
  /\ UNCHANGED <<step, response, at, outcome>>

(* No step is running; its locals are gone. *)
NoStep ==
  /\ pc' = "idle" /\ step' = 0 /\ response' = <<>> /\ at' = 1
  /\ outcome' = "none" /\ answer' = "none"

-----------------------------------------------------------------------------
StartStep(n) ==
  /\ pc = "idle"
  /\ pc' = "generating"
  /\ step' = n
  /\ UNCHANGED <<approvalVars, failures, response, at, outcome, answer, detectorVars>>

(* llm.generate failed, or the memory, or there was nothing in the reply. *)
GenerateFails ==
  /\ pc = "generating"
  /\ Return("error")
  /\ UNCHANGED <<approvalVars, failures, answer, detectorVars>>

GenerateText ==
  /\ pc = "generating"
  /\ Return("final") \/ Return("hint")
  /\ UNCHANGED <<approvalVars, failures, answer, detectorVars>>

(* Blank content without tool calls, or content with an empty list. *)
GenerateNothing ==
  /\ pc = "generating"
  /\ Return("continue")
  /\ UNCHANGED <<approvalVars, failures, answer, detectorVars>>

GenerateCalls ==
  /\ pc = "generating"
  /\ pc' = "calling"
  /\ \E n \in 1 .. MaxCalls : response' \in [1 .. n -> Calls]
  /\ UNCHANGED <<approvalVars, failures, step, at, outcome, answer, detectorVars>>

(* execute_tool: every call is recorded before anything else is decided.   *)
(* a: what the handler answers without asking anybody, if it does.         *)
BeginCall(a) ==
  /\ pc = "calling"
  /\ at <= Len(response)
  /\ AddToolCall([call |-> Call, step |-> step])
  /\ answer' = a
  /\ UNCHANGED <<approvalVars, failures>>

LoopFound ==
  /\ BeginCall("none")
  /\ pattern' # "NoLoop"
  /\ Return("loop")

(* assistant_done ends the step; the rest of the response is not handled.  *)
(* The reason report_progress gives is no longer in the observation when   *)
(* run_step looks for it there, so it never ends the step.                 *)
CallControlTool ==
  /\ BeginCall("none")
  /\ pattern' = "NoLoop"
  /\ \/ /\ Kind[Call] = "done"
        /\ Return("final") \/ Return("hint") \/ Return("error")
     \/ /\ Kind[Call] \in {"progress", "pause"}
        /\ Observe

(* A variant with a bug, to test BreakerStaysClosed and TypeOK. *)
BreakerOpenLate(t) == failures[t] > MaxConsecutiveFailures

BreakerOpen(t) == failures[t] >= MaxConsecutiveFailures

(* The call is observed without being executed: it cannot be, its tool     *)
(* failed too often, or it is refused without asking anybody.              *)
RefuseCall ==
  /\ BeginCall("none")
  /\ pattern' = "NoLoop"
  /\ \/ Kind[Call] = "invalid"
     \/ /\ Kind[Call] = "tool"
        /\ \/ BreakerOpen(ToolOf[Call])
           \/ mode = "Deny"
           \/ mode = "Ask" /\ ~allApproved /\ ~hasHandler
  /\ Observe

(* execute_tool reached a tool that may be executed if it is allowed. *)
MayExecute(a) ==
  /\ BeginCall(a)
  /\ pattern' = "NoLoop"
  /\ Kind[Call] = "tool"
  /\ ~BreakerOpen(ToolOf[Call])

ExecuteUnasked ==
  /\ MayExecute("none")
  /\ mode = "Allow" \/ (mode = "Ask" /\ allApproved)
  /\ Await("executing")

(* request_authorization reads the handler's configuration once: what is   *)
(* set while somebody is asked is for later requests.                      *)
HandlerIsCalled == mode = "Ask" /\ ~allApproved /\ hasHandler

AllowedByPolicy ==
  /\ MayExecute("Yes")
  /\ HandlerIsCalled /\ policy = "Allow"
  /\ Await("executing")

DeniedByPolicy ==
  /\ MayExecute("No")
  /\ HandlerIsCalled /\ policy = "Deny"
  /\ Observe

AskHandler ==
  /\ MayExecute("none")
  /\ HandlerIsCalled /\ policy = "Ask"
  /\ Await("asking")

(* A variant with a bug, to test ToolsNeedConsent: one yes is for all. *)
AuthorizedForever ==
  /\ pc = "asking"
  /\ answer' = "Yes" /\ allApproved' = TRUE
  /\ Await("executing")
  /\ UNCHANGED <<mode, hasHandler, policy, saidAll, failures, detectorVars>>

(* request_authorization returned what the user said. *)
Authorized ==
  /\ pc = "asking"
  /\ \/ answer' = "Yes" /\ UNCHANGED <<policy, allApproved, saidAll>>
     \/ /\ answer' = "All" /\ saidAll' = TRUE
        /\ policy' = "Allow" /\ allApproved' = TRUE
  /\ Await("executing")
  /\ UNCHANGED <<mode, hasHandler, failures, detectorVars>>

(* A failure counts as a refusal. *)
Unauthorized ==
  /\ pc = "asking"
  /\ answer' \in {"No", "Err"}
  /\ Observe
  /\ UNCHANGED <<approvalVars, failures, detectorVars>>

ExecuteOk ==
  /\ pc = "executing"
  /\ failures' = [failures EXCEPT ![ToolOf[Call]] = 0]
  /\ Observe
  /\ UNCHANGED <<approvalVars, answer, detectorVars>>

ExecuteFails ==
  /\ pc = "executing"
  /\ failures' = [failures EXCEPT ![ToolOf[Call]] = failures[ToolOf[Call]] + 1]
  /\ Observe
  /\ UNCHANGED <<approvalVars, answer, detectorVars>>

(* Every call was observed and none ended the step. *)
EndOfCalls ==
  /\ pc = "calling"
  /\ at > Len(response)
  /\ Return("continue")
  /\ UNCHANGED <<approvalVars, failures, answer, detectorVars>>

InitAgent ==
  /\ InitDetector
  /\ mode \in AuthorizationMode
  /\ hasHandler = FALSE /\ allApproved = FALSE /\ saidAll = FALSE
  /\ failures = [t \in Tools |-> 0]
  /\ policy = "Ask"
  /\ pc = "idle" /\ step = 0 /\ response = <<>> /\ at = 1
  /\ outcome = "none" /\ answer = "none"

(* What a step that has started does until it returns. *)
StepProceeds ==
  \/ GenerateFails \/ GenerateText \/ GenerateNothing \/ GenerateCalls
  \/ LoopFound \/ CallControlTool \/ RefuseCall \/ ExecuteUnasked
  \/ AllowedByPolicy \/ DeniedByPolicy \/ AskHandler
  \/ Authorized \/ Unauthorized \/ ExecuteOk \/ ExecuteFails \/ EndOfCalls
-----------------------------------------------------------------------------
(* The variables have their types; what run_step keeps while it runs is    *)
(* there exactly while it runs.                                            *)
AgentTypeOK ==
  /\ DetectorTypeOK
  /\ mode \in AuthorizationMode
  /\ hasHandler \in BOOLEAN /\ allApproved \in BOOLEAN /\ saidAll \in BOOLEAN
  /\ failures \in [Tools -> 0 .. MaxConsecutiveFailures]
  /\ policy \in {"Allow", "Deny", "Ask"}
  /\ pc \in {"idle", "generating", "calling", "asking", "executing", "returned"}
  /\ step \in Steps \cup {0}
  /\ response \in Seq(Calls) /\ Len(response) <= MaxCalls
  /\ at \in 1 .. Len(response) + 1
  /\ outcome \in Outcomes /\ (outcome # "none" <=> pc = "returned")
  /\ answer \in Answers

Deciding == pc \in {"asking", "executing"}

(* The breaker is checked before authorization is awaited and the tool     *)
(* runs after: a tool that failed twice in a row is still never executed.  *)
BreakerStaysClosed ==
  Deciding => failures[ToolOf[Call]] < MaxConsecutiveFailures

(* A call that is put to the user or executed is the last the detector     *)
(* recorded, and the window holds it less often than makes a loop: however *)
(* runs, evictions and recoveries follow each other, no call is executed   *)
(* ExactThreshold times within Window calls.                               *)
RepeatsAreBounded ==
  Deciding =>
    /\ callHistory # <<>>
    /\ callHistory[Len(callHistory)] = [call |-> Call, step |-> step]
    /\ Occurrences(callHistory, Call) < ExactThreshold

(* In Ask mode a tool runs only on a yes to this very call, a person's or  *)
(* the configuration's, or after somebody answered All in this or an       *)
(* earlier run: a refusal, a failed request or a missing handler never     *)
(* lets it run, and neither does a yes to another call.                    *)
ToolsNeedConsent ==
  pc = "executing" => mode = "Allow" \/ answer \in {"Yes", "All"} \/ saidAll

-----------------------------------------------------------------------------
(* What the repository says and the code does not do.                      *)

(* agent.rs:598, in run_step: "Stop execution for reasons that require     *)
(* user input".  A tool must not run after such a report_progress call of  *)
(* the same response succeeded.                                            *)
ReportStopsStep ==
  Deciding => \A i \in 1 .. at - 1 : Kind[response[i]] # "pause"

(* authorization.rs:11: "Always deny tool execution."  In Ask mode, while  *)
(* the handler's configuration denies every tool, a call whose turn comes  *)
(* must not be executed.                                                   *)
DenyStopsTools ==
  [][mode = "Ask" /\ policy = "Deny" => ~(pc = "calling" /\ pc' = "executing")]_agentVars
=============================================================================
