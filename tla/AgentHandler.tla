---------------------------- MODULE AgentHandler ----------------------------
(***************************************************************************)
(* GolaAgentHandler (ag_ui_handler.rs): the runs that share one agent.     *)
(*                                                                         *)
(* A streaming session is one call of handle_input: it locks the agent to  *)
(* set up authorization, unlocks it, and hands back a stream that locks it *)
(* again, for all its steps, when it is polled.  A direct session is a     *)
(* call of run_task_directly.  The mutex is fair: it goes to who has       *)
(* waited longest.  A client may go away at any time; its session is then  *)
(* dropped where it stands.                                                *)
(***************************************************************************)
EXTENDS Agent

CONSTANTS
  Sessions,   \* the runs of the handler's agent
  Direct,     \* those started with run_task_directly
  MaxSteps,   \* config.max_steps
  Nobody      \* the mutex is free

ASSUME DirectAssumption == Direct \subseteq Sessions
ASSUME MaxStepsAssumption == MaxSteps \in Nat /\ Steps = 0 .. MaxSteps - 1
ASSUME NobodyAssumption == Nobody \notin Sessions

VARIABLES
  owner,   \* the session that holds the agent's mutex
  queue,   \* who waits for it, first come first
  phase,   \* per session, where it stands
  status,  \* per session, what its caller knows: the first and last event
  round    \* the owner's next step_num

sessionVars == <<owner, queue, phase, status, round>>
vars == <<agentVars, sessionVars>>

Phases   == {"idle", "setup", "open", "queued", "adding", "looping", "ending", "closed"}
Statuses == {"none", "started", "finished", "failed"}

Waiting(s) == phase[s] \in {"setup", "queued"}

Move(s, p) == phase' = [phase EXCEPT ![s] = p]
Tell(s, t) == status' = [status EXCEPT ![s] = t]

(* The mutex is free and s is the first in line. *)
Lock(s) ==
  /\ owner = Nobody
  /\ queue # <<>> /\ Head(queue) = s
  /\ queue' = Tail(queue)

InLine(q, s) == \E i \in DOMAIN q : q[i] = s
Distinct(q)  == \A i, j \in DOMAIN q : q[i] = q[j] => i = j

(* The waiters q without s, who is among them at most once. *)
Without(q, s) ==
  IF InLine(q, s)
  THEN LET k == CHOOSE i \in DOMAIN q : q[i] = s
       IN [i \in 1 .. Len(q) - 1 |-> IF i < k THEN q[i] ELSE q[i + 1]]
  ELSE q

(* The last event is sent, or the result returned; the guard still lives. *)
End(s, t) ==
  /\ Move(s, "ending")
  /\ Tell(s, t)
  /\ UNCHANGED <<owner, queue, round>>

-----------------------------------------------------------------------------
HandleInput(s) ==
  /\ s \notin Direct
  /\ phase[s] = "idle"
  /\ Move(s, "setup")
  /\ queue' = Append(queue, s)
  /\ UNCHANGED <<agentVars, owner, status, round>>

(* A variant with a bug, to test StreamsAreSetUp. *)
SetupHandlerOnly(s) ==
  /\ phase[s] = "setup"
  /\ Lock(s)
  /\ hasHandler' = TRUE
  /\ Move(s, "open")
  /\ UNCHANGED <<mode, allApproved, policy, saidAll, failures, stepVars,
                 detectorVars, owner, status, round>>

(* A critical section of its own, long before the stream takes the lock. *)
SetupAgentAuthorization(s) ==
  /\ phase[s] = "setup"
  /\ Lock(s)
  /\ hasHandler' = TRUE
  /\ mode' = "Ask"
  /\ Move(s, "open")
  /\ UNCHANGED <<allApproved, policy, saidAll, failures, stepVars,
                 detectorVars, owner, status, round>>

(* The first polls of the stream: RunStarted, then the wait for the lock. *)
StartStream(s) ==
  /\ phase[s] = "open"
  /\ Move(s, "queued")
  /\ Tell(s, "started")
  /\ queue' = Append(queue, s)
  /\ UNCHANGED <<agentVars, owner, round>>

RunTaskDirectly(s) ==
  /\ s \in Direct
  /\ phase[s] = "idle"
  /\ Move(s, "queued")
  /\ Tell(s, "started")
  /\ queue' = Append(queue, s)
  /\ UNCHANGED <<agentVars, owner, round>>

TakeAgent(s) ==
  /\ phase[s] = "queued"
  /\ Lock(s)
  /\ owner' = s
  /\ Move(s, "adding")
  /\ round' = 0
  /\ UNCHANGED <<agentVars, status>>

(* A variant with a bug, to test ImplementsRunProtocol: the steps follow    *)
(* although the error was sent.                                            *)
AddTaskIgnoresError(s) ==
  /\ phase[s] = "adding"
  /\ \/ Move(s, "looping") /\ UNCHANGED status
     \/ Move(s, "looping") /\ Tell(s, "failed")
  /\ UNCHANGED <<agentVars, owner, queue, round>>

(* add_user_task_to_memory: retrieval or the memory may fail. *)
AddTask(s) ==
  /\ phase[s] = "adding"
  /\ \/ Move(s, "looping") /\ UNCHANGED <<owner, queue, status, round>>
     \/ End(s, "failed")
  /\ UNCHANGED agentVars

(* A variant with a bug, to test EveryRunEnds. *)
NextStepUncounted(s) ==
  /\ phase[s] = "looping"
  /\ round < MaxSteps
  /\ StartStep(round)
  /\ UNCHANGED sessionVars

NextStep(s) ==
  /\ phase[s] = "looping"
  /\ round < MaxSteps
  /\ StartStep(round)
  /\ round' = round + 1
  /\ UNCHANGED <<owner, queue, phase, status>>

(* Out of steps: a stream finishes, a direct run fails. *)
StepsExhausted(s) ==
  /\ phase[s] = "looping"
  /\ pc = "idle"
  /\ round = MaxSteps
  /\ End(s, IF s \in Direct THEN "failed" ELSE "finished")
  /\ UNCHANGED agentVars

(* The stream goes on after a final answer that hints at more to come, and *)
(* stops after any step that asked for the user's input.                   *)
GoesOn(s) ==
  IF s \in Direct THEN outcome = "continue"
  ELSE outcome \in {"hint", "continue"} /\ ~Pausing

StepReturned(s) == phase[s] = "looping" /\ pc = "returned"

ContinueAfterStep(s) ==
  /\ StepReturned(s)
  /\ GoesOn(s)
  /\ NoStep
  /\ UNCHANGED <<approvalVars, failures, detectorVars, sessionVars>>

(* The stream clears the detector and tries again with a system message. *)
RecoverFromLoop(s) ==
  /\ StepReturned(s)
  /\ outcome = "loop" /\ s \notin Direct
  /\ Clear
  /\ NoStep
  /\ UNCHANGED <<approvalVars, failures, sessionVars>>

FinishAfterStep(s) ==
  /\ StepReturned(s)
  /\ outcome \in {"final", "hint", "continue"} /\ ~GoesOn(s)
  /\ End(s, "finished")
  /\ NoStep
  /\ UNCHANGED <<approvalVars, failures, detectorVars>>

FailAfterStep(s) ==
  /\ StepReturned(s)
  /\ outcome = "error" \/ (outcome = "loop" /\ s \in Direct)
  /\ End(s, "failed")
  /\ NoStep
  /\ UNCHANGED <<approvalVars, failures, detectorVars>>

(* The stream is polled once more after its last event and drops the guard. *)
ReleaseAgent(s) ==
  /\ phase[s] = "ending"
  /\ owner' = Nobody
  /\ Move(s, "closed")
  /\ UNCHANGED <<agentVars, queue, status, round>>

(* A variant with a bug, to test LockIsConsistent: the step goes on        *)
(* without its session.                                                    *)
DisconnectKeepsStep(s) ==
  /\ phase[s] \notin {"idle", "closed"}
  /\ Move(s, "closed")
  /\ queue' = Without(queue, s)
  /\ owner' = IF owner = s THEN Nobody ELSE owner
  /\ UNCHANGED <<agentVars, status, round>>

(* The client closed the connection.  A step that runs is dropped at its   *)
(* await: what it did stays, what it was about to do is not done.          *)
Disconnect(s) ==
  /\ phase[s] \notin {"idle", "closed"}
  /\ Move(s, "closed")
  /\ queue' = Without(queue, s)
  /\ owner' = IF owner = s THEN Nobody ELSE owner
  /\ IF owner = s THEN NoStep ELSE UNCHANGED stepVars
  /\ UNCHANGED <<approvalVars, failures, detectorVars, status, round>>

(* An operator changes the authorization configuration of the handler. *)
SetPolicy ==
  /\ policy' \in {"Allow", "Deny", "Ask"}
  /\ UNCHANGED <<mode, hasHandler, allApproved, saidAll, failures, stepVars,
                 detectorVars, sessionVars>>

-----------------------------------------------------------------------------
Init ==
  /\ InitAgent
  /\ owner = Nobody /\ queue = <<>> /\ round = 0
  /\ phase  = [s \in Sessions |-> "idle"]
  /\ status = [s \in Sessions |-> "none"]

(* What a session does of itself once it was opened. *)
SessionStep(s) ==
  \/ SetupAgentAuthorization(s) \/ StartStream(s) \/ TakeAgent(s) \/ AddTask(s)
  \/ NextStep(s) \/ StepsExhausted(s) \/ ContinueAfterStep(s)
  \/ RecoverFromLoop(s) \/ FinishAfterStep(s) \/ FailAfterStep(s)
  \/ ReleaseAgent(s)

RunStep == StepProceeds /\ UNCHANGED sessionVars

Next ==
  \/ \E s \in Sessions :
       HandleInput(s) \/ RunTaskDirectly(s) \/ SessionStep(s) \/ Disconnect(s)
  \/ RunStep
  \/ SetPolicy

(* A connected client reads its stream; the LLM, the handler (see          *)
(* RequestReturns in ToolAuthorization.tla) and tools answer in the end.   *)
(* Nothing is assumed of clients' arrivals, departures and operators.      *)
Fairness == WF_vars(RunStep) /\ \A s \in Sessions : WF_vars(SessionStep(s))

Spec == Init /\ [][Next]_vars /\ Fairness
-----------------------------------------------------------------------------
(* The variables have their types. *)
TypeOK ==
  /\ AgentTypeOK
  /\ owner \in Sessions \cup {Nobody}
  /\ queue \in Seq(Sessions)
  /\ phase \in [Sessions -> Phases]
  /\ status \in [Sessions -> Statuses]
  /\ round \in 0 .. MaxSteps

(* The mutex and the sessions agree: the line holds every session that     *)
(* waits, once, and nobody who went away; a session uses the agent exactly *)
(* while it owns it; and no step outlives the session that runs it, even   *)
(* when its client disconnects in the middle.                              *)
LockIsConsistent ==
  /\ \A s \in Sessions :
       /\ Waiting(s) <=> InLine(queue, s)
       /\ phase[s] \in {"adding", "looping", "ending"} <=> owner = s
  /\ Distinct(queue)
  /\ pc # "idle" => owner # Nobody /\ phase[owner] = "looping"

(* A stream sets up authorization in one critical section and runs in      *)
(* another.  Whoever had the agent in between, all its tools are asked     *)
(* for: the agent is in Ask mode with the handler when the stream has it.  *)
StreamsAreSetUp ==
  owner # Nobody /\ owner \notin Direct => mode = "Ask" /\ hasHandler

Protocol == INSTANCE RunProtocol WITH runner <- owner

(* Whatever happens to other runs, a run is told about its end once, by    *)
(* itself and while it has the agent: RunProtocol.tla's specification.     *)
ImplementsRunProtocol == Protocol!Spec

(* Every run that was opened is over in the end: steps are bounded even    *)
(* when every answer asks for another, and no waiter is passed over.       *)
EveryRunEnds == \A s \in Sessions : phase[s] # "idle" ~> phase[s] = "closed"
=============================================================================
