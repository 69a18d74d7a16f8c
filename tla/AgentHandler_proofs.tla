------------------------ MODULE AgentHandler_proofs ------------------------
(***************************************************************************)
(* What holds of the agent and the runs that share it, for any number of   *)
(* sessions, any calls and tools, and any bounds.                          *)
(***************************************************************************)
EXTENDS AgentHandler, LoopDetector_proofs

(* What a running step keeps. *)
LocalsOK ==
  /\ pc # "idle" => step \in Steps
  /\ pc \in {"idle", "generating"} => response = <<>>

(* What was checked of a call is true of it until it is executed. *)
DecidingOK ==
  Deciding =>
    /\ at <= Len(response)
    /\ Kind[Call] = "tool"
    /\ failures[ToolOf[Call]] < MaxConsecutiveFailures
    /\ pattern = "NoLoop"
    /\ callHistory # <<>>
    /\ callHistory[Len(callHistory)] = [call |-> Call, step |-> step]

(* The invariant of the agent. *)
StepInv ==
  /\ DInv
  /\ AgentTypeOK
  /\ LocalsOK
  /\ DecidingOK
  /\ ToolsNeedConsent
  /\ allApproved => saidAll

LEMMA CallIsACall ==
  ASSUME AgentTypeOK, at <= Len(response)
  PROVE  Call \in Calls /\ (Kind[Call] = "tool" => ToolOf[Call] \in Tools)
<1>1. Call \in Calls
  BY DEF AgentTypeOK, Call
<1>2. QED
  BY <1>1, ToolOfAssumption

(* The types of a step that waits for its next call or has returned. *)
LEMMA ObserveTypes ==
  ASSUME StepInv, pc \in {"calling", "asking", "executing"}, at <= Len(response), Observe,
         answer' \in Answers, DetectorTypeOK',
         mode' = mode, hasHandler' = hasHandler, allApproved' = allApproved,
         saidAll' = saidAll, policy' \in {"Allow", "Deny", "Ask"},
         failures' \in [Tools -> 0 .. MaxConsecutiveFailures]
  PROVE  /\ AgentTypeOK' /\ LocalsOK' /\ DecidingOK' /\ ToolsNeedConsent'
         /\ pc' \in {"calling", "returned"}
<1>1. pc' \in {"calling", "returned"} /\ UNCHANGED <<step, response>>
  BY DEF Observe, Return
<1>2. AgentTypeOK'
  <2>1. at' \in 1 .. Len(response) + 1
    BY DEF StepInv, AgentTypeOK, Observe, Return
  <2>2. outcome' \in Outcomes /\ (outcome' # "none" <=> pc' = "returned")
    BY DEF StepInv, AgentTypeOK, Observe, Return, Outcomes
  <2>3. QED
    BY <1>1, <2>1, <2>2 DEF StepInv, AgentTypeOK
<1>3. QED
  BY <1>1, <1>2 DEF StepInv, LocalsOK, DecidingOK, Deciding, ToolsNeedConsent

(* Whatever becomes of a call, the detector has recorded it. *)
LEMMA BeginCallRecords ==
  ASSUME StepInv, NEW a \in Answers, BeginCall(a)
  PROVE  /\ DInv'
         /\ callHistory' # <<>>
         /\ callHistory'[Len(callHistory')] = [call |-> Call, step |-> step]
<1>1. Call \in Calls /\ step \in Steps
  BY CallIsACall DEF BeginCall, StepInv, LocalsOK
<1>2. [call |-> Call, step |-> step] \in ToolCallRecord
  BY <1>1 DEF ToolCallRecord
<1>3. QED
  BY <1>2, DAddInv DEF BeginCall, StepInv

(* A step that returns or that only waits for the next call. *)
LEMMA ReturnTypes ==
  ASSUME StepInv, pc # "idle", NEW o \in Outcomes \ {"none"}, Return(o),
         answer' \in Answers, DetectorTypeOK',
         UNCHANGED <<approvalVars, failures>>
  PROVE  AgentTypeOK' /\ LocalsOK' /\ DecidingOK' /\ ToolsNeedConsent'
<1>1. AgentTypeOK'
  BY DEF StepInv, AgentTypeOK, Return, approvalVars
<1>2. QED
  BY <1>1 DEF StepInv, LocalsOK, DecidingOK, Deciding, ToolsNeedConsent, Return

(* A call that is put to the user or executed at once: every check passed. *)
LEMMA AwaitInv ==
  ASSUME StepInv, NEW a \in Answers, MayExecute(a),
         NEW l \in {"asking", "executing"}, Await(l),
         l = "executing" => mode = "Allow" \/ allApproved \/ a = "Yes"
  PROVE  StepInv' /\ pc' = l
<1>1. /\ DInv'
      /\ callHistory' # <<>>
      /\ callHistory'[Len(callHistory')] = [call |-> Call, step |-> step]
  BY BeginCallRecords DEF MayExecute
<1>2. /\ pc = "calling" /\ pc' = l /\ answer' = a
      /\ UNCHANGED <<step, response, at, outcome, approvalVars, failures>>
  BY DEF MayExecute, BeginCall, Await
<1>3. Call' = Call /\ Call \in Calls
  BY <1>2, CallIsACall DEF Call, MayExecute, BeginCall, StepInv
<1>4. AgentTypeOK'
  BY <1>1, <1>2 DEF StepInv, AgentTypeOK, DInv, approvalVars, Answers
<1>5. LocalsOK'
  BY <1>2 DEF StepInv, LocalsOK
<1>6. DecidingOK'
  <2>1. /\ at <= Len(response) /\ Kind[Call] = "tool" /\ pattern' = "NoLoop"
        /\ ~ BreakerOpen(ToolOf[Call])
    BY DEF MayExecute, BeginCall
  <2>2. failures[ToolOf[Call]] < MaxConsecutiveFailures
    <3>1. failures[ToolOf[Call]] \in 0 .. MaxConsecutiveFailures
      BY <2>1, CallIsACall DEF StepInv, AgentTypeOK
    <3>2. QED
      BY <2>1, <3>1 DEF BreakerOpen, MaxConsecutiveFailures
  <2>3. QED
    BY <1>1, <1>2, <1>3, <2>1, <2>2 DEF DecidingOK
<1>7. ToolsNeedConsent' /\ (allApproved => saidAll)'
  BY <1>2 DEF StepInv, ToolsNeedConsent, approvalVars
<1>8. QED
  BY <1>1, <1>2, <1>4, <1>5, <1>6, <1>7 DEF StepInv

(* A running step keeps the invariant, and runs until it has returned. *)
LEMMA StepProceedsInv ==
  ASSUME StepInv, StepProceeds
  PROVE  /\ StepInv'
         /\ UNCHANGED <<mode, hasHandler>>
         /\ pc # "idle" /\ pc' # "idle"
<1>1. ASSUME pc = "generating", NEW o \in Outcomes \ {"none"}, Return(o),
             UNCHANGED <<approvalVars, failures, answer, detectorVars>>
      PROVE  StepInv'
  <2>1. DInv' /\ answer' \in Answers
    BY <1>1, DStutterInv DEF StepInv, AgentTypeOK
  <2>2. AgentTypeOK' /\ LocalsOK' /\ DecidingOK' /\ ToolsNeedConsent'
    BY <1>1, <2>1, ReturnTypes DEF DInv
  <2>3. QED
    BY <1>1, <2>1, <2>2 DEF StepInv, approvalVars
<1>2. CASE GenerateFails \/ GenerateText \/ GenerateNothing
  <2>1. PICK o \in Outcomes \ {"none"} : Return(o)
    BY <1>2 DEF GenerateFails, GenerateText, GenerateNothing, Outcomes
  <2>2. StepInv'
    BY <1>1, <1>2, <2>1 DEF GenerateFails, GenerateText, GenerateNothing
  <2>3. QED
    BY <1>2, <2>2 DEF GenerateFails, GenerateText, GenerateNothing, Return, approvalVars
<1>3. CASE GenerateCalls
  <2>1. PICK n \in 1 .. MaxCalls : response' \in [1 .. n -> Calls]
    BY <1>3 DEF GenerateCalls
  <2>2. response' \in Seq(Calls) /\ Len(response') = n
    BY <2>1
  <2>3. at = 1
    BY <1>3 DEF GenerateCalls, StepInv, LocalsOK, AgentTypeOK
  <2>4. AgentTypeOK'
    BY <1>3, <2>1, <2>2, <2>3, MaxCallsAssumption
       DEF GenerateCalls, StepInv, AgentTypeOK, DetectorTypeOK, approvalVars, detectorVars
  <2>5. DInv'
    BY <1>3, DStutterInv DEF GenerateCalls, StepInv
  <2>6. LocalsOK' /\ DecidingOK' /\ ToolsNeedConsent' /\ (allApproved => saidAll)'
    BY <1>3 DEF GenerateCalls, StepInv, LocalsOK, DecidingOK, Deciding,
                ToolsNeedConsent, approvalVars
  <2>7. QED
    BY <1>3, <2>4, <2>5, <2>6 DEF StepInv, GenerateCalls, approvalVars
<1>4. ASSUME NEW a \in Answers, BeginCall(a), NEW o \in Outcomes \ {"none"}, Return(o)
      PROVE  StepInv'
  <2>1. DInv' /\ answer' \in Answers
    BY <1>4, BeginCallRecords DEF BeginCall, Answers
  <2>2. AgentTypeOK' /\ LocalsOK' /\ DecidingOK' /\ ToolsNeedConsent'
    BY <1>4, <2>1, ReturnTypes DEF DInv, BeginCall
  <2>3. QED
    BY <1>4, <2>1, <2>2 DEF StepInv, BeginCall, approvalVars
<1>5. ASSUME NEW a \in Answers, BeginCall(a), Observe
      PROVE  StepInv' /\ pc' # "idle"
  <2>1. DInv' /\ answer' \in Answers
    BY <1>5, BeginCallRecords DEF BeginCall, Answers
  <2>2. /\ AgentTypeOK' /\ LocalsOK' /\ DecidingOK' /\ ToolsNeedConsent'
        /\ pc' \in {"calling", "returned"}
    BY <1>5, <2>1, ObserveTypes DEF DInv, BeginCall, StepInv, AgentTypeOK, approvalVars
  <2>3. QED
    BY <1>5, <2>1, <2>2 DEF StepInv, BeginCall, approvalVars
<1>6. CASE LoopFound
  BY <1>4, <1>6 DEF LoopFound, BeginCall, Return, Outcomes, Answers, approvalVars
<1>7. CASE CallControlTool
  <2>1. CASE Observe
    BY <1>5, <1>7, <2>1 DEF CallControlTool, BeginCall, Answers, approvalVars
  <2>2. CASE Return("final") \/ Return("hint") \/ Return("error")
    <3>1. PICK o \in Outcomes \ {"none"} : Return(o)
      BY <2>2 DEF Outcomes
    <3>2. QED
      BY <1>4, <1>7, <3>1 DEF CallControlTool, BeginCall, Return, Answers, approvalVars
  <2>3. QED
    BY <1>7, <2>1, <2>2 DEF CallControlTool
<1>8. CASE RefuseCall
  BY <1>5, <1>8 DEF RefuseCall, BeginCall, Answers, approvalVars
<1>9. CASE ExecuteUnasked \/ AllowedByPolicy \/ AskHandler
  <2>1. \E a \in Answers, l \in {"asking", "executing"} :
          /\ MayExecute(a) /\ Await(l)
          /\ l = "executing" => mode = "Allow" \/ allApproved \/ a = "Yes"
    BY <1>9 DEF ExecuteUnasked, AllowedByPolicy, AskHandler, Answers
  <2>2. QED
    BY <2>1, AwaitInv DEF MayExecute, BeginCall, approvalVars
<1>10. CASE Authorized
  <2>1. /\ pc = "asking" /\ pc' = "executing"
        /\ answer' \in {"Yes", "All"}
        /\ UNCHANGED <<mode, hasHandler, failures, detectorVars, step, response, at, outcome>>
    BY <1>10 DEF Authorized, Await
  <2>2. /\ policy' \in {"Allow", "Deny", "Ask"}
        /\ allApproved' \in BOOLEAN /\ saidAll' \in BOOLEAN
        /\ (allApproved => saidAll)'
    <3>1. CASE UNCHANGED <<policy, allApproved, saidAll>>
      BY <3>1 DEF StepInv, AgentTypeOK
    <3>2. CASE policy' = "Allow" /\ allApproved' = TRUE /\ saidAll' = TRUE
      BY <3>2
    <3>3. QED
      BY <1>10, <3>1, <3>2 DEF Authorized
  <2>3. DInv'
    BY <2>1, DStutterInv DEF StepInv
  <2>4. AgentTypeOK'
    BY <2>1, <2>2, <2>3 DEF StepInv, AgentTypeOK, DInv, Answers
  <2>5. LocalsOK' /\ DecidingOK' /\ ToolsNeedConsent'
    BY <2>1 DEF StepInv, LocalsOK, DecidingOK, Deciding, ToolsNeedConsent, Call, detectorVars
  <2>6. QED
    BY <2>1, <2>2, <2>3, <2>4, <2>5 DEF StepInv
<1>11. CASE Unauthorized
  <2>1. /\ pc = "asking" /\ at <= Len(response) /\ Observe
        /\ answer' \in Answers
        /\ UNCHANGED <<approvalVars, failures, detectorVars>>
    BY <1>11 DEF Unauthorized, StepInv, DecidingOK, Deciding, Answers
  <2>2. DInv'
    BY <2>1, DStutterInv DEF StepInv
  <2>3. /\ AgentTypeOK' /\ LocalsOK' /\ DecidingOK' /\ ToolsNeedConsent'
        /\ pc' \in {"calling", "returned"}
    BY <2>1, <2>2, ObserveTypes DEF DInv, StepInv, AgentTypeOK, approvalVars
  <2>4. QED
    BY <2>1, <2>2, <2>3 DEF StepInv, approvalVars
<1>12. CASE ExecuteOk \/ ExecuteFails
  <2>1. /\ pc = "executing" /\ at <= Len(response) /\ Observe
        /\ UNCHANGED <<approvalVars, answer, detectorVars>>
        /\ failures[ToolOf[Call]] < MaxConsecutiveFailures
        /\ Kind[Call] = "tool"
    BY <1>12 DEF ExecuteOk, ExecuteFails, StepInv, DecidingOK, Deciding
  <2>2. ToolOf[Call] \in Tools
    BY <2>1, CallIsACall DEF StepInv
  <2>3. failures' \in [Tools -> 0 .. MaxConsecutiveFailures]
    BY <1>12, <2>1, <2>2
       DEF ExecuteOk, ExecuteFails, StepInv, AgentTypeOK, MaxConsecutiveFailures
  <2>4. DInv'
    BY <2>1, DStutterInv DEF StepInv
  <2>5. /\ AgentTypeOK' /\ LocalsOK' /\ DecidingOK' /\ ToolsNeedConsent'
        /\ pc' \in {"calling", "returned"}
    BY <2>1, <2>3, <2>4, ObserveTypes DEF DInv, StepInv, AgentTypeOK, approvalVars
  <2>6. QED
    BY <2>1, <2>4, <2>5 DEF StepInv, approvalVars
<1>13. CASE EndOfCalls
  <2>1. DInv' /\ answer' \in Answers
    BY <1>13, DStutterInv DEF EndOfCalls, StepInv, AgentTypeOK
  <2>2. AgentTypeOK' /\ LocalsOK' /\ DecidingOK' /\ ToolsNeedConsent'
    BY <1>13, <2>1, ReturnTypes DEF DInv, EndOfCalls, Outcomes
  <2>3. QED
    BY <1>13, <2>1, <2>2 DEF StepInv, EndOfCalls, Return, approvalVars
<1>14. CASE DeniedByPolicy
  BY <1>5, <1>14 DEF DeniedByPolicy, MayExecute, BeginCall, approvalVars, Answers
<1>15. QED
  BY <1>2, <1>3, <1>6, <1>7, <1>8, <1>9, <1>10, <1>11, <1>12, <1>13, <1>14 DEF StepProceeds

-----------------------------------------------------------------------------
(* The agent between steps, and when something else of it changes. *)
LEMMA StartStepInv ==
  ASSUME StepInv, NEW n \in Steps, StartStep(n)
  PROVE  StepInv'
<1>1. DInv'
  BY DStutterInv DEF StepInv, StartStep
<1>2. AgentTypeOK'
  BY <1>1 DEF StepInv, AgentTypeOK, StartStep, DInv, approvalVars
<1>3. QED
  BY <1>1, <1>2 DEF StepInv, StartStep, LocalsOK, DecidingOK, Deciding,
                    ToolsNeedConsent, approvalVars

LEMMA NoStepInv ==
  ASSUME StepInv, NoStep, DInv', UNCHANGED <<approvalVars, failures>>
  PROVE  StepInv'
<1>1. AgentTypeOK'
  BY MaxCallsAssumption
     DEF StepInv, AgentTypeOK, NoStep, DInv, approvalVars, Outcomes, Answers
<1>2. QED
  BY <1>1 DEF StepInv, NoStep, LocalsOK, DecidingOK, Deciding, ToolsNeedConsent, approvalVars

(* Whoever sets the handler, the mode or the policy leaves a step alone.   *)
LEMMA ReconfigureInv ==
  ASSUME StepInv, UNCHANGED <<allApproved, saidAll, failures, stepVars, detectorVars>>,
         mode' \in AuthorizationMode, hasHandler' \in BOOLEAN,
         policy' \in {"Allow", "Deny", "Ask"},
         pc = "executing" => mode' = mode
  PROVE  StepInv'
<1>1. DInv'
  BY DStutterInv DEF StepInv
<1>2. AgentTypeOK'
  BY <1>1 DEF StepInv, AgentTypeOK, DInv, stepVars
<1>3. QED
  BY <1>1, <1>2 DEF StepInv, LocalsOK, DecidingOK, Deciding, ToolsNeedConsent,
                    Call, stepVars, detectorVars

LEMMA AgentStutterInv ==
  ASSUME StepInv, UNCHANGED agentVars
  PROVE  StepInv'
BY ReconfigureInv DEF StepInv, AgentTypeOK, agentVars, approvalVars

-----------------------------------------------------------------------------
(* The line of sessions that wait for the mutex: who joins it, is served   *)
(* or goes away leaves the others where they are.                          *)
LEMMA LineJoined ==
  ASSUME NEW q \in Seq(Sessions), NEW s \in Sessions, Distinct(q), ~InLine(q, s)
  PROVE  /\ Append(q, s) \in Seq(Sessions)
         /\ Distinct(Append(q, s))
         /\ \A w \in Sessions : InLine(Append(q, s), w) <=> InLine(q, w) \/ w = s
<1> DEFINE a == Append(q, s)
<1>1. /\ a \in Seq(Sessions) /\ Len(a) = Len(q) + 1
      /\ a[Len(q) + 1] = s
      /\ \A i \in 1 .. Len(q) : a[i] = q[i]
  OBVIOUS
<1>2. DOMAIN a = 1 .. Len(q) + 1 /\ DOMAIN q = 1 .. Len(q) /\ Len(q) \in Nat
  BY <1>1
<1> HIDE DEF a
<1>3. Distinct(a)
  BY <1>1, <1>2 DEF Distinct, InLine
<1>4. \A w \in Sessions : InLine(a, w) <=> InLine(q, w) \/ w = s
  BY <1>1, <1>2 DEF InLine
<1>5. QED
  BY <1>1, <1>3, <1>4 DEF a

LEMMA LineServed ==
  ASSUME NEW q \in Seq(Sessions), q # <<>>, Distinct(q)
  PROVE  /\ Tail(q) \in Seq(Sessions)
         /\ Distinct(Tail(q))
         /\ InLine(q, Head(q))
         /\ \A w \in Sessions : InLine(Tail(q), w) <=> InLine(q, w) /\ w # Head(q)
<1> DEFINE t == Tail(q)
<1>1. /\ t \in Seq(Sessions) /\ Len(t) = Len(q) - 1 /\ Len(q) \in Nat \ {0}
      /\ Head(q) = q[1]
      /\ \A i \in 1 .. Len(q) - 1 : t[i] = q[i + 1]
  OBVIOUS
<1>2. DOMAIN t = 1 .. Len(q) - 1 /\ DOMAIN q = 1 .. Len(q)
  BY <1>1
<1> HIDE DEF t
<1>3. Distinct(t)
  <2> SUFFICES ASSUME NEW i \in DOMAIN t, NEW j \in DOMAIN t, t[i] = t[j] PROVE i = j
    BY DEF Distinct
  <2>1. i + 1 \in DOMAIN q /\ j + 1 \in DOMAIN q /\ q[i + 1] = q[j + 1]
    BY <1>1, <1>2
  <2>2. i + 1 = j + 1
    BY <2>1 DEF Distinct
  <2>3. QED
    BY <1>1, <1>2, <2>2
<1>4. ASSUME NEW w \in Sessions
      PROVE  InLine(t, w) <=> InLine(q, w) /\ w # Head(q)
  <2>1. InLine(t, w) => InLine(q, w) /\ w # Head(q)
    BY <1>1, <1>2 DEF InLine, Distinct
  <2>2. ASSUME NEW i \in DOMAIN q, q[i] = w, w # Head(q)
        PROVE  InLine(t, w)
    <3>1. i - 1 \in DOMAIN t /\ t[i - 1] = w
      BY <1>1, <1>2, <2>2
    <3>2. QED
      BY <3>1 DEF InLine
  <2>3. QED
    BY <2>1, <2>2 DEF InLine
<1>5. QED
  BY <1>1, <1>2, <1>3, <1>4 DEF t, InLine

LEMMA LineLeft ==
  ASSUME NEW q \in Seq(Sessions), NEW s \in Sessions, Distinct(q)
  PROVE  /\ Without(q, s) \in Seq(Sessions)
         /\ Distinct(Without(q, s))
         /\ \A w \in Sessions : InLine(Without(q, s), w) <=> InLine(q, w) /\ w # s
<1>1. CASE ~InLine(q, s)
  BY <1>1 DEF Without
<1>2. CASE InLine(q, s)
  <2> DEFINE k == CHOOSE i \in DOMAIN q : q[i] = s
             v == [i \in 1 .. Len(q) - 1 |-> IF i < k THEN q[i] ELSE q[i + 1]]
  <2>1. k \in DOMAIN q /\ q[k] = s
    BY <1>2 DEF InLine
  <2>2. Without(q, s) = v
    BY <1>2 DEF Without
  <2>3. DOMAIN q = 1 .. Len(q) /\ Len(q) \in Nat \ {0} /\ DOMAIN v = 1 .. Len(q) - 1
    BY <2>1
  <2>4. \A i \in 1 .. Len(q) - 1 : v[i] = (IF i < k THEN q[i] ELSE q[i + 1])
    OBVIOUS
  <2>5. v \in Seq(Sessions)
    BY <2>3
  <2> HIDE DEF k, v
  <2>6. Distinct(v)
    <3> DEFINE place(i) == IF i < k THEN i ELSE i + 1
    <3> SUFFICES ASSUME NEW i \in DOMAIN v, NEW j \in DOMAIN v, v[i] = v[j] PROVE i = j
      BY DEF Distinct
    <3>1. place(i) \in DOMAIN q /\ place(j) \in DOMAIN q /\ q[place(i)] = q[place(j)]
      BY <2>1, <2>3, <2>4
    <3>2. place(i) = place(j)
      <4> HIDE DEF place
      <4>1. QED
        BY <3>1 DEF Distinct
    <3>3. QED
      BY <2>1, <2>3, <3>2
  <2>7. ASSUME NEW w \in Sessions
        PROVE  InLine(v, w) <=> InLine(q, w) /\ w # s
    <3>1. InLine(v, w) => InLine(q, w) /\ w # s
      BY <2>1, <2>3, <2>4 DEF InLine, Distinct
    <3>2. ASSUME NEW i \in DOMAIN q, q[i] = w, w # s
          PROVE  InLine(v, w)
      <4>1. CASE i < k
        <5>1. i \in DOMAIN v /\ v[i] = w
          BY <2>1, <2>3, <2>4, <3>2, <4>1
        <5>2. QED
          BY <5>1 DEF InLine
      <4>2. CASE i > k
        <5>1. i - 1 \in DOMAIN v /\ v[i - 1] = w
          BY <2>1, <2>3, <2>4, <3>2, <4>2
        <5>2. QED
          BY <5>1 DEF InLine
      <4>3. QED
        BY <2>1, <2>3, <3>2, <4>1, <4>2
    <3>3. QED
      BY <3>1, <3>2 DEF InLine
  <2>8. QED
    BY <2>2, <2>5, <2>6, <2>7
<1>3. QED
  BY <1>1, <1>2

-----------------------------------------------------------------------------
(* What a session's place tells of its caller and of the agent.            *)
SessionOK(s) ==
  /\ phase[s] \in {"idle", "setup", "open"} => status[s] = "none"
  /\ phase[s] \in {"queued", "adding", "looping"} => status[s] = "started"
  /\ phase[s] = "ending" => status[s] \in {"finished", "failed"}
  /\ s \notin Direct /\ phase[s] \in {"open", "queued", "adding", "looping", "ending"}
       => mode = "Ask" /\ hasHandler

(* The inductive invariant of the handler. *)
HInv ==
  /\ StepInv
  /\ TypeOK
  /\ LockIsConsistent
  /\ \A s \in Sessions : SessionOK(s)

LEMMA InitHInv == Init => HInv
<1> SUFFICES ASSUME Init PROVE HInv
  OBVIOUS
<1>1. DInv
  BY DInitInv DEF Init, InitAgent
<1>2. AgentTypeOK
  <2>1. response \in Seq(Calls) /\ Len(response) <= MaxCalls /\ at \in 1 .. Len(response) + 1
    BY MaxCallsAssumption DEF Init, InitAgent
  <2>2. failures \in [Tools -> 0 .. MaxConsecutiveFailures]
    BY DEF Init, InitAgent, MaxConsecutiveFailures
  <2>3. QED
    BY <1>1, <2>1, <2>2 DEF DInv, Init, InitAgent, AgentTypeOK, Outcomes, Answers
<1>3. StepInv
  BY <1>1, <1>2 DEF Init, InitAgent, StepInv, LocalsOK, DecidingOK, Deciding, ToolsNeedConsent
<1>4. TypeOK
  BY <1>2, MaxStepsAssumption DEF Init, TypeOK, Phases, Statuses
<1>5. LockIsConsistent
  BY NobodyAssumption DEF Init, InitAgent, LockIsConsistent, Waiting, InLine, Distinct
<1>6. \A s \in Sessions : SessionOK(s)
  BY DEF Init, SessionOK
<1>7. QED
  BY <1>3, <1>4, <1>5, <1>6 DEF HInv

(* The session s moves to place p and its caller learns t; of the line and *)
(* the mutex, nothing changes for the others.                              *)
LEMMA MovedInv ==
  ASSUME HInv, StepInv', NEW s \in Sessions, NEW p \in Phases, NEW t \in Statuses,
         Move(s, p), Tell(s, t),
         queue' \in Seq(Sessions), Distinct(queue'),
         \A w \in Sessions \ {s} : InLine(queue', w) <=> InLine(queue, w),
         InLine(queue', s) <=> p \in {"setup", "queued"},
         owner' \in Sessions \cup {Nobody},
         \A w \in Sessions \ {s} : owner' = w <=> owner = w,
         owner' = s <=> p \in {"adding", "looping", "ending"},
         round' \in 0 .. MaxSteps,
         pc' # "idle" => owner' # Nobody /\ phase'[owner'] = "looping",
         mode = "Ask" /\ hasHandler => mode' = "Ask" /\ hasHandler',
         SessionOK(s)'
  PROVE  HInv'
<1>1. /\ phase \in [Sessions -> Phases] /\ status \in [Sessions -> Statuses]
      /\ phase' = [phase EXCEPT ![s] = p] /\ status' = [status EXCEPT ![s] = t]
  BY DEF HInv, TypeOK, Move, Tell
<1>2. TypeOK'
  BY <1>1 DEF StepInv, TypeOK
<1>3. LockIsConsistent'
  <2>1. ASSUME NEW w \in Sessions
        PROVE  /\ Waiting(w)' <=> InLine(queue', w)
               /\ phase'[w] \in {"adding", "looping", "ending"} <=> owner' = w
    <3>1. CASE w = s
      BY <1>1, <3>1 DEF Waiting
    <3>2. CASE w # s
      BY <1>1, <3>2 DEF HInv, LockIsConsistent, Waiting
    <3>3. QED
      BY <3>1, <3>2
  <2>2. QED
    BY <2>1 DEF LockIsConsistent, Distinct, InLine
<1>4. ASSUME NEW w \in Sessions
      PROVE  SessionOK(w)'
  <2>1. CASE w = s
    BY <2>1
  <2>2. CASE w # s
    BY <1>1, <2>2 DEF HInv, SessionOK
  <2>3. QED
    BY <2>1, <2>2
<1>5. QED
  BY <1>2, <1>3, <1>4 DEF HInv

(* The same, when the line and the mutex stay and the caller learns no more. *)
LEMMA SamePlaceInv ==
  ASSUME HInv, StepInv', UNCHANGED <<owner, queue, phase, status>>,
         round' \in 0 .. MaxSteps,
         pc' # "idle" => owner # Nobody /\ phase[owner] = "looping",
         mode = "Ask" /\ hasHandler => mode' = "Ask" /\ hasHandler'
  PROVE  HInv'
<1>1. TypeOK'
  BY DEF HInv, StepInv, TypeOK
<1>2. LockIsConsistent'
  BY DEF HInv, LockIsConsistent, Waiting, InLine, Distinct
<1>3. \A s \in Sessions : SessionOK(s)'
  BY DEF HInv, SessionOK
<1>4. QED
  BY <1>1, <1>2, <1>3 DEF HInv

LEMMA SessionFacts ==
  ASSUME HInv, NEW s \in Sessions
  PROVE  /\ phase[s] \in Phases /\ status[s] \in Statuses
         /\ queue \in Seq(Sessions) /\ Distinct(queue)
         /\ owner \in Sessions \cup {Nobody} /\ round \in 0 .. MaxSteps
         /\ phase[s] \in {"setup", "queued"} <=> InLine(queue, s)
         /\ phase[s] \in {"adding", "looping", "ending"} <=> owner = s
         /\ (owner = Nobody \/ phase[owner] # "looping") => pc = "idle"
         /\ SessionOK(s)
BY DEF HInv, TypeOK, LockIsConsistent, Waiting

(* A session that stays or moves on with nothing new to tell. *)
LEMMA SilentTell ==
  ASSUME HInv, NEW s \in Sessions, UNCHANGED status
  PROVE  Tell(s, status[s])
BY DEF HInv, TypeOK, Tell

(* A session joins the line. *)
LEMMA JoinInv ==
  ASSUME HInv, NEW s \in Sessions, NEW p \in {"setup", "queued"}, NEW t \in Statuses,
         phase[s] \in {"idle", "open"}, Move(s, p), Tell(s, t),
         queue' = Append(queue, s), UNCHANGED <<agentVars, owner, round>>,
         SessionOK(s)'
  PROVE  HInv'
<1>1. StepInv'
  BY AgentStutterInv DEF HInv
<1>2. /\ queue' \in Seq(Sessions) /\ Distinct(queue')
      /\ \A w \in Sessions : InLine(queue', w) <=> InLine(queue, w) \/ w = s
  BY SessionFacts, LineJoined
<1>3. UNCHANGED <<pc, mode, hasHandler>>
  BY DEF agentVars, approvalVars, stepVars
<1>4. owner # s
  BY SessionFacts
<1>5. pc' # "idle" => owner' # Nobody /\ phase'[owner'] = "looping"
  BY <1>3, <1>4 DEF HInv, TypeOK, LockIsConsistent, Move
<1>6. QED
  BY <1>1, <1>2, <1>3, <1>4, <1>5, SessionFacts, MovedInv DEF Phases

(* The first in line takes the mutex; p says whether it keeps it. *)
LEMMA LockInv ==
  ASSUME HInv, StepInv', NEW s \in Sessions, NEW p \in {"open", "adding"},
         phase[s] \in {"setup", "queued"}, Lock(s), Move(s, p), UNCHANGED <<pc, status>>,
         owner' = IF p = "adding" THEN s ELSE owner,
         round' \in 0 .. MaxSteps,
         mode = "Ask" /\ hasHandler => mode' = "Ask" /\ hasHandler',
         SessionOK(s)'
  PROVE  HInv'
<1>1. /\ queue' \in Seq(Sessions) /\ Distinct(queue')
      /\ \A w \in Sessions : InLine(queue', w) <=> InLine(queue, w) /\ w # s
  BY SessionFacts, LineServed DEF Lock
<1>2. pc' = "idle"
  BY SessionFacts DEF Lock
<1>3. owner = Nobody /\ Nobody # s
  BY NobodyAssumption DEF Lock
<1>4. QED
  BY <1>1, <1>2, <1>3, NobodyAssumption, SessionFacts, SilentTell, MovedInv DEF Phases

(* The last event, told by the session that has the agent. *)
LEMMA EndInv ==
  ASSUME HInv, StepInv', NEW s \in Sessions, NEW t \in {"finished", "failed"},
         phase[s] \in {"adding", "looping"}, End(s, t), pc' = "idle",
         UNCHANGED <<mode, hasHandler>>
  PROVE  HInv'
<1>1. Move(s, "ending") /\ Tell(s, t) /\ UNCHANGED <<owner, queue, round>>
  BY DEF End
<1>2. owner = s
  BY SessionFacts
<1>3. SessionOK(s)'
  <2>1. phase'[s] = "ending" /\ status'[s] = t
    BY <1>1 DEF HInv, TypeOK, Move, Tell
  <2>2. QED
    BY <2>1, SessionFacts DEF SessionOK
<1>4. QED
  BY <1>1, <1>2, <1>3, SessionFacts, MovedInv DEF Phases, Statuses

-----------------------------------------------------------------------------
(* Every step of the sessions, the agent and the operator preserves it. *)
LEMMA NextHInv == HInv /\ [Next]_vars => HInv'
<1> SUFFICES ASSUME HInv, [Next]_vars PROVE HInv'
  OBVIOUS
<1>0. StepInv /\ phase \in [Sessions -> Phases] /\ status \in [Sessions -> Statuses]
  BY DEF HInv, TypeOK
<1>1. ASSUME NEW s \in Sessions, HandleInput(s) PROVE HInv'
  <2>1. SessionOK(s)'
    BY <1>0, <1>1, SessionFacts DEF HandleInput, Move, SessionOK
  <2>2. Tell(s, status[s]) /\ status[s] \in Statuses
    BY <1>0, <1>1, SilentTell DEF HandleInput
  <2>3. QED
    BY <1>1, <2>1, <2>2, JoinInv DEF HandleInput
<1>2. ASSUME NEW s \in Sessions, RunTaskDirectly(s) PROVE HInv'
  <2>1. SessionOK(s)'
    BY <1>0, <1>2 DEF RunTaskDirectly, Move, Tell, SessionOK
  <2>2. QED
    BY <1>2, <2>1, JoinInv DEF RunTaskDirectly, Statuses
<1>3. ASSUME NEW s \in Sessions, StartStream(s) PROVE HInv'
  <2>1. UNCHANGED <<mode, hasHandler>>
    BY <1>3 DEF StartStream, agentVars, approvalVars
  <2>2. SessionOK(s)'
    BY <1>0, <1>3, <2>1, SessionFacts DEF StartStream, Move, Tell, SessionOK
  <2>3. QED
    BY <1>3, <2>2, JoinInv DEF StartStream, Statuses
<1>4. ASSUME NEW s \in Sessions, SetupAgentAuthorization(s) PROVE HInv'
  <2>1. pc = "idle"
    BY <1>4, SessionFacts DEF SetupAgentAuthorization, Lock
  <2>2. StepInv'
    BY <1>0, <1>4, <2>1, ReconfigureInv
       DEF SetupAgentAuthorization, AuthorizationMode, StepInv, AgentTypeOK
  <2>3. SessionOK(s)'
    BY <1>0, <1>4, SessionFacts DEF SetupAgentAuthorization, Move, SessionOK
  <2>4. QED
    BY <1>4, <2>2, <2>3, SessionFacts, LockInv DEF SetupAgentAuthorization, stepVars
<1>5. ASSUME NEW s \in Sessions, TakeAgent(s) PROVE HInv'
  <2>1. StepInv'
    BY <1>0, <1>5, AgentStutterInv DEF TakeAgent
  <2>2. UNCHANGED <<pc, mode, hasHandler>>
    BY <1>5 DEF TakeAgent, agentVars, approvalVars, stepVars
  <2>3. SessionOK(s)'
    BY <1>0, <1>5, <2>2, SessionFacts DEF TakeAgent, Move, SessionOK
  <2>4. round' \in 0 .. MaxSteps
    BY <1>5, MaxStepsAssumption DEF TakeAgent
  <2>5. QED
    BY <1>5, <2>1, <2>2, <2>3, <2>4, LockInv DEF TakeAgent
<1>6. ASSUME NEW s \in Sessions, AddTask(s) PROVE HInv'
  <2>1. StepInv'
    BY <1>0, <1>6, AgentStutterInv DEF AddTask
  <2>2. UNCHANGED <<pc, mode, hasHandler>> /\ pc = "idle" /\ owner = s
    BY <1>6, SessionFacts DEF AddTask, agentVars, approvalVars, stepVars
  <2>3. CASE End(s, "failed")
    BY <1>6, <2>1, <2>2, <2>3, EndInv DEF AddTask
  <2>4. CASE Move(s, "looping") /\ UNCHANGED <<owner, queue, status, round>>
    <3>1. SessionOK(s)'
      BY <1>0, <1>6, <2>2, <2>4, SessionFacts DEF AddTask, Move, SessionOK
    <3>2. QED
      BY <1>6, <2>1, <2>2, <2>4, <3>1, SessionFacts, SilentTell, MovedInv DEF AddTask, Phases
  <2>5. QED
    BY <1>6, <2>3, <2>4 DEF AddTask
<1>7. ASSUME NEW s \in Sessions, NextStep(s) PROVE HInv'
  <2>1. owner = s /\ s # Nobody
    BY <1>7, SessionFacts, NobodyAssumption DEF NextStep
  <2>2. round \in Steps /\ round + 1 \in 0 .. MaxSteps
    BY <1>7, SessionFacts, MaxStepsAssumption DEF NextStep
  <2>3. StepInv'
    BY <1>0, <1>7, <2>2, StartStepInv DEF NextStep
  <2>4. QED
    BY <1>7, <2>1, <2>2, <2>3, SamePlaceInv DEF NextStep, StartStep, approvalVars
<1>8. ASSUME NEW s \in Sessions, StepsExhausted(s) PROVE HInv'
  <2>1. StepInv'
    BY <1>0, <1>8, AgentStutterInv DEF StepsExhausted
  <2>2. UNCHANGED <<pc, mode, hasHandler>>
    BY <1>8 DEF StepsExhausted, agentVars, approvalVars, stepVars
  <2>3. QED
    BY <1>8, <2>1, <2>2, EndInv DEF StepsExhausted
<1>9. ASSUME NEW s \in Sessions,
             ContinueAfterStep(s) \/ RecoverFromLoop(s) PROVE HInv'
  <2>1. /\ NoStep /\ UNCHANGED <<approvalVars, failures, sessionVars>>
        /\ Clear \/ UNCHANGED detectorVars
    BY <1>9 DEF ContinueAfterStep, RecoverFromLoop
  <2>2. DInv'
    BY <1>0, <2>1, DClearInv, DStutterInv DEF StepInv
  <2>3. StepInv'
    BY <1>0, <2>1, <2>2, NoStepInv
  <2>4. QED
    BY <2>1, <2>3, SessionFacts, SamePlaceInv DEF sessionVars, approvalVars, NoStep, HInv, TypeOK
<1>10. ASSUME NEW s \in Sessions, FinishAfterStep(s) \/ FailAfterStep(s) PROVE HInv'
  <2>1. /\ NoStep /\ UNCHANGED <<approvalVars, failures, detectorVars>>
        /\ phase[s] = "looping"
        /\ \E t \in {"finished", "failed"} : End(s, t)
    BY <1>10 DEF FinishAfterStep, FailAfterStep, StepReturned
  <2>2. DInv'
    BY <1>0, <2>1, DStutterInv DEF StepInv
  <2>3. StepInv'
    BY <1>0, <2>1, <2>2, NoStepInv
  <2>4. QED
    BY <2>1, <2>3, EndInv DEF NoStep, approvalVars
<1>11. ASSUME NEW s \in Sessions, ReleaseAgent(s) PROVE HInv'
  <2>1. StepInv'
    BY <1>0, <1>11, AgentStutterInv DEF ReleaseAgent
  <2>2. UNCHANGED <<pc, mode, hasHandler>> /\ owner = s /\ pc = "idle"
    BY <1>11, SessionFacts DEF ReleaseAgent, agentVars, approvalVars, stepVars
  <2>3. SessionOK(s)'
    BY <1>0, <1>11 DEF ReleaseAgent, Move, SessionOK
  <2>4. QED
    BY <1>11, <2>1, <2>2, <2>3, SessionFacts, SilentTell, NobodyAssumption, MovedInv
       DEF ReleaseAgent, Phases
<1>12. ASSUME NEW s \in Sessions, Disconnect(s) PROVE HInv'
  <2>1. DInv'
    BY <1>0, <1>12, DStutterInv DEF Disconnect, StepInv
  <2>2. StepInv'
    <3>1. CASE owner = s
      BY <1>0, <1>12, <2>1, <3>1, NoStepInv DEF Disconnect
    <3>2. CASE owner # s
      BY <1>0, <1>12, <3>2, AgentStutterInv DEF Disconnect, agentVars
    <3>3. QED
      BY <3>1, <3>2
  <2>3. /\ queue' \in Seq(Sessions) /\ Distinct(queue')
        /\ \A w \in Sessions : InLine(queue', w) <=> InLine(queue, w) /\ w # s
    BY <1>12, SessionFacts, LineLeft DEF Disconnect
  <2>4. pc' # "idle" => owner' # Nobody /\ phase'[owner'] = "looping"
    <3>1. CASE owner = s
      BY <1>12, <3>1 DEF Disconnect, NoStep
    <3>2. CASE owner # s
      BY <1>0, <1>12, <3>2 DEF Disconnect, Move, stepVars, HInv, TypeOK, LockIsConsistent
    <3>3. QED
      BY <3>1, <3>2
  <2>5. /\ owner' \in Sessions \cup {Nobody} /\ owner' # s
        /\ \A w \in Sessions \ {s} : owner' = w <=> owner = w
    BY <1>12, SessionFacts, NobodyAssumption DEF Disconnect
  <2>6. SessionOK(s)'
    BY <1>0, <1>12 DEF Disconnect, Move, SessionOK
  <2>7. /\ Move(s, "closed") /\ UNCHANGED <<round, status, mode, hasHandler>>
    BY <1>12 DEF Disconnect, approvalVars
  <2>8. QED
    BY <2>2, <2>3, <2>4, <2>5, <2>6, <2>7, SessionFacts, SilentTell, MovedInv DEF Phases
<1>13. CASE RunStep
  <2>1. /\ StepInv' /\ UNCHANGED <<mode, hasHandler>>
        /\ pc # "idle"
    BY <1>0, <1>13, StepProceedsInv DEF RunStep
  <2>2. owner # Nobody /\ phase[owner] = "looping" /\ round \in 0 .. MaxSteps
    BY <2>1 DEF HInv, LockIsConsistent, TypeOK
  <2>3. QED
    BY <1>13, <2>1, <2>2, SamePlaceInv DEF RunStep, sessionVars
<1>14. CASE SetPolicy
  <2>1. StepInv'
    BY <1>0, <1>14, ReconfigureInv DEF SetPolicy, StepInv, AgentTypeOK
  <2>2. QED
    BY <1>14, <2>1, SamePlaceInv DEF SetPolicy, sessionVars, stepVars, HInv, TypeOK, LockIsConsistent
<1>15. CASE UNCHANGED vars
  <2>1. StepInv'
    BY <1>0, <1>15, AgentStutterInv DEF vars
  <2>2. QED
    BY <1>15, <2>1, SamePlaceInv
       DEF vars, sessionVars, agentVars, approvalVars, stepVars, HInv, TypeOK, LockIsConsistent
<1>16. QED
  BY <1>1, <1>2, <1>3, <1>4, <1>5, <1>6, <1>7, <1>8, <1>9, <1>10, <1>11, <1>12, <1>13,
     <1>14, <1>15 DEF Next, SessionStep

LEMMA HandlerInductive == Spec => []HInv
BY InitHInv, NextHInv, PTL DEF Spec

-----------------------------------------------------------------------------
(* The variables of the handler and its agent keep their types; the        *)
(* failure counters of run_step never pass the breaker's limit.            *)
THEOREM HandlerTypeCorrect == Spec => []TypeOK
<1>1. HInv => TypeOK
  BY DEF HInv
<1>2. QED
  BY <1>1, HandlerInductive, PTL

(* execute_generic_tool: the breaker it checked is still closed when,      *)
(* after two awaits, the tool runs.                                        *)
THEOREM BreakerHolds == Spec => []BreakerStaysClosed
<1>1. HInv => BreakerStaysClosed
  BY DEF HInv, StepInv, DecidingOK, BreakerStaysClosed
<1>2. QED
  BY <1>1, HandlerInductive, PTL

(* execute_tool with the loop detector: no call is executed that the       *)
(* window holds ExactThreshold times, across steps, runs and recoveries.   *)
THEOREM LoopsAreCut == Spec => []RepeatsAreBounded
<1>1. ASSUME HInv PROVE RepeatsAreBounded
  <2> SUFFICES ASSUME Deciding PROVE RepeatsAreBounded
    BY DEF RepeatsAreBounded
  <2>1. /\ pattern = "NoLoop" /\ callHistory # <<>>
        /\ callHistory[Len(callHistory)] = [call |-> Call, step |-> step]
    BY <1>1 DEF HInv, StepInv, DecidingOK
  <2>2. ~(Occurrences(callHistory, Call) >= ExactThreshold)
    BY <1>1, <2>1 DEF HInv, StepInv, DInv, ExactLoopMeansRepeated
  <2>3. Occurrences(callHistory, Call) \in Nat
    BY <1>1, PlacesFinite DEF HInv, StepInv, DInv, DetectorTypeOK
  <2>4. QED
    BY <2>1, <2>2, <2>3, ThresholdAssumption DEF RepeatsAreBounded
<1>2. QED
  BY <1>1, HandlerInductive, PTL

(* check_tool_authorization: no refusal, failed request or missing handler *)
(* lets a tool run in Ask mode.                                            *)
THEOREM ConsentComesFirst == Spec => []ToolsNeedConsent
<1>1. HInv => ToolsNeedConsent
  BY DEF HInv, StepInv
<1>2. QED
  BY <1>1, HandlerInductive, PTL

(* The mutex of the agent, its line and the sessions agree, whoever        *)
(* disconnects when, and no step runs without its session.                 *)
THEOREM LockAgrees == Spec => []LockIsConsistent
<1>1. HInv => LockIsConsistent
  BY DEF HInv
<1>2. QED
  BY <1>1, HandlerInductive, PTL

(* setup_agent_authorization: what a stream set in its first critical      *)
(* section still holds in its second, whichever runs came in between.      *)
THEOREM SetupHolds == Spec => []StreamsAreSetUp
<1>1. ASSUME HInv PROVE StreamsAreSetUp
  <2> SUFFICES ASSUME owner # Nobody, owner \notin Direct PROVE mode = "Ask" /\ hasHandler
    BY DEF StreamsAreSetUp
  <2>1. owner \in Sessions
    BY <1>1 DEF HInv, TypeOK
  <2>2. QED
    BY <1>1, <2>1, SessionFacts DEF SessionOK
<1>2. QED
  BY <1>1, HandlerInductive, PTL

-----------------------------------------------------------------------------
(* Every step of the handler is a step of RunProtocol, or stutters there. *)
LEMMA StepFollowsProtocol == HInv /\ [Next]_vars => [Protocol!Next]_(Protocol!vars)
<1> SUFFICES ASSUME HInv, [Next]_vars PROVE [Protocol!Next]_(Protocol!vars)
  OBVIOUS
<1> USE DEF Protocol!vars
<1>0. status \in [Sessions -> Statuses] /\ phase \in [Sessions -> Phases]
  BY DEF HInv, TypeOK
<1>1. ASSUME NEW s \in Sessions,
             HandleInput(s) \/ SetupAgentAuthorization(s) \/ NextStep(s)
               \/ ContinueAfterStep(s) \/ RecoverFromLoop(s)
      PROVE  UNCHANGED Protocol!vars
  BY <1>1 DEF HandleInput, SetupAgentAuthorization, NextStep, ContinueAfterStep,
              RecoverFromLoop, sessionVars
<1>2. ASSUME NEW s \in Sessions, RunTaskDirectly(s) \/ StartStream(s)
      PROVE  Protocol!Start(s)
  <2>1. status[s] = "none"
    BY <1>2, SessionFacts DEF RunTaskDirectly, StartStream, SessionOK
  <2>2. QED
    BY <1>2, <2>1 DEF RunTaskDirectly, StartStream, Tell, Protocol!Start
<1>3. ASSUME NEW s \in Sessions, TakeAgent(s)
      PROVE  Protocol!Begin(s)
  BY <1>3, SessionFacts DEF TakeAgent, Lock, SessionOK, Protocol!Begin
<1>4. ASSUME NEW s \in Sessions, NEW t \in {"finished", "failed"}, End(s, t),
             phase[s] \in {"adding", "looping"}
      PROVE  Protocol!Tell(s)
  BY <1>4, SessionFacts DEF End, Tell, SessionOK, Protocol!Tell
<1>5. ASSUME NEW s \in Sessions, AddTask(s)
      PROVE  Protocol!Tell(s) \/ UNCHANGED Protocol!vars
  BY <1>4, <1>5 DEF AddTask
<1>6. ASSUME NEW s \in Sessions, StepsExhausted(s) \/ FinishAfterStep(s) \/ FailAfterStep(s)
      PROVE  Protocol!Tell(s)
  <2>1. /\ phase[s] = "looping"
        /\ \E t \in {"finished", "failed"} : End(s, t)
    BY <1>6 DEF StepsExhausted, FinishAfterStep, FailAfterStep, StepReturned
  <2>2. QED
    BY <1>4, <2>1
<1>7. ASSUME NEW s \in Sessions, ReleaseAgent(s) \/ (Disconnect(s) /\ owner = s)
      PROVE  Protocol!Leave(s)
  BY <1>7, SessionFacts DEF ReleaseAgent, Disconnect, Protocol!Leave
<1>8. ASSUME NEW s \in Sessions, Disconnect(s), owner # s
      PROVE  UNCHANGED Protocol!vars
  BY <1>8 DEF Disconnect
<1>9. CASE RunStep \/ SetPolicy \/ UNCHANGED vars
  BY <1>9 DEF RunStep, SetPolicy, vars, sessionVars
<1>10. QED
  BY <1>1, <1>2, <1>3, <1>5, <1>6, <1>7, <1>8, <1>9 DEF Next, SessionStep, Protocol!Next

(* handle_input implements RunProtocol: each run is started once, has the  *)
(* agent to itself, and tells its caller once how it ended.                *)
THEOREM HandlerImplementsProtocol == Spec => ImplementsRunProtocol
<1>1. Init => Protocol!Init
  BY DEF Init, Protocol!Init
<1>2. QED
  BY <1>1, StepFollowsProtocol, HandlerInductive, PTL DEF Spec, ImplementsRunProtocol, Protocol!Spec
=============================================================================
