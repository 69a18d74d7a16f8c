---------------------------- MODULE MCSideParts ----------------------------
(* Four parts of a server and its clients that share no state: the loop    *)
(* detector with a window of four calls over three calls, two of one tool  *)
(* and alike; the two authorization handlers with one id that comes back;  *)
(* and the poll loops of the client.  A behaviour is one of the four.      *)
EXTENDS LoopDetector, SseAuthorization, AuthorizationClient

CONSTANTS x, y, z, r1, r2, a, b
VARIABLE part

AllCalls   == {x, y, z}
AlikeCalls == {<<x, x>>, <<y, y>>, <<z, z>>, <<x, y>>, <<y, x>>}
SharedId   == [r \in Requests |-> a]

handlerVars == <<sseVars, clientLoopVars>>
partVars    == <<part, detectorVars, handlerVars>>

InitParts ==
  /\ part \in {"detector", "polling", "sse", "client"}
  /\ InitDetector /\ InitSse /\ InitClient

Within(name, step, others) == part = name /\ step /\ UNCHANGED <<part, others>>

NextPart ==
  \/ Within("detector", NextDetector, handlerVars)
  \/ Within("polling", Next, <<detectorVars, eventVars, clientLoopVars>>)
  \/ Within("sse", NextSse, <<detectorVars, clientLoopVars>>)
  \/ Within("client", NextClient, <<detectorVars, sseVars>>)

FairParts ==
  /\ \A r \in Requests :
       /\ WF_partVars(Within("polling", RequestStep(r), <<detectorVars, eventVars, clientLoopVars>>))
       /\ WF_partVars(Within("sse", SseRequestStep(r), <<detectorVars, clientLoopVars>>))
  /\ \A t \in Pollers :
       WF_partVars(Within("client", PollerStep(t), <<detectorVars, sseVars>>))

SpecParts == InitParts /\ [][NextPart]_partVars /\ FairParts

-----------------------------------------------------------------------------
Told(v) == IF part = "sse" THEN AsYes(v) ELSE v

Granting == INSTANCE Consent WITH
  policy  <- Policy(config),
  answer  <- [r \in Requests |-> Told(Answered[r])],
  verdict <- [r \in Requests |-> Told(result[r])]

(* Each handler keeps the promise of Consent.tla, an "All" to the SSE one  *)
(* being no more than a yes to one request, and every request returns: an  *)
(* answer that comes before its entry, after it, or to the entry of another*)
(* call with that id never makes a second verdict or a grant nobody gave,  *)
(* and keeps nobody waiting.                                               *)
HandlersKeepConsent == Granting!Spec /\ RequestReturns
=============================================================================
