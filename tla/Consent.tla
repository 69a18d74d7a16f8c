------------------------------ MODULE Consent ------------------------------
(***************************************************************************)
(* What tool authorization promises, without saying how: every request to  *)
(* run a tool gets at most one answer from a person and at most one        *)
(* verdict; a verdict that lets the tool run comes from an answer given to *)
(* that request or from a policy that lets every tool run.                 *)
(*                                                                         *)
(* ToolAuthorization.tla, the handler with its map of pending entries,     *)
(* one-shot channels, timeouts and clean-ups, implements this module.      *)
(***************************************************************************)

CONSTANT Requests    \* the calls of request_authorization

VARIABLES
  policy,    \* what is to be done with a request nobody was asked about
  answer,    \* per request, the answer that reached it, or "none"
  verdict    \* per request, what it was told, or "none"

vars == <<policy, answer, verdict>>

Policies == {"Allow", "Deny", "Ask"}
Answers  == {"Yes", "No", "All"}
Verdicts == Answers \cup {"Err"}

Init ==
  /\ policy  = "Ask"
  /\ answer  = [r \in Requests |-> "none"]
  /\ verdict = [r \in Requests |-> "none"]

(* The operator changes the policy. *)
SetPolicy ==
  /\ policy' \in Policies
  /\ UNCHANGED <<answer, verdict>>

(* A person answers an open request: once, and before its verdict. *)
Answer(r) ==
  /\ answer[r] = "none"
  /\ verdict[r] = "none"
  /\ \E a \in Answers : answer' = [answer EXCEPT ![r] = a]
  /\ UNCHANGED <<policy, verdict>>

(* Several expired requests may be answered "No" at once. *)
AnswerNo(R) ==
  /\ \A r \in R : answer[r] = "none" /\ verdict[r] = "none"
  /\ answer' = [r \in Requests |-> IF r \in R THEN "No" ELSE answer[r]]
  /\ UNCHANGED <<policy, verdict>>

(* The policy decides: nobody was asked. *)
DecideByPolicy(r) ==
  /\ verdict[r] = "none" /\ answer[r] = "none"
  /\ \/ policy = "Allow" /\ verdict' = [verdict EXCEPT ![r] = "Yes"]
     \/ policy = "Deny"  /\ verdict' = [verdict EXCEPT ![r] = "No"]
  /\ UNCHANGED <<policy, answer>>

(* The answer is the verdict; "All" also opens the policy for the future. *)
DecideByAnswer(r) ==
  /\ verdict[r] = "none" /\ answer[r] \in Answers
  /\ verdict' = [verdict EXCEPT ![r] = answer[r]]
  /\ policy'  = IF answer[r] = "All" THEN "Allow" ELSE policy
  /\ UNCHANGED answer

(* Nobody answered: the request is refused, or fails.  It is never granted. *)
DecideAlone(r) ==
  /\ verdict[r] = "none" /\ answer[r] = "none"
  /\ \E v \in {"No", "Err"} : verdict' = [verdict EXCEPT ![r] = v]
  /\ UNCHANGED <<policy, answer>>

Next ==
  \/ SetPolicy
  \/ \E R \in SUBSET Requests : AnswerNo(R)
  \/ \E r \in Requests :
       Answer(r) \/ DecideByPolicy(r) \/ DecideByAnswer(r) \/ DecideAlone(r)

Spec == Init /\ [][Next]_vars
=============================================================================
