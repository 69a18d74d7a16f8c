------------------------------ MODULE LlmStack ------------------------------
(***************************************************************************)
(* The client create_llm_with_config builds (llm/utils.rs):                *)
(* ContextTruncatingLLM around AutoRecoveryLLM around a provider.          *)
(*                                                                         *)
(* One call of generate is a loop of two levels.  The outer one shortens   *)
(* the list when the inner one failed on a limit.  The inner one validates *)
(* it, and on an error of the provider tries other lists: repaired ones    *)
(* after a 400, poorer and poorer ones after anything else.                *)
(***************************************************************************)
EXTENDS Messages

CONSTANTS
  MaxRetries,        \* ContextTruncatingLLM.max_retries
  MinMessages        \* ContextTruncatingLLM.min_messages

ASSUME MaxRetriesAssumption == MaxRetries \in Nat
ASSUME MinMessagesAssumption == MinMessages \in Nat \ {0}

VARIABLES
  provider,   \* the configured one
  call        \* the call of generate under way

RecoveryRetries   == 3    \* AutoRecoveryLLM.max_retries
TruncationRatio   == 3    \* tenths
MaxTruncation     == 8

(* What the text of an error lets the two loops see: a rate limit, a 400   *)
(* that names the context length, a 400 that names calls without response, *)
(* another 400, anything else.                                             *)
Errors        == {"limit", "context", "tools", "bad", "other"}
IsRecoverable400Error(e)      == e \in {"context", "tools", "bad"}
IsContextOrRateLimitError(e)  == e \in {"limit", "context"}

NoCall == [pc |-> "idle", asked |-> <<>>, current |-> <<>>, factor |-> 0,
           attempt |-> 0, validated |-> <<>>, recovery |-> 0, sent |-> <<>>,
           verdict |-> "none",
           tools |-> FALSE, withTools |-> FALSE, error |-> "none", missing |-> {}]

-----------------------------------------------------------------------------
(* ContextTruncatingLLM *)

CeilTenths(n) == (n + 9) \div 10

(* A variant with a bug, to test NewestIsSent: the oldest are kept.        *)
KeepOldest(rest, gone) ==
  IF gone >= Len(rest) THEN <<Last(rest)>> ELSE SubSeq(rest, 1, Len(rest) - gone)

KeepNewest(rest, gone) ==
  IF gone >= Len(rest) THEN <<Last(rest)>> ELSE SubSeq(rest, gone + 1, Len(rest))

(* A first system message is kept, and a notice follows it.                *)
TruncateMessages(ms, factor) ==
  LET head == IF HasRole(ms[1], {"System"}) THEN <<ms[1]>> ELSE <<>>
      rest == SubSeq(ms, Len(head) + 1, Len(ms))
      gone == CeilTenths(Len(rest) * factor)
  IN IF Len(ms) <= MinMessages THEN ms
     ELSE head \o <<Message("System", "notice", 0)>> \o KeepNewest(rest, gone)

-----------------------------------------------------------------------------
(* AutoRecoveryLLM *)

(* Where the tool messages that follow message i end.                      *)
RunEnd(ms, i) ==
  CHOOSE k \in i .. Len(ms) :
    /\ \A j \in i + 1 .. k : HasRole(ms[j], {"Tool"})
    /\ k = Len(ms) \/ ~HasRole(ms[k + 1], {"Tool"})

(* One made up response per message that calls a missing id.               *)
InsertMissing(ms, missing) ==
  LET FirstMissing(i) ==
        Sublist(ms[i].calls, {k \in DOMAIN ms[i].calls : ms[i].calls[k] \in missing})
      Ending(k) == {i \in 1 .. k : HasCalls(ms[i]) /\ FirstMissing(i) # <<>>
                                   /\ RunEnd(ms, i) = k}
  IN FlattenSeq([k \in DOMAIN ms |-> <<ms[k]>> \o
       (IF Ending(k) = {} THEN <<>>
        ELSE <<Synthetic(Head(FirstMissing(CHOOSE i \in Ending(k) : TRUE)))>>)])

RecoverFromToolCallsError(ms, missing) ==
  LET inserted == InsertMissing(ms, missing) IN ValidateAndFix(inserted)

AttemptRecovery(ms, e, missing) ==
  IF e = "tools" THEN RecoverFromToolCallsError(ms, missing) ELSE ValidateAndFix(ms)

WithoutTools(m) ==
  IF HasRole(m, {"Tool"}) THEN Message("System", m.body, m.n) ELSE [m EXCEPT !.calls = <<>>]

ProgressiveFallback(ms, k) ==
  CASE k = 1 -> [i \in DOMAIN ms |-> WithoutTools(ms[i])]
    [] k = 2 -> LET said == OfRoles(ms, {"User", "Assistant"})
                IN [i \in DOMAIN said |-> WithoutTools(said[i])]
    [] k = 3 -> LET asked == OfRoles(ms, {"User"})
                IN IF asked = <<>> THEN <<Message("User", "continue", 0)>>
                   ELSE <<Last(asked)>>

-----------------------------------------------------------------------------
Generate(ms, tools) ==
  call' = [NoCall EXCEPT !.pc = "attempt", !.asked = ms, !.current = ms,
                         !.factor = TruncationRatio, !.tools = tools]

(* One attempt of the outer loop, after its wait, up to the first request. *)
CallInner ==
  /\ call.pc = "attempt"
  /\ \E validated \in {ValidateAndFix(call.current)} :
       call' = [call EXCEPT !.pc = "sent", !.validated = validated,
                  !.sent = validated, !.verdict = Verdict(Wire(provider, validated)),
                  !.withTools = call.tools, !.recovery = 0]
  /\ UNCHANGED provider

ProviderAnswers ==
  /\ call.pc = "sent"
  /\ call.verdict = "fine"
  /\ call' = [call EXCEPT !.pc = "answered"]
  /\ UNCHANGED provider

(* The errors a provider may answer the request with, and the ids that     *)
(* extract_missing_tool_call_ids finds in the text: the first that the     *)
(* provider names, or none when the text has a quote after the id.         *)
MayFail(e, missing) ==
  /\ call.pc = "sent"
  /\ e = "bad"   => call.verdict # "fine"
  /\ e = "tools" => call.verdict = "tools"
  /\ missing # {} => e = "tools" /\ \A id \in missing :
                       \E i \in DOMAIN call.sent : id \in CallIds(call.sent[i])

(* A variant with a bug, to test EveryGenerateEnds: an error of another    *)
(* kind starts the recovery over.                                          *)
RetryRestarting(e, missing) ==
  LET k == IF e = call.error THEN call.recovery + 1 ELSE 1
  IN /\ call.recovery < RecoveryRetries
     /\ \E ms \in {IF IsRecoverable400Error(e)
                   THEN AttemptRecovery(call.validated, e, missing)
                   ELSE ProgressiveFallback(call.validated, k)} :
          call' = [call EXCEPT
            !.recovery = k, !.error = e, !.missing = missing,
            !.sent = ms, !.verdict = Verdict(Wire(provider, ms)),
            !.withTools = call.tools /\ IsRecoverable400Error(e)]

(* Each retry starts from the validated list and the first error.          *)
Retry(e, missing) ==
  LET first == IF call.recovery = 0 THEN e ELSE call.error
      ids   == IF call.recovery = 0 THEN missing ELSE call.missing
      k     == call.recovery + 1
  IN /\ call.recovery < RecoveryRetries
     /\ \E ms \in {IF IsRecoverable400Error(first)
                   THEN AttemptRecovery(call.validated, first, ids)
                   ELSE ProgressiveFallback(call.validated, k)} :
          call' = [call EXCEPT
            !.recovery = k, !.error = first, !.missing = ids,
            !.sent = ms, !.verdict = Verdict(Wire(provider, ms)),
            !.withTools = call.tools /\ IsRecoverable400Error(first)]

(* The last error decides whether the list is shortened.  The summaries of *)
(* large tool messages, one request each, change only their text.          *)
Truncate(e) ==
  LET shorter == TruncateMessages(call.current, call.factor)
  IN /\ call.recovery = RecoveryRetries
     /\ IsContextOrRateLimitError(e) /\ call.attempt < MaxRetries
     /\ call' = IF Len(shorter) <= MinMessages
                THEN [call EXCEPT !.pc = "failed"]
                ELSE [call EXCEPT !.pc = "attempt", !.current = shorter,
                        !.attempt = @ + 1,
                        !.factor = IF @ < MaxTruncation THEN @ + 1 ELSE @]

GiveUp(e) ==
  /\ call.recovery = RecoveryRetries
  /\ IsContextOrRateLimitError(e) => call.attempt = MaxRetries
  /\ call' = [call EXCEPT !.pc = "failed"]

ProviderFails ==
  /\ \E e \in Errors, missing \in {{}} \cup {{id} : id \in Ids} :
       /\ MayFail(e, missing)
       /\ Retry(e, missing) \/ Truncate(e) \/ GiveUp(e)
  /\ UNCHANGED provider

LlmStep == CallInner \/ ProviderAnswers \/ ProviderFails

-----------------------------------------------------------------------------
Numbers(ms) == Sublist([i \in DOMAIN ms |-> ms[i].n], {i \in DOMAIN ms : ms[i].n # 0})

(* What the validator returns has nothing left to fix, whatever list it    *)
(* was given: the repairs of one issue do not make another.                *)
ValidatedIsValid ==
  call.pc = "sent" /\ call.recovery = 0 => Issues(call.sent) = {}

(* However often the list was shortened and repaired, the request ends     *)
(* with the newest message of the caller, until fallbacks begin.           *)
NewestIsSent ==
  /\ call.pc = "sent" /\ call.recovery = 0
  /\ Numbers(call.asked) # <<>>
  => /\ Numbers(call.sent) # <<>>
     /\ Last(Numbers(call.sent)) = Last(Numbers(call.asked))

(* Every call of generate comes to an end, whatever the provider answers:  *)
(* the two loops are bounded and a step of one does not restart the other. *)
EveryGenerateEnds == call.pc = "attempt" ~> call.pc \in {"idle", "answered", "failed"}
=============================================================================
