---------------------- MODULE ToolAuthorization_proofs ----------------------
(***************************************************************************)
(* What holds of ToolAuthorization, of SseAuthorization and of             *)
(* AuthorizationClient for any number of requests, ids, clients and loops, *)
(* and for any assignment of ids to requests.                              *)
(***************************************************************************)
EXTENDS SseAuthorization, AuthorizationClient, TLAPS

(* Taking entries keeps the map and the channels well typed and in step,   *)
(* and gives a value only to a request whose entry was taken.              *)
LEMMA TakeEntriesLemma ==
  ASSUME TypeOK, SenderHeld, NEW ids, NEW a \in AuthorizationResponse \cup {"closed"},
         TakeEntries(ids, a)
  PROVE  /\ pending' \in [Ids -> Requests \cup {NoRequest}]
         /\ \A id \in Ids : pending'[id] \in Requests => IdOf[pending'[id]] = id
         /\ channel' \in [Requests -> Channel]
         /\ SenderHeld'
         /\ \A r \in Requests :
              IF channel[r] = "empty" /\ IdOf[r] \in ids
              THEN channel'[r] = IF Receiving(r) THEN a ELSE "closed"
              ELSE channel'[r] = channel[r]
<1> USE IdOfAssumption, NoRequestAssumption
<1>1. pending' \in [Ids -> Requests \cup {NoRequest}]
  BY DEF TypeOK, TakeEntries
<1>2. \A id \in Ids : pending'[id] \in Requests => IdOf[pending'[id]] = id
  BY DEF TypeOK, TakeEntries
<1>3. channel' \in [Requests -> Channel]
  BY DEF TypeOK, TakeEntries, Channel, AuthorizationResponse
<1>4. \A r \in Requests :
        IF channel[r] = "empty" /\ IdOf[r] \in ids
        THEN channel'[r] = IF Receiving(r) THEN a ELSE "closed"
        ELSE channel'[r] = channel[r]
  BY DEF TypeOK, TakeEntries, SenderHeld
<1>5. SenderHeld'
  BY <1>4 DEF TypeOK, TakeEntries, SenderHeld, AuthorizationResponse
<1>6. QED
  BY <1>1, <1>2, <1>3, <1>4, <1>5

(* The initial state satisfies the inductive invariant. *)
LEMMA InitIInv == Init => IInv
BY IdOfAssumption, NoRequestAssumption
   DEF Init, IInv, TypeOK, SenderHeld, Phase, NeverClosed, Receiving, Channel, Pc,
       AuthorizationConfig, ToolAuthorizationMode, AuthorizationResponse, DefaultConfig

(* Every step of the handler, its clients and its operators preserves it. *)
LEMMA NextIInv == IInv /\ [Next]_vars => IInv'
<1> SUFFICES ASSUME IInv, [Next]_vars PROVE IInv'
  OBVIOUS
<1> USE IdOfAssumption, NoRequestAssumption
<1> USE DEF IInv, Channel, Pc, AuthorizationConfig, ToolAuthorizationMode,
            AuthorizationResponse, serverVars, requestVars, clientVars
<1>1. ASSUME NEW r \in Requests, DecideByConfig(r) PROVE IInv'
  BY <1>1 DEF DecideByConfig, Return, TypeOK, SenderHeld, Phase, NeverClosed, Receiving, UniqueIds
<1>2. ASSUME NEW r \in Requests, DecideToAsk(r) PROVE IInv'
  BY <1>2 DEF DecideToAsk, Goto, TypeOK, SenderHeld, Phase, NeverClosed, Receiving, UniqueIds
<1>3. ASSUME NEW r \in Requests, Register(r) PROVE IInv'
  <2>1. TypeOK'
    BY <1>3 DEF Register, Goto, TypeOK
  <2>2. SenderHeld'
    BY <1>3 DEF Register, Goto, TypeOK, SenderHeld, Phase
  <2>3. \A s \in Requests : Phase(s)'
    BY <1>3 DEF Register, Goto, TypeOK, SenderHeld, Phase
  <2>4. UniqueIds => \A s \in Requests : NeverClosed(s)'
    BY <1>3 DEF Register, Goto, TypeOK, SenderHeld, Phase, NeverClosed, Receiving, UniqueIds
  <2>5. QED BY <2>1, <2>2, <2>3, <2>4 DEF UniqueIds
<1>4. ASSUME NEW r \in Requests, Arm(r) PROVE IInv'
  BY <1>4 DEF Arm, Goto, TypeOK, SenderHeld, Phase, NeverClosed, Receiving, UniqueIds
<1>5. ASSUME NEW r \in Requests, Receive(r) PROVE IInv'
  BY <1>5 DEF Receive, Return, TypeOK, SenderHeld, Phase, NeverClosed, Receiving, UniqueIds
<1>6. ASSUME NEW r \in Requests, ReceiveAll(r) PROVE IInv'
  BY <1>6 DEF ReceiveAll, Goto, TypeOK, SenderHeld, Phase, NeverClosed, Receiving, UniqueIds
<1>7. ASSUME NEW r \in Requests, SaveAll(r) PROVE IInv'
  BY <1>7 DEF SaveAll, Return, TypeOK, SenderHeld, Phase, NeverClosed, Receiving, UniqueIds
<1>8. ASSUME NEW r \in Requests, ChannelClosed(r) PROVE IInv'
  BY <1>8 DEF ChannelClosed, Goto, TypeOK, SenderHeld, Phase, NeverClosed, Receiving, UniqueIds
<1>9. ASSUME NEW r \in Requests, TimeoutFires(r) PROVE IInv'
  BY <1>9 DEF TimeoutFires, Goto, TypeOK, SenderHeld, Phase, NeverClosed, Receiving, UniqueIds
<1>10. ASSUME NEW r \in Requests, CleanupPendingRequest(r) PROVE IInv'
  <2> USE <1>10 DEF CleanupPendingRequest
  <2>1. /\ SenderHeld'
        /\ \A s \in Requests :
             IF channel[s] = "empty" /\ IdOf[s] \in {IdOf[r]}
             THEN channel'[s] = "closed" ELSE channel'[s] = channel[s]
    BY TakeEntriesLemma
  <2>2. TypeOK'
    BY TakeEntriesLemma DEF TypeOK, Return
  <2>3. \A s \in Requests : Phase(s)'
    BY <2>1 DEF Return, TypeOK, Phase
  <2>4. UniqueIds => \A s \in Requests : NeverClosed(s)'
    BY <2>1 DEF Return, TypeOK, Phase, NeverClosed, Receiving, UniqueIds
  <2>5. QED BY <2>1, <2>2, <2>3, <2>4 DEF UniqueIds
<1>11. ASSUME NEW r \in Requests, DropRequest(r) PROVE IInv'
  BY <1>11 DEF DropRequest, Goto, TypeOK, SenderHeld, Phase, NeverClosed, Receiving, UniqueIds
<1>12. ASSUME NEW c \in Clients, GetPendingAuthorizations(c) PROVE IInv'
  BY <1>12 DEF GetPendingAuthorizations, TypeOK, SenderHeld, Phase, NeverClosed, Receiving, UniqueIds
<1>13. ASSUME NEW ids, NEW a \in AuthorizationResponse, TakeEntries(ids, a),
              UNCHANGED <<requestVars>>,
              config' \in AuthorizationConfig, UNCHANGED <<view>>,
              consent' \subseteq Requests \X AuthorizationResponse,
              command' \in {"Allow", "Deny", "Ask"}
       PROVE  IInv'
  <2>1. /\ SenderHeld'
        /\ \A s \in Requests :
             IF channel[s] = "empty" /\ IdOf[s] \in ids
             THEN channel'[s] = IF Receiving(s) THEN a ELSE "closed"
             ELSE channel'[s] = channel[s]
    BY <1>13, TakeEntriesLemma
  <2>2. TypeOK'
    BY <1>13, TakeEntriesLemma DEF TypeOK
  <2>3. \A s \in Requests : Phase(s)'
    BY <1>13, <2>1 DEF TypeOK, Phase, Receiving
  <2>4. UniqueIds => \A s \in Requests : NeverClosed(s)'
    BY <1>13, <2>1 DEF TypeOK, Phase, NeverClosed, Receiving
  <2>5. QED BY <2>1, <2>2, <2>3, <2>4 DEF UniqueIds
<1>14. ASSUME NEW c \in Clients, NEW r \in Requests, NEW a \in AuthorizationResponse,
              HandleResponse(c, r, a)
       PROVE  IInv'
  <2>1. consent' \subseteq Requests \X AuthorizationResponse
    BY <1>14 DEF HandleResponse, TypeOK
  <2>2. command' \in {"Allow", "Deny", "Ask"}
    BY <1>14 DEF HandleResponse, TypeOK
  <2>3. TakeEntries({IdOf[r]}, a)
    BY <1>14 DEF HandleResponse
  <2>4. UNCHANGED <<requestVars>> /\ UNCHANGED <<view>>
    BY <1>14 DEF HandleResponse
  <2>5. config' \in AuthorizationConfig
    BY <1>14 DEF HandleResponse, TypeOK
  <2>6. QED
    BY <1>13, <2>1, <2>2, <2>3, <2>4, <2>5
<1>15. ASSUME NEW c \in Clients, NEW r \in Requests, CancelAuthorization(c, r)
       PROVE  IInv'
  BY <1>13, <1>15 DEF CancelAuthorization, TypeOK
<1>16. CASE SetConfig
  BY <1>16 DEF SetConfig, Policy, TypeOK, SenderHeld, Phase, NeverClosed, Receiving, UniqueIds
<1>17. CASE CleanupExpiredRequests
  BY <1>13, <1>17 DEF CleanupExpiredRequests, TypeOK
<1>18. CASE UNCHANGED vars
  BY <1>18 DEF vars, TypeOK, SenderHeld, Phase, NeverClosed, Receiving, UniqueIds
<1>19. QED
  BY <1>1, <1>2, <1>3, <1>4, <1>5, <1>6, <1>7, <1>8, <1>9, <1>10, <1>11, <1>12,
     <1>14, <1>15, <1>16, <1>17, <1>18
  DEF Next, RequestStep, ClientStep

LEMMA Inductive == Spec => []IInv
BY InitIInv, NextIInv, PTL DEF Spec

-----------------------------------------------------------------------------
(* Type correctness of the handler and its clients, for every assignment   *)
(* of ids.                                                                 *)
THEOREM TypeCorrect == Spec => []TypeOK
BY Inductive, PTL DEF IInv

(* No lost wake-up: the map holds the sender of exactly the requests that  *)
(* no answer, time-out or overwriting has settled yet.                     *)
THEOREM NoLostWakeUp == Spec => []SenderHeld
BY Inductive, PTL DEF IInv

(* With ids of their own, requests never fail with a closed channel.       *)
THEOREM NoRequestFails == Spec => []NoSpuriousFailure
<1>1. IInv => NoSpuriousFailure
  BY DEF IInv, NeverClosed, NoSpuriousFailure
<1>2. QED
  BY <1>1, Inductive, PTL

(* An answer that reached the channel is what request_authorization        *)
(* returns: neither the timer nor a clean-up overrides it.                 *)
THEOREM AnswerWins == Spec => AnswerIsReturned
<1>1. IInv /\ [Next]_vars =>
        [\A r \in Requests :
           result'[r] # result[r] /\ channel[r] \in AuthorizationResponse
             => result'[r] = channel[r]]_vars
  <2> SUFFICES ASSUME IInv, Next, NEW r \in Requests,
                      result'[r] # result[r], channel[r] \in AuthorizationResponse
               PROVE  result'[r] = channel[r]
    OBVIOUS
  <2> USE DEF IInv, TypeOK, Phase, requestVars
  <2>1. PICK s \in Requests : RequestStep(s)
    BY DEF Next, ClientStep, DropRequest, Goto, GetPendingAuthorizations,
           HandleResponse, CancelAuthorization, SetConfig, CleanupExpiredRequests
  <2>2. s = r
    BY <2>1 DEF RequestStep, DecideByConfig, DecideToAsk, Register, Arm, Receive,
                ReceiveAll, SaveAll, ChannelClosed, TimeoutFires,
                CleanupPendingRequest, Return, Goto
  <2>3. pc[r] # "idle" /\ pc[r] \notin {"failing", "expiring"}
    BY DEF AuthorizationResponse
  <2>4. QED
    BY <2>1, <2>2, <2>3
    DEF RequestStep, DecideByConfig, DecideToAsk, Register, Arm, Receive,
        ReceiveAll, SaveAll, ChannelClosed, TimeoutFires, CleanupPendingRequest,
        Return, Goto
<1>2. QED
  BY <1>1, Inductive, PTL DEF Spec, AnswerIsReturned

(* An approval serves only the execution the client was shown, provided    *)
(* the LLM gives every tool call an id of its own.                         *)
THEOREM ApprovalIsSpecific == Spec => []ConsentIsSpecific
<1> USE DEF ConsentIsSpecific
<1>1. Init => ConsentIsSpecific
  BY DEF Init
<1>2. IInv /\ ConsentIsSpecific /\ [Next]_vars => ConsentIsSpecific'
  <2> SUFFICES ASSUME IInv, ConsentIsSpecific, [Next]_vars, UniqueIds,
                      NEW s \in Requests, channel'[s] \in {"Yes", "All"}
               PROVE  <<s, channel'[s]>> \in consent'
    BY DEF UniqueIds
  <2>1. CASE channel'[s] = channel[s]
    <3>1. consent \subseteq consent'
      BY DEF Next, vars, RequestStep, DecideByConfig, DecideToAsk, Register, Arm,
             Receive, ReceiveAll, SaveAll, ChannelClosed, TimeoutFires,
             CleanupPendingRequest, DropRequest, ClientStep, clientVars,
             GetPendingAuthorizations, HandleResponse, CancelAuthorization,
             SetConfig, CleanupExpiredRequests
    <3>2. QED
      BY <2>1, <3>1
  <2>2. CASE channel'[s] # channel[s]
    <3>1. PICK c \in Clients, r \in Requests, a \in AuthorizationResponse :
            HandleResponse(c, r, a)
      <4>1. ASSUME NEW ids, NEW a \in {"No", "closed"}, TakeEntries(ids, a)
            PROVE  FALSE
        BY <4>1, <2>2, TakeEntriesLemma DEF IInv, AuthorizationResponse
      <4>2. ASSUME NEW r \in Requests, Register(r) PROVE FALSE
        BY <4>2, <2>2 DEF Register, IInv, TypeOK
      <4>3. QED
        BY <2>2, <4>1, <4>2
        DEF Next, vars, RequestStep, DecideByConfig, DecideToAsk, Arm,
            Receive, ReceiveAll, SaveAll, ChannelClosed, TimeoutFires,
            CleanupPendingRequest, DropRequest, ClientStep, serverVars,
            GetPendingAuthorizations, CancelAuthorization,
            SetConfig, CleanupExpiredRequests
    <3>2. IdOf[s] = IdOf[r] /\ channel'[s] = a
      BY <3>1, <2>2, TakeEntriesLemma DEF HandleResponse, IInv, AuthorizationResponse
    <3>3. s = r
      BY <3>2 DEF UniqueIds
    <3>4. QED
      BY <3>1, <3>2, <3>3 DEF HandleResponse
  <2>3. QED
    BY <2>1, <2>2
<1>3. QED
  BY <1>1, <1>2, Inductive, PTL DEF Spec

-----------------------------------------------------------------------------
(* Steps of the handler seen through the refinement mapping. *)

(* A step that changes no channel changes no answer. *)
LEMMA SameAnswers == UNCHANGED channel => UNCHANGED Answered
BY DEF Answered

(* Entries taken with answer a: the requests still receiving are answered. *)
LEMMA TakenAnswers ==
  ASSUME TypeOK, SenderHeld, NEW ids, NEW a \in AuthorizationResponse \cup {"closed"},
         TakeEntries(ids, a)
  PROVE  Answered' = [r \in Requests |->
           IF channel[r] = "empty" /\ IdOf[r] \in ids /\ Receiving(r)
              /\ a \in AuthorizationResponse
           THEN a ELSE Answered[r]]
<1>1. ASSUME NEW r \in Requests
      PROVE  Answered'[r] =
               IF channel[r] = "empty" /\ IdOf[r] \in ids /\ Receiving(r)
                  /\ a \in AuthorizationResponse
               THEN a ELSE Answered[r]
  BY TakeEntriesLemma DEF Answered, AuthorizationResponse
<1>2. QED
  BY <1>1 DEF Answered

(* Every step of the handler is a step of Consent, or stutters there. *)
LEMMA StepImplements == IInv /\ [Next]_vars => [Service!Next]_(Service!vars)
<1> SUFFICES ASSUME IInv, [Next]_vars PROVE [Service!Next]_(Service!vars)
  OBVIOUS
<1> USE DEF IInv, TypeOK, serverVars, requestVars, clientVars, Service!vars
<1>1. ASSUME NEW r \in Requests, DecideByConfig(r)
      PROVE  Service!DecideByPolicy(r)
  BY <1>1, SameAnswers
  DEF DecideByConfig, Return, Phase, Answered, AuthorizationResponse, Service!DecideByPolicy
<1>2. ASSUME NEW r \in Requests, Register(r)
      PROVE  UNCHANGED Service!vars
  <2>1. ASSUME NEW s \in Requests PROVE Answered'[s] = Answered[s]
    <3>1. s = pending[IdOf[r]] => channel[s] = "empty"
      BY IdOfAssumption DEF SenderHeld
    <3>2. channel[r] = "none"
      BY <1>2 DEF Register, Phase
    <3>3. channel'[s] = channel[s] \/ {channel[s], channel'[s]} \subseteq {"none", "empty", "closed"}
      BY <1>2, <3>1, <3>2 DEF Register
    <3>4. QED
      BY <3>3 DEF Answered, AuthorizationResponse
  <2>2. UNCHANGED Answered
    BY <2>1 DEF Answered
  <2>3. QED
    BY <1>2, <2>2 DEF Register, Goto
<1>3. ASSUME NEW r \in Requests,
             DecideToAsk(r) \/ Arm(r) \/ ReceiveAll(r) \/ ChannelClosed(r)
               \/ TimeoutFires(r) \/ DropRequest(r)
      PROVE  UNCHANGED Service!vars
  BY <1>3, SameAnswers
  DEF DecideToAsk, Arm, ReceiveAll, ChannelClosed, TimeoutFires, DropRequest, Goto
<1>4. ASSUME NEW r \in Requests, Receive(r)
      PROVE  Service!DecideByAnswer(r)
  BY <1>4, SameAnswers
  DEF Receive, Return, Phase, Answered, AuthorizationResponse,
      Service!DecideByAnswer, Service!Answers
<1>5. ASSUME NEW r \in Requests, SaveAll(r)
      PROVE  Service!DecideByAnswer(r)
  <2>1. Policy(config') = "Allow"
    BY <1>5 DEF SaveAll, Policy, AuthorizationConfig
  <2>2. QED
    BY <1>5, <2>1, SameAnswers
    DEF SaveAll, Return, Phase, Answered, AuthorizationResponse,
        Service!DecideByAnswer, Service!Answers
<1>6. ASSUME NEW r \in Requests, CleanupPendingRequest(r)
      PROVE  Service!DecideAlone(r)
  <2>1. UNCHANGED Answered
    BY <1>6, TakenAnswers DEF CleanupPendingRequest, AuthorizationResponse, Answered
  <2>2. Answered[r] = "none"
    BY <1>6 DEF CleanupPendingRequest, Phase, Answered
  <2>3. QED
    BY <1>6, <2>1, <2>2 DEF CleanupPendingRequest, Return, Phase, Service!DecideAlone
<1>7. ASSUME NEW id \in Ids, NEW a \in AuthorizationResponse,
             TakeEntries({id}, a), UNCHANGED <<config, requestVars>>
      PROVE  Service!Next \/ UNCHANGED Service!vars
  <2>1. CASE \E r \in Requests : channel[r] = "empty" /\ IdOf[r] = id /\ Receiving(r)
    <3>1. PICK r \in Requests : channel[r] = "empty" /\ IdOf[r] = id /\ Receiving(r)
      BY <2>1
    <3>2. \A s \in Requests : channel[s] = "empty" /\ IdOf[s] \in {id} => s = r
      BY <3>1 DEF SenderHeld
    <3>3. Answered' = [Answered EXCEPT ![r] = a]
      <4>1. Answered' = [s \in Requests |-> IF s = r THEN a ELSE Answered[s]]
        BY <1>7, <3>1, <3>2, TakenAnswers
      <4>2. QED
        BY <4>1 DEF Answered
    <3>4. Answered[r] = "none" /\ result[r] = "none"
      BY <3>1 DEF Answered, AuthorizationResponse, Phase, Receiving
    <3>5. Service!Answer(r)
      BY <1>7, <3>3, <3>4 DEF Service!Answer, Service!Answers, AuthorizationResponse
    <3>6. QED
      BY <3>5 DEF Service!Next
  <2>2. CASE \A r \in Requests : ~(channel[r] = "empty" /\ IdOf[r] = id /\ Receiving(r))
    <3>1. UNCHANGED Answered
      BY <1>7, <2>2, TakenAnswers DEF Answered
    <3>2. QED
      BY <1>7, <3>1
  <2>3. QED
    BY <2>1, <2>2
<1>8. ASSUME NEW c \in Clients, ClientStep(c)
      PROVE  Service!Next \/ UNCHANGED Service!vars
  <2>1. CASE GetPendingAuthorizations(c)
    BY <2>1, SameAnswers DEF GetPendingAuthorizations
  <2>2. ASSUME NEW r \in Requests, NEW a \in AuthorizationResponse, HandleResponse(c, r, a)
        PROVE  Service!Next \/ UNCHANGED Service!vars
    <3>1. IdOf[r] \in Ids
      BY IdOfAssumption
    <3>2. TakeEntries({IdOf[r]}, a) /\ UNCHANGED <<config, requestVars>>
      BY <2>2 DEF HandleResponse
    <3>3. QED
      BY <1>7, <3>1, <3>2
  <2>3. ASSUME NEW r \in Requests, CancelAuthorization(c, r)
        PROVE  Service!Next \/ UNCHANGED Service!vars
    <3>1. IdOf[r] \in Ids /\ "No" \in AuthorizationResponse
      BY IdOfAssumption DEF AuthorizationResponse
    <3>2. TakeEntries({IdOf[r]}, "No") /\ UNCHANGED <<config, requestVars>>
      BY <2>3 DEF CancelAuthorization
    <3>3. QED
      BY <1>7, <3>1, <3>2
  <2>4. QED
    BY <1>8, <2>1, <2>2, <2>3 DEF ClientStep
<1>9. CASE SetConfig
  <2>1. Policy(config') \in Service!Policies
    BY DEF Policy, Service!Policies
  <2>2. Service!SetPolicy
    BY <1>9, <2>1, SameAnswers DEF SetConfig, Service!SetPolicy
  <2>3. QED
    BY <2>2 DEF Service!Next
<1>10. CASE CleanupExpiredRequests
  <2>1. PICK ids \in SUBSET Ids : TakeEntries(ids, "No")
    BY <1>10 DEF CleanupExpiredRequests
  <2> DEFINE R == {r \in Requests :
                     channel[r] = "empty" /\ IdOf[r] \in ids /\ Receiving(r)}
  <2>2. Answered' = [r \in Requests |-> IF r \in R THEN "No" ELSE Answered[r]]
    BY <2>1, TakenAnswers DEF AuthorizationResponse
  <2>3. \A r \in R : Answered[r] = "none" /\ result[r] = "none"
    BY DEF Answered, AuthorizationResponse, Phase, Receiving
  <2>4. Service!AnswerNo(R)
    BY <1>10, <2>2, <2>3 DEF CleanupExpiredRequests, Service!AnswerNo
  <2>5. QED
    BY <2>4 DEF Service!Next
<1>11. CASE UNCHANGED vars
  BY <1>11, SameAnswers DEF vars
<1>12. QED
  BY <1>1, <1>2, <1>3, <1>4, <1>5, <1>6, <1>8, <1>9, <1>10, <1>11
  DEF Next, RequestStep, Service!Next

(* The handler keeps the promise of Consent: at most one verdict, granted  *)
(* only by the request's own answer or by the policy in force.             *)
THEOREM Refinement == Spec => ImplementsConsent
<1>1. Init => Service!Init
  BY DEF Init, Service!Init, Policy, DefaultConfig, Answered, AuthorizationResponse
<1>2. QED
  BY <1>1, StepImplements, Inductive, PTL DEF Spec, ImplementsConsent, Service!Spec

-----------------------------------------------------------------------------
(* The handler that announces its requests. *)

(* What is left of IInv where a request may fail for want of a listener.   *)
SseInv == TypeOK /\ SenderHeld /\ \A r \in Requests : Phase(r)

(* Entries are taken while every request stays where it is.                *)
LEMMA SseTaken ==
  ASSUME SseInv, NEW ids, NEW a \in AuthorizationResponse, TakeEntries(ids, a),
         UNCHANGED <<config, requestVars, clientVars>>
  PROVE  SseInv'
<1>1. /\ SenderHeld'
      /\ \A s \in Requests :
           IF channel[s] = "empty" /\ IdOf[s] \in ids
           THEN channel'[s] = IF Receiving(s) THEN a ELSE "closed"
           ELSE channel'[s] = channel[s]
  BY TakeEntriesLemma DEF SseInv
<1>2. TypeOK'
  BY TakeEntriesLemma DEF SseInv, TypeOK, requestVars, clientVars
<1>3. \A s \in Requests : Phase(s)'
  BY <1>1 DEF SseInv, TypeOK, Phase, Receiving, requestVars, AuthorizationResponse
<1>4. QED
  BY <1>1, <1>2, <1>3 DEF SseInv

LEMMA InitSseInv == InitSse => SseInv
BY InitIInv DEF InitSse, IInv, SseInv

LEMMA NextSseInv == SseInv /\ [NextSse]_sseVars => SseInv'
<1> SUFFICES ASSUME SseInv, [NextSse]_sseVars PROVE SseInv'
  OBVIOUS
<1> USE IdOfAssumption, NoRequestAssumption
<1> USE DEF SseInv, Channel, Pc, AuthorizationConfig, ToolAuthorizationMode,
            AuthorizationResponse, serverVars, requestVars, clientVars
<1>0. ASSUME NEW r \in Requests, NEW v \in AuthorizationResponse \cup {"Err"},
             pc[r] = "idle", Return(r, v),
             UNCHANGED <<config, serverVars, snapshot, clientVars>>
      PROVE  SseInv'
  <2>1. TypeOK'
    BY <1>0 DEF Return, TypeOK
  <2>2. SenderHeld'
    BY <1>0 DEF SenderHeld
  <2>3. \A s \in Requests : Phase(s)'
    BY <1>0 DEF Return, TypeOK, Phase
  <2>4. QED
    BY <2>1, <2>2, <2>3
<1>1. ASSUME NEW r \in Requests, DecideByConfig(r) PROVE SseInv'
  BY <1>0, <1>1 DEF DecideByConfig
<1>2. ASSUME NEW r \in Requests, Announce(r) PROVE SseInv'
  <2>1. CASE Goto(r, "registering")
    BY <1>2, <2>1 DEF Announce, Goto, TypeOK, SenderHeld, Phase
  <2>2. CASE Return(r, "Err")
    BY <1>0, <1>2, <2>2 DEF Announce
  <2>3. QED
    BY <1>2, <2>1, <2>2 DEF Announce
<1>3. ASSUME NEW r \in Requests, Register(r) PROVE SseInv'
  <2>1. TypeOK'
    BY <1>3 DEF Register, Goto, TypeOK
  <2>2. SenderHeld'
    BY <1>3 DEF Register, Goto, TypeOK, SenderHeld, Phase
  <2>3. \A s \in Requests : Phase(s)'
    BY <1>3 DEF Register, Goto, TypeOK, SenderHeld, Phase
  <2>4. QED
    BY <2>1, <2>2, <2>3
<1>4. ASSUME NEW r \in Requests, Arm(r) \/ ChannelClosed(r) \/ TimeoutFires(r) \/ DropRequest(r)
      PROVE  SseInv'
  <2>1. CASE Arm(r)
    BY <2>1 DEF Arm, Goto, TypeOK, SenderHeld, Phase
  <2>2. CASE ChannelClosed(r)
    BY <2>2 DEF ChannelClosed, Goto, TypeOK, SenderHeld, Phase
  <2>3. CASE TimeoutFires(r)
    BY <2>3 DEF TimeoutFires, Goto, TypeOK, SenderHeld, Phase
  <2>4. CASE DropRequest(r)
    BY <2>4 DEF DropRequest, Goto, TypeOK, SenderHeld, Phase
  <2>5. QED
    BY <1>4, <2>1, <2>2, <2>3, <2>4
<1>5. ASSUME NEW r \in Requests, ReceiveAny(r) PROVE SseInv'
  BY <1>5 DEF ReceiveAny, Return, TypeOK, SenderHeld, Phase
<1>6. ASSUME NEW r \in Requests, CleanupPendingRequest(r) PROVE SseInv'
  <2> USE <1>6 DEF CleanupPendingRequest
  <2>1. /\ SenderHeld'
        /\ \A s \in Requests :
             IF channel[s] = "empty" /\ IdOf[s] \in {IdOf[r]}
             THEN channel'[s] = "closed" ELSE channel'[s] = channel[s]
    BY TakeEntriesLemma
  <2>2. TypeOK'
    BY TakeEntriesLemma DEF TypeOK, Return
  <2>3. \A s \in Requests : Phase(s)'
    BY <2>1 DEF Return, TypeOK, Phase
  <2>4. QED
    BY <2>1, <2>2, <2>3
<1>7. ASSUME NEW r \in Requests, NEW a \in AuthorizationResponse, AnswerEvent(r, a) PROVE SseInv'
  <2>1. UNCHANGED <<config, requestVars, clientVars>>
    BY <1>7 DEF AnswerEvent
  <2>2. CASE TakeEntries({IdOf[r]}, a)
    BY <2>1, <2>2, SseTaken
  <2>3. CASE UNCHANGED serverVars
    BY <2>1, <2>3 DEF TypeOK, SenderHeld, Phase
  <2>4. QED
    BY <1>7, <2>2, <2>3 DEF AnswerEvent
<1>8. CASE CancelById
  BY <1>8, SseTaken DEF CancelById
<1>9. CASE CleanupExpiredRequests
  BY <1>9, SseTaken DEF CleanupExpiredRequests
<1>10. CASE SetConfig
  BY <1>10 DEF SetConfig, Policy, TypeOK, SenderHeld, Phase
<1>11. CASE StopListening \/ UNCHANGED sseVars
  BY <1>11 DEF StopListening, sseVars, vars, TypeOK, SenderHeld, Phase
<1>12. QED
  BY <1>1, <1>2, <1>3, <1>4, <1>5, <1>6, <1>7, <1>8, <1>9, <1>10, <1>11
  DEF NextSse, SseRequestStep

Heard   == [r \in Requests |-> AsYes(Answered[r])]
Granted == [r \in Requests |-> AsYes(result[r])]

LEMMA SameHeard == UNCHANGED Answered => UNCHANGED Heard
BY DEF Heard

(* One request at most is answered where one entry is taken.               *)
LEMMA OneHeard ==
  ASSUME SseInv, NEW id \in Ids, NEW a \in AuthorizationResponse, TakeEntries({id}, a),
         UNCHANGED <<config, requestVars>>
  PROVE  SseService!Next \/ UNCHANGED SseService!vars
<1> USE DEF SseInv, SseService!vars
<1>1. UNCHANGED Granted /\ UNCHANGED Policy(config)
  BY DEF Granted, requestVars
<1>2. CASE \E r \in Requests : channel[r] = "empty" /\ IdOf[r] = id /\ Receiving(r)
  <2>1. PICK r \in Requests : channel[r] = "empty" /\ IdOf[r] = id /\ Receiving(r)
    BY <1>2
  <2>2. \A s \in Requests : channel[s] = "empty" /\ IdOf[s] \in {id} => s = r
    BY <2>1 DEF SenderHeld
  <2>3. Answered' = [s \in Requests |-> IF s = r THEN a ELSE Answered[s]]
    BY <2>1, <2>2, TakenAnswers
  <2>4. Heard' = [Heard EXCEPT ![r] = AsYes(a)]
    BY <2>3 DEF Heard
  <2>5. Answered[r] = "none" /\ result[r] = "none"
    BY <2>1 DEF Answered, AuthorizationResponse, Phase, Receiving
  <2>6. Heard[r] = "none" /\ Granted[r] = "none"
    BY <2>5 DEF Heard, Granted, AsYes
  <2>7. AsYes(a) \in SseService!Answers
    BY DEF AsYes, AuthorizationResponse, SseService!Answers
  <2>8. SseService!Answer(r)
    BY <1>1, <2>4, <2>6, <2>7 DEF SseService!Answer, Heard, Granted
  <2>9. QED
    BY <2>8 DEF SseService!Next
<1>3. CASE \A r \in Requests : ~(channel[r] = "empty" /\ IdOf[r] = id /\ Receiving(r))
  <2>1. UNCHANGED Answered
    BY <1>3, TakenAnswers DEF Answered
  <2>2. QED
    BY <1>1, <2>1, SameHeard DEF Heard, Granted
<1>4. QED
  BY <1>2, <1>3

LEMMA SseStepImplements == SseInv /\ [NextSse]_sseVars => [SseService!Next]_(SseService!vars)
<1> SUFFICES ASSUME SseInv, [NextSse]_sseVars PROVE [SseService!Next]_(SseService!vars)
  OBVIOUS
<1> USE DEF SseInv, TypeOK, serverVars, requestVars, clientVars, SseService!vars
<1>1. ASSUME NEW r \in Requests, DecideByConfig(r)
      PROVE  SseService!DecideByPolicy(r)
  <2>1. /\ UNCHANGED Answered /\ pc[r] = "idle" /\ UNCHANGED config
        /\ \/ Policy(config) = "Allow" /\ Return(r, "Yes")
           \/ Policy(config) = "Deny" /\ Return(r, "No")
    BY <1>1, SameAnswers DEF DecideByConfig
  <2>2. Heard[r] = "none" /\ Granted[r] = "none"
    BY <2>1 DEF Phase, Answered, AuthorizationResponse, Heard, Granted, AsYes
  <2>3. \A v \in {"Yes", "No"} : Return(r, v) => Granted' = [Granted EXCEPT ![r] = v]
    BY DEF Return, Granted, AsYes
  <2>4. QED
    BY <2>1, <2>2, <2>3, SameHeard DEF SseService!DecideByPolicy, Heard, Granted
<1>2. ASSUME NEW r \in Requests, NEW v \in {"No", "Err"}, Return(r, v), UNCHANGED config,
             UNCHANGED Answered, Answered[r] = "none", result[r] = "none"
      PROVE  SseService!DecideAlone(r)
  <2>1. Heard[r] = "none" /\ Granted[r] = "none" /\ UNCHANGED Heard
    BY <1>2, SameHeard DEF Heard, Granted, AsYes
  <2>2. Granted' = [Granted EXCEPT ![r] = v]
    BY <1>2 DEF Return, Granted, AsYes
  <2>3. QED
    BY <1>2, <2>1, <2>2 DEF SseService!DecideAlone, Heard, Granted
<1>3. ASSUME UNCHANGED <<config, result>>, UNCHANGED Answered PROVE UNCHANGED SseService!vars
  BY <1>3
<1>4. ASSUME NEW r \in Requests, Announce(r)
      PROVE  SseService!Next \/ UNCHANGED SseService!vars
  <2>1. UNCHANGED Answered /\ pc[r] = "idle" /\ UNCHANGED config
    BY <1>4, SameAnswers DEF Announce
  <2>2. Answered[r] = "none" /\ result[r] = "none"
    BY <2>1 DEF Phase, Answered, AuthorizationResponse
  <2>3. CASE Return(r, "Err")
    <3>1. SseService!DecideAlone(r)
      BY <1>2, <2>1, <2>2, <2>3
    <3>2. QED
      BY <3>1 DEF SseService!Next
  <2>4. CASE Goto(r, "registering")
    BY <1>3, <2>1, <2>4 DEF Goto
  <2>5. QED
    BY <1>4, <2>3, <2>4 DEF Announce
<1>5. ASSUME NEW r \in Requests, Register(r)
      PROVE  UNCHANGED SseService!vars
  <2>1. ASSUME NEW s \in Requests PROVE Answered'[s] = Answered[s]
    <3>1. s = pending[IdOf[r]] => channel[s] = "empty"
      BY IdOfAssumption DEF SenderHeld
    <3>2. channel[r] = "none"
      BY <1>5 DEF Register, Phase
    <3>3. channel'[s] = channel[s] \/ {channel[s], channel'[s]} \subseteq {"none", "empty", "closed"}
      BY <1>5, <3>1, <3>2 DEF Register
    <3>4. QED
      BY <3>3 DEF Answered, AuthorizationResponse
  <2>2. UNCHANGED Answered
    BY <2>1 DEF Answered
  <2>3. QED
    BY <1>3, <1>5, <2>2 DEF Register, Goto
<1>6. ASSUME NEW r \in Requests, Arm(r) \/ ChannelClosed(r) \/ TimeoutFires(r) \/ DropRequest(r)
      PROVE  UNCHANGED SseService!vars
  BY <1>3, <1>6, SameAnswers DEF Arm, ChannelClosed, TimeoutFires, DropRequest, Goto
<1>7. ASSUME NEW r \in Requests, ReceiveAny(r)
      PROVE  SseService!DecideByAnswer(r)
  <2>1. /\ UNCHANGED Answered /\ channel[r] \in AuthorizationResponse /\ pc[r] = "waiting"
        /\ Return(r, channel[r]) /\ UNCHANGED config
    BY <1>7, SameAnswers DEF ReceiveAny
  <2>2. Heard[r] = AsYes(channel[r]) /\ Granted[r] = "none"
    BY <2>1 DEF Phase, Answered, Heard, Granted, AsYes
  <2>3. AsYes(channel[r]) \in SseService!Answers /\ AsYes(channel[r]) # "All"
    BY <2>1 DEF AsYes, AuthorizationResponse, SseService!Answers
  <2>4. Granted' = [Granted EXCEPT ![r] = AsYes(channel[r])]
    BY <2>1 DEF Return, Granted
  <2>5. QED
    BY <2>1, <2>2, <2>3, <2>4, SameHeard DEF SseService!DecideByAnswer, Heard, Granted
<1>8. ASSUME NEW r \in Requests, CleanupPendingRequest(r)
      PROVE  SseService!DecideAlone(r)
  <2>1. UNCHANGED Answered
    BY <1>8, TakenAnswers DEF CleanupPendingRequest, AuthorizationResponse, Answered
  <2>2. Answered[r] = "none" /\ result[r] = "none"
    BY <1>8 DEF CleanupPendingRequest, Phase, Answered
  <2>3. QED
    BY <1>2, <1>8, <2>1, <2>2 DEF CleanupPendingRequest
<1>9. ASSUME NEW r \in Requests, NEW a \in AuthorizationResponse, AnswerEvent(r, a)
      PROVE  SseService!Next \/ UNCHANGED SseService!vars
  <2>1. IdOf[r] \in Ids /\ UNCHANGED <<config, requestVars>>
    BY <1>9, IdOfAssumption DEF AnswerEvent
  <2>2. CASE TakeEntries({IdOf[r]}, a)
    BY <2>1, <2>2, OneHeard
  <2>3. CASE UNCHANGED serverVars
    BY <1>3, <2>1, <2>3, SameAnswers
  <2>4. QED
    BY <1>9, <2>2, <2>3 DEF AnswerEvent
<1>10. CASE CancelById
  BY <1>10, OneHeard DEF CancelById, AuthorizationResponse
<1>11. CASE SetConfig
  <2>1. Policy(config') \in SseService!Policies
    BY DEF Policy, SseService!Policies
  <2>2. SseService!SetPolicy
    BY <1>11, <2>1, SameAnswers DEF SetConfig, SseService!SetPolicy
  <2>3. QED
    BY <2>2 DEF SseService!Next
<1>12. CASE CleanupExpiredRequests
  <2>1. PICK ids \in SUBSET Ids : TakeEntries(ids, "No")
    BY <1>12 DEF CleanupExpiredRequests
  <2> DEFINE R == {r \in Requests :
                     channel[r] = "empty" /\ IdOf[r] \in ids /\ Receiving(r)}
  <2>2. Answered' = [r \in Requests |-> IF r \in R THEN "No" ELSE Answered[r]]
    BY <2>1, TakenAnswers DEF AuthorizationResponse
  <2>3. \A r \in R : Answered[r] = "none" /\ result[r] = "none"
    BY DEF Answered, AuthorizationResponse, Phase, Receiving
  <2>4. Heard' = [r \in Requests |-> IF r \in R THEN "No" ELSE Heard[r]]
    BY <2>2 DEF Heard, AsYes
  <2>5. \A r \in R : Heard[r] = "none" /\ Granted[r] = "none"
    BY <2>3 DEF Heard, Granted, AsYes
  <2>6. UNCHANGED Granted /\ UNCHANGED config /\ R \subseteq Requests
    BY <1>12 DEF CleanupExpiredRequests, Granted
  <2> HIDE DEF R
  <2>7. SseService!AnswerNo(R)
    BY <2>4, <2>5, <2>6 DEF SseService!AnswerNo, Heard, Granted
  <2>8. QED
    BY <2>6, <2>7 DEF SseService!Next
<1>13. CASE StopListening \/ UNCHANGED sseVars
  BY <1>3, <1>13, SameAnswers DEF StopListening, sseVars, vars
<1>14. QED
  BY <1>1, <1>4, <1>5, <1>6, <1>7, <1>8, <1>9, <1>10, <1>11, <1>12, <1>13
  DEF NextSse, SseRequestStep, SseService!Next

(* The other handler keeps the promise of Consent too, though an answer    *)
(* may come before its entry, after it, or to the entry of another call    *)
(* with that id: at most one verdict each, granted only by the request's   *)
(* own answer or by the policy, and an "All" no more than a yes.           *)
THEOREM SseRefinement == SpecSse => SseImplementsConsent
<1>1. InitSse => SseService!Init
  BY DEF InitSse, Init, SseService!Init, Policy, DefaultConfig, Answered, AuthorizationResponse, AsYes
<1>2. QED
  BY <1>1, InitSseInv, NextSseInv, SseStepImplements, PTL
     DEF SpecSse, SseImplementsConsent, SseService!Spec

-----------------------------------------------------------------------------
(* The client's loops. *)

SomebodyPolls == isPolling => \E t \in Pollers : Polls(t)

(* The safety half of PollingFollowsFlag: while the flag is set somebody   *)
(* polls, for any number of starts and stops and any number of loops that  *)
(* a restart finds still asleep.                                           *)
THEOREM FlagMeansPolling == SpecClient => []SomebodyPolls
<1> DEFINE Typed == poller \in [Pollers -> Loop]
<1>1. InitClient => Typed /\ SomebodyPolls
  BY DEF InitClient, SomebodyPolls, Loop
<1>2. Typed /\ SomebodyPolls /\ [NextClient]_clientLoopVars => Typed' /\ SomebodyPolls'
  <2> SUFFICES ASSUME Typed, SomebodyPolls, [NextClient]_clientLoopVars
               PROVE  Typed' /\ SomebodyPolls'
    OBVIOUS
  <2>1. CASE StartPolling
    <3>1. PICK t \in Pollers : PollerGoes(t, "none", "checking")
      BY <2>1 DEF StartPolling
    <3>2. Typed' /\ poller'[t] = "checking"
      BY <3>1 DEF PollerGoes, Loop
    <3>3. QED
      BY <3>2 DEF SomebodyPolls, Polls
  <2>2. CASE StopPolling
    BY <2>2 DEF StopPolling, SomebodyPolls
  <2>3. ASSUME NEW t \in Pollers, PollerStep(t) PROVE Typed' /\ SomebodyPolls'
    <3>1. /\ Typed' /\ isPolling' = isPolling
          /\ isPolling => poller'[t] \in {"fetching", "sleeping", "checking"}
      BY <2>3 DEF PollerStep, CheckFlag, Fetch, Wake, PollerGoes, Loop
    <3>2. QED
      BY <3>1 DEF SomebodyPolls, Polls
  <2>4. CASE UNCHANGED clientLoopVars
    BY <2>4 DEF clientLoopVars, SomebodyPolls, Polls
  <2>5. QED
    BY <2>1, <2>2, <2>3, <2>4 DEF NextClient
<1>3. QED
  BY <1>1, <1>2, PTL DEF SpecClient
=============================================================================
