------------------------- MODULE ToolAuthorization -------------------------
(***************************************************************************)
(* The polling authorization handler (polling_authorization_handler.rs)    *)
(* and the client that polls it (authorization_client.rs).                 *)
(*                                                                         *)
(* An agent about to run a tool awaits request_authorization.  In Ask mode *)
(* the handler puts the sending half of a one-shot channel in a map, under *)
(* the id of the tool call, and awaits the receiving half with a timeout.  *)
(* Clients poll the map over HTTP and answer by id.  The map and the       *)
(* configuration have a mutex each; a step of this module is what one task *)
(* does while it holds one of them, or one poll of the channel.            *)
(***************************************************************************)

CONSTANTS
  Requests,    \* the calls of request_authorization
  Ids,         \* tool call ids, the keys of pending_requests
  IdOf,        \* the id each call is registered under: the LLM chose it
  Clients,     \* the clients that poll and answer
  NoRequest    \* a key without an entry

ASSUME IdOfAssumption == IdOf \in [Requests -> Ids]
ASSUME NoRequestAssumption == NoRequest \notin Requests

VARIABLES
  config,      \* the AuthorizationConfig
  pending,     \* per id, the request whose sender the map holds
  channel,     \* per request, the state of its one-shot channel
  pc,          \* per request, where request_authorization stands
  snapshot,    \* per request, the clone of config an "All" will write back
  result,      \* per request, what request_authorization returned
  view,        \* per client, the requests its last poll listed
  consent,     \* history: the answers clients gave, and to which request
  command      \* history: the policy last acknowledged to an operator

serverVars  == <<pending, channel>>
requestVars == <<pc, snapshot, result>>
clientVars  == <<view, consent, command>>
vars == <<config, pending, channel, pc, snapshot, result, view, consent, command>>

-----------------------------------------------------------------------------
ToolAuthorizationMode == {"AlwaysAllow", "AlwaysDeny", "Ask"}
AuthorizationConfig   == [mode : ToolAuthorizationMode, enabled : BOOLEAN]
AuthorizationResponse == {"Yes", "No", "All"}

(* A channel without a value is "empty" while its sender exists. *)
Channel == {"none", "empty", "closed"} \cup AuthorizationResponse

(* The await points of request_authorization, in order. *)
Pc == {"idle", "registering", "arming", "waiting", "saving",
       "failing", "expiring", "done", "dropped"}

DefaultConfig == [mode |-> "Ask", enabled |-> TRUE]

Policy(c) == IF ~c.enabled \/ c.mode = "AlwaysAllow" THEN "Allow"
             ELSE IF c.mode = "AlwaysDeny" THEN "Deny" ELSE "Ask"

(* The receiver lives while the await on the channel has not ended. *)
Receiving(r) == pc[r] \in {"arming", "waiting"}

(* A variant with a bug, to test SenderHeld: get instead of remove. *)
TakeEntriesKeeping(ids, a) ==
  /\ channel' = [r \in Requests |->
                   IF IdOf[r] \in ids /\ pending[IdOf[r]] = r
                   THEN IF Receiving(r) THEN a ELSE "closed"
                   ELSE channel[r]]
  /\ UNCHANGED pending

(* Entries of these ids leave the map; each sender sends a, or is dropped  *)
(* without a value when a is "closed".  A send to a dropped receiver is    *)
(* lost.                                                                   *)
TakeEntries(ids, a) ==
  /\ pending' = [id \in Ids |-> IF id \in ids THEN NoRequest ELSE pending[id]]
  /\ channel' = [r \in Requests |->
                   IF IdOf[r] \in ids /\ pending[IdOf[r]] = r
                   THEN IF Receiving(r) THEN a ELSE "closed"
                   ELSE channel[r]]

Return(r, v) ==
  /\ pc' = [pc EXCEPT ![r] = "done"]
  /\ result' = [result EXCEPT ![r] = v]

Goto(r, label) ==
  /\ pc' = [pc EXCEPT ![r] = label]
  /\ UNCHANGED result

-----------------------------------------------------------------------------
(* request_authorization *)

DecideByConfig(r) ==
  /\ pc[r] = "idle"
  /\ \/ Policy(config) = "Allow" /\ Return(r, "Yes")
     \/ Policy(config) = "Deny"  /\ Return(r, "No")
  /\ UNCHANGED <<config, serverVars, snapshot, clientVars>>

DecideToAsk(r) ==
  /\ pc[r] = "idle"
  /\ Policy(config) = "Ask"
  /\ Goto(r, "registering")
  /\ UNCHANGED <<config, serverVars, snapshot, clientVars>>

(* A variant with a bug, to test TypeOK: the key is not the call's id.     *)
RegisterUnderAnyId(r) ==
  /\ pc[r] = "registering"
  /\ \E id \in Ids : pending' = [pending EXCEPT ![id] = r]
  /\ channel' = [channel EXCEPT ![r] = "empty"]
  /\ Goto(r, "arming")
  /\ UNCHANGED <<config, snapshot, clientVars>>

(* HashMap::insert: an entry already under the id is dropped, and with it  *)
(* the sender its request is waiting for.                                  *)
Register(r) ==
  /\ pc[r] = "registering"
  /\ pending' = [pending EXCEPT ![IdOf[r]] = r]
  /\ channel' = [s \in Requests |->
                   IF s = r THEN "empty"
                   ELSE IF s = pending[IdOf[r]] THEN "closed" ELSE channel[s]]
  /\ Goto(r, "arming")
  /\ UNCHANGED <<config, snapshot, clientVars>>

(* get_timeout_duration; without a configured timeout it is 30 seconds. *)
Arm(r) ==
  /\ pc[r] = "arming"
  /\ Goto(r, "waiting")
  /\ UNCHANGED <<config, serverVars, snapshot, clientVars>>

Receive(r) ==
  /\ pc[r] = "waiting"
  /\ channel[r] \in {"Yes", "No"}
  /\ Return(r, channel[r])
  /\ UNCHANGED <<config, serverVars, snapshot, clientVars>>

(* The answer "All" opens the mode in two critical sections: get_config... *)
ReceiveAll(r) ==
  /\ pc[r] = "waiting"
  /\ channel[r] = "All"
  /\ snapshot' = [snapshot EXCEPT ![r] = config]
  /\ Goto(r, "saving")
  /\ UNCHANGED <<config, serverVars, clientVars>>

(* A variant with a bug, to test ImplementsConsent. *)
SaveAllForgets(r) ==
  /\ pc[r] = "saving"
  /\ config' = snapshot[r]
  /\ Return(r, "All")
  /\ UNCHANGED <<serverVars, snapshot, clientVars>>

(* ...and set_config with the clone. *)
SaveAll(r) ==
  /\ pc[r] = "saving"
  /\ config' = [snapshot[r] EXCEPT !.mode = "AlwaysAllow"]
  /\ Return(r, "All")
  /\ UNCHANGED <<serverVars, snapshot, clientVars>>

ChannelClosed(r) ==
  /\ pc[r] = "waiting"
  /\ channel[r] = "closed"
  /\ Goto(r, "failing")
  /\ UNCHANGED <<config, serverVars, snapshot, clientVars>>

(* A variant with a bug, to test AnswerIsReturned. *)
TimeoutFiresFirst(r) ==
  /\ pc[r] = "waiting"
  /\ Goto(r, "expiring")
  /\ UNCHANGED <<config, serverVars, snapshot, clientVars>>

(* The timer is polled after the channel: a value that is there wins. *)
TimeoutFires(r) ==
  /\ pc[r] = "waiting"
  /\ channel[r] = "empty"
  /\ Goto(r, "expiring")
  /\ UNCHANGED <<config, serverVars, snapshot, clientVars>>

(* A variant with a bug, to test RequestReturns: the entry must be there.  *)
CleanupNeedsEntry(r) ==
  /\ \/ pc[r] = "failing"  /\ Return(r, "Err")
     \/ pc[r] = "expiring" /\ Return(r, "No")
  /\ pending[IdOf[r]] # NoRequest
  /\ TakeEntries({IdOf[r]}, "closed")
  /\ UNCHANGED <<config, snapshot, clientVars>>

(* cleanup_pending_request removes whatever entry the id has by now. *)
CleanupPendingRequest(r) ==
  /\ \/ pc[r] = "failing"  /\ Return(r, "Err")
     \/ pc[r] = "expiring" /\ Return(r, "No")
  /\ TakeEntries({IdOf[r]}, "closed")
  /\ UNCHANGED <<config, snapshot, clientVars>>

(* The caller drops the future at an await: a client closed its stream. *)
DropRequest(r) ==
  /\ pc[r] \notin {"idle", "done", "dropped"}
  /\ Goto(r, "dropped")
  /\ UNCHANGED <<config, serverVars, snapshot, clientVars>>

-----------------------------------------------------------------------------
(* What clients and operators call *)

GetPendingAuthorizations(c) ==
  /\ view' = [view EXCEPT ![c] = {r \in Requests : pending[IdOf[r]] = r}]
  /\ UNCHANGED <<config, serverVars, requestVars, consent, command>>

(* A variant with a bug, to test ConsentIsSpecific: any entry will do. *)
HandleResponseAnyId(c, r, a) ==
  /\ r \in view[c]
  /\ \E id \in Ids : pending[id] # NoRequest /\ TakeEntries({id}, a)
  /\ consent' = consent \cup {<<r, a>>}
  /\ command' = IF a = "All" THEN "Allow" ELSE command
  /\ UNCHANGED <<config, requestVars, view>>

(* The client answers a request it was shown; the handler finds it by id.  *)
(* The call succeeds whether or not somebody still receives.               *)
HandleResponse(c, r, a) ==
  /\ r \in view[c]
  /\ pending[IdOf[r]] # NoRequest
  /\ TakeEntries({IdOf[r]}, a)
  /\ consent' = consent \cup {<<r, a>>}
  /\ command' = IF a = "All" THEN "Allow" ELSE command
  /\ UNCHANGED <<config, requestVars, view>>

CancelAuthorization(c, r) ==
  /\ r \in view[c]
  /\ pending[IdOf[r]] # NoRequest
  /\ TakeEntries({IdOf[r]}, "No")
  /\ UNCHANGED <<config, requestVars, clientVars>>

SetConfig ==
  /\ config' \in AuthorizationConfig
  /\ command' = Policy(config')
  /\ UNCHANGED <<serverVars, requestVars, view, consent>>

(* A variant with a bug, to test NoSpuriousFailure: no answer is sent. *)
CleanupDropsSenders ==
  /\ \E ids \in SUBSET {id \in Ids : pending[id] # NoRequest} :
       ids # {} /\ TakeEntries(ids, "closed")
  /\ UNCHANGED <<config, requestVars, clientVars>>

(* cleanup_expired_requests: public, called by nothing in the repository.  *)
(* Any set of entries may be the ones older than the timeout.              *)
CleanupExpiredRequests ==
  /\ \E ids \in SUBSET {id \in Ids : pending[id] # NoRequest} :
       ids # {} /\ TakeEntries(ids, "No")
  /\ UNCHANGED <<config, requestVars, clientVars>>

-----------------------------------------------------------------------------
Init ==
  /\ config   = DefaultConfig
  /\ pending  = [id \in Ids |-> NoRequest]
  /\ channel  = [r \in Requests |-> "none"]
  /\ pc       = [r \in Requests |-> "idle"]
  /\ snapshot = [r \in Requests |-> DefaultConfig]
  /\ result   = [r \in Requests |-> "none"]
  /\ view     = [c \in Clients |-> {}]
  /\ consent  = {}
  /\ command  = "Ask"

(* What the task that awaits request_authorization does of itself. *)
RequestStep(r) ==
  \/ DecideByConfig(r) \/ DecideToAsk(r) \/ Register(r) \/ Arm(r)
  \/ Receive(r) \/ ReceiveAll(r) \/ SaveAll(r)
  \/ ChannelClosed(r) \/ TimeoutFires(r) \/ CleanupPendingRequest(r)

ClientStep(c) ==
  \/ GetPendingAuthorizations(c)
  \/ \E r \in Requests :
       \/ \E a \in AuthorizationResponse : HandleResponse(c, r, a)
       \/ CancelAuthorization(c, r)

Next ==
  \/ \E r \in Requests : RequestStep(r) \/ DropRequest(r)
  \/ \E c \in Clients : ClientStep(c)
  \/ SetConfig
  \/ CleanupExpiredRequests

(* The runtime polls a task that can proceed, and timers fire.  Nothing is *)
(* assumed of clients, operators or the clean-up.                          *)
Fairness == \A r \in Requests : WF_vars(RequestStep(r))

Spec == Init /\ [][Next]_vars /\ Fairness
-----------------------------------------------------------------------------
(* Every variable has its type; an entry is under the id of its request. *)
TypeOK ==
  /\ config \in AuthorizationConfig
  /\ pending \in [Ids -> Requests \cup {NoRequest}]
  /\ \A id \in Ids : pending[id] \in Requests => IdOf[pending[id]] = id
  /\ channel \in [Requests -> Channel]
  /\ pc \in [Requests -> Pc]
  /\ snapshot \in [Requests -> AuthorizationConfig]
  /\ result \in [Requests -> {"none", "Err"} \cup AuthorizationResponse]
  /\ view \in [Clients -> SUBSET Requests]
  /\ consent \subseteq Requests \X AuthorizationResponse
  /\ command \in {"Allow", "Deny", "Ask"}

UniqueIds == \A r, s \in Requests : IdOf[r] = IdOf[s] => r = s

(* No lost wake-up: a request whose channel is still empty is exactly one  *)
(* whose sender the map holds, so a person can always answer it, and no    *)
(* sender is ever used twice.  Insertions, answers, time-outs and          *)
(* clean-ups of several requests under one id all touch both.              *)
SenderHeld ==
  \A r \in Requests : channel[r] = "empty" <=> pending[IdOf[r]] = r

(* What each await point of request_authorization knows of the channel and *)
(* of the result: with the two above, what makes the invariants inductive. *)
Phase(r) ==
  /\ pc[r] \in {"idle", "registering"} => channel[r] = "none"
  /\ pc[r] \in {"failing", "expiring"} => channel[r] \notin AuthorizationResponse
  /\ pc[r] = "saving" => channel[r] = "All"
  /\ pc[r] = "done" <=> result[r] # "none"

(* With ids of their own, no awaited channel is closed without a value. *)
NeverClosed(r) ==
  /\ Receiving(r) => channel[r] # "closed"
  /\ pc[r] # "failing"
  /\ result[r] # "Err"

IInv ==
  /\ TypeOK
  /\ SenderHeld
  /\ \A r \in Requests : Phase(r)
  /\ UniqueIds => \A r \in Requests : NeverClosed(r)

(* When no two calls share an id, an approval that reaches a request was   *)
(* given by a client looking at that very request, however late it comes.  *)
ConsentIsSpecific ==
  UniqueIds => \A r \in Requests :
    channel[r] \in {"Yes", "All"} => <<r, channel[r]>> \in consent

(* When no two calls share an id, no race of answers, time-outs, drops and *)
(* clean-ups makes request_authorization fail with a closed channel.       *)
NoSpuriousFailure ==
  UniqueIds => \A r \in Requests : result[r] # "Err"

(* A time-out or a clean-up never overtakes an answer that reached the     *)
(* channel: what was sent is what request_authorization returns.           *)
AnswerIsReturned ==
  [][\A r \in Requests :
       result'[r] # result[r] /\ channel[r] \in AuthorizationResponse
         => result'[r] = channel[r]]_vars

(* Every request that was started returns, answered or not, unless its     *)
(* caller dropped it.                                                      *)
RequestReturns ==
  \A r \in Requests : pc[r] # "idle" ~> pc[r] \in {"done", "dropped"}

(* The answer that reached each request. *)
Answered == [r \in Requests |->
               IF channel[r] \in AuthorizationResponse THEN channel[r] ELSE "none"]

Service == INSTANCE Consent WITH
  policy <- Policy(config), answer <- Answered, verdict <- result

(* One verdict per request, from its own answer or from the policy, and    *)
(* never a grant without either: Consent.tla's specification.              *)
ImplementsConsent == Service!Spec

-----------------------------------------------------------------------------
(* What the repository says and the code does not do.                     *)

(* authorization.rs:11: "Always deny tool execution."  After that mode was *)
(* set, a request must not be let through by the configuration.            *)
DenyModeDenies ==
  [][\A r \in Requests :
       pc[r] = "idle" /\ result'[r] = "Yes" => command # "Deny"]_vars
=============================================================================
