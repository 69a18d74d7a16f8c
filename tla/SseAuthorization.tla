-------------------------- MODULE SseAuthorization --------------------------
(***************************************************************************)
(* The other authorization handler, SseAuthorizationHandler                *)
(* (sse_authorization_handler.rs).  It keeps the map, the channels and the *)
(* time-outs of the polling handler, and differs in three ways: a request  *)
(* is announced by an event, sent before the request is in the map; an     *)
(* answer nobody waits for is taken without an error; and the answer "All" *)
(* leaves the configuration alone.                                         *)
(***************************************************************************)
EXTENDS ToolAuthorization

VARIABLES
  announced,    \* the requests whose event the client has not answered yet
  listening     \* whether the receiver of the events exists

eventVars == <<announced, listening>>
sseVars   == <<vars, eventVars>>

InitSse == Init /\ announced = {} /\ listening = TRUE

-----------------------------------------------------------------------------
(* request_authorization: the event leaves first... *)
Announce(r) ==
  /\ pc[r] = "idle" /\ Policy(config) = "Ask"
  /\ \/ listening  /\ announced' = announced \cup {r} /\ Goto(r, "registering")
     \/ ~listening /\ UNCHANGED announced /\ Return(r, "Err")
  /\ UNCHANGED <<config, serverVars, snapshot, clientVars, listening>>

(* ...and every answer is returned as it is. *)
ReceiveAny(r) ==
  /\ pc[r] = "waiting" /\ channel[r] \in AuthorizationResponse
  /\ Return(r, channel[r])
  /\ UNCHANGED <<config, serverVars, snapshot, clientVars, eventVars>>

SseRequestStep(r) ==
  \/ Announce(r) \/ ReceiveAny(r)
  \/ /\ \/ DecideByConfig(r) \/ Register(r) \/ Arm(r)
        \/ ChannelClosed(r) \/ TimeoutFires(r) \/ CleanupPendingRequest(r)
     /\ UNCHANGED eventVars

(* A variant with a bug, to test HandlersKeepConsent: an answer that       *)
(* finds no entry is given to the request all the same.                    *)
AnswerEventAnyway(r, a) ==
  /\ r \in announced
  /\ announced' = announced \ {r}
  /\ IF pending[IdOf[r]] # NoRequest THEN TakeEntries({IdOf[r]}, a)
     ELSE channel' = [channel EXCEPT ![r] = a] /\ UNCHANGED pending
  /\ UNCHANGED <<config, requestVars, clientVars, listening>>

(* handle_response: the client answers an event once.  Without an entry    *)
(* under the id, not yet or not any more, the answer is lost.              *)
AnswerEvent(r, a) ==
  /\ r \in announced
  /\ announced' = announced \ {r}
  /\ IF pending[IdOf[r]] # NoRequest THEN TakeEntries({IdOf[r]}, a) ELSE UNCHANGED serverVars
  /\ UNCHANGED <<config, requestVars, clientVars, listening>>

(* cancel_authorization, for any id. *)
CancelById ==
  /\ \E id \in Ids : pending[id] # NoRequest /\ TakeEntries({id}, "No")
  /\ UNCHANGED <<config, requestVars, clientVars, eventVars>>

StopListening ==
  /\ listening' = FALSE /\ announced' = {}
  /\ UNCHANGED vars

NextSse ==
  \/ \E r \in Requests :
       \/ SseRequestStep(r)
       \/ DropRequest(r) /\ UNCHANGED eventVars
       \/ \E a \in AuthorizationResponse : AnswerEvent(r, a)
  \/ CancelById \/ StopListening
  \/ (SetConfig \/ CleanupExpiredRequests) /\ UNCHANGED eventVars

-----------------------------------------------------------------------------
SpecSse == InitSse /\ [][NextSse]_sseVars

(* Nothing depends on an "All" of this handler: it is a yes to one request.*)
AsYes(v) == IF v = "All" THEN "Yes" ELSE v

SseService == INSTANCE Consent WITH
  policy  <- Policy(config),
  answer  <- [r \in Requests |-> AsYes(Answered[r])],
  verdict <- [r \in Requests |-> AsYes(result[r])]

(* This handler too gives one verdict per request, from its own answer or  *)
(* from the policy, and no answer of one request opens another.            *)
SseImplementsConsent == SseService!Spec
=============================================================================
