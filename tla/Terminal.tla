------------------------------ MODULE Terminal ------------------------------
(***************************************************************************)
(* A terminal: the UI loop (ui.rs) and its state, the actions service      *)
(* (actions.rs) and the workers it spawns, one per prompt, each talking to *)
(* the agent through one of three clients.  The loop and the service meet  *)
(* in two unbounded channels; a worker writes straight into the loop's.    *)
(*                                                                         *)
(* "Http" is GolaAgUI, "Remote" RemoteGolaTermClient, "Direct"             *)
(* DirectGolaTermClient.  A run of the agent ends in RUN_FINISHED or       *)
(* RUN_ERROR (RunProtocol); over HTTP the connection may break before.     *)
(***************************************************************************)
EXTENDS ChatState

CONSTANTS
  Clients,     \* the clients in use: "Http", "Remote", "Direct"
  MaxDeltas,   \* bound: deltas sent at one start
  MaxInputs    \* bound: what the user starts, asks, resubmits and interrupts

ASSUME ClientsAssumption == Clients \subseteq {"Http", "Remote", "Direct"}

ASSUME BoundsAssumption == {MaxDeltas, MaxInputs} \subseteq Nat

VARIABLES
  client,      \* the client this terminal was started with
  ui,          \* the loop: "down", "starting", "running", "writing"
  app,         \* its AppState
  actions,     \* the channel to the actions service
  events,      \* the channel to the loop
  background,  \* the service: "down", "loop", "clearing", "failed"
  worker,      \* the run of the last worker spawned, 0 before the first
  runs,        \* every prompt sent: how far it is, its context, its deltas
  file,        \* the session file
  inputs,      \* inputs so far
  started      \* whether the session was started

volatile == <<client, ui, app, actions, events, background, worker>>
vars == <<volatile, runs, file, inputs, started>>

NoFile == [saved |-> FALSE, torn |-> FALSE]
Torn   == [saved |-> FALSE, torn |-> TRUE]
Session(state) ==
    [saved |-> TRUE, torn |-> FALSE, messages |-> state.messages, context |-> state.context]

Up == ui # "down"
Live(n) == runs[n].pc = "live"
Deltas == FoldSeq(LAMBDA run, sum : run.deltas + sum, 0, runs)
Run(pc, context) == [pc |-> pc, greeting |-> pc = "live", context |-> context, deltas |-> 0]

TypeOK ==
  /\ client \in Clients \cup {"none"} /\ ui \in {"down", "starting", "running", "writing"}
  /\ background \in {"down", "loop", "clearing", "failed"}
  /\ worker \in 0 .. Len(runs) /\ Len(runs) <= MaxInputs
  /\ \A n \in DOMAIN runs :
       /\ runs[n].pc \in {"asked", "live", "done", "failed", "silent", "aborted", "gone"}
       /\ runs[n].deltas \in 0 .. MaxDeltas
  /\ inputs \in 0 .. MaxInputs /\ started \in BOOLEAN
  /\ app.waiting \in BOOLEAN /\ app.warned \in BOOLEAN
  /\ \A i \in DOMAIN app.messages : app.messages[i].author \in Authors

Init ==
  /\ client = "none" /\ ui = "down" /\ app = NewState
  /\ actions = <<>> /\ events = <<>> /\ background = "down" /\ worker = 0
  /\ runs = <<>> /\ file = NoFile /\ inputs = 0 /\ started = FALSE

-----------------------------------------------------------------------------
(* main spawns the actions service, which spawns a worker for the greeting *)
(* (with no context), and starts the loop.                                 *)
Start ==
  /\ ui = "down" /\ inputs < MaxInputs
  /\ client' \in Clients
  /\ ui' = "starting" /\ background' = "loop" /\ actions' = <<>> /\ events' = <<>>
  /\ runs' = Append(runs, Run("live", <<>>))
  /\ worker' = Len(runs')
  /\ started' = TRUE /\ inputs' = inputs + 1
  /\ UNCHANGED <<app, file>>

(* The end of the process: the workers and what is in the channels go with *)
(* it; a file that was created and not yet written stays empty.            *)
Stop ==
  /\ client' = "none" /\ ui' = "down" /\ app' = NewState /\ background' = "down" /\ actions' = <<>> /\ events' = <<>>
  /\ worker' = 0
  /\ runs' = [n \in DOMAIN runs |->
                [runs[n] EXCEPT !.pc = IF @ = "aborted" THEN @ ELSE "gone",
                                !.context = <<>>, !.deltas = 0]]
  /\ UNCHANGED <<file, inputs, started>>

Crash == Up /\ Stop

(* A session that has never been saved; the editor or the agent may be      *)
(* found wanting.                                                          *)
NewSession ==
  /\ ui = "starting" /\ file = NoFile
  /\ app' \in {NewState, AddMessage(NewState, Notice)}
  /\ ui' = "running"
  /\ UNCHANGED <<client, actions, events, background, worker, runs, file, inputs, started>>

(* from_session *)
OpenSession ==
  /\ ui = "starting" /\ file.saved
  /\ app' = Opened(file) /\ ui' = "running"
  /\ UNCHANGED <<client, actions, events, background, worker, runs, file, inputs, started>>

(* A torn file does not parse: the terminal ends. *)
OpenTorn ==
  /\ ui = "starting" /\ file.torn
  /\ Stop

-----------------------------------------------------------------------------
(* The workers. *)

Goes(n, pc, sent) ==
  /\ runs' = [runs EXCEPT ![n].pc = pc]
  /\ events' = events \o sent
  /\ UNCHANGED <<client, ui, app, actions, background, worker, file, inputs, started>>

NoticeEvent == [kind |-> "Message"]
Response(text, done, context) ==
    [kind |-> "Response", text |-> text, done |-> done, context |-> context]

Said(n) == [k \in 1 .. runs[n].deltas |-> <<n, k>>]
Updated(n) == runs[n].context \o <<<<n, 0>>>> \o Said(n)

Delta(n) ==
  /\ Live(n) /\ Deltas < MaxDeltas
  /\ runs' = [runs EXCEPT ![n].deltas = @ + 1]
  /\ events' = Append(events, Response(<<<<n, runs[n].deltas + 1>>>>, FALSE, <<>>))
  /\ UNCHANGED <<client, ui, app, actions, background, worker, file, inputs, started>>

(* A variant with a bug, to test ScreenInOrder: the last response carries   *)
(* the whole answer.                                                       *)
RunFinishedInFull(n) ==
  /\ Live(n)
  /\ Goes(n, "done", <<Response(Said(n), TRUE, Updated(n))>>)

RunFinished(n) ==
  /\ Live(n)
  /\ Goes(n, "done", <<Response(<<>>, TRUE, Updated(n))>>)

(* A variant with a bug, to test EveryPromptIsAnswered: the error of a      *)
(* worker is dropped.                                                      *)
RunFailsUnheard(n) == Live(n) /\ Goes(n, "failed", <<>>)

(* The request or the run fails: worker_error. *)
RunFails(n) == Live(n) /\ Goes(n, "failed", <<NoticeEvent>>)

(* The connection breaks: GolaAgUI takes what came for the answer,         *)
(* RemoteGolaTermClient returns without a word.                            *)
Cut(n) ==
  /\ Live(n)
  /\ \/ client = "Http" /\ Goes(n, "done", <<Response(<<>>, TRUE, Updated(n))>>)
     \/ client = "Remote" /\ Goes(n, "silent", <<>>)

-----------------------------------------------------------------------------
(* The actions service takes one action at a time. *)

Serving == background = "loop" /\ actions # <<>>
Takes(kind) == Serving /\ Head(actions).kind = kind

Spawn ==
  /\ Takes("Request") /\ Head(actions).run > 0
  /\ worker' = Head(actions).run
  /\ runs' = [runs EXCEPT ![worker'].pc = "live"]
  /\ actions' = Tail(actions)
  /\ UNCHANGED <<client, ui, app, events, background, file, inputs, started>>

Help ==
  /\ Takes("Request") /\ Head(actions).run = 0
  /\ actions' = Tail(actions)
  /\ events' = Append(events, NoticeEvent)
  /\ UNCHANGED <<client, ui, app, background, worker, runs, file, inputs, started>>

(* A variant with a bug, to test InterruptedIsForgotten: the answer so far  *)
(* is kept as the run's.                                                   *)
AbortKeepsText ==
  /\ Takes("Abort")
  /\ runs' = IF Live(worker) THEN [runs EXCEPT ![worker].pc = "aborted"] ELSE runs
  /\ events' = IF Live(worker) THEN Append(events, Response(<<>>, TRUE, Updated(worker))) ELSE events
  /\ actions' = Tail(actions)
  /\ UNCHANGED <<client, ui, app, background, worker, file, inputs, started>>

(* Only the last worker spawned can be aborted; one that ended is not. *)
Abort ==
  /\ Takes("Abort")
  /\ runs' = IF Live(worker) THEN [runs EXCEPT ![worker].pc = "aborted"] ELSE runs
  /\ actions' = Tail(actions)
  /\ UNCHANGED <<client, ui, app, events, background, worker, file, inputs, started>>

(* The clipboard service may fail on what it is given, which ends main. *)
Copy ==
  /\ Takes("Copy")
  /\ actions' = Tail(actions)
  /\ events' = Append(events, NoticeEvent)
  /\ background' \in {"loop", "failed"}
  /\ UNCHANGED <<client, ui, app, worker, runs, file, inputs, started>>

Accept ==
  /\ Takes("Accept")
  /\ actions' = Tail(actions)
  /\ events' \in {events, Append(events, NoticeEvent)}
  /\ UNCHANGED <<client, ui, app, background, worker, runs, file, inputs, started>>

(* Nothing else is served until the agent has answered. *)
ClearMemory ==
  /\ Takes("Clear")
  /\ actions' = Tail(actions) /\ background' = "clearing"
  /\ UNCHANGED <<client, ui, app, events, worker, runs, file, inputs, started>>

MemoryCleared ==
  /\ background = "clearing"
  /\ background' = "loop" /\ events' = Append(events, NoticeEvent)
  /\ UNCHANGED <<client, ui, app, actions, worker, runs, file, inputs, started>>

(* An error of clear_memory ends the service, and that ends main. *)
ClearFails ==
  /\ background = "clearing" /\ background' = "failed"
  /\ UNCHANGED <<client, ui, app, actions, events, worker, runs, file, inputs, started>>

ServiceEnds == background = "failed" /\ Stop

-----------------------------------------------------------------------------
(* The loop. *)

Polling == ui = "running"

(* save_session up to File::create, which empties the file. *)
SaveSession == ui' = "writing" /\ file' = Torn

AgentMessage ==
  /\ Polling /\ events # <<>> /\ Head(events) = NoticeEvent
  /\ app' = [AddMessage(app, Notice) EXCEPT !.waiting = FALSE]
  /\ events' = Tail(events)
  /\ UNCHANGED <<client, ui, actions, background, worker, runs, file, inputs, started>>

AgentPromptResponse ==
  /\ Polling /\ events # <<>> /\ Head(events).kind = "Response"
  /\ app' = HandleAgentResponse(app, Head(events))
  /\ events' = Tail(events)
  /\ IF Head(events).done THEN SaveSession ELSE UNCHANGED <<ui, file>>
  /\ UNCHANGED <<client, actions, background, worker, runs, inputs, started>>

(* save_session, once File::create has emptied the file: the loop waits    *)
(* for write_all, the workers and the service do not.                      *)
WriteFile ==
  /\ ui = "writing" /\ ui' = "running" /\ file' = Session(app)
  /\ UNCHANGED <<client, app, actions, events, background, worker, runs, inputs, started>>

SaveFails == ui = "writing" /\ Stop

-----------------------------------------------------------------------------
(* The keyboard. *)

(* send_user_message for what goes to the agent. *)
Send(input) ==
  LET n == Len(runs) + 1
  IN  /\ inputs < MaxInputs
      /\ runs' = Append(runs, Run("asked", app.context))
      /\ app' = [AddMessage(app, Message("User", input # "prompt", <<<<n, 0>>>>))
                   EXCEPT !.waiting = TRUE]
      /\ actions' = Append(actions, [kind |-> "Request", run |-> n])
      /\ SaveSession /\ inputs' = inputs + 1
      /\ UNCHANGED <<client, events, background, worker, started>>

Enter(input) == Polling /\ ~app.waiting /\ input \in {"prompt", "model"} /\ Send(input)

(* /help takes the same way: only the service finds out that it is no      *)
(* prompt (its run is 0).                                                  *)
AskHelp ==
  /\ Polling /\ ~app.waiting /\ inputs < MaxInputs
  /\ app' = [AddMessage(app, Message("User", TRUE, <<>>)) EXCEPT !.waiting = TRUE]
  /\ actions' = Append(actions, [kind |-> "Request", run |-> 0])
  /\ SaveSession /\ inputs' = inputs + 1
  /\ UNCHANGED <<client, events, background, worker, runs, started>>

Command(input) ==
  /\ Polling /\ ~app.waiting /\ HandledHere(input) /\ input # "quit" /\ inputs < MaxInputs
  /\ app' = HandleSlashCommands(AddMessage(app, Message("User", TRUE, <<>>)), input)
  /\ actions' = actions \o Asks(input)
  /\ inputs' = inputs + 1
  /\ UNCHANGED <<client, ui, events, background, worker, runs, file, started>>

Quit == Polling /\ ~app.waiting /\ Stop

(* Ctrl-C: interrupts, warns, then ends. *)
Interrupt ==
  /\ Polling /\ app.waiting /\ inputs < MaxInputs
  /\ app' = [app EXCEPT !.waiting = FALSE]
  /\ actions' = Append(actions, [kind |-> "Abort"])
  /\ inputs' = inputs + 1
  /\ UNCHANGED <<client, ui, events, background, worker, runs, file, started>>

Warn ==
  /\ Polling /\ ~app.waiting /\ ~app.warned /\ inputs < MaxInputs
  /\ app' = [AddMessage(app, Notice) EXCEPT !.warned = TRUE]
  /\ inputs' = inputs + 1
  /\ UNCHANGED <<client, ui, actions, events, background, worker, runs, file, started>>

Type ==
  /\ Polling /\ ~app.waiting /\ app.warned
  /\ app' = [app EXCEPT !.warned = FALSE]
  /\ UNCHANGED <<client, ui, actions, events, background, worker, runs, file, inputs, started>>

(* Ctrl-R sends the last prompt once more, waiting or not. *)
Resubmit ==
  /\ Polling
  /\ \E i \in DOMAIN app.messages : app.messages[i].author = "User" /\ ~app.messages[i].command
  /\ Send("prompt")

-----------------------------------------------------------------------------
WorkerStep(n) == Delta(n) \/ RunFinished(n) \/ RunFails(n) \/ Cut(n)

ServiceStep ==
  \/ Spawn \/ Help \/ Abort \/ Copy \/ Accept \/ ClearMemory \/ MemoryCleared \/ ClearFails
  \/ ServiceEnds

LoopStep ==
  \/ NewSession \/ OpenSession \/ OpenTorn \/ AgentMessage \/ AgentPromptResponse
  \/ WriteFile \/ SaveFails

UserStep ==
  \/ \E input \in Inputs : Enter(input) \/ Command(input)
  \/ AskHelp \/ Quit \/ Interrupt \/ Warn \/ Type \/ Resubmit

Next ==
  \/ Start \/ Crash \/ LoopStep \/ ServiceStep \/ UserStep
  \/ \E n \in DOMAIN runs : WorkerStep(n)

(* Nothing is asked of the user, nor of a terminal that is down.  The agent *)
(* answers, which for a run is what AgentHandler shows of its streams, and  *)
(* the select of the loop takes an event that stays in its channel.         *)
LoopBusy == ui \in {"starting", "writing"} \/ (Polling /\ events # <<>>)
ServiceBusy == background \in {"clearing", "failed"} \/ Serving
WorkerBusy(n) == n \in DOMAIN runs /\ Live(n)

Fairness ==
  /\ []<>~LoopBusy \/ []<><<LoopStep>>_vars
  /\ []<>~ServiceBusy \/ []<><<ServiceStep>>_vars
  /\ \A n \in 1 .. MaxInputs :
       []<>~WorkerBusy(n) \/ []<><<n \in DOMAIN runs /\ WorkerStep(n)>>_vars

Spec == Init /\ [][Next]_vars /\ Fairness

-----------------------------------------------------------------------------
(* What the terminal shows, and where: the a-th piece of the i-th message. *)
Shown(messages)  == UNION {ToSet(messages[i].text) : i \in DOMAIN messages}
Spots(messages)  == UNION {{i} \X DOMAIN messages[i].text : i \in DOMAIN messages}
Above(x, y)      == x[1] < y[1] \/ (x[1] = y[1] /\ x[2] < y[2])
PiecesInOrder(messages) ==
  LET On(x) == messages[x[1]].text[x[2]]
  IN  \A x \in Spots(messages) : On(x)[2] > 0 =>
        /\ On(x)[2] > 1 => <<On(x)[1], On(x)[2] - 1>> \in Shown(messages)
        /\ \A y \in Spots(messages) :
             Above(x, y) /\ On(y)[1] = On(x)[1] /\ On(y)[2] > 0 => On(x)[2] < On(y)[2]

(* The pieces of an answer are never shown twice, out of order or with a   *)
(* hole, whatever was interrupted, resubmitted, overlapping or reopened:   *)
(* of each run's answer the screen holds the first pieces, in order.       *)
ScreenInOrder == PiecesInOrder(app.messages)

(* The context the agent is asked with holds nothing that the user was not *)
(* shown, but for the prompt of the greeting (the one with no message).    *)
ContextIsShown ==
  \A i \in DOMAIN app.context :
    LET piece == app.context[i] IN
      \/ piece \in Shown(app.messages)
      \/ piece[2] = 0 /\ runs[piece[1]].greeting

(* What the session file holds is what the screen showed at some moment of *)
(* this session: its messages are the first ones, none longer than now.    *)
SavedIsPrefix ==
  ui # "down" /\ ui # "starting" /\ file.saved =>
    /\ Len(file.messages) <= Len(app.messages)
    /\ \A i \in DOMAIN file.messages :
         /\ file.messages[i].author = app.messages[i].author
         /\ IsPrefix(file.messages[i].text, app.messages[i].text)

(* A run that an interrupt stopped is not part of any context, however its *)
(* last events, the interrupt and later prompts cross.                     *)
InterruptedIsForgotten ==
  \A n \in DOMAIN runs :
    runs[n].pc = "aborted" =>
      /\ <<n, 0>> \notin ToSet(app.context)
      /\ \A m \in DOMAIN runs : <<n, 0>> \notin ToSet(runs[m].context)

(* The terminal does not wait for ever: what it waits for answers, fails,  *)
(* or the terminal ends, unless the remote client lost a connection.       *)
EveryPromptIsAnswered ==
  app.waiting ~> \/ ~app.waiting \/ ~Up
                 \/ \E n \in DOMAIN runs : runs[n].pc = "silent"
=============================================================================
