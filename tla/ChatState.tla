----------------------------- MODULE ChatState -----------------------------
(***************************************************************************)
(* What a terminal shows and keeps of a conversation (crates/gola-term,    *)
(* AppState) and what a slash command does to it.                          *)
(*                                                                         *)
(* A text is a sequence of pieces <<n, k>>: <<n, 0>> is the prompt of the  *)
(* run n, <<n, k>> the k-th delta of its answer.  Notices (help, errors,   *)
(* warnings) have no piece.  The layout (bubbles, scrolling) is left out,  *)
(* and so are the code blocks, which are a function of the messages: a     *)
(* command that names one is "accept" or "copyblocks" when they exist and  *)
(* "badblocks" when they do not.  "help" is /help or /about; "model" any   *)
(* command that parses but that only the agent answers.                    *)
(***************************************************************************)
EXTENDS Integers, Sequences, SequencesExt

Authors == {"User", "Gola", "Model"}
Commands == {"model", "quit", "accept", "copyblocks", "badblocks", "copychat", "clear", "help"}
Inputs == {"prompt"} \union Commands

Message(author, command, text) == [author |-> author, command |-> command, text |-> text]
Notice == Message("Gola", FALSE, <<>>)

NewState == [messages |-> <<>>, context |-> <<>>, waiting |-> FALSE, warned |-> FALSE]

(* A variant with a bug, to test SavedIsPrefix: the session as list returns *)
(* it, with the user's first message and no context.                       *)
OpenedFromList(session) ==
    [NewState EXCEPT !.messages =
        SelectSeq(SubSeq(session.messages, 1, 1), LAMBDA m : m.author = "User")]

(* from_session: the state a saved session is opened with. *)
Opened(session) ==
    [NewState EXCEPT !.messages = session.messages, !.context = session.context]

AddMessage(app, message) == [app EXCEPT !.messages = Append(@, message)]

-----------------------------------------------------------------------------
(* A piece of an answer goes to the end of the last message unless that is *)
(* the user's, whichever run it belongs to.                                *)
AppendText(messages, text) ==
    IF messages # <<>> /\ Last(messages).author # "User"
    THEN [messages EXCEPT ![Len(messages)].text = @ \o text]
    ELSE Append(messages, Message("Gola", FALSE, text))

Close(app, context) ==
    LET closed == [app EXCEPT !.waiting = FALSE, !.context = context]
    IN  IF context = <<>> THEN AddMessage(closed, Notice) ELSE closed

(* A variant with a bug, to test ContextIsShown: deltas that come after the *)
(* user interrupted are not shown.                                         *)
IgnoreLateText(app, response) ==
    LET shown == IF app.waiting
                 THEN [app EXCEPT !.messages = AppendText(@, response.text)] ELSE app
    IN  IF response.done THEN Close(shown, response.context) ELSE shown

HandleAgentResponse(app, response) ==
    LET shown == [app EXCEPT !.messages = AppendText(@, response.text)]
    IN  IF response.done THEN Close(shown, response.context) ELSE shown

-----------------------------------------------------------------------------
(* What a command the terminal handles itself asks the actions service. *)
Asks(command) ==
    CASE command \in {"copyblocks", "copychat"} -> <<[kind |-> "Copy"]>>
      [] command = "accept" -> <<[kind |-> "Accept"]>>
      [] command = "clear" -> <<[kind |-> "Clear"]>>
      [] OTHER -> <<>>

(* The other inputs are sent to the agent. *)
HandledHere(input) == input \in Commands \ {"model", "help"}

(* Accepting a block does not make the terminal wait. *)
HandleSlashCommands(app, command) ==
    IF command = "badblocks" THEN AddMessage(app, Notice)
    ELSE [app EXCEPT !.waiting = @ \/ command \in {"copyblocks", "copychat", "clear"}]
=============================================================================
