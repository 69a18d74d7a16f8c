------------------------------- MODULE Memory -------------------------------
(***************************************************************************)
(* The conversation memories (memory/*.rs): a sliding window, a buffer     *)
(* whose older half is summarised when it is too long, and a summary of    *)
(* the whole conversation.  Both summaries are made by the agent's LLM.    *)
(***************************************************************************)
EXTENDS Messages

CONSTANT MaxHistory   \* memory_config.max_history_steps

ASSUME MaxHistoryAssumption == MaxHistory \in Nat

Strategies == {"Window", "SummaryBuffer", "Summary"}

(* A message counts for one unit of the buffer's limit.                    *)
TooLong(messages) == Len(messages) > MaxHistory

(* The messages an added one leaves over for the summary, all of which the *)
(* buffer has already forgotten when the summary is asked for.             *)
Leaving(strategy, messages) ==
  CASE strategy = "Window"        -> <<>>
    [] strategy = "SummaryBuffer" -> IF TooLong(messages)
                                     THEN SubSeq(messages, 1, Len(messages) \div 2)
                                     ELSE <<>>
    [] strategy = "Summary"       -> messages

(* A variant with a bug, to test MemoryIsRecent: the newest is dropped.    *)
PushOntoFull(strategy, messages, m) ==
  IF strategy = "Window" /\ Len(messages) >= MaxHistory /\ messages # <<>>
  THEN Append(Front(messages), m)
  ELSE Append(messages, m)

Push(strategy, messages, m) ==
  IF strategy = "Window" /\ Len(messages) >= MaxHistory /\ messages # <<>>
  THEN Append(Tail(messages), m)
  ELSE Append(messages, m)

Kept(strategy, messages) ==
  IF strategy = "SummaryBuffer"
  THEN SubSeq(messages, Len(Leaving(strategy, messages)) + 1, Len(messages))
  ELSE messages

(* Tool messages from before the last message with calls are left out.     *)
Recent(messages) ==
  LET last == SelectLastInSeq(messages, HasCalls)
  IN OfRoles(SubSeq(messages, 1, last - 1), Roles \ {"Tool"})
       \o SubSeq(messages, IF last = 0 THEN 1 ELSE last, Len(messages))

SummaryMessage == Message("System", "summary", 0)

GetContext(strategy, messages, summary) ==
  CASE strategy = "Window"        -> Recent(messages)
    [] strategy = "SummaryBuffer" -> (IF summary THEN <<SummaryMessage>> ELSE <<>>)
                                       \o Recent(messages)
    [] strategy = "Summary"       -> <<SummaryMessage>>
=============================================================================
