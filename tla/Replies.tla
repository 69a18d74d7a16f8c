------------------------------- MODULE Replies -------------------------------
(***************************************************************************)
(* What the clients of the three providers (llm/providers) make of a reply *)
(* with status 200: the text and the number of tool calls an LLMResponse   *)
(* has, or an error.                                                       *)
(*                                                                         *)
(* A text is empty, blank (white space) or has words.  A call is good, has *)
(* no id or name, or has arguments that are not JSON.                      *)
(***************************************************************************)
EXTENDS Naturals, Sequences, SequencesExt, FiniteSets

CONSTANT MaxCalls   \* bound: the most tool calls in one reply

ASSUME MaxCallsAssumption == MaxCalls \in Nat

MaxTexts  == 2      \* bound: the most parts with text in one reply
Texts     == {"empty", "blank", "words"}
Calls     == {"good", "nameless", "badjson"}

ParseError          == [ok |-> FALSE, text |-> "none", calls |-> 0]
Response(text, n)   == [ok |-> TRUE, text |-> text, calls |-> n]
Count(calls, kind)  == Cardinality({i \in DOMAIN calls : calls[i] = kind})

(* Concatenated, or joined by a blank.                                     *)
Concatenated(texts) ==
  CASE Contains(texts, "words") -> "words"
    [] Contains(texts, "blank") -> "blank"
    [] OTHER                    -> "empty"

JoinedByBlank(texts) ==
  IF Len(texts) > 1 /\ Concatenated(texts) = "empty" THEN "blank" ELSE Concatenated(texts)

(* OpenAI: one text or none.  A call without id or name is skipped, a call *)
(* with bad arguments spoils the reply.  Something must be left.           *)
ParseResponse(reply) ==
  LET text == IF reply.texts = <<>> THEN "none" ELSE Head(reply.texts)
      n    == Count(reply.calls, "good")
  IN IF \/ ~reply.choice
        \/ Contains(reply.calls, "badjson")
        \/ text = "none" /\ n = 0
     THEN ParseError
     ELSE Response(text, n)

(* Anthropic: an empty text is none.  serde has refused any other call.    *)
ConvertResponse(reply) ==
  IF \E kind \in Calls \ {"good"} : Contains(reply.calls, kind) THEN ParseError
  ELSE Response(IF Concatenated(reply.texts) = "empty" THEN "none"
                ELSE Concatenated(reply.texts),
                Count(reply.calls, "good"))

(* Gemini: an empty text is a text.  The ids are made up by the client.    *)
ConvertGeminiResponse(reply) ==
  IF \/ ~reply.choice
     \/ \E kind \in Calls \ {"good"} : Contains(reply.calls, kind)
  THEN ParseError
  ELSE Response(IF reply.texts = <<>> THEN "none" ELSE JoinedByBlank(reply.texts),
                Count(reply.calls, "good"))

(* The replies a provider may send; OpenAI's has one text at most.         *)
Replies == [choice : BOOLEAN, texts : BoundedSeq(Texts, MaxTexts),
            calls : BoundedSeq(Calls, MaxCalls)]

OpenAIResponses    == {ParseResponse(r) : r \in {r \in Replies : Len(r.texts) <= 1}}
AnthropicResponses == {ConvertResponse(r) : r \in Replies}
GeminiResponses    == {ConvertGeminiResponse(r) : r \in Replies}

Responses(provider) ==
  {r \in CASE provider = "OpenAI"    -> OpenAIResponses
           [] provider = "Anthropic" -> AnthropicResponses
           [] provider = "Gemini"    -> GeminiResponses : r.ok}

(* A summary is the text that came back, or nothing.                       *)
UnwrapOrDefault(r) == IF r.text = "none" THEN "empty" ELSE r.text
=============================================================================
