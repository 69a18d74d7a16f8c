---------------------------- MODULE LoopDetector ----------------------------
(***************************************************************************)
(* PatternDetector (loop_detection/pattern_detector.rs): a sliding window  *)
(* of the agent's last tool calls, with a cached count per signature, that *)
(* tells when one call, or one kind of call, keeps coming back.            *)
(*                                                                         *)
(* A call stands for a tool name with its arguments: two calls are equal   *)
(* when their signature hashes are.  How alike two argument values are is  *)
(* the relation Similar (similarity of at least 0.7).                      *)
(***************************************************************************)
EXTENDS Naturals, Sequences, FiniteSets

CONSTANTS
  Calls,             \* tool calls: a name and arguments
  Similar,           \* pairs of calls of one tool with similar arguments
  Steps,             \* step numbers of a run
  Window,            \* detection_window_size
  ExactThreshold,    \* exact_match_threshold
  SimilarThreshold   \* similar_match_threshold

ASSUME WindowAssumption == Window \in Nat \ {0}
ASSUME ThresholdAssumption == ExactThreshold \in Nat
ASSUME SimilarAssumption == Similar \subseteq Calls \X Calls

VARIABLES
  callHistory,       \* the window, oldest first
  exactMatchCounts,  \* per call, how often the window is believed to hold it
  pattern            \* what the last add_tool_call reported

detectorVars == <<callHistory, exactMatchCounts, pattern>>

ToolCallRecord == [call : Calls, step : Steps]

(* Whether a pattern is_problematic; suspicious ones are not and count as  *)
(* no loop.                                                                *)
Patterns == {"ExactLoop", "SimilarLoop", "NoLoop"}

(* detect_similar_patterns: other steps' calls like the latest, and itself *)
SimilarCount(h, r) ==
  1 + Cardinality({i \in DOMAIN h : /\ h[i].step # r.step
                                    /\ <<h[i].call, r.call>> \in Similar})

(* A variant with a bug, to test ExactLoopMeansRepeated and                *)
(* RepeatsAreBounded.                                                      *)
DetectPatternsLate(h, counts, r) ==
  IF counts[r.call] > ExactThreshold THEN "ExactLoop"
  ELSE IF SimilarCount(h, r) >= SimilarThreshold THEN "SimilarLoop"
  ELSE "NoLoop"

DetectPatterns(h, counts, r) ==
  IF counts[r.call] >= ExactThreshold THEN "ExactLoop"
  ELSE IF SimilarCount(h, r) >= SimilarThreshold THEN "SimilarLoop"
  ELSE "NoLoop"

(* A variant with a bug, to test CountsMatchWindow. *)
ForgetNothing(counts, c) == counts

(* The count of the call that leaves the window goes down, saturating. *)
Forget(counts, c) ==
  [counts EXCEPT ![c] = IF counts[c] = 0 THEN 0 ELSE counts[c] - 1]

AddToolCall(r) ==
  LET h == Append(callHistory, r)
      full == Len(h) > Window
      kept == IF full THEN Forget(exactMatchCounts, Head(h).call)
              ELSE exactMatchCounts
  IN /\ callHistory' = IF full THEN Tail(h) ELSE h
     /\ exactMatchCounts' = [kept EXCEPT ![r.call] = kept[r.call] + 1]
     /\ pattern' = DetectPatterns(callHistory', exactMatchCounts', r)

Clear ==
  /\ callHistory' = <<>>
  /\ exactMatchCounts' = [c \in Calls |-> 0]
  /\ pattern' = "NoLoop"

InitDetector ==
  /\ callHistory = <<>>
  /\ exactMatchCounts = [c \in Calls |-> 0]
  /\ pattern = "NoLoop"

NextDetector == (\E r \in ToolCallRecord : AddToolCall(r)) \/ Clear

SpecDetector == InitDetector /\ [][NextDetector]_detectorVars

-----------------------------------------------------------------------------
(* The window holds at most Window records, the counts are numbers. *)
DetectorTypeOK ==
  /\ callHistory \in Seq(ToolCallRecord)
  /\ Len(callHistory) <= Window
  /\ exactMatchCounts \in [Calls -> Nat]
  /\ pattern \in Patterns

Occurrences(h, c) == Cardinality({i \in DOMAIN h : h[i].call = c})

(* The cached counts never drift from the window, whatever enters, leaves  *)
(* or is cleared: a count too high ends runs that do not loop, one too low *)
(* lets a loop go on.                                                      *)
CountsMatchWindow ==
  \A c \in Calls : exactMatchCounts[c] = Occurrences(callHistory, c)

(* A call is reported as an exact loop exactly when the last Window calls  *)
(* hold it ExactThreshold times.                                           *)
ExactLoopMeansRepeated ==
  callHistory # <<>> =>
    (pattern = "ExactLoop" <=>
       Occurrences(callHistory, callHistory[Len(callHistory)].call) >= ExactThreshold)
=============================================================================
