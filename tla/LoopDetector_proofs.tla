------------------------ MODULE LoopDetector_proofs ------------------------
(***************************************************************************)
(* The cached counts of the loop detector agree with its window, for any   *)
(* window size, any thresholds and any calls.                              *)
(***************************************************************************)
EXTENDS LoopDetector, FiniteSetTheorems, FunctionTheorems, TLAPS

(* Where a call stands in a window. *)
Places(h, c) == {i \in DOMAIN h : h[i].call = c}

LEMMA PlacesFinite ==
  ASSUME NEW h \in Seq(ToolCallRecord), NEW c
  PROVE  /\ IsFiniteSet(Places(h, c))
         /\ Occurrences(h, c) = Cardinality(Places(h, c))
         /\ Occurrences(h, c) \in Nat
<1>1. IsFiniteSet(1 .. Len(h))
  BY FS_Interval
<1>2. Places(h, c) \subseteq 1 .. Len(h)
  BY DEF Places
<1>3. IsFiniteSet(Places(h, c))
  BY <1>1, <1>2, FS_Subset
<1>4. QED
  BY <1>3, FS_CardinalityType DEF Places, Occurrences

(* A record at the end counts once for its call and for no other. *)
LEMMA OccurrencesAppend ==
  ASSUME NEW h \in Seq(ToolCallRecord), NEW r \in ToolCallRecord, NEW c \in Calls
  PROVE  Occurrences(Append(h, r), c) =
           Occurrences(h, c) + (IF r.call = c THEN 1 ELSE 0)
<1> DEFINE n == Len(h) + 1
<1>1. Places(Append(h, r), c) =
        IF r.call = c THEN Places(h, c) \cup {n} ELSE Places(h, c)
  BY DEF Places
<1>2. n \notin Places(h, c)
  BY DEF Places
<1>3. Append(h, r) \in Seq(ToolCallRecord)
  OBVIOUS
<1>4. Occurrences(Append(h, r), c) = Cardinality(Places(Append(h, r), c))
  BY <1>3, PlacesFinite
<1>5. Cardinality(Places(h, c) \cup {n}) = Cardinality(Places(h, c)) + 1
  BY <1>2, PlacesFinite, FS_AddElement
<1> HIDE DEF n
<1>6. QED
  BY <1>1, <1>4, <1>5, PlacesFinite

(* Without its first record, a window holds that record's call once less. *)
LEMMA OccurrencesTail ==
  ASSUME NEW h \in Seq(ToolCallRecord), h # <<>>, NEW c \in Calls
  PROVE  Occurrences(h, c) =
           Occurrences(Tail(h), c) + (IF Head(h).call = c THEN 1 ELSE 0)
<1> DEFINE P == Places(h, c) \ {1}
           Q == Places(Tail(h), c)
           f == [i \in P |-> i - 1]
<1>1. Tail(h) \in Seq(ToolCallRecord) /\ Len(Tail(h)) = Len(h) - 1
  OBVIOUS
<1>2. \A i \in 1 .. Len(h) - 1 : Tail(h)[i] = h[i + 1]
  OBVIOUS
<1>3. P = {i \in 2 .. Len(h) : h[i].call = c}
  BY DEF Places
<1>4. Q = {i \in 1 .. Len(h) - 1 : h[i + 1].call = c}
  BY <1>1, <1>2 DEF Places
<1>5. f \in Bijection(P, Q)
  <2>1. f \in [P -> Q]
    BY <1>3, <1>4
  <2>2. \A i, j \in P : f[i] = f[j] => i = j
    BY <1>3
  <2>3. \A j \in Q : \E i \in P : f[i] = j
    <3>1. ASSUME NEW j \in Q PROVE j + 1 \in P /\ f[j + 1] = j
      BY <1>3, <1>4
    <3>2. QED
      BY <3>1
  <2>4. QED
    BY <2>1, <2>2, <2>3, Fun_IsBij
<1>6. IsFiniteSet(P) /\ IsFiniteSet(Q) /\ Cardinality(P) = Cardinality(Q)
  <2>1. IsFiniteSet(P)
    BY PlacesFinite, FS_Subset
  <2>2. QED
    BY <1>5, <2>1, FS_Bijection DEF ExistsBijection
<1>7. Occurrences(Tail(h), c) = Cardinality(Q)
  BY <1>1, PlacesFinite
<1>8. Head(h).call = c <=> 1 \in Places(h, c)
  BY DEF Places
<1>9. CASE Head(h).call = c
  <2>1. Places(h, c) = P \cup {1} /\ 1 \notin P
    BY <1>8, <1>9
  <2>2. Cardinality(Places(h, c)) = Cardinality(P) + 1
    BY <1>6, <2>1, FS_AddElement
  <2>3. Occurrences(h, c) = Cardinality(P) + 1
    BY <2>2, PlacesFinite
  <2> HIDE DEF P, Q, f
  <2>4. QED
    BY <1>6, <1>7, <1>9, <2>3
<1>10. CASE Head(h).call # c
  <2>1. Places(h, c) = P
    BY <1>8, <1>10
  <2>2. Occurrences(h, c) = Cardinality(P)
    BY <2>1, PlacesFinite
  <2>3. Cardinality(P) \in Nat
    BY <1>6, FS_CardinalityType
  <2> HIDE DEF P, Q, f
  <2>4. QED
    BY <1>6, <1>7, <1>10, <2>2, <2>3
<1> HIDE DEF P, Q, f
<1>11. QED
  BY <1>9, <1>10
-----------------------------------------------------------------------------
(* The invariant is inductive as it stands: the three parts support each   *)
(* other.  The saturating subtraction never saturates, because the call    *)
(* that leaves the window was counted.                                     *)
DInv == DetectorTypeOK /\ CountsMatchWindow /\ ExactLoopMeansRepeated

LEMMA DInitInv == InitDetector => DInv
<1> SUFFICES ASSUME InitDetector PROVE DInv
  OBVIOUS
<1>1. DetectorTypeOK
  BY WindowAssumption DEF InitDetector, DetectorTypeOK, Patterns
<1>2. \A c \in Calls : Occurrences(<<>>, c) = 0
  <2>1. \A c : {i \in DOMAIN <<>> : <<>>[i].call = c} = {}
    OBVIOUS
  <2>2. QED
    BY <2>1, FS_EmptySet DEF Occurrences
<1>3. QED
  BY <1>1, <1>2
     DEF InitDetector, DInv, CountsMatchWindow, ExactLoopMeansRepeated

LEMMA DClearInv == DInv /\ Clear => DInv'
<1> SUFFICES ASSUME DInv, Clear PROVE DInv'
  OBVIOUS
<1>1. DetectorTypeOK'
  BY WindowAssumption DEF Clear, DetectorTypeOK, Patterns
<1>2. \A c \in Calls : Occurrences(callHistory', c) = 0
  <2>1. \A c : {i \in DOMAIN <<>> : <<>>[i].call = c} = {}
    OBVIOUS
  <2>2. QED
    BY <2>1, FS_EmptySet DEF Occurrences, Clear
<1>3. QED
  BY <1>1, <1>2 DEF Clear, DInv, CountsMatchWindow, ExactLoopMeansRepeated, Occurrences

LEMMA DAddInv ==
  ASSUME DInv, NEW r \in ToolCallRecord, AddToolCall(r)
  PROVE  /\ DInv'
         /\ callHistory' # <<>>
         /\ callHistory'[Len(callHistory')] = r
<1> DEFINE h == Append(callHistory, r)
           full == Len(h) > Window
           kept == IF full THEN Forget(exactMatchCounts, Head(h).call)
                   ELSE exactMatchCounts
<1> USE WindowAssumption
<1>1. /\ callHistory \in Seq(ToolCallRecord) /\ Len(callHistory) <= Window
      /\ exactMatchCounts \in [Calls -> Nat]
      /\ \A c \in Calls : exactMatchCounts[c] = Occurrences(callHistory, c)
      /\ r.call \in Calls
  BY DEF DInv, DetectorTypeOK, CountsMatchWindow, ToolCallRecord
<1>2. /\ callHistory' = IF full THEN Tail(h) ELSE h
      /\ exactMatchCounts' = [kept EXCEPT ![r.call] = kept[r.call] + 1]
      /\ pattern' = DetectPatterns(callHistory', exactMatchCounts', r)
  BY DEF AddToolCall
<1>3. /\ h \in Seq(ToolCallRecord) /\ Len(h) = Len(callHistory) + 1
      /\ h # <<>> /\ Tail(h) \in Seq(ToolCallRecord)
  <2>1. h \in Seq(ToolCallRecord) /\ Len(h) = Len(callHistory) + 1
    BY <1>1
  <2>2. h # <<>>
    <3>1. Len(callHistory) + 1 # 0
      BY <1>1
    <3> HIDE DEF h
    <3>2. QED
      BY <2>1, <3>1
  <2> HIDE DEF h
  <2>3. QED
    BY <2>1, <2>2
<1>4. /\ callHistory' \in Seq(ToolCallRecord)
      /\ Len(callHistory') <= Window
      /\ callHistory' # <<>>
      /\ callHistory'[Len(callHistory')] = r
  <2>1. CASE full
    BY <1>1, <1>2, <1>3, <2>1
  <2>2. CASE ~full
    BY <1>1, <1>2, <1>3, <2>2
  <2>3. QED
    BY <2>1, <2>2
<1>5. /\ kept \in [Calls -> Nat]
      /\ \A c \in Calls : kept[c] =
           IF full /\ Head(h).call = c THEN exactMatchCounts[c] - 1
           ELSE exactMatchCounts[c]
  <2>1. CASE full
    <3>1. /\ callHistory # <<>>
          /\ Head(h) = Head(callHistory)
          /\ Head(h).call \in Calls
      <4>1. Len(callHistory) > 0
        BY <1>1, <1>3, <2>1
      <4>2. Head(h) = Head(callHistory) /\ Head(callHistory) \in ToolCallRecord
        BY <1>1, <4>1
      <4>3. QED
        BY <4>1, <4>2 DEF ToolCallRecord
    <3>2. exactMatchCounts[Head(h).call] >= 1
      <4>1. Tail(callHistory) \in Seq(ToolCallRecord)
        BY <1>1, <3>1
      <4>2. Occurrences(Tail(callHistory), Head(h).call) \in Nat
        BY <4>1, PlacesFinite
      <4>3. Occurrences(callHistory, Head(h).call) =
              Occurrences(Tail(callHistory), Head(h).call) + 1
        BY <1>1, <3>1, OccurrencesTail
      <4>4. QED
        BY <1>1, <3>1, <4>2, <4>3
    <3> HIDE DEF h, full
    <3>3. QED
      BY <1>1, <2>1, <3>1, <3>2 DEF Forget
  <2>2. CASE ~full
    BY <1>1, <2>2
  <2>3. QED
    BY <2>1, <2>2
<1>6. \A c \in Calls : exactMatchCounts'[c] = Occurrences(callHistory', c)
  <2> SUFFICES ASSUME NEW c \in Calls
               PROVE  exactMatchCounts'[c] = Occurrences(callHistory', c)
    OBVIOUS
  <2>1. exactMatchCounts'[c] = kept[c] + (IF r.call = c THEN 1 ELSE 0)
    BY <1>1, <1>2, <1>5
  <2>2. Occurrences(h, c) = exactMatchCounts[c] + (IF r.call = c THEN 1 ELSE 0)
    BY <1>1, OccurrencesAppend
  <2>3. CASE full
    <3>1. Occurrences(h, c) =
            Occurrences(Tail(h), c) + (IF Head(h).call = c THEN 1 ELSE 0)
      BY <1>3, OccurrencesTail
    <3>2. Occurrences(Tail(h), c) \in Nat
      BY <1>3, PlacesFinite
    <3>3. callHistory' = Tail(h)
      BY <1>2, <2>3
    <3> HIDE DEF h, kept, full
    <3>4. QED
      BY <1>1, <1>5, <2>1, <2>2, <2>3, <3>1, <3>2, <3>3
  <2>4. CASE ~full
    <3>1. callHistory' = h
      BY <1>2, <2>4
    <3> HIDE DEF h, kept, full
    <3>2. QED
      BY <1>5, <2>1, <2>2, <2>4, <3>1
  <2>5. QED
    BY <2>3, <2>4
<1>7. exactMatchCounts' \in [Calls -> Nat]
  <2> HIDE DEF kept
  <2>1. QED
    BY <1>1, <1>2, <1>5
<1>8. pattern' \in Patterns
  BY <1>2 DEF DetectPatterns, Patterns
<1>9. pattern' = "ExactLoop" <=>
        Occurrences(callHistory', r.call) >= ExactThreshold
  BY <1>1, <1>2, <1>6 DEF DetectPatterns
<1>10. QED
  <2> HIDE DEF h, kept, full
  <2>1. DetectorTypeOK'
    BY <1>4, <1>7, <1>8 DEF DetectorTypeOK
  <2>2. CountsMatchWindow'
    BY <1>6 DEF CountsMatchWindow, Occurrences
  <2>3. ExactLoopMeansRepeated'
    BY <1>4, <1>9 DEF ExactLoopMeansRepeated, Occurrences
  <2>4. QED
    BY <1>4, <2>1, <2>2, <2>3 DEF DInv

LEMMA DStutterInv == DInv /\ UNCHANGED detectorVars => DInv'
BY DEF DInv, detectorVars, DetectorTypeOK, CountsMatchWindow,
       ExactLoopMeansRepeated, Occurrences

LEMMA DetectorInductive == SpecDetector => []DInv
<1>1. DInv /\ [NextDetector]_detectorVars => DInv'
  BY DAddInv, DClearInv, DStutterInv DEF NextDetector
<1>2. QED
  BY <1>1, DInitInv, PTL DEF SpecDetector

(* The cached counts of add_tool_call and clear never drift from the       *)
(* window.                                                                 *)
THEOREM CountsNeverDrift == SpecDetector => []CountsMatchWindow
BY DetectorInductive, PTL DEF DInv

(* An exact loop is reported for a call exactly when the window holds it   *)
(* ExactThreshold times: eviction hides no loop and invents none.          *)
THEOREM ExactLoopsAreFound == SpecDetector => []ExactLoopMeansRepeated
BY DetectorInductive, PTL DEF DInv

(* The window never grows past its bound.                                  *)
THEOREM DetectorTypeCorrect == SpecDetector => []DetectorTypeOK
BY DetectorInductive, PTL DEF DInv
=============================================================================
