------------------------- MODULE Conversation_proofs -------------------------
(***************************************************************************)
(* What the conversation's memory and the client's stack keep, for every   *)
(* configuration and every list of messages.                               *)
(***************************************************************************)
EXTENDS Conversation, Induction, SequenceTheorems, FiniteSetTheorems

-----------------------------------------------------------------------------
(* The validator. *)

LEMMA MessageTypes ==
  /\ \A role \in Roles, body \in Bodies, n \in Nat : Message(role, body, n) \in LLMMessages
  /\ \A id \in Ids : Synthetic(id) \in LLMMessages
<1>1. ASSUME NEW role \in Roles, NEW body \in Bodies, NEW n \in Nat
      PROVE  Message(role, body, n) \in LLMMessages
  BY DEF Message, LLMMessages
<1>2. ASSUME NEW id \in Ids PROVE Synthetic(id) \in LLMMessages
  <2> DEFINE m == Message("Tool", "synthetic", 0)
  <2>1. m \in LLMMessages
    <3>1. "Tool" \in Roles /\ "synthetic" \in Bodies /\ 0 \in Nat
      BY DEF Roles, Bodies
    <3>2. QED
      BY <3>1, <1>1
  <2> HIDE DEF m
  <2>2. [m EXCEPT !.re = id] \in LLMMessages
    BY <2>1 DEF LLMMessages
  <2>3. QED
    BY <2>2 DEF Synthetic, Responding, m
<1>3. QED
  BY <1>1, <1>2

LEMMA MessageFields ==
  ASSUME NEW ms \in Seq(LLMMessages), NEW i \in 1 .. Len(ms)
  PROVE  /\ ms[i] \in LLMMessages
         /\ ms[i].role \in Roles /\ ms[i].body \in Bodies /\ ms[i].n \in Nat
         /\ ms[i].calls \in Seq(Ids) /\ ms[i].re \in Ids \cup {NoId}
<1>1. ms[i] \in LLMMessages
  OBVIOUS
<1>2. QED
  BY <1>1 DEF LLMMessages

LEMMA SyntheticFields ==
  ASSUME NEW id
  PROVE  /\ Synthetic(id).role = "Tool" /\ Synthetic(id).re = id
         /\ Synthetic(id).n = 0 /\ Synthetic(id).calls = <<>>
BY DEF Synthetic, Responding, Message

(* OrphanedCalls are the calls of a message that have no response.         *)
LEMMA OrphansAre ==
  ASSUME NEW ms \in Seq(LLMMessages), NEW i \in 1 .. Len(ms)
  PROVE  /\ OrphanedCalls(ms, i) \in Seq(Ids)
         /\ \A k \in 1 .. Len(OrphanedCalls(ms, i)) :
              /\ HasCalls(ms[i]) /\ OrphanedCalls(ms, i)[k] \in CallIds(ms[i])
              /\ ~Answered(ms, i, OrphanedCalls(ms, i)[k])
         /\ HasCalls(ms[i]) => \A id \in CallIds(ms[i]) :
              ~Answered(ms, i, id) =>
                \E k \in 1 .. Len(OrphanedCalls(ms, i)) : OrphanedCalls(ms, i)[k] = id
<1> DEFINE cs == ms[i].calls
           I == {k \in DOMAIN cs : ~Answered(ms, i, cs[k])}
           oc == Sublist(cs, I)
<1>1. cs \in Seq(Ids)
  <2>1. ms[i] \in LLMMessages
    OBVIOUS
  <2>2. QED
    BY <2>1 DEF LLMMessages
<1>2. CallIds(ms[i]) = {cs[k] : k \in 1 .. Len(cs)}
  <2>1. DOMAIN cs = 1 .. Len(cs)
    BY <1>1
  <2>2. QED
    BY <2>1 DEF CallIds, ToSet
<1>3. CASE ~HasCalls(ms[i])
  <2>1. OrphanedCalls(ms, i) = <<>>
    BY <1>3 DEF OrphanedCalls
  <2>2. QED
    BY <2>1, <1>3
<1>4. CASE HasCalls(ms[i])
  <2>1. OrphanedCalls(ms, i) = oc
    BY <1>4 DEF OrphanedCalls
  <2>2. PICK at : Taken(oc, cs, I, Len(cs), at)
    <3> HIDE DEF I, cs
    <3>1. QED
      BY <1>1, SublistPlaces
  <2>3. oc \in Seq(Ids)
    <3> HIDE DEF I, cs
    <3>1. QED
      BY <1>1, SublistPlaces
  <2>4. ASSUME NEW k \in 1 .. Len(oc)
        PROVE  oc[k] \in CallIds(ms[i]) /\ ~Answered(ms, i, oc[k])
    <3> HIDE DEF oc, cs
    <3>1. PICK c \in I : oc[k] = cs[c] /\ c \in 1 .. Len(cs)
      <4> HIDE DEF I
      <4>1. QED
        BY <2>2, <2>4 DEF Taken
    <3>2. QED
      BY <3>1, <1>2
  <2>5. ASSUME NEW id \in CallIds(ms[i]), ~Answered(ms, i, id)
        PROVE  \E k \in 1 .. Len(oc) : oc[k] = id
    <3>1. PICK c \in 1 .. Len(cs) : cs[c] = id
      BY <2>5, <1>2
    <3>2. c \in I
      BY <3>1, <2>5, <1>1
    <3> HIDE DEF oc, I, cs
    <3>3. QED
      BY <3>1, <3>2, <2>2 DEF Taken
  <2> HIDE DEF oc
  <2>6. QED
    BY <2>1, <2>3, <2>4, <2>5, <1>4
<1>5. QED
  BY <1>3, <1>4

(* What stands for message i after the validation.                         *)
FirstFixed(ms, i) ==
  IF OrphanedResponse(ms, i) THEN Message("System", ms[i].body, ms[i].n) ELSE ms[i]

LEMMA FixedAre ==
  ASSUME NEW ms \in Seq(LLMMessages), NEW i \in 1 .. Len(ms)
  PROVE  /\ Fixed(ms, i) \in Seq(LLMMessages)
         /\ Len(Fixed(ms, i)) >= 1
         /\ Fixed(ms, i)[1] = FirstFixed(ms, i)
         /\ \A k \in 1 .. Len(Fixed(ms, i)) : k # 1 =>
              \E id \in Ids : /\ HasCalls(ms[i]) /\ id \in CallIds(ms[i])
                              /\ Fixed(ms, i)[k] = Synthetic(id)
         /\ HasCalls(ms[i]) => \A id \in CallIds(ms[i]) :
              ~Answered(ms, i, id) =>
                \E k \in 1 .. Len(Fixed(ms, i)) : k # 1 /\ Fixed(ms, i)[k] = Synthetic(id)
<1> DEFINE oc == OrphanedCalls(ms, i)
           made == [k \in DOMAIN oc |-> Synthetic(oc[k])]
           n == Len(oc)
<1>1. ms[i] \in LLMMessages
  OBVIOUS
<1>2. /\ oc \in Seq(Ids)
      /\ \A k \in 1 .. n : HasCalls(ms[i]) /\ oc[k] \in CallIds(ms[i])
      /\ HasCalls(ms[i]) => \A id \in CallIds(ms[i]) :
              ~Answered(ms, i, id) => \E k \in 1 .. n : oc[k] = id
  BY OrphansAre
<1>3. CASE OrphanedResponse(ms, i)
  <2>1. Fixed(ms, i) = <<FirstFixed(ms, i)>>
    BY <1>3 DEF Fixed, FirstFixed
  <2>2. FirstFixed(ms, i) \in LLMMessages
    <3>1. ms[i].body \in Bodies /\ ms[i].n \in Nat /\ "System" \in Roles
      BY <1>1 DEF LLMMessages, Roles
    <3>2. QED
      BY <3>1, <1>3, MessageTypes DEF FirstFixed
  <2>3. ~HasCalls(ms[i])
    BY <1>3 DEF OrphanedResponse, HasCalls, HasRole
  <2> HIDE DEF n
  <2>4. QED
    BY <2>1, <2>2, <2>3
<1>4. CASE ~OrphanedResponse(ms, i)
  <2> HIDE DEF oc
  <2>1. n \in Nat /\ DOMAIN oc = 1 .. n /\ \A k \in 1 .. n : oc[k] \in Ids
    BY <1>2
  <2>2. Fixed(ms, i) = <<ms[i]>> \o made
    BY <1>4 DEF Fixed, oc
  <2>3. /\ made \in Seq(LLMMessages) /\ Len(made) = n
        /\ \A k \in 1 .. n : made[k] = Synthetic(oc[k])
    <3>1. \A k \in 1 .. n : Synthetic(oc[k]) \in LLMMessages
      BY <2>1, MessageTypes
    <3>2. made = [k \in 1 .. n |-> Synthetic(oc[k])]
      BY <2>1
    <3> HIDE DEF n, made
    <3>3. QED
      BY <3>1, <3>2, <2>1
  <2> HIDE DEF made, n
  <2>4. /\ Fixed(ms, i) \in Seq(LLMMessages) /\ Len(Fixed(ms, i)) = n + 1
        /\ Fixed(ms, i)[1] = ms[i]
        /\ \A k \in 1 .. n + 1 : k # 1 => Fixed(ms, i)[k] = made[k - 1]
        /\ \A k \in 1 .. n : k + 1 \in 1 .. n + 1 /\ k + 1 # 1 /\ Fixed(ms, i)[k + 1] = made[k]
    BY <1>1, <2>1, <2>2, <2>3
  <2>5. FirstFixed(ms, i) = ms[i] /\ \A k \in 1 .. n + 1 : k # 1 => k - 1 \in 1 .. n
    BY <1>4, <2>1 DEF FirstFixed
  <2> DEFINE F == Fixed(ms, i)
  <2>6. ASSUME NEW k \in 1 .. n + 1, k # 1
        PROVE  \E id \in Ids : HasCalls(ms[i]) /\ id \in CallIds(ms[i]) /\ F[k] = Synthetic(id)
    <3>1. k - 1 \in 1 .. n /\ F[k] = Synthetic(oc[k - 1])
      BY <2>6, <2>3, <2>4, <2>5
    <3>2. oc[k - 1] \in Ids /\ oc[k - 1] \in CallIds(ms[i]) /\ HasCalls(ms[i])
      BY <3>1, <2>1, <1>2
    <3>3. QED
      BY <3>1, <3>2
  <2>7. ASSUME HasCalls(ms[i]), NEW id \in CallIds(ms[i]), ~Answered(ms, i, id)
        PROVE  \E k \in 1 .. n + 1 : k # 1 /\ F[k] = Synthetic(id)
    <3>1. PICK k \in 1 .. n : oc[k] = id
      BY <2>7, <1>2
    <3>2. k + 1 \in 1 .. n + 1 /\ k + 1 # 1 /\ F[k + 1] = Synthetic(id)
      BY <3>1, <2>3, <2>4
    <3>3. QED
      BY <3>2
  <2>8. Len(F) = n + 1 /\ n + 1 >= 1
    BY <2>1, <2>4
  <2>9. F \in Seq(LLMMessages) /\ F[1] = FirstFixed(ms, i)
    BY <2>4, <2>5
  <2> HIDE DEF F
  <2>10. QED
    BY <2>6, <2>7, <2>8, <2>9 DEF F
<1>5. QED
  BY <1>3, <1>4

(* seat says where in out the messages of ms, or what stands for them,     *)
(* are: in their order, with nothing but made up responses after each.     *)
Repaired(out, ms, seat) ==
  /\ out \in Seq(LLMMessages)
  /\ seat \in [1 .. Len(ms) -> 1 .. Len(out)]
  /\ \A i, j \in 1 .. Len(ms) : i < j => seat[i] < seat[j]
  /\ \A i \in 1 .. Len(ms) : out[seat[i]] = FirstFixed(ms, i)
  /\ \A p \in 1 .. Len(out) : \E i \in 1 .. Len(ms) :
       \/ p = seat[i]
       \/ \E id \in Ids : /\ seat[i] < p /\ HasCalls(ms[i]) /\ id \in CallIds(ms[i])
                          /\ out[p] = Synthetic(id)
  /\ \A i \in 1 .. Len(ms) : HasCalls(ms[i]) => \A id \in CallIds(ms[i]) :
       ~Answered(ms, i, id) =>
         \E q \in 1 .. Len(out) : /\ seat[i] < q /\ out[q] = Synthetic(id)
                                  /\ \A j \in 1 .. Len(ms) : i < j => q < seat[j]

LEMMA ValidatorRepairs ==
  ASSUME NEW ms \in Seq(LLMMessages)
  PROVE  \E seat : Repaired(ValidateAndFix(ms), ms, seat)
<1> DEFINE n == Len(ms)
           ss == [i \in 1 .. n |-> Fixed(ms, i)]
           out == FlattenSeq(ss)
<1>1. n \in Nat /\ DOMAIN ms = 1 .. n /\ ValidateAndFix(ms) = out
  BY DEF ValidateAndFix
<1>2. ss \in Seq(Seq(LLMMessages)) /\ Len(ss) = n /\ \A i \in 1 .. n : ss[i] = Fixed(ms, i)
  <2>1. \A i \in 1 .. n : Fixed(ms, i) \in Seq(LLMMessages)
    BY FixedAre
  <2> HIDE DEF n
  <2>2. QED
    BY <2>1, <1>1
<1> HIDE DEF ss
<1>3. PICK off : Adjoined(out, ss, n, off)
  BY <1>2, FlattenPlaces
<1>4. out \in Seq(LLMMessages)
  BY <1>2, FlattenPlaces
<1> HIDE DEF out
<1>5. /\ off \in [0 .. n -> Nat] /\ off[0] = 0 /\ off[n] = Len(out)
      /\ \A i \in 1 .. n : off[i] = off[i - 1] + Len(Fixed(ms, i))
      /\ \A h, i \in 0 .. n : h <= i => off[h] <= off[i]
      /\ \A i \in 1 .. n : \A j \in 1 .. Len(Fixed(ms, i)) :
            off[i - 1] + j \in 1 .. Len(out) /\ out[off[i - 1] + j] = Fixed(ms, i)[j]
      /\ \A p \in 1 .. Len(out) : \E i \in 1 .. n : \E j \in 1 .. Len(Fixed(ms, i)) :
            p = off[i - 1] + j
  <2> HIDE DEF n
  <2>1. /\ off \in [0 .. n -> Nat] /\ off[0] = 0 /\ off[n] = Len(out)
        /\ \A i \in 1 .. n : off[i] = off[i - 1] + Len(ss[i])
        /\ \A h, i \in 0 .. n : h <= i => off[h] <= off[i]
        /\ \A i \in 1 .. n : \A j \in 1 .. Len(ss[i]) :
              off[i - 1] + j \in 1 .. Len(out) /\ out[off[i - 1] + j] = ss[i][j]
        /\ \A p \in 1 .. Len(out) : \E i \in 1 .. n : \E j \in 1 .. Len(ss[i]) :
              p = off[i - 1] + j
    BY <1>3 DEF Adjoined
  <2>2. \A i \in 1 .. n : off[i] = off[i - 1] + Len(Fixed(ms, i))
    BY <1>2, <2>1
  <2>3. ASSUME NEW i \in 1 .. n, NEW j \in 1 .. Len(Fixed(ms, i))
        PROVE  off[i - 1] + j \in 1 .. Len(out) /\ out[off[i - 1] + j] = Fixed(ms, i)[j]
    <3>1. ss[i] = Fixed(ms, i)
      BY <1>2
    <3>2. QED
      BY <2>1, <3>1
  <2>4. ASSUME NEW p \in 1 .. Len(out)
        PROVE  \E i \in 1 .. n : \E j \in 1 .. Len(Fixed(ms, i)) : p = off[i - 1] + j
    <3>1. PICK i \in 1 .. n : \E j \in 1 .. Len(ss[i]) : p = off[i - 1] + j
      BY <2>1
    <3>2. ss[i] = Fixed(ms, i)
      BY <1>2
    <3>3. QED
      BY <3>1, <3>2
  <2>5. QED
    BY <2>1, <2>2, <2>3, <2>4
<1>6. \A i \in 1 .. n :
        /\ Len(Fixed(ms, i)) \in Nat /\ 1 \in 1 .. Len(Fixed(ms, i))
        /\ Fixed(ms, i)[1] = FirstFixed(ms, i)
        /\ \A k \in 1 .. Len(Fixed(ms, i)) : k # 1 =>
              \E id \in Ids : /\ HasCalls(ms[i]) /\ id \in CallIds(ms[i])
                              /\ Fixed(ms, i)[k] = Synthetic(id)
        /\ HasCalls(ms[i]) => \A id \in CallIds(ms[i]) :
              ~Answered(ms, i, id) =>
                \E k \in 1 .. Len(Fixed(ms, i)) : k # 1 /\ Fixed(ms, i)[k] = Synthetic(id)
  <2>1. SUFFICES ASSUME NEW i \in 1 .. n
        PROVE
        /\ Len(Fixed(ms, i)) \in Nat /\ 1 \in 1 .. Len(Fixed(ms, i))
        /\ Fixed(ms, i)[1] = FirstFixed(ms, i)
        /\ \A k \in 1 .. Len(Fixed(ms, i)) : k # 1 =>
              \E id \in Ids : /\ HasCalls(ms[i]) /\ id \in CallIds(ms[i])
                              /\ Fixed(ms, i)[k] = Synthetic(id)
        /\ HasCalls(ms[i]) => \A id \in CallIds(ms[i]) :
              ~Answered(ms, i, id) =>
                \E k \in 1 .. Len(Fixed(ms, i)) : k # 1 /\ Fixed(ms, i)[k] = Synthetic(id)
    OBVIOUS
  <2>2. Len(Fixed(ms, i)) \in Nat /\ 1 \in 1 .. Len(Fixed(ms, i))
    BY FixedAre
  <2>3. QED
    BY <2>2, FixedAre
<1> DEFINE seat == [i \in 1 .. n |-> off[i - 1] + 1]
<1>7. \A i \in 1 .. n : seat[i] = off[i - 1] + 1 /\ off[i - 1] \in Nat /\ i - 1 \in 0 .. n
  <2> HIDE DEF n
  <2>1. \A i \in 1 .. n : i - 1 \in 0 .. n
    BY <1>1
  <2>2. \A i \in 1 .. n : seat[i] = off[i - 1] + 1
    OBVIOUS
  <2> HIDE DEF seat
  <2>3. QED
    BY <2>1, <2>2, <1>5
<1>8. seat \in [1 .. n -> 1 .. Len(out)] /\ \A i \in 1 .. n : out[seat[i]] = FirstFixed(ms, i)
  <2>1. \A i \in 1 .. n : off[i - 1] + 1 \in 1 .. Len(out) /\ out[off[i - 1] + 1] = FirstFixed(ms, i)
    BY <1>5, <1>6
  <2> HIDE DEF n
  <2>2. QED
    BY <2>1
<1> HIDE DEF seat
<1>9. ASSUME NEW i \in 1 .. n, NEW j \in 1 .. n, i < j,
             NEW k \in 1 .. Len(Fixed(ms, i))
      PROVE  off[i - 1] + k < seat[j]
  <2>1. i \in 0 .. n /\ j - 1 \in 0 .. n /\ i <= j - 1
    BY <1>9, <1>1
  <2>2. off[i] <= off[j - 1]
    BY <2>1, <1>5
  <2>3. /\ off[i] = off[i - 1] + Len(Fixed(ms, i)) /\ Len(Fixed(ms, i)) \in Nat
        /\ off[i - 1] \in Nat /\ off[j - 1] \in Nat /\ seat[j] = off[j - 1] + 1
    BY <1>5, <1>6, <1>7
  <2>4. QED
    BY <2>2, <2>3
<1>10. \A i, j \in 1 .. n : i < j => seat[i] < seat[j]
  <2>1. SUFFICES ASSUME NEW i \in 1 .. n, NEW j \in 1 .. n, i < j PROVE seat[i] < seat[j]
    OBVIOUS
  <2>2. 1 \in 1 .. Len(Fixed(ms, i)) /\ seat[i] = off[i - 1] + 1
    BY <1>6, <1>7
  <2>3. off[i - 1] + 1 < seat[j]
    BY <2>1, <2>2, <1>9
  <2>4. QED
    BY <2>2, <2>3
<1>11. ASSUME NEW p \in 1 .. Len(out)
       PROVE  \E i \in 1 .. n :
                \/ p = seat[i]
                \/ \E id \in Ids : /\ seat[i] < p /\ HasCalls(ms[i]) /\ id \in CallIds(ms[i])
                                   /\ out[p] = Synthetic(id)
  <2>0. PICK i \in 1 .. n : \E k \in 1 .. Len(Fixed(ms, i)) : p = off[i - 1] + k
    BY <1>5
  <2>1. PICK k \in 1 .. Len(Fixed(ms, i)) : p = off[i - 1] + k
    BY <2>0
  <2>2. seat[i] = off[i - 1] + 1 /\ off[i - 1] \in Nat /\ out[p] = Fixed(ms, i)[k]
    BY <2>1, <1>5, <1>7
  <2>3. CASE k = 1
    <3>1. p = seat[i]
      BY <2>1, <2>2, <2>3
    <3>2. QED
      BY <3>1
  <2>4. CASE k # 1
    <3>1. PICK id \in Ids : /\ HasCalls(ms[i]) /\ id \in CallIds(ms[i])
                            /\ Fixed(ms, i)[k] = Synthetic(id)
      BY <2>1, <2>4, <1>6
    <3>2. seat[i] < p
      BY <2>1, <2>2, <2>4
    <3>3. out[p] = Synthetic(id)
      BY <2>2, <3>1
    <3>4. QED
      BY <3>1, <3>2, <3>3
  <2>5. QED
    BY <2>3, <2>4
<1>12. ASSUME NEW i \in 1 .. n, HasCalls(ms[i]), NEW id \in CallIds(ms[i]), ~Answered(ms, i, id)
       PROVE  \E q \in 1 .. Len(out) : /\ seat[i] < q /\ out[q] = Synthetic(id)
                                       /\ \A j \in 1 .. n : i < j => q < seat[j]
  <2>1. PICK k \in 1 .. Len(Fixed(ms, i)) : k # 1 /\ Fixed(ms, i)[k] = Synthetic(id)
    BY <1>12, <1>6
  <2> DEFINE q == off[i - 1] + k
  <2>2. q \in 1 .. Len(out) /\ out[q] = Synthetic(id)
    BY <2>1, <1>5
  <2>3. seat[i] < q
    BY <2>1, <1>7
  <2>4. \A j \in 1 .. n : i < j => q < seat[j]
    BY <1>9
  <2> HIDE DEF q
  <2>5. QED
    BY <2>2, <2>3, <2>4
<1>13. Repaired(out, ms, seat)
  BY <1>4, <1>8, <1>10, <1>11, <1>12 DEF Repaired
<1>14. QED
  BY <1>1, <1>13

(* A repaired list has nothing to repair: the responses made up for one    *)
(* message's calls come before any other message, and no message that a    *)
(* response needs is changed.                                              *)
LEMMA RepairedHasNoIssues ==
  ASSUME NEW ms \in Seq(LLMMessages), NEW out, NEW seat, Repaired(out, ms, seat)
  PROVE  Issues(out) = {}
<1> DEFINE n == Len(ms)
           Ours(p, i, id) == /\ seat[i] < p /\ HasCalls(ms[i]) /\ id \in CallIds(ms[i])
                             /\ out[p] = Synthetic(id)
<1>1. /\ out \in Seq(LLMMessages)
      /\ seat \in [1 .. n -> 1 .. Len(out)]
      /\ \A i, j \in 1 .. n : i < j => seat[i] < seat[j]
      /\ \A i \in 1 .. n : out[seat[i]] = FirstFixed(ms, i)
      /\ \A p \in 1 .. Len(out) : \E i \in 1 .. n : p = seat[i] \/ \E id \in Ids : Ours(p, i, id)
      /\ \A i \in 1 .. n : HasCalls(ms[i]) => \A id \in CallIds(ms[i]) :
           ~Answered(ms, i, id) =>
             \E q \in 1 .. Len(out) : /\ seat[i] < q /\ out[q] = Synthetic(id)
                                      /\ \A j \in 1 .. n : i < j => q < seat[j]
  BY DEF Repaired
<1>2. n \in Nat /\ DOMAIN ms = 1 .. n /\ Len(out) \in Nat /\ DOMAIN out = 1 .. Len(out)
  BY <1>1
<1> HIDE DEF n
<1>3. ASSUME NEW i \in 1 .. n, NEW j \in 1 .. n, seat[i] < seat[j] PROVE i < j
  <2>1. CASE j < i
    <3>1. seat[j] < seat[i] /\ seat[i] \in Nat /\ seat[j] \in Nat
      BY <2>1, <1>1, <1>2
    <3>2. QED
      BY <3>1, <1>3
  <2>2. CASE i = j
    <3>1. seat[i] \in Nat
      BY <1>1, <1>2
    <3>2. QED
      BY <2>2, <3>1, <1>3
  <2>3. QED
    BY <2>1, <2>2, <1>2
<1>4. \A i \in 1 .. n : HasCalls(ms[i]) => out[seat[i]] = ms[i]
  BY <1>1 DEF FirstFixed, OrphanedResponse, HasCalls, HasRole
<1>5. \A p \in 1 .. Len(out) : HasCalls(out[p]) =>
        \E i \in 1 .. n : p = seat[i] /\ HasCalls(ms[i]) /\ out[p] = ms[i]
  <2>1. SUFFICES ASSUME NEW p \in 1 .. Len(out), HasCalls(out[p])
                 PROVE  \E i \in 1 .. n : p = seat[i] /\ HasCalls(ms[i]) /\ out[p] = ms[i]
    OBVIOUS
  <2>2. PICK i \in 1 .. n : p = seat[i] \/ \E id \in Ids : Ours(p, i, id)
    BY <1>1
  <2>3. \A id : out[p] # Synthetic(id)
    BY <2>1, SyntheticFields DEF HasCalls, HasRole
  <2>4. p = seat[i]
    BY <2>2, <2>3
  <2>5. out[p] = FirstFixed(ms, i)
    BY <2>4, <1>1
  <2>6. ~OrphanedResponse(ms, i)
    BY <2>1, <2>5 DEF FirstFixed, Message, HasCalls, HasRole
  <2>7. out[p] = ms[i]
    BY <2>5, <2>6 DEF FirstFixed
  <2>8. QED
    BY <2>1, <2>4, <2>7
<1>6. ASSUME NEW p \in 1 .. Len(out) PROVE OrphanedCalls(out, p) = <<>>
  <2>1. CASE ~HasCalls(out[p])
    BY <2>1 DEF OrphanedCalls
  <2>2. CASE HasCalls(out[p])
    <3>1. PICK i \in 1 .. n : p = seat[i] /\ HasCalls(ms[i]) /\ out[p] = ms[i]
      BY <2>2, <1>5
    <3>2. ASSUME NEW id \in CallIds(out[p]) PROVE Answered(out, p, id)
      <4>1. id \in CallIds(ms[i])
        BY <3>1, <3>2
      <4>2. CASE ~Answered(ms, i, id)
        <5>1. PICK q \in 1 .. Len(out) : /\ seat[i] < q /\ out[q] = Synthetic(id)
                                         /\ \A j \in 1 .. n : i < j => q < seat[j]
          BY <3>1, <4>1, <4>2, <1>1
        <5>2. q \in p + 1 .. Len(out) /\ Responds(out[q], id)
          BY <3>1, <5>1, <1>2, SyntheticFields DEF Responds, HasRole
        <5>3. ASSUME NEW r \in p + 1 .. q - 1 PROVE out[r].role # "User"
          <6>1. r \in 1 .. Len(out) /\ p < r /\ r < q
            BY <5>2, <1>2
          <6>2. PICK j \in 1 .. n : r = seat[j] \/ \E d \in Ids : Ours(r, j, d)
            BY <6>1, <1>1
          <6>3. r # seat[j]
            <7>1. SUFFICES ASSUME r = seat[j] PROVE FALSE
              OBVIOUS
            <7>2. i < j
              BY <7>1, <6>1, <3>1, <1>3
            <7>3. q < seat[j]
              BY <7>2, <5>1
            <7>4. QED
              BY <7>1, <7>3, <6>1, <5>2
          <6>4. PICK d \in Ids : out[r] = Synthetic(d)
            BY <6>2, <6>3
          <6>5. QED
            BY <6>4, SyntheticFields
        <5>4. QED
          BY <5>2, <5>3 DEF Answered
      <4>3. CASE Answered(ms, i, id)
        <5>1. PICK j \in i + 1 .. n : /\ Responds(ms[j], id)
                                      /\ \A k \in i + 1 .. j - 1 : ms[k].role # "User"
          BY <4>3 DEF Answered, n
        <5>2. j \in 1 .. n /\ i < j
          BY <1>2
        <5>3. ~OrphanedResponse(ms, j)
          BY <5>1, <5>2, <3>1, <4>1, <1>2 DEF OrphanedResponse, Responds
        <5>4. out[seat[j]] = ms[j]
          BY <5>2, <5>3, <1>1 DEF FirstFixed
        <5> DEFINE q == seat[j]
        <5>5. q \in p + 1 .. Len(out)
          <6>1. seat[i] < seat[j] /\ seat[i] \in 1 .. Len(out) /\ seat[j] \in 1 .. Len(out)
            BY <5>2, <1>1
          <6>2. QED
            BY <6>1, <3>1, <1>2
        <5>6. Responds(out[q], id)
          BY <5>1, <5>4
        <5>7. ASSUME NEW r \in p + 1 .. q - 1 PROVE out[r].role # "User"
          <6>1. r \in 1 .. Len(out) /\ p < r /\ r < q
            BY <5>5, <1>2
          <6>2. PICK k \in 1 .. n : r = seat[k] \/ \E d \in Ids : Ours(r, k, d)
            BY <6>1, <1>1
          <6>3. CASE r = seat[k]
            <7>1. i < k /\ k < j
              BY <6>1, <6>3, <3>1, <5>2, <1>3
            <7>2. k \in i + 1 .. j - 1
              BY <7>1, <1>2
            <7>3. ms[k].role # "User"
              BY <7>2, <5>1
            <7>4. out[r] = FirstFixed(ms, k)
              BY <6>3, <1>1
            <7>5. QED
              BY <7>3, <7>4 DEF FirstFixed, Message
          <6>4. CASE \E d \in Ids : Ours(r, k, d)
            <7>1. PICK d \in Ids : out[r] = Synthetic(d)
              BY <6>4
            <7>2. QED
              BY <7>1, SyntheticFields
          <6>5. QED
            BY <6>2, <6>3, <6>4
        <5> HIDE DEF q
        <5>8. QED
          BY <5>5, <5>6, <5>7 DEF Answered
      <4>4. QED
        BY <4>2, <4>3
    <3>3. \A k \in 1 .. Len(OrphanedCalls(out, p)) :
            OrphanedCalls(out, p)[k] \in CallIds(out[p]) /\ ~Answered(out, p, OrphanedCalls(out, p)[k])
      BY <1>1, <2>2, OrphansAre
    <3>4. OrphanedCalls(out, p) \in Seq(Ids)
      BY <1>1, OrphansAre
    <3>5. Len(OrphanedCalls(out, p)) = 0
      <4>1. SUFFICES ASSUME Len(OrphanedCalls(out, p)) # 0 PROVE FALSE
        OBVIOUS
      <4>2. 1 \in 1 .. Len(OrphanedCalls(out, p))
        BY <4>1, <3>4
      <4>3. QED
        BY <4>2, <3>2, <3>3
    <3>6. QED
      BY <3>4, <3>5
  <2>3. QED
    BY <2>1, <2>2
<1>7. ASSUME NEW p \in 1 .. Len(out) PROVE ~OrphanedResponse(out, p)
  <2>1. SUFFICES ASSUME HasRole(out[p], {"Tool"}), out[p].re # NoId
                 PROVE  \E q \in 1 .. Len(out) : HasCalls(out[q]) /\ out[p].re \in CallIds(out[q])
    BY <1>2 DEF OrphanedResponse
  <2>2. PICK i \in 1 .. n : p = seat[i] \/ \E id \in Ids : Ours(p, i, id)
    BY <1>1
  <2>3. CASE p = seat[i]
    <3>1. out[p] = FirstFixed(ms, i)
      BY <2>3, <1>1
    <3>2. ~OrphanedResponse(ms, i) /\ out[p] = ms[i]
      BY <2>1, <3>1 DEF FirstFixed, Message, HasRole
    <3>3. PICK j \in 1 .. n : HasCalls(ms[j]) /\ ms[i].re \in CallIds(ms[j])
      BY <3>2, <2>1, <1>2 DEF OrphanedResponse
    <3>4. seat[j] \in 1 .. Len(out) /\ out[seat[j]] = ms[j]
      BY <3>3, <1>1, <1>4
    <3>5. QED
      BY <3>2, <3>3, <3>4
  <2>4. CASE \E id \in Ids : Ours(p, i, id)
    <3>1. PICK id \in Ids : Ours(p, i, id)
      BY <2>4
    <3>2. seat[i] \in 1 .. Len(out) /\ out[seat[i]] = ms[i] /\ out[p].re = id
      BY <3>1, <1>1, <1>4, SyntheticFields
    <3>3. QED
      BY <3>1, <3>2
  <2>5. QED
    BY <2>2, <2>3, <2>4
<1>8. QED
  BY <1>2, <1>6, <1>7 DEF Issues

(* What validate_and_fix returns is valid, whatever list it was given.     *)
THEOREM ValidatorFixesAll ==
  ASSUME NEW ms \in Seq(LLMMessages)
  PROVE  Issues(ValidateAndFix(ms)) = {}
BY ValidatorRepairs, RepairedHasNoIssues

-----------------------------------------------------------------------------
(* The numbers of the caller's messages. *)

Ordered(ms) ==
  \A i, j \in 1 .. Len(ms) : i < j /\ ms[i].n # 0 /\ ms[j].n # 0 => ms[i].n < ms[j].n

(* The last message is one of the caller's, if any is.                     *)
EndsNumbered(ms) ==
  (\E i \in 1 .. Len(ms) : ms[i].n # 0) => ms[Len(ms)].n # 0

LEMMA NumbersAre ==
  ASSUME NEW ms \in Seq(LLMMessages)
  PROVE  /\ Ordered(ms) => \A i, j \in DOMAIN Numbers(ms) : i < j => Numbers(ms)[i] < Numbers(ms)[j]
         /\ Numbers(ms) # <<>> => \E i \in 1 .. Len(ms) : ms[i].n # 0
         /\ \A k \in 1 .. Len(ms) :
              ms[k].n # 0 /\ (\A p \in 1 .. Len(ms) : k < p => ms[p].n = 0)
              => Numbers(ms) # <<>> /\ Last(Numbers(ms)) = ms[k].n
<1> DEFINE n == Len(ms)
           ns == [i \in DOMAIN ms |-> ms[i].n]
           I == {i \in DOMAIN ms : ms[i].n # 0}
           N == Numbers(ms)
           m == Len(N)
<1>1. n \in Nat /\ DOMAIN ms = 1 .. n /\ \A i \in 1 .. n : ms[i].n \in Nat
  BY MessageFields
<1>2. ns \in Seq(Nat) /\ Len(ns) = n /\ \A i \in 1 .. n : ns[i] = ms[i].n
  <2> HIDE DEF n
  <2>1. QED
    BY <1>1
<1>3. N = Sublist(ns, I)
  BY DEF Numbers
<1> HIDE DEF ns
<1>4. N \in Seq(Nat)
  BY <1>2, <1>3, SublistPlaces
<1>5. PICK at : Taken(N, ns, I, n, at)
  BY <1>2, <1>3, SublistPlaces
<1> HIDE DEF N
<1>6. m \in Nat /\ DOMAIN N = 1 .. m
  BY <1>4
<1> HIDE DEF n
<1>7. \A j \in 1 .. m : at[j] \in 1 .. n /\ ms[at[j]].n # 0 /\ N[j] = ms[at[j]].n
  BY <1>2, <1>5 DEF Taken
<1>8. /\ \A i, j \in 1 .. m : i < j => at[i] < at[j]
      /\ \A p \in 1 .. n : ms[p].n # 0 => \E j \in 1 .. m : at[j] = p
  BY <1>1, <1>5 DEF Taken
<1> HIDE DEF I, m
<1>9. Ordered(ms) => \A i, j \in DOMAIN N : i < j => N[i] < N[j]
  <2>1. SUFFICES ASSUME Ordered(ms), NEW i \in 1 .. m, NEW j \in 1 .. m, i < j PROVE N[i] < N[j]
    BY <1>6
  <2>2. at[i] < at[j]
    BY <2>1, <1>8
  <2>3. QED
    BY <2>1, <2>2, <1>7 DEF Ordered, n
<1>10. N # <<>> => \E i \in 1 .. n : ms[i].n # 0
  <2>1. SUFFICES ASSUME N # <<>> PROVE \E i \in 1 .. n : ms[i].n # 0
    OBVIOUS
  <2>2. 1 \in 1 .. m
    BY <2>1, <1>4, <1>6 DEF m
  <2>3. QED
    BY <2>2, <1>7
<1>11. ASSUME NEW k \in 1 .. n, ms[k].n # 0, \A p \in 1 .. n : k < p => ms[p].n = 0
       PROVE  N # <<>> /\ Last(N) = ms[k].n
  <2>1. PICK j \in 1 .. m : at[j] = k
    BY <1>11, <1>8
  <2>2. j = m
    <3>1. SUFFICES ASSUME j # m PROVE FALSE
      OBVIOUS
    <3>2. m \in 1 .. m /\ j < m
      BY <3>1, <1>6
    <3>3. at[j] < at[m] /\ at[m] \in 1 .. n /\ ms[at[m]].n # 0
      BY <3>2, <1>7, <1>8
    <3>4. QED
      BY <3>3, <2>1, <1>11
  <2>3. N[m] = ms[k].n
    BY <2>1, <2>2, <1>7
  <2>4. N # <<>>
    BY <2>1, <1>6 DEF m
  <2>5. QED
    BY <2>3, <2>4 DEF Last, m
<1>12. QED
  BY <1>9, <1>10, <1>11 DEF N, n

(* A repaired list has the caller's messages in the order of the list, and *)
(* the last of them is the last of the list's.                             *)
LEMMA RepairedKeepsNumbers ==
  ASSUME NEW ms \in Seq(LLMMessages), NEW out, NEW seat, Repaired(out, ms, seat)
  PROVE  /\ Ordered(ms) => Ordered(out)
         /\ Len(ms) # 0 => \E k \in 1 .. Len(out) :
              out[k].n = ms[Len(ms)].n /\ \A p \in 1 .. Len(out) : k < p => out[p].n = 0
<1> DEFINE n == Len(ms)
<1>1. /\ out \in Seq(LLMMessages)
      /\ seat \in [1 .. n -> 1 .. Len(out)]
      /\ \A i, j \in 1 .. n : i < j => seat[i] < seat[j]
      /\ \A i \in 1 .. n : out[seat[i]] = FirstFixed(ms, i)
      /\ \A p \in 1 .. Len(out) : \E i \in 1 .. n :
           p = seat[i] \/ \E id \in Ids : out[p] = Synthetic(id)
  BY DEF Repaired
<1>2. n \in Nat /\ Len(out) \in Nat
  BY <1>1
<1> HIDE DEF n
<1>3. \A i \in 1 .. n : out[seat[i]].n = ms[i].n
  <2>1. \A i : FirstFixed(ms, i).n = ms[i].n
    BY DEF FirstFixed, Message
  <2>2. QED
    BY <1>1, <2>1
<1>4. \A p \in 1 .. Len(out) : out[p].n # 0 => \E i \in 1 .. n : p = seat[i]
  BY <1>1, SyntheticFields
<1>5. ASSUME Ordered(ms), NEW p \in 1 .. Len(out), NEW q \in 1 .. Len(out),
             p < q, out[p].n # 0, out[q].n # 0
      PROVE  out[p].n < out[q].n
  <2>1. PICK i \in 1 .. n : p = seat[i]
    BY <1>4, <1>5
  <2>2. PICK j \in 1 .. n : q = seat[j]
    BY <1>4, <1>5
  <2>3. i < j
    <3>1. CASE i = j
      BY <3>1, <2>1, <2>2, <1>5, <1>2
    <3>2. CASE j < i
      <4>1. seat[j] < seat[i]
        BY <3>2, <1>1
      <4>2. QED
        BY <4>1, <2>1, <2>2, <1>5, <1>2
    <3>3. QED
      BY <3>1, <3>2, <1>2
  <2>4. ms[i].n # 0 /\ ms[j].n # 0
    BY <2>1, <2>2, <1>3, <1>5
  <2>5. ms[i].n < ms[j].n
    BY <2>3, <2>4, <1>5 DEF Ordered, n
  <2>6. QED
    BY <2>5, <2>1, <2>2, <1>3
<1>6. ASSUME n # 0
      PROVE  \E k \in 1 .. Len(out) :
               out[k].n = ms[n].n /\ \A p \in 1 .. Len(out) : k < p => out[p].n = 0
  <2>1. n \in 1 .. n /\ seat[n] \in 1 .. Len(out)
    BY <1>1, <1>2, <1>6
  <2>2. ASSUME NEW p \in 1 .. Len(out), seat[n] < p, out[p].n # 0 PROVE FALSE
    <3>1. PICK i \in 1 .. n : p = seat[i]
      BY <2>2, <1>4
    <3>2. CASE i = n
      BY <3>1, <3>2, <2>1, <2>2
    <3>3. CASE i # n
      <4>1. i < n
        BY <3>3, <1>2
      <4>2. seat[i] < seat[n]
        BY <4>1, <2>1, <1>1
      <4>3. QED
        BY <4>2, <3>1, <2>1, <2>2
    <3>4. QED
      BY <3>2, <3>3
  <2>3. QED
    BY <2>1, <2>2, <1>3
<1>7. QED
  BY <1>5, <1>6 DEF Ordered, n

-----------------------------------------------------------------------------
(* Lists without calls, as an agent makes them. *)

Plain(ms) ==
  \A i \in 1 .. Len(ms) : ms[i].calls = <<>> /\ (ms[i].role = "Tool" => ms[i].re # NoId)

Quiet(ms) ==
  \A i \in 1 .. Len(ms) : ms[i].calls = <<>> /\ ms[i].role # "Tool"

(* What the agent's requests are.                                          *)
Good(ms) == ms \in Seq(LLMMessages) /\ Quiet(ms) /\ Ordered(ms)

LEMMA ValidatedIsQuiet ==
  ASSUME NEW ms \in Seq(LLMMessages), Plain(ms), Ordered(ms)
  PROVE  Good(ValidateAndFix(ms))
<1> DEFINE out == ValidateAndFix(ms)
           n == Len(ms)
<1>1. PICK seat : Repaired(out, ms, seat)
  BY ValidatorRepairs
<1>2. \A i \in 1 .. n : ~HasCalls(ms[i])
  BY DEF Plain, HasCalls
<1>3. \A i \in 1 .. n : HasRole(ms[i], {"Tool"}) => OrphanedResponse(ms, i)
  <2>1. DOMAIN ms = 1 .. n
    OBVIOUS
  <2>2. QED
    BY <2>1, <1>2 DEF OrphanedResponse, Plain, HasRole
<1>4. \A i \in 1 .. n : FirstFixed(ms, i).calls = <<>> /\ FirstFixed(ms, i).role # "Tool"
  <2>1. SUFFICES ASSUME NEW i \in 1 .. n
                 PROVE  FirstFixed(ms, i).calls = <<>> /\ FirstFixed(ms, i).role # "Tool"
    OBVIOUS
  <2>2. CASE OrphanedResponse(ms, i)
    BY <2>2 DEF FirstFixed, Message
  <2>3. CASE ~OrphanedResponse(ms, i)
    BY <2>3, <1>3 DEF FirstFixed, HasRole, Plain
  <2>4. QED
    BY <2>2, <2>3
<1> HIDE DEF out
<1>5. /\ out \in Seq(LLMMessages)
      /\ \A p \in 1 .. Len(out) : \E i \in 1 .. n : p = seat[i]
      /\ \A i \in 1 .. n : out[seat[i]] = FirstFixed(ms, i)
  BY <1>1, <1>2 DEF Repaired
<1>6. Quiet(out)
  BY <1>4, <1>5 DEF Quiet
<1>7. Ordered(out)
  BY <1>1, RepairedKeepsNumbers
<1>8. QED
  BY <1>5, <1>6, <1>7 DEF Good, out

LEMMA QuietIsPlain ==
  ASSUME NEW ms, Quiet(ms)
  PROVE  Plain(ms)
BY DEF Quiet, Plain

(* A part of a list has what the list has.                                 *)
LEMMA PartsAre ==
  ASSUME NEW ms \in Seq(LLMMessages), NEW I
  PROVE  /\ Sublist(ms, I) \in Seq(LLMMessages)
         /\ \A j \in 1 .. Len(Sublist(ms, I)) :
              \E i \in 1 .. Len(ms) : i \in I /\ Sublist(ms, I)[j] = ms[i]
         /\ Ordered(ms) => Ordered(Sublist(ms, I))
         /\ Plain(ms) => Plain(Sublist(ms, I))
         /\ Quiet(ms) => Quiet(Sublist(ms, I))
<1> DEFINE t == Sublist(ms, I)
<1>1. PICK at : Taken(t, ms, I, Len(ms), at)
  BY SublistPlaces
<1>2. t \in Seq(LLMMessages)
  BY SublistPlaces
<1> HIDE DEF t
<1>3. /\ \A j \in 1 .. Len(t) : at[j] \in 1 .. Len(ms) /\ at[j] \in I /\ t[j] = ms[at[j]]
      /\ \A i, j \in 1 .. Len(t) : i < j => at[i] < at[j]
  BY <1>1 DEF Taken
<1>4. \A j \in 1 .. Len(t) : \E i \in 1 .. Len(ms) : i \in I /\ t[j] = ms[i]
  BY <1>3
<1>5. Ordered(ms) => Ordered(t)
  BY <1>3, SMTT(30) DEF Ordered
<1>6. (Plain(ms) => Plain(t)) /\ (Quiet(ms) => Quiet(t))
  BY <1>4 DEF Plain, Quiet
<1>7. QED
  BY <1>2, <1>4, <1>5, <1>6 DEF t

LEMMA OfRolesAre ==
  ASSUME NEW ms, Good(ms), NEW roles
  PROVE  Good(OfRoles(ms, roles))
BY PartsAre DEF Good, OfRoles

(* A list of lists of one.                                                 *)
LEMMA FlattenSingles ==
  ASSUME NEW S, NEW ms \in Seq(S), NEW ss \in Seq(Seq(S)), Len(ss) = Len(ms),
         \A i \in 1 .. Len(ms) : ss[i] = <<ms[i]>>
  PROVE  FlattenSeq(ss) = ms
<1> DEFINE n == Len(ms)
           F == FlattenSeq(ss)
<1>1. PICK off : Adjoined(F, ss, n, off)
  BY FlattenPlaces
<1>2. F \in Seq(S) /\ n \in Nat
  BY FlattenPlaces
<1>3. \A i \in 1 .. n : Len(ss[i]) = 1 /\ ss[i][1] = ms[i]
  <2>1. \A x : Len(<<x>>) = 1 /\ <<x>>[1] = x
    OBVIOUS
  <2> HIDE DEF n
  <2>2. QED
    BY <2>1 DEF n
<1> HIDE DEF F
<1>4. /\ off \in [0 .. n -> Nat] /\ off[0] = 0 /\ off[n] = Len(F)
      /\ \A i \in 1 .. n : off[i] = off[i - 1] + 1
      /\ \A i \in 1 .. n : F[off[i - 1] + 1] = ms[i]
  <2> HIDE DEF n
  <2>1. /\ off \in [0 .. n -> Nat] /\ off[0] = 0 /\ off[n] = Len(F)
        /\ \A i \in 1 .. n : off[i] = off[i - 1] + Len(ss[i])
        /\ \A i \in 1 .. n : \A j \in 1 .. Len(ss[i]) : F[off[i - 1] + j] = ss[i][j]
    BY <1>1 DEF Adjoined
  <2>2. \A i \in 1 .. n : off[i] = off[i - 1] + 1
    BY <2>1, <1>3
  <2>3. ASSUME NEW i \in 1 .. n PROVE F[off[i - 1] + 1] = ms[i]
    <3>1. 1 \in 1 .. Len(ss[i])
      BY <1>3
    <3>2. F[off[i - 1] + 1] = ss[i][1]
      BY <3>1, <2>1
    <3>3. QED
      BY <3>2, <1>3
  <2>4. QED
    BY <2>1, <2>2, <2>3
<1> HIDE DEF n
<1> DEFINE T == {k \in Nat : k <= n => off[k] = k}
<1>5. 0 \in T
  BY <1>4
<1>6. ASSUME NEW k \in T PROVE k + 1 \in T
  <2>1. k \in Nat /\ (k <= n => off[k] = k)
    OBVIOUS
  <2>2. ASSUME k + 1 <= n PROVE off[k + 1] = k + 1
    <3>1. k <= n /\ k + 1 \in 1 .. n /\ (k + 1) - 1 = k
      BY <2>1, <2>2, <1>2
    <3>2. off[k + 1] = off[(k + 1) - 1] + 1
      BY <3>1, <1>4
    <3>3. QED
      BY <3>1, <3>2, <2>1
  <2>3. QED
    BY <2>1, <2>2
<1>7. T = Nat
  <2>1. T \in SUBSET Nat
    OBVIOUS
  <2> HIDE DEF T
  <2>2. QED
    BY <2>1, <1>5, <1>6, AllNumbers
<1>8. \A k \in 0 .. n : off[k] = k
  BY <1>7, <1>2
<1>9. Len(F) = n
  BY <1>4, <1>8, <1>2
<1>10. ASSUME NEW i \in 1 .. n PROVE F[i] = ms[i]
  <2>1. i - 1 \in 0 .. n /\ (i - 1) + 1 = i
    BY <1>2
  <2>2. QED
    BY <2>1, <1>4, <1>8
<1>11. F = ms
  BY <1>2, <1>9, <1>10, SMTT(30) DEF n
<1>12. QED
  BY <1>11 DEF F

(* What a fallback makes of a message.                                     *)
LEMMA WithoutToolsIs ==
  ASSUME NEW m \in LLMMessages, m.role # "Tool", m.calls = <<>>
  PROVE  WithoutTools(m) = m
<1>1. WithoutTools(m) = [m EXCEPT !.calls = <<>>]
  BY DEF WithoutTools, HasRole
<1>2. [m EXCEPT !.calls = <<>>] = m
  BY DEF LLMMessages
<1>3. QED
  BY <1>1, <1>2

LEMMA AllWithoutTools ==
  ASSUME NEW ms, Good(ms)
  PROVE  [i \in DOMAIN ms |-> WithoutTools(ms[i])] = ms
<1>1. ASSUME NEW i \in DOMAIN ms PROVE WithoutTools(ms[i]) = ms[i]
  <2>1. ms \in Seq(LLMMessages) /\ i \in 1 .. Len(ms)
    BY DEF Good
  <2>2. ms[i] \in LLMMessages /\ ms[i].role # "Tool" /\ ms[i].calls = <<>>
    BY <2>1 DEF Good, Quiet
  <2>3. QED
    BY <2>2, WithoutToolsIs
<1>2. ms = [i \in DOMAIN ms |-> ms[i]]
  BY DEF Good
<1>3. QED
  BY <1>1, <1>2

LEMMA OneIsGood ==
  ASSUME NEW m \in LLMMessages, m.role # "Tool", m.calls = <<>>
  PROVE  Good(<<m>>)
<1>1. <<m>> \in Seq(LLMMessages) /\ Len(<<m>>) = 1 /\ <<m>>[1] = m
  OBVIOUS
<1>2. \A i \in 1 .. 1 : i = 1
  OBVIOUS
<1>3. QED
  BY <1>1, <1>2 DEF Good, Quiet, Ordered

(* What the inner loop tries instead of a list without calls is without    *)
(* them, too, and in order.                                                *)
LEMMA RecoveryIsGood ==
  ASSUME NEW ms, Good(ms), NEW e, NEW missing
  PROVE  Good(AttemptRecovery(ms, e, missing))
<1>1. ms \in Seq(LLMMessages) /\ DOMAIN ms = 1 .. Len(ms) /\ Len(ms) \in Nat
  BY DEF Good
<1>2. InsertMissing(ms, missing) = ms
  <2> DEFINE FirstMissing(i) ==
               Sublist(ms[i].calls, {k \in DOMAIN ms[i].calls : ms[i].calls[k] \in missing})
             Ending(k) == {i \in 1 .. k : HasCalls(ms[i]) /\ FirstMissing(i) # <<>>
                                            /\ RunEnd(ms, i) = k}
             ss == [k \in DOMAIN ms |-> <<ms[k]>> \o
                      (IF Ending(k) = {} THEN <<>>
                       ELSE <<Synthetic(Head(FirstMissing(CHOOSE i \in Ending(k) : TRUE)))>>)]
  <2>1. InsertMissing(ms, missing) = FlattenSeq(ss)
    BY DEF InsertMissing
  <2>2. ASSUME NEW k \in DOMAIN ms PROVE Ending(k) = {}
    <3>1. \A i \in 1 .. k : ~HasCalls(ms[i])
      BY <1>1 DEF Good, Quiet, HasCalls
    <3> HIDE DEF FirstMissing
    <3>2. QED
      BY <3>1
  <2> HIDE DEF Ending, FirstMissing
  <2>3. ASSUME NEW k \in DOMAIN ms PROVE ss[k] = <<ms[k]>>
    <3>1. ss[k] = <<ms[k]>> \o <<>>
      BY <2>2
    <3>2. ms[k] \in LLMMessages
      BY <1>1
    <3>3. <<ms[k]>> \o <<>> = <<ms[k]>>
      BY <3>2
    <3>4. QED
      BY <3>1, <3>3
  <2>4. ss \in Seq(Seq(LLMMessages)) /\ Len(ss) = Len(ms) /\ \A k \in 1 .. Len(ms) : ss[k] = <<ms[k]>>
    <3>1. ss = [k \in 1 .. Len(ms) |-> <<ms[k]>>]
      BY <2>3, <1>1
    <3>2. \A k \in 1 .. Len(ms) : <<ms[k]>> \in Seq(LLMMessages)
      BY <1>1
    <3> HIDE DEF ss
    <3>3. QED
      BY <3>1, <3>2, <1>1
  <2> HIDE DEF ss
  <2>5. QED
    BY <2>1, <2>4, <1>1, FlattenSingles
<1>3. AttemptRecovery(ms, e, missing) = ValidateAndFix(ms)
  BY <1>2 DEF AttemptRecovery, RecoverFromToolCallsError
<1>4. Plain(ms) /\ Ordered(ms)
  BY QuietIsPlain DEF Good
<1>5. QED
  BY <1>1, <1>3, <1>4, ValidatedIsQuiet

LEMMA FallbackIsGood ==
  ASSUME NEW ms, Good(ms), NEW k \in 1 .. RecoveryRetries
  PROVE  Good(ProgressiveFallback(ms, k))
<1>1. k = 1 \/ k = 2 \/ k = 3
  BY DEF RecoveryRetries
<1>2. CASE k = 1
  <2>1. ProgressiveFallback(ms, k) = [i \in DOMAIN ms |-> WithoutTools(ms[i])]
    BY <1>2 DEF ProgressiveFallback
  <2>2. QED
    BY <2>1, AllWithoutTools
<1>3. CASE k = 2
  <2> DEFINE said == OfRoles(ms, {"User", "Assistant"})
  <2>1. ProgressiveFallback(ms, k) = [i \in DOMAIN said |-> WithoutTools(said[i])]
    BY <1>3 DEF ProgressiveFallback
  <2>2. Good(said)
    BY OfRolesAre
  <2> HIDE DEF said
  <2>3. QED
    BY <2>1, <2>2, AllWithoutTools
<1>4. CASE k = 3
  <2> DEFINE asked == OfRoles(ms, {"User"})
  <2>1. ProgressiveFallback(ms, k) = IF asked = <<>> THEN <<Message("User", "continue", 0)>>
                                     ELSE <<Last(asked)>>
    BY <1>4 DEF ProgressiveFallback
  <2>2. Good(asked)
    BY OfRolesAre
  <2> HIDE DEF asked
  <2>3. CASE asked = <<>>
    <3> DEFINE m == Message("User", "continue", 0)
    <3>1. m \in LLMMessages
      <4>1. "User" \in Roles /\ "continue" \in Bodies /\ 0 \in Nat
        BY DEF Roles, Bodies
      <4>2. QED
        BY <4>1, MessageTypes
    <3>2. m.role # "Tool" /\ m.calls = <<>>
      BY DEF Message
    <3> HIDE DEF m
    <3>3. Good(<<m>>)
      BY <3>1, <3>2, OneIsGood
    <3>4. QED
      BY <3>3, <2>1, <2>3 DEF m
  <2>4. CASE asked # <<>>
    <3>1. asked \in Seq(LLMMessages) /\ Len(asked) \in 1 .. Len(asked)
      BY <2>2, <2>4 DEF Good
    <3>2. Last(asked) \in LLMMessages /\ Last(asked).role # "Tool" /\ Last(asked).calls = <<>>
      BY <2>2, <3>1 DEF Last, Good, Quiet
    <3>3. QED
      BY <3>2, <2>1, <2>4, OneIsGood
  <2>5. QED
    BY <2>3, <2>4
<1>5. QED
  BY <1>1, <1>2, <1>3, <1>4

-----------------------------------------------------------------------------
(* Truncation. *)

(* t is ms without g messages after the first h, and with a notice there.  *)
Cut(t, ms, h, g) ==
  /\ t \in Seq(LLMMessages) /\ h \in Nat /\ g \in Nat /\ h + g < Len(ms)
  /\ Len(t) = (Len(ms) - g) + 1
  /\ \A p \in 1 .. h : t[p] = ms[p]
  /\ t[h + 1].n = 0 /\ t[h + 1].calls = <<>> /\ t[h + 1].role # "Tool"
  /\ \A p \in h + 2 .. Len(t) : t[p] = ms[(p - 1) + g]

LEMMA KeptAre ==
  ASSUME NEW rest \in Seq(LLMMessages), NEW gone \in Nat, Len(rest) # 0
  PROVE  \E g \in Nat : /\ g < Len(rest) /\ KeepNewest(rest, gone) \in Seq(LLMMessages)
                        /\ Len(KeepNewest(rest, gone)) = Len(rest) - g
                        /\ \A j \in 1 .. Len(rest) - g : KeepNewest(rest, gone)[j] = rest[g + j]
<1>1. Len(rest) \in Nat
  OBVIOUS
<1>2. CASE gone >= Len(rest)
  <2> DEFINE g == Len(rest) - 1
  <2>1. g \in Nat /\ g < Len(rest) /\ Len(rest) - g = 1 /\ g + 1 = Len(rest)
    BY <1>1
  <2>2. KeepNewest(rest, gone) = <<rest[Len(rest)]>>
    BY <1>2 DEF KeepNewest, Last
  <2>3. rest[Len(rest)] \in LLMMessages
    BY <1>1
  <2>4. \A x \in LLMMessages : <<x>> \in Seq(LLMMessages) /\ Len(<<x>>) = 1 /\ <<x>>[1] = x
    OBVIOUS
  <2>5. \A j \in 1 .. 1 : j = 1
    OBVIOUS
  <2> HIDE DEF g
  <2>6. QED
    BY <2>1, <2>2, <2>3, <2>4, <2>5
<1>3. CASE gone < Len(rest)
  <2>1. KeepNewest(rest, gone) = SubSeq(rest, gone + 1, Len(rest))
    BY <1>1, <1>3 DEF KeepNewest
  <2>2. SubSeq(rest, gone + 1, Len(rest)) \in Seq(LLMMessages)
    BY <1>1, <1>3
  <2>3. Len(SubSeq(rest, gone + 1, Len(rest))) = Len(rest) - gone
    BY <1>1, <1>3
  <2>4. \A j \in 1 .. Len(rest) - gone : SubSeq(rest, gone + 1, Len(rest))[j] = rest[gone + j]
    BY <1>1, <1>3
  <2>5. QED
    BY <1>3, <2>1, <2>2, <2>3, <2>4
<1>4. gone >= Len(rest) \/ gone < Len(rest)
  BY <1>1
<1>5. QED
  BY <1>2, <1>3, <1>4, Zenon

LEMMA JoinIs ==
  ASSUME NEW u \in Seq(LLMMessages), NEW v \in Seq(LLMMessages)
  PROVE  /\ u \o v \in Seq(LLMMessages) /\ Len(u \o v) = Len(u) + Len(v)
         /\ \A p \in 1 .. Len(u) : (u \o v)[p] = u[p]
         /\ \A p \in Len(u) + 1 .. Len(u) + Len(v) : (u \o v)[p] = v[p - Len(u)]
OBVIOUS

(* A truncated list is the list itself or a cut of it.                     *)
LEMMA TruncatedIs ==
  ASSUME NEW ms \in Seq(LLMMessages), NEW factor \in Nat
  PROVE  \/ TruncateMessages(ms, factor) = ms
         \/ \E h, g : Cut(TruncateMessages(ms, factor), ms, h, g)
<1>1. Len(ms) \in Nat
  OBVIOUS
<1>2. CASE Len(ms) <= MinMessages
  BY <1>2 DEF TruncateMessages
<1>3. CASE ~(Len(ms) <= MinMessages)
  <2> DEFINE head == IF HasRole(ms[1], {"System"}) THEN <<ms[1]>> ELSE <<>>
             h == Len(head)
             rest == SubSeq(ms, h + 1, Len(ms))
             gone == CeilTenths(Len(rest) * factor)
             notice == Message("System", "notice", 0)
             kept == KeepNewest(rest, gone)
             t == head \o <<notice>> \o kept
  <2>1. TruncateMessages(ms, factor) = t
    BY <1>3 DEF TruncateMessages
  <2>2. Len(ms) >= 2 /\ ms[1] \in LLMMessages
    BY <1>1, <1>3, MinMessagesAssumption
  <2>3. notice \in LLMMessages /\ notice.n = 0 /\ notice.calls = <<>> /\ notice.role # "Tool"
    <3>1. "System" \in Roles /\ "notice" \in Bodies /\ 0 \in Nat
      BY DEF Roles, Bodies
    <3>2. notice \in LLMMessages
      BY <3>1, MessageTypes
    <3>3. QED
      BY <3>2 DEF Message
  <2> HIDE DEF notice
  <2>4. head \in Seq(LLMMessages) /\ h \in {0, 1} /\ \A p \in 1 .. h : head[p] = ms[p]
    <3>1. CASE HasRole(ms[1], {"System"})
      <4>1. head = <<ms[1]>>
        BY <3>1
      <4> HIDE DEF head
      <4>2. head \in Seq(LLMMessages) /\ h = 1 /\ head[1] = ms[1]
        BY <4>1, <2>2
      <4>3. QED
        BY <4>2
    <3>2. CASE ~HasRole(ms[1], {"System"})
      <4>1. head = <<>>
        BY <3>2
      <4> HIDE DEF head
      <4>2. QED
        BY <4>1
    <3>3. QED
      BY <3>1, <3>2
  <2> HIDE DEF head
  <2>5. /\ rest \in Seq(LLMMessages) /\ Len(rest) = Len(ms) - h /\ Len(rest) # 0
        /\ \A j \in 1 .. Len(ms) - h : rest[j] = ms[h + j]
    <3> HIDE DEF h
    <3>1. h \in Nat /\ h + 1 <= Len(ms)
      BY <2>2, <2>4, <1>1
    <3>2. QED
      BY <3>1, <1>1
  <2>6. gone \in Nat
    <3>1. Len(rest) * factor \in Nat
      <4> HIDE DEF rest
      <4>1. Len(rest) \in Nat
        BY <2>5
      <4>2. QED
        BY <4>1
    <3>2. \A x \in Nat : CeilTenths(x) \in Nat
      BY DEF CeilTenths
    <3> HIDE DEF rest
    <3>3. QED
      BY <3>1, <3>2
  <2> HIDE DEF gone, rest, h
  <2>7. PICK g \in Nat : /\ g < Len(rest) /\ kept \in Seq(LLMMessages)
                         /\ Len(kept) = Len(rest) - g
                         /\ \A j \in 1 .. Len(rest) - g : kept[j] = rest[g + j]
    <3>1. \A r \in Seq(LLMMessages), x \in Nat : Len(r) # 0 =>
            \E g \in Nat : /\ g < Len(r) /\ KeepNewest(r, x) \in Seq(LLMMessages)
                          /\ Len(KeepNewest(r, x)) = Len(r) - g
                          /\ \A j \in 1 .. Len(r) - g : KeepNewest(r, x)[j] = r[g + j]
      <4>1. SUFFICES ASSUME NEW r \in Seq(LLMMessages), NEW x \in Nat, Len(r) # 0
            PROVE  \E g \in Nat : /\ g < Len(r) /\ KeepNewest(r, x) \in Seq(LLMMessages)
                                  /\ Len(KeepNewest(r, x)) = Len(r) - g
                                  /\ \A j \in 1 .. Len(r) - g : KeepNewest(r, x)[j] = r[g + j]
        OBVIOUS
      <4>2. QED
        BY <4>1, KeptAre
    <3>2. QED
      BY <2>5, <2>6, <3>1, Zenon
  <2> HIDE DEF kept
  <2>8. /\ t \in Seq(LLMMessages) /\ Len(t) = h + 1 + Len(kept)
        /\ \A p \in 1 .. h : t[p] = head[p]
        /\ t[h + 1] = notice
        /\ \A p \in h + 2 .. h + 1 + Len(kept) : t[p] = kept[p - (h + 1)]
    <3> DEFINE u == head \o <<notice>>
    <3>1. /\ u \in Seq(LLMMessages) /\ Len(u) = h + 1 /\ h \in Nat
          /\ \A p \in 1 .. h : u[p] = head[p]
          /\ u[h + 1] = notice
      BY <2>3, <2>4 DEF h
    <3>2. t = u \o kept
      OBVIOUS
    <3> HIDE DEF u, t
    <3>3. /\ t \in Seq(LLMMessages) /\ Len(t) = Len(u) + Len(kept)
          /\ \A p \in 1 .. Len(u) : t[p] = u[p]
          /\ \A p \in Len(u) + 1 .. Len(u) + Len(kept) : t[p] = kept[p - Len(u)]
      BY <3>1, <3>2, <2>7, JoinIs
    <3>4. Len(kept) \in Nat /\ (h + 1) + 1 = h + 2
      BY <2>7, <3>1
    <3>5. \A p \in 1 .. h : t[p] = u[p]
      BY <3>1, <3>3
    <3>6. t[h + 1] = u[h + 1]
      BY <3>1, <3>3
    <3>7. QED
      BY <3>1, <3>3, <3>4, <3>5, <3>6
  <2> HIDE DEF t
  <2>9. Len(ms) - h \in Nat /\ h \in Nat
    BY <2>2, <2>4, <1>1
  <2>10. Len(t) = (Len(ms) - g) + 1 /\ h + g < Len(ms)
    BY <2>5, <2>7, <2>8, <2>9, <1>1
  <2>11. ASSUME NEW p \in h + 2 .. Len(t) PROVE t[p] = ms[(p - 1) + g]
    <3>1. p - (h + 1) \in 1 .. Len(rest) - g /\ g + (p - (h + 1)) \in 1 .. Len(ms) - h
      BY <2>5, <2>7, <2>8, <2>9, <2>10, <1>1
    <3>2. t[p] = kept[p - (h + 1)]
      BY <2>8, <2>11
    <3>3. kept[p - (h + 1)] = rest[g + (p - (h + 1))]
      BY <3>1, <2>7
    <3>4. rest[g + (p - (h + 1))] = ms[h + (g + (p - (h + 1)))]
      BY <3>1, <2>5
    <3>5. h + (g + (p - (h + 1))) = (p - 1) + g
      BY <2>9, <2>10
    <3>6. QED
      BY <3>2, <3>3, <3>4, <3>5
  <2>12. Cut(t, ms, h, g)
    BY <2>3, <2>4, <2>7, <2>8, <2>9, <2>10, <2>11 DEF Cut
  <2>13. QED
    BY <2>1, <2>12
<1>4. QED
  BY <1>2, <1>3

(* What is left of a list ends as it did and is in the order it was in.    *)
LEMMA TruncationKeeps ==
  ASSUME NEW ms \in Seq(LLMMessages), NEW factor \in Nat
  PROVE  LET t == TruncateMessages(ms, factor) IN
         /\ t \in Seq(LLMMessages)
         /\ Ordered(ms) => Ordered(t)
         /\ Plain(ms) => Plain(t)
         /\ Len(ms) # 0 => Len(t) # 0 /\ t[Len(t)] = ms[Len(ms)]
<1> DEFINE t == TruncateMessages(ms, factor)
<1>1. CASE t = ms
  BY <1>1
<1>2. CASE \E h, g : Cut(t, ms, h, g)
  <2>1. PICK h, g : Cut(t, ms, h, g)
    BY <1>2
  <2> HIDE DEF t
  <2>2. /\ t \in Seq(LLMMessages) /\ h \in Nat /\ g \in Nat /\ h + g < Len(ms)
        /\ Len(t) = (Len(ms) - g) + 1 /\ Len(ms) \in Nat
        /\ \A p \in 1 .. h : t[p] = ms[p]
        /\ t[h + 1].n = 0 /\ t[h + 1].calls = <<>> /\ t[h + 1].role # "Tool"
        /\ \A p \in h + 2 .. Len(t) : t[p] = ms[(p - 1) + g]
    BY <2>1 DEF Cut
  <2> DEFINE from(p) == IF p <= h THEN p ELSE (p - 1) + g
  <2>3. ASSUME NEW p \in 1 .. Len(t), p # h + 1
        PROVE  from(p) \in 1 .. Len(ms) /\ t[p] = ms[from(p)]
    <3>1. CASE p <= h
      BY <3>1, <2>2
    <3>2. CASE p > h
      <4>1. p \in h + 2 .. Len(t) /\ from(p) = (p - 1) + g /\ from(p) \in 1 .. Len(ms)
        BY <3>2, <2>2, <2>3
      <4>2. QED
        BY <4>1, <2>2
    <3>3. QED
      BY <3>1, <3>2, <2>2
  <2>4. ASSUME NEW p \in 1 .. Len(t), NEW q \in 1 .. Len(t), p < q, p # h + 1, q # h + 1
        PROVE  from(p) < from(q)
    BY <2>2, <2>4
  <2> HIDE DEF from
  <2>5. ASSUME Ordered(ms), NEW p \in 1 .. Len(t), NEW q \in 1 .. Len(t),
               p < q, t[p].n # 0, t[q].n # 0
        PROVE  t[p].n < t[q].n
    <3>1. p # h + 1 /\ q # h + 1
      BY <2>2, <2>5
    <3>2. /\ from(p) < from(q) /\ from(p) \in 1 .. Len(ms) /\ from(q) \in 1 .. Len(ms)
          /\ t[p] = ms[from(p)] /\ t[q] = ms[from(q)]
      BY <3>1, <2>3, <2>4, <2>5
    <3>3. QED
      BY <3>2, <2>5 DEF Ordered
  <2>6. ASSUME Plain(ms), NEW p \in 1 .. Len(t)
        PROVE  t[p].calls = <<>> /\ (t[p].role = "Tool" => t[p].re # NoId)
    <3>1. CASE p = h + 1
      BY <3>1, <2>2
    <3>2. CASE p # h + 1
      BY <3>2, <2>3, <2>6 DEF Plain
    <3>3. QED
      BY <3>1, <3>2
  <2>7. Len(t) # 0 /\ t[Len(t)] = ms[Len(ms)]
    <3>1. Len(t) \in h + 2 .. Len(t) /\ (Len(t) - 1) + g = Len(ms) /\ Len(t) # 0
      BY <2>2
    <3>2. QED
      BY <3>1, <2>2
  <2>8. Ordered(ms) => Ordered(t)
    BY <2>5 DEF Ordered
  <2>9. Plain(ms) => Plain(t)
    BY <2>6 DEF Plain
  <2>10. QED
    BY <2>2, <2>7, <2>8, <2>9 DEF t
<1>3. t = ms \/ \E h, g : Cut(t, ms, h, g)
  BY TruncatedIs
<1> HIDE DEF t
<1>4. QED
  BY <1>1, <1>2, <1>3 DEF t

-----------------------------------------------------------------------------
(* The wire. *)

LEMMA FlattenAppend ==
  ASSUME NEW S, NEW ss \in Seq(Seq(S)), NEW t \in Seq(S)
  PROVE  FlattenSeq(Append(ss, t)) = FlattenSeq(ss) \o t
<1> DEFINE n == Len(ss)
           tt == Append(ss, t)
<1>1. /\ n \in Nat /\ tt \in Seq(Seq(S)) /\ Len(tt) = n + 1 /\ tt[n + 1] = t
      /\ \A k \in 1 .. n : tt[k] = ss[k]
  OBVIOUS
<1> HIDE DEF tt
<1>0. n \in Nat /\ Len(tt) = n + 1
  BY <1>1
<1>2. PICK f \in [0 .. n -> Seq(S)] :
           /\ FlattenSeq(ss) = f[n]
           /\ f[0] = <<>>
           /\ \A k \in 1 .. n : f[k] = f[k - 1] \o ss[k]
  BY FlattenByStep
<1>3. PICK g \in [0 .. Len(tt) -> Seq(S)] :
           /\ FlattenSeq(tt) = g[Len(tt)]
           /\ g[0] = <<>>
           /\ \A k \in 1 .. Len(tt) : g[k] = g[k - 1] \o tt[k]
  BY <1>1, FlattenByStep
<1> HIDE DEF n
<1> DEFINE T == {k \in Nat : k <= n => g[k] = f[k]}
<1>4. 0 \in T
  BY <1>2, <1>3
<1>5. ASSUME NEW k \in T PROVE k + 1 \in T
  <2>1. k \in Nat /\ (k <= n => g[k] = f[k])
    OBVIOUS
  <2>2. ASSUME k + 1 <= n PROVE g[k + 1] = f[k + 1]
    <3>1. k <= n /\ k + 1 \in 1 .. n /\ k + 1 \in 1 .. Len(tt) /\ (k + 1) - 1 = k
      BY <2>1, <2>2, <1>1
    <3>2. f[k + 1] = f[(k + 1) - 1] \o ss[k + 1] /\ g[k + 1] = g[(k + 1) - 1] \o tt[k + 1]
      BY <3>1, <1>2, <1>3
    <3>3. QED
      BY <3>1, <3>2, <2>1, <1>1
  <2>3. QED
    BY <2>1, <2>2
<1>6. T = Nat
  <2>1. T \in SUBSET Nat
    OBVIOUS
  <2> HIDE DEF T
  <2>2. QED
    BY <2>1, <1>4, <1>5, AllNumbers
<1>7. g[n] = f[n]
  <2>0. n <= n
    BY <1>0
  <2> HIDE DEF T
  <2>1. n \in T
    BY <1>0, <1>6
  <2>2. QED
    BY <2>0, <2>1 DEF T
<1>8. n + 1 \in 1 .. Len(tt) /\ (n + 1) - 1 = n
  BY <1>0
<1>9. g[n + 1] = g[(n + 1) - 1] \o tt[n + 1]
  BY <1>8, <1>3
<1>10. QED
  BY <1>1, <1>2, <1>3, <1>7, <1>8, <1>9 DEF tt

LEMMA FlushAppends ==
  ASSUME NEW S, NEW out \in Seq(Seq(S)), NEW part \in Seq(S)
  PROVE  /\ out \o Flush(part) \in Seq(Seq(S))
         /\ FlattenSeq(out \o Flush(part)) = FlattenSeq(out) \o part
<1>1. FlattenSeq(out) \in Seq(S)
  BY FlattenPlaces
<1>2. CASE part = <<>>
  <2>1. out \o Flush(part) = out
    BY <1>2 DEF Flush
  <2>2. FlattenSeq(out) \o part = FlattenSeq(out)
    BY <1>1, <1>2
  <2>3. QED
    BY <2>1, <2>2
<1>3. CASE part # <<>>
  <2>1. out \o Flush(part) = Append(out, part)
    BY <1>3 DEF Flush
  <2>2. Append(out, part) \in Seq(Seq(S))
    OBVIOUS
  <2>3. QED
    BY <2>1, <2>2, FlattenAppend
<1>4. QED
  BY <1>2, <1>3

(* What convert_messages has made of the messages so far: turns, and the   *)
(* content of a user's and of an assistant's turn, one of them empty.      *)
Accs == [out : Seq(Seq(LLMMessages)), user : Seq(LLMMessages), asst : Seq(LLMMessages)]

Whole(acc) == (FlattenSeq(acc.out) \o acc.user) \o acc.asst

OneSided(acc) == acc.user = <<>> \/ acc.asst = <<>>

LEMMA ConvertTypes ==
  ASSUME NEW acc \in Accs, NEW m \in LLMMessages
  PROVE  Convert(acc, m) \in Accs
<1>1. /\ acc.out \in Seq(Seq(LLMMessages)) /\ acc.user \in Seq(LLMMessages)
      /\ acc.asst \in Seq(LLMMessages)
  BY DEF Accs
<1>2. /\ acc.out \o Flush(acc.user) \in Seq(Seq(LLMMessages))
      /\ acc.out \o Flush(acc.asst) \in Seq(Seq(LLMMessages))
  BY <1>1, FlushAppends
<1>3. /\ Append(acc.user, m) \in Seq(LLMMessages) /\ Append(acc.asst, m) \in Seq(LLMMessages)
      /\ <<>> \in Seq(LLMMessages)
  BY <1>1
<1>4. CASE m.role = "User"
  <2>1. Convert(acc, m) = [out |-> acc.out \o Flush(acc.asst),
                           user |-> Append(acc.user, m), asst |-> <<>>]
    BY <1>4 DEF Convert
  <2>2. QED
    BY <2>1, <1>2, <1>3 DEF Accs
<1>5. CASE m.role = "Assistant"
  <2>1. Convert(acc, m) = [out |-> acc.out \o Flush(acc.user),
                           user |-> <<>>, asst |-> Append(acc.asst, m)]
    BY <1>5 DEF Convert
  <2>2. QED
    BY <2>1, <1>2, <1>3 DEF Accs
<1>6. CASE m.role = "Tool"
  <2>1. Convert(acc, m) = [acc EXCEPT !.user = Append(acc.user, m)]
    BY <1>6 DEF Convert
  <2>2. QED
    BY <2>1, <1>3 DEF Accs
<1>7. CASE m.role \notin {"User", "Assistant", "Tool"}
  <2>1. Convert(acc, m) = acc
    BY <1>7 DEF Convert
  <2>2. QED
    BY <2>1
<1>8. QED
  BY <1>4, <1>5, <1>6, <1>7

LEMMA JoinFacts ==
  ASSUME NEW u \in Seq(LLMMessages), NEW v \in Seq(LLMMessages), NEW m \in LLMMessages
  PROVE  /\ u \o <<>> = u
         /\ u \o Append(v, m) = Append(u \o v, m)
         /\ u \o v \in Seq(LLMMessages)
OBVIOUS

(* A message that is no tool's is added at the end or left out.            *)
LEMMA ConvertAppends ==
  ASSUME NEW acc \in Accs, OneSided(acc), NEW m \in LLMMessages, m.role # "Tool"
  PROVE  /\ OneSided(Convert(acc, m))
         /\ Whole(Convert(acc, m)) \in {Whole(acc), Append(Whole(acc), m)}
<1> DEFINE F == FlattenSeq(acc.out)
           us == acc.user
           as == acc.asst
           c == Convert(acc, m)
<1>1. acc.out \in Seq(Seq(LLMMessages)) /\ us \in Seq(LLMMessages) /\ as \in Seq(LLMMessages)
  BY DEF Accs
<1>2. F \in Seq(LLMMessages)
  BY <1>1, FlattenPlaces
<1>3. /\ FlattenSeq(acc.out \o Flush(us)) = F \o us
      /\ FlattenSeq(acc.out \o Flush(as)) = F \o as
  BY <1>1, FlushAppends
<1>4. <<>> \in Seq(LLMMessages)
  OBVIOUS
<1>5. CASE m.role = "User"
  <2>1. c = [out |-> acc.out \o Flush(as), user |-> Append(us, m), asst |-> <<>>]
    BY <1>5 DEF Convert
  <2> HIDE DEF c
  <2>11. c.out = acc.out \o Flush(as) /\ c.user = Append(us, m) /\ c.asst = <<>>
    BY <2>1
  <2>2. Whole(c) = ((F \o as) \o Append(us, m)) \o <<>>
    BY <2>11, <1>3, Zenon DEF Whole
  <2>3. OneSided(c)
    BY <2>11 DEF OneSided
  <2> HIDE DEF F
  <2>4. Append(us, m) \in Seq(LLMMessages) /\ F \o as \in Seq(LLMMessages)
    BY <1>1, <1>2
  <2>5. (F \o as) \o Append(us, m) \in Seq(LLMMessages)
    BY <2>4, JoinFacts
  <2>6. Whole(c) = (F \o as) \o Append(us, m)
    BY <2>2, <2>5, JoinFacts
  <2>7. (F \o as) \o Append(us, m) = Append((F \o as) \o us, m)
    <3>1. \A x \in Seq(LLMMessages) : x \o Append(us, m) = Append(x \o us, m)
      BY <1>1, JoinFacts
    <3>2. F \o as \in Seq(LLMMessages)
      BY <2>4
    <3>3. QED
      BY <3>1, <3>2, Zenon
  <2>8. (F \o as) \o us = (F \o us) \o as
    <3>1. CASE us = <<>>
      <4>1. (F \o as) \o us = F \o as /\ F \o us = F
        BY <3>1, <2>4, <1>2, JoinFacts
      <4>2. QED
        BY <4>1
    <3>2. CASE as = <<>>
      <4>1. F \o as = F /\ F \o us \in Seq(LLMMessages)
        BY <3>2, <1>1, <1>2, JoinFacts
      <4>2. (F \o us) \o as = F \o us
        BY <3>2, <4>1, JoinFacts
      <4>3. QED
        BY <4>1, <4>2
    <3>3. QED
      BY <3>1, <3>2 DEF OneSided
  <2>9. Whole(c) = Append(Whole(acc), m)
    BY <2>6, <2>7, <2>8 DEF Whole, F
  <2>10. QED
    BY <2>3, <2>9 DEF c
<1>6. CASE m.role = "Assistant"
  <2>1. c = [out |-> acc.out \o Flush(us), user |-> <<>>, asst |-> Append(as, m)]
    BY <1>6 DEF Convert
  <2> HIDE DEF c
  <2>9. c.out = acc.out \o Flush(us) /\ c.user = <<>> /\ c.asst = Append(as, m)
    BY <2>1
  <2>2. Whole(c) = ((F \o us) \o <<>>) \o Append(as, m)
    BY <2>9, <1>3, Zenon DEF Whole
  <2>3. OneSided(c)
    BY <2>9 DEF OneSided
  <2> HIDE DEF F
  <2>4. F \o us \in Seq(LLMMessages)
    BY <1>1, <1>2
  <2>5. (F \o us) \o <<>> = F \o us
    BY <2>4, JoinFacts
  <2>6. (F \o us) \o Append(as, m) = Append((F \o us) \o as, m)
    BY <1>1, <2>4, JoinFacts, ZenonT(40)
  <2>7. Whole(c) = Append(Whole(acc), m)
    BY <2>2, <2>5, <2>6 DEF Whole, F
  <2>8. QED
    BY <2>3, <2>7 DEF c
<1>7. CASE m.role \notin {"User", "Assistant"}
  <2>1. c = acc
    BY <1>7 DEF Convert
  <2>2. QED
    BY <2>1
<1>8. QED
  BY <1>5, <1>6, <1>7

(* Of messages in order, none of them a tool's, Anthropic's turns have     *)
(* some, in that order.                                                    *)
LEMMA ConvertedInOrder ==
  ASSUME NEW ms, Good(ms)
  PROVE  /\ FlattenSeq(ConvertMessages(ms)) \in Seq(LLMMessages)
         /\ Ordered(FlattenSeq(ConvertMessages(ms)))
<1> DEFINE n == Len(ms)
           none == [out |-> <<>>, user |-> <<>>, asst |-> <<>>]
           G == [k \in 1 .. n |-> [a \in Accs |-> Convert(a, ms[k])]]
           Eq(f) == f = [k \in 0 .. n |-> IF k = 0 THEN none ELSE Convert(f[k - 1], ms[k])]
<1>1. n \in Nat /\ ms \in Seq(LLMMessages) /\ \A k \in 1 .. n : ms[k] \in LLMMessages
  BY DEF Good
<1>2. none \in Accs
  <2>1. <<>> \in Seq(Seq(LLMMessages)) /\ <<>> \in Seq(LLMMessages)
    OBVIOUS
  <2>2. QED
    BY <2>1 DEF Accs
<1> HIDE DEF n, none
<1>3. StepsOn(Accs, n, G)
  <2>1. \A k \in 1 .. n, a \in Accs : Convert(a, ms[k]) \in Accs
    BY <1>1, ConvertTypes
  <2>2. G \in [1 .. n -> [Accs -> Accs]]
    BY <2>1
  <2> HIDE DEF G
  <2>3. QED
    BY <1>1, <2>2 DEF StepsOn
<1>4. \E f : Recursive(f, Accs, none, n, G)
  <2> HIDE DEF G
  <2>1. QED
    BY <1>2, <1>3, Recursion, Zenon
<1>5. PICK f : Recursive(f, Accs, none, n, G)
  BY <1>4
<1>6. /\ f \in [0 .. n -> Accs] /\ f[0] = none
      /\ \A k \in 1 .. n : f[k] = Convert(f[k - 1], ms[k])
  <2>1. f \in [0 .. n -> Accs] /\ f[0] = none /\ \A k \in 1 .. n : f[k] = G[k][f[k - 1]]
    <3> HIDE DEF G
    <3>1. QED
      BY <1>5 DEF Recursive
  <2>2. ASSUME NEW k \in 1 .. n PROVE f[k] = Convert(f[k - 1], ms[k])
    <3>1. k - 1 \in 0 .. n
      BY <1>1
    <3>2. f[k - 1] \in Accs
      BY <2>1, <3>1
    <3>3. QED
      BY <2>1, <3>2
  <2>3. QED
    BY <2>1, <2>2
<1> HIDE DEF G
<1>7. Eq(f)
  <2> DEFINE g == [k \in 0 .. n |-> IF k = 0 THEN none ELSE Convert(f[k - 1], ms[k])]
  <2>1. ASSUME NEW k \in 0 .. n PROVE f[k] = g[k]
    <3>1. k = 0 \/ k \in 1 .. n
      BY <1>1
    <3>2. QED
      BY <3>1, <1>6
  <2>2. f = [k \in 0 .. n |-> f[k]]
    BY <1>6
  <2>3. QED
    BY <2>1, <2>2
<1> DEFINE acc == CHOOSE g : Eq(g)
           end == acc[n]
<1>8. Eq(acc)
  <2> HIDE DEF Eq
  <2>1. QED
    BY <1>7
<1>9. ConvertMessages(ms) = end.out \o Flush(end.user) \o Flush(end.asst)
  BY DEF ConvertMessages, n, none
<1> HIDE DEF acc
<1>10. acc[0] = none /\ \A k \in 1 .. n : acc[k] = Convert(acc[k - 1], ms[k])
  <2>1. 0 \in 0 .. n /\ \A k \in 1 .. n : k \in 0 .. n /\ k # 0
    BY <1>1
  <2>2. QED
    BY <1>8, <2>1, Zenon
<1> DEFINE Fits(k) ==
      /\ acc[k] \in Accs /\ OneSided(acc[k])
      /\ Whole(acc[k]) \in Seq(LLMMessages) /\ Ordered(Whole(acc[k]))
      /\ \A p \in 1 .. Len(Whole(acc[k])) : \E i \in 1 .. k : Whole(acc[k])[p] = ms[i]
    T == {k \in Nat : k <= n => Fits(k)}
<1>11. 0 \in T
  <2>1. FlattenSeq(none.out) = <<>> /\ none.user = <<>> /\ none.asst = <<>>
    BY DEF none, FlattenSeq
  <2>2. Whole(none) = <<>> /\ OneSided(none)
    BY <2>1 DEF Whole, OneSided
  <2>3. Ordered(<<>>) /\ <<>> \in Seq(LLMMessages) /\ 1 .. Len(<<>>) = {}
    BY DEF Ordered
  <2>4. Fits(0)
    <3>1. acc[0] = none
      BY <1>10
    <3>2. QED
      BY <3>1, <2>2, <2>3, <1>2, Zenon
  <2> HIDE DEF Fits
  <2>5. QED
    BY <2>4
<1>12. ASSUME NEW k \in T PROVE k + 1 \in T
  <2>1. k \in Nat /\ k + 1 \in Nat /\ (k <= n => Fits(k))
    OBVIOUS
  <2>4. \A y, z \in Nat : y + 1 <= z =>
          \A i \in 1 .. y : i \in 1 .. z /\ i \in 1 .. y + 1 /\ i < y + 1
    OBVIOUS
  <2>2. ASSUME k + 1 <= n PROVE Fits(k + 1)
    <3>1. k <= n /\ k + 1 \in 1 .. n /\ (k + 1) - 1 = k
      BY <2>1, <2>2, <1>1
    <3> DEFINE a == acc[k]
               b == acc[k + 1]
               m == ms[k + 1]
               w == Whole(a)
    <3>2. Fits(k)
      BY <2>1, <3>1
    <3>3. b = Convert(a, m) /\ m \in LLMMessages
      BY <3>1, <1>1, <1>10
    <3>4. m.role # "Tool"
      BY <3>1 DEF Good, Quiet, n
    <3>5. OneSided(b) /\ (Whole(b) = w \/ Whole(b) = Append(w, m))
      BY <3>2, <3>3, <3>4, ConvertAppends
    <3>6. b \in Accs
      BY <3>2, <3>3, ConvertTypes
    <3>7. w \in Seq(LLMMessages) /\ Ordered(w) /\ \A p \in 1 .. Len(w) : \E i \in 1 .. k : w[p] = ms[i]
      BY <3>2
    <3>8. \A i \in 1 .. k : i \in 1 .. n /\ i \in 1 .. k + 1 /\ i < k + 1
      BY <2>1, <2>2, <2>4, <1>1, Zenon
    <3> HIDE DEF w, m, Fits
    <3>9. CASE Whole(b) = w
      <4>1. \A p \in 1 .. Len(w) : \E i \in 1 .. k + 1 : w[p] = ms[i]
        BY <3>7, <3>8
      <4>2. QED
        BY <4>1, <3>5, <3>6, <3>7, <3>9 DEF Fits
    <3>10. CASE Whole(b) = Append(w, m)
      <4> DEFINE v == Append(w, m)
      <4>1. /\ v \in Seq(LLMMessages) /\ Len(v) = Len(w) + 1 /\ Len(w) \in Nat
            /\ v[Len(w) + 1] = m /\ \A p \in 1 .. Len(w) : v[p] = w[p]
        BY <3>3, <3>7
      <4> HIDE DEF v
      <4>2. \A p \in 1 .. Len(v) : p \in 1 .. Len(w) \/ p = Len(w) + 1
        BY <4>1
      <4>3. \A p \in 1 .. Len(v) : \E i \in 1 .. k + 1 : v[p] = ms[i]
        BY <4>1, <4>2, <3>1, <3>7, <3>8 DEF m
      <4>4. ASSUME NEW p \in 1 .. Len(v), NEW q \in 1 .. Len(v),
                   p < q, v[p].n # 0, v[q].n # 0
            PROVE  v[p].n < v[q].n
        <5>1. p \in 1 .. Len(w)
          BY <4>1, <4>4
        <5>2. CASE q \in 1 .. Len(w)
          BY <5>1, <5>2, <4>1, <4>4, <3>7 DEF Ordered
        <5>3. CASE q = Len(w) + 1
          <6>1. PICK i \in 1 .. k : w[p] = ms[i]
            BY <5>1, <3>7
          <6>2. v[p] = ms[i] /\ v[q] = ms[k + 1] /\ i \in 1 .. n /\ i < k + 1
            BY <6>1, <5>1, <5>3, <4>1, <3>8 DEF m
          <6>3. QED
            BY <6>2, <4>4, <3>1 DEF Good, Ordered, n
        <5>4. QED
          BY <4>2, <5>2, <5>3
      <4>5. Ordered(v)
        BY <4>4 DEF Ordered
      <4>6. QED
        BY <3>5, <3>6, <3>10, <4>1, <4>3, <4>5 DEF Fits, v
    <3>11. QED
      BY <3>5, <3>9, <3>10
  <2> HIDE DEF Fits
  <2>3. QED
    BY <2>1, <2>2
<1> HIDE DEF T
<1>13. T = Nat
  <2>1. T \in SUBSET Nat
    BY DEF T
  <2>2. QED
    BY <2>1, <1>11, <1>12, AllNumbers
<1>14. Fits(n)
  <2>1. n \in T /\ n <= n
    BY <1>1, <1>13
  <2> HIDE DEF Fits
  <2>2. QED
    BY <2>1 DEF T
<1>15. FlattenSeq(ConvertMessages(ms)) = Whole(end)
  <2>1. /\ end.out \in Seq(Seq(LLMMessages)) /\ end.user \in Seq(LLMMessages)
        /\ end.asst \in Seq(LLMMessages)
    BY <1>14 DEF Accs
  <2> DEFINE half == end.out \o Flush(end.user)
  <2>2. half \in Seq(Seq(LLMMessages)) /\ FlattenSeq(half) = FlattenSeq(end.out) \o end.user
    BY <2>1, FlushAppends
  <2> HIDE DEF half
  <2>3. FlattenSeq(half \o Flush(end.asst)) = FlattenSeq(half) \o end.asst
    BY <2>1, <2>2, FlushAppends
  <2>4. QED
    BY <2>2, <2>3, <1>9 DEF half, Whole
<1>16. QED
  BY <1>14, <1>15

(* A list without calls and responses keeps the providers' rule, and each  *)
(* provider gets its messages in their order.                              *)
LEMMA WireInOrder ==
  ASSUME NEW ms, Good(ms), NEW p \in Providers
  PROVE  /\ ToolRule(ms)
         /\ \A i, j \in DOMAIN Numbers(FlattenSeq(Wire(p, ms).turns)) :
              i < j => Numbers(FlattenSeq(Wire(p, ms).turns))[i]
                         < Numbers(FlattenSeq(Wire(p, ms).turns))[j]
<1>1. ms \in Seq(LLMMessages) /\ DOMAIN ms = 1 .. Len(ms)
  BY DEF Good
<1>2. ToolRule(ms)
  <2>1. \A i \in DOMAIN ms : ~HasCalls(ms[i]) /\ ~HasRole(ms[i], {"Tool"})
    BY <1>1 DEF Good, Quiet, HasCalls, HasRole
  <2>2. QED
    BY <2>1 DEF ToolRule
<1>3. ASSUME NEW ns, Good(ns) PROVE FlattenSeq(Turns(ns)) = ns
  <2>1. ns \in Seq(LLMMessages) /\ DOMAIN ns = 1 .. Len(ns) /\ Len(ns) \in Nat
    BY <1>3 DEF Good
  <2> DEFINE ss == Turns(ns)
  <2>2. ss = [i \in 1 .. Len(ns) |-> <<ns[i]>>]
    BY <2>1 DEF Turns
  <2>3. \A i \in 1 .. Len(ns) : <<ns[i]>> \in Seq(LLMMessages)
    BY <2>1
  <2> HIDE DEF ss
  <2>4. ss \in Seq(Seq(LLMMessages)) /\ Len(ss) = Len(ns) /\ \A i \in 1 .. Len(ns) : ss[i] = <<ns[i]>>
    BY <2>1, <2>2, <2>3
  <2>5. FlattenSeq(ss) = ns
    BY <2>1, <2>4, FlattenSingles
  <2>6. QED
    BY <2>5 DEF ss
<1> DEFINE F == FlattenSeq(Wire(p, ms).turns)
<1>4. F \in Seq(LLMMessages) /\ Ordered(F)
  <2>1. CASE p = "OpenAI"
    <3>1. F = FlattenSeq(Turns(ms))
      BY <2>1 DEF Wire, FormatMessages
    <3> HIDE DEF F
    <3>2. F = ms
      BY <3>1, <1>3
    <3>3. QED
      BY <3>2, <1>1 DEF Good
  <2>2. CASE p = "Anthropic"
    <3>1. F = FlattenSeq(ConvertMessages(ms))
      BY <2>2 DEF Wire
    <3> HIDE DEF F
    <3>2. QED
      BY <3>1, ConvertedInOrder
  <2>3. CASE p = "Gemini"
    <3> DEFINE ns == OfRoles(ms, Roles \ {"System"})
    <3>1. F = FlattenSeq(Turns(ns))
      BY <2>3 DEF Wire, ConvertToGeminiContents
    <3> HIDE DEF F
    <3>2. Good(ns)
      BY OfRolesAre
    <3> HIDE DEF ns
    <3>3. F = ns
      BY <3>1, <3>2, <1>3
    <3>4. QED
      BY <3>2, <3>3 DEF Good
  <2>4. QED
    BY <2>1, <2>2, <2>3 DEF Providers
<1> HIDE DEF F
<1>5. \A i, j \in DOMAIN Numbers(F) : i < j => Numbers(F)[i] < Numbers(F)[j]
  BY <1>4, NumbersAre
<1>6. QED
  BY <1>2, <1>5 DEF F

-----------------------------------------------------------------------------
(* What the memory gives the agent. *)

(* Messages the stack or the agent makes up, in front of numbered ones.    *)
LEMMA FrontIsHarmless ==
  ASSUME NEW front \in Seq(LLMMessages), Plain(front),
         \A i \in 1 .. Len(front) : front[i].n = 0,
         NEW ms \in Seq(LLMMessages), Plain(ms), Ordered(ms), EndsNumbered(ms)
  PROVE  /\ front \o ms \in Seq(LLMMessages) /\ Plain(front \o ms)
         /\ Ordered(front \o ms) /\ EndsNumbered(front \o ms)
<1> DEFINE t == front \o ms
           a == Len(front)
           b == Len(ms)
<1>1. /\ t \in Seq(LLMMessages) /\ Len(t) = a + b
      /\ \A p \in 1 .. a : t[p] = front[p]
      /\ \A p \in a + 1 .. a + b : t[p] = ms[p - a]
  BY JoinIs
<1>2. a \in Nat /\ b \in Nat
  OBVIOUS
<1> HIDE DEF t, a, b
<1>3. \A p \in 1 .. Len(t) : \/ p \in 1 .. a /\ t[p] = front[p]
                             \/ p - a \in 1 .. b /\ t[p] = ms[p - a]
  <2>1. ASSUME NEW p \in 1 .. a + b
        PROVE  p \in 1 .. a \/ (p - a \in 1 .. b /\ p \in a + 1 .. a + b)
    BY <1>2
  <2>2. QED
    BY <1>1, <2>1
<1>4. Plain(t)
  BY <1>3 DEF Plain, a, b
<1>5. \A p \in 1 .. Len(t) : t[p].n # 0 => p - a \in 1 .. b /\ t[p] = ms[p - a]
  BY <1>3 DEF a
<1>6. ASSUME NEW p \in 1 .. Len(t), NEW q \in 1 .. Len(t), p < q, t[p].n # 0, t[q].n # 0
      PROVE  t[p].n < t[q].n
  <2>1. p - a \in 1 .. b /\ t[p] = ms[p - a] /\ q - a \in 1 .. b /\ t[q] = ms[q - a]
    BY <1>5, <1>6
  <2>2. p - a < q - a
    BY <1>1, <1>2, <1>6
  <2>3. QED
    BY <2>1, <2>2, <1>6 DEF Ordered, b
<1>7. ASSUME NEW p \in 1 .. Len(t), t[p].n # 0 PROVE t[Len(t)].n # 0
  <2>1. p - a \in 1 .. b /\ t[p] = ms[p - a]
    BY <1>5, <1>7
  <2>2. ms[b].n # 0
    BY <2>1, <1>7 DEF EndsNumbered, b
  <2>3. a + b \in a + 1 .. a + b /\ (a + b) - a = b
    BY <2>1, <1>2
  <2>4. QED
    BY <2>2, <2>3, <1>1
<1>8. QED
  BY <1>1, <1>4, <1>6, <1>7 DEF Ordered, EndsNumbered, t

LEMMA OfRolesOfNone ==
  ASSUME NEW roles
  PROVE  OfRoles(<<>>, roles) = <<>>
<1> DEFINE t == OfRoles(<<>>, roles)
<1>1. <<>> \in Seq(LLMMessages) /\ Len(<<>>) = 0
  OBVIOUS
<1>2. \A ms \in Seq(LLMMessages) :
        /\ OfRoles(ms, roles) \in Seq(LLMMessages)
        /\ \A j \in 1 .. Len(OfRoles(ms, roles)) :
             \E i \in 1 .. Len(ms) : OfRoles(ms, roles)[j] = ms[i]
  <2>1. SUFFICES ASSUME NEW ms \in Seq(LLMMessages)
        PROVE  /\ OfRoles(ms, roles) \in Seq(LLMMessages)
               /\ \A j \in 1 .. Len(OfRoles(ms, roles)) :
                    \E i \in 1 .. Len(ms) : OfRoles(ms, roles)[j] = ms[i]
    OBVIOUS
  <2> DEFINE I == {i \in DOMAIN ms : HasRole(ms[i], roles)}
  <2>2. OfRoles(ms, roles) = Sublist(ms, I)
    BY DEF OfRoles
  <2> HIDE DEF I
  <2>3. /\ Sublist(ms, I) \in Seq(LLMMessages)
        /\ \A j \in 1 .. Len(Sublist(ms, I)) : \E i \in 1 .. Len(ms) : Sublist(ms, I)[j] = ms[i]
    BY PartsAre
  <2>4. QED
    BY <2>2, <2>3
<1>3. t \in Seq(LLMMessages) /\ \A j \in 1 .. Len(t) : 1 .. 0 # {}
  BY <1>1, <1>2, Zenon
<1> HIDE DEF t
<1>4. Len(t) \in Nat /\ ~(1 \in 1 .. Len(t))
  BY <1>3
<1>5. Len(t) = 0
  BY <1>4
<1>6. QED
  BY <1>3, <1>5 DEF t

LEMMA RecentIsAll ==
  ASSUME NEW ms \in Seq(LLMMessages), Plain(ms)
  PROVE  Recent(ms) = ms
<1>1. {i \in 1 .. Len(ms) : HasCalls(ms[i])} = {}
  BY DEF Plain, HasCalls
<1>2. SelectLastInSeq(ms, HasCalls) = 0
  BY <1>1 DEF SelectLastInSeq
<1>3. Recent(ms) = OfRoles(SubSeq(ms, 1, 0 - 1), Roles \ {"Tool"}) \o SubSeq(ms, 1, Len(ms))
  BY <1>2 DEF Recent
<1>4. SubSeq(ms, 1, 0 - 1) = <<>>
  OBVIOUS
<1>5. OfRoles(<<>>, Roles \ {"Tool"}) = <<>>
  BY OfRolesOfNone
<1>6. SubSeq(ms, 1, Len(ms)) = ms /\ <<>> \o ms = ms
  OBVIOUS
<1>7. QED
  BY <1>3, <1>4, <1>5, <1>6, Zenon

(* What may be asked of the client for the agent.                          *)
Fair(ms) == ms \in Seq(LLMMessages) /\ Plain(ms) /\ Ordered(ms) /\ EndsNumbered(ms)

LEMMA OneInFront ==
  ASSUME NEW m \in LLMMessages, m.role # "Tool", m.calls = <<>>, m.n = 0, NEW ms, Fair(ms)
  PROVE  Fair(<<m>> \o ms)
<1> DEFINE front == <<m>>
<1>1. front \in Seq(LLMMessages) /\ Len(front) = 1 /\ front[1] = m /\ \A i \in 1 .. 1 : i = 1
  OBVIOUS
<1> HIDE DEF front
<1>2. Plain(front) /\ \A i \in 1 .. Len(front) : front[i].n = 0
  BY <1>1 DEF Plain
<1>3. Fair(front \o ms)
  BY <1>1, <1>2, FrontIsHarmless DEF Fair
<1>4. QED
  BY <1>3 DEF front

LEMMA NoneIsFair == Fair(<<>>)
<1>1. <<>> \in Seq(LLMMessages) /\ 1 .. Len(<<>>) = {}
  OBVIOUS
<1>2. QED
  BY <1>1 DEF Fair, Plain, Ordered, EndsNumbered

LEMMA OneIsFair ==
  ASSUME NEW m \in LLMMessages, m.role # "Tool", m.calls = <<>>, m.n = 0
  PROVE  Fair(<<m>>)
<1>1. Fair(<<m>> \o <<>>)
  BY NoneIsFair, OneInFront
<1>2. <<m>> \o <<>> = <<m>>
  OBVIOUS
<1>3. QED
  BY <1>1, <1>2

LEMMA MadeUp ==
  /\ \A m \in {Prompt, SummaryMessage, Lines} :
       m \in LLMMessages /\ m.role # "Tool" /\ m.calls = <<>> /\ m.n = 0
<1>1. "System" \in Roles /\ {"prompt", "summary", "lines"} \subseteq Bodies /\ 0 \in Nat
  BY DEF Roles, Bodies
<1>2. Prompt \in LLMMessages /\ SummaryMessage \in LLMMessages /\ Lines \in LLMMessages
  BY <1>1, MessageTypes DEF Prompt, SummaryMessage, Lines
<1>3. \A m \in {Prompt, SummaryMessage, Lines} : m.role # "Tool" /\ m.calls = <<>> /\ m.n = 0
  BY DEF Prompt, SummaryMessage, Lines, Message
<1>4. QED
  BY <1>2, <1>3

LEMMA ContextIsFair ==
  ASSUME NEW strat \in Strategies, NEW ms, Fair(ms), NEW sum \in BOOLEAN
  PROVE  Fair(<<Prompt>> \o GetContext(strat, ms, sum))
<1> DEFINE c == GetContext(strat, ms, sum)
<1>1. ms \in Seq(LLMMessages) /\ Recent(ms) = ms
  BY RecentIsAll DEF Fair
<1>2. Fair(c)
  <2>1. CASE strat = "Window"
    BY <2>1, <1>1 DEF GetContext
  <2>2. CASE strat = "SummaryBuffer"
    <3>1. c = (IF sum THEN <<SummaryMessage>> ELSE <<>>) \o ms
      BY <2>2, <1>1 DEF GetContext
    <3> HIDE DEF c
    <3>2. CASE sum = TRUE
      <4>1. c = <<SummaryMessage>> \o ms
        BY <3>1, <3>2
      <4>2. Fair(<<SummaryMessage>> \o ms)
        BY MadeUp, OneInFront
      <4>3. QED
        BY <4>1, <4>2
    <3>3. CASE sum = FALSE
      <4>1. c = <<>> \o ms
        BY <3>1, <3>3
      <4>2. <<>> \o ms = ms
        BY <1>1
      <4>3. QED
        BY <4>1, <4>2
    <3>4. QED
      BY <3>2, <3>3
  <2>3. CASE strat = "Summary"
    <3>1. c = <<SummaryMessage>>
      BY <2>3 DEF GetContext
    <3> HIDE DEF c
    <3>2. QED
      BY <3>1, MadeUp, OneIsFair
  <2>4. QED
    BY <2>1, <2>2, <2>3 DEF Strategies
<1> HIDE DEF c
<1>3. Fair(<<Prompt>> \o c)
  BY <1>2, MadeUp, OneInFront
<1>4. QED
  BY <1>3 DEF c

-----------------------------------------------------------------------------
(* The lists the inner loop makes, of any messages. *)

LEMMA RecoveryTypes ==
  ASSUME NEW ms \in Seq(LLMMessages), NEW e, NEW missing
  PROVE  AttemptRecovery(ms, e, missing) \in Seq(LLMMessages)
<1>1. DOMAIN ms = 1 .. Len(ms) /\ Len(ms) \in Nat
  OBVIOUS
<1>2. \A v \in Seq(LLMMessages) : ValidateAndFix(v) \in Seq(LLMMessages)
  BY ValidatorRepairs DEF Repaired
<1> DEFINE FirstMissing(i) ==
             Sublist(ms[i].calls, {k \in DOMAIN ms[i].calls : ms[i].calls[k] \in missing})
           Ending(k) == {i \in 1 .. k : HasCalls(ms[i]) /\ FirstMissing(i) # <<>>
                                          /\ RunEnd(ms, i) = k}
           tail(k) == IF Ending(k) = {} THEN <<>>
                      ELSE <<Synthetic(Head(FirstMissing(CHOOSE i \in Ending(k) : TRUE)))>>
           ss == [k \in DOMAIN ms |-> <<ms[k]>> \o tail(k)]
<1>3. InsertMissing(ms, missing) = FlattenSeq(ss)
  BY DEF InsertMissing
<1>4. \A i \in 1 .. Len(ms) : FirstMissing(i) \in Seq(Ids)
  BY MessageFields, SublistPlaces
<1> HIDE DEF FirstMissing
<1>5. ASSUME NEW k \in 1 .. Len(ms) PROVE tail(k) \in Seq(LLMMessages)
  <2>1. CASE Ending(k) = {}
    BY <2>1
  <2>2. CASE Ending(k) # {}
    <3> DEFINE i == CHOOSE i \in Ending(k) : TRUE
    <3>1. i \in Ending(k)
      <4> HIDE DEF Ending
      <4>1. QED
        BY <2>2
    <3> HIDE DEF i
    <3>2. i \in 1 .. Len(ms) /\ FirstMissing(i) # <<>>
      BY <3>1, <1>1
    <3>3. Head(FirstMissing(i)) \in Ids
      BY <3>2, <1>4
    <3>4. Synthetic(Head(FirstMissing(i))) \in LLMMessages
      BY <3>3, MessageTypes
    <3>5. tail(k) = <<Synthetic(Head(FirstMissing(i)))>>
      BY <2>2 DEF i
    <3> HIDE DEF tail
    <3>6. QED
      BY <3>4, <3>5
  <2>3. QED
    BY <2>1, <2>2
<1> HIDE DEF tail, Ending
<1>6. ss \in Seq(Seq(LLMMessages))
  <2>1. ASSUME NEW k \in 1 .. Len(ms) PROVE <<ms[k]>> \o tail(k) \in Seq(LLMMessages)
    <3>1. <<ms[k]>> \in Seq(LLMMessages) /\ tail(k) \in Seq(LLMMessages)
      BY <1>1, <1>5
    <3>2. QED
      BY <3>1
  <2>2. ss = [k \in 1 .. Len(ms) |-> <<ms[k]>> \o tail(k)]
    BY <1>1
  <2> HIDE DEF ss
  <2>3. QED
    BY <2>1, <2>2, <1>1
<1> HIDE DEF ss
<1>7. InsertMissing(ms, missing) \in Seq(LLMMessages)
  BY <1>3, <1>6, FlattenPlaces
<1>8. QED
  BY <1>2, <1>7 DEF AttemptRecovery, RecoverFromToolCallsError

LEMMA WithoutToolsTypes ==
  ASSUME NEW ms \in Seq(LLMMessages)
  PROVE  [i \in DOMAIN ms |-> WithoutTools(ms[i])] \in Seq(LLMMessages)
<1>1. ASSUME NEW i \in 1 .. Len(ms) PROVE WithoutTools(ms[i]) \in LLMMessages
  <2>1. /\ ms[i] \in LLMMessages /\ ms[i].body \in Bodies /\ ms[i].n \in Nat
        /\ "System" \in Roles
    BY MessageFields DEF Roles
  <2>2. CASE HasRole(ms[i], {"Tool"})
    <3>1. WithoutTools(ms[i]) = Message("System", ms[i].body, ms[i].n)
      BY <2>2 DEF WithoutTools
    <3>2. QED
      BY <2>1, <3>1, MessageTypes
  <2>3. CASE ~HasRole(ms[i], {"Tool"})
    <3>1. WithoutTools(ms[i]) = [ms[i] EXCEPT !.calls = <<>>]
      BY <2>3 DEF WithoutTools
    <3>2. <<>> \in Seq(Ids)
      OBVIOUS
    <3>3. \A m \in LLMMessages, cs \in Seq(Ids) : [m EXCEPT !.calls = cs] \in LLMMessages
      BY DEF LLMMessages
    <3>4. QED
      BY <2>1, <3>1, <3>2, <3>3
  <2>4. QED
    BY <2>2, <2>3
<1>2. DOMAIN ms = 1 .. Len(ms) /\ Len(ms) \in Nat
  OBVIOUS
<1>3. QED
  BY <1>1, <1>2

LEMMA FallbackTypes ==
  ASSUME NEW ms \in Seq(LLMMessages), NEW k \in 1 .. RecoveryRetries
  PROVE  ProgressiveFallback(ms, k) \in Seq(LLMMessages)
<1>1. k = 1 \/ k = 2 \/ k = 3
  BY DEF RecoveryRetries
<1>2. \A roles : OfRoles(ms, roles) \in Seq(LLMMessages)
  BY PartsAre DEF OfRoles
<1>3. CASE k = 1
  <2>1. ProgressiveFallback(ms, k) = [i \in DOMAIN ms |-> WithoutTools(ms[i])]
    BY <1>3 DEF ProgressiveFallback
  <2>2. QED
    BY <2>1, WithoutToolsTypes
<1>4. CASE k = 2
  <2> DEFINE said == OfRoles(ms, {"User", "Assistant"})
  <2>1. ProgressiveFallback(ms, k) = [i \in DOMAIN said |-> WithoutTools(said[i])]
    BY <1>4 DEF ProgressiveFallback
  <2>2. said \in Seq(LLMMessages)
    BY <1>2
  <2> HIDE DEF said
  <2>3. QED
    BY <2>1, <2>2, WithoutToolsTypes
<1>5. CASE k = 3
  <2> DEFINE asked == OfRoles(ms, {"User"})
  <2>1. ProgressiveFallback(ms, k) = IF asked = <<>> THEN <<Message("User", "continue", 0)>>
                                     ELSE <<Last(asked)>>
    BY <1>5 DEF ProgressiveFallback
  <2>2. asked \in Seq(LLMMessages)
    BY <1>2
  <2> HIDE DEF asked
  <2>3. Message("User", "continue", 0) \in LLMMessages
    <3>1. "User" \in Roles /\ "continue" \in Bodies /\ 0 \in Nat
      BY DEF Roles, Bodies
    <3>2. QED
      BY <3>1, MessageTypes
  <2>4. asked # <<>> => Last(asked) \in LLMMessages
    <3>1. asked # <<>> => Len(asked) \in 1 .. Len(asked)
      BY <2>2
    <3>2. QED
      BY <2>2, <3>1 DEF Last
  <2>5. QED
    BY <2>1, <2>3, <2>4
<1>6. QED
  BY <1>1, <1>3, <1>4, <1>5

-----------------------------------------------------------------------------
(* The inductive invariant.                                                *)

CallTypes ==
  [pc : {"idle", "attempt", "sent", "answered", "failed"},
   asked : Seq(LLMMessages), current : Seq(LLMMessages), factor : Nat, attempt : Nat,
   validated : Seq(LLMMessages), recovery : 0 .. RecoveryRetries, sent : Seq(LLMMessages),
   verdict : {"none", "empty", "tools", "fine"}, tools : BOOLEAN, withTools : BOOLEAN,
   error : Errors \cup {"none"}, missing : SUBSET Ids]

(* The list that is shortened ends as the caller's did; what is sent first *)
(* is the validated list, and is sent again differently; and of an agent's *)
(* lists none has calls, and none that is sent has responses.              *)
CallFits(c, who) ==
  /\ c \in CallTypes
  /\ EndsNumbered(c.asked)
  /\ Len(c.asked) # 0 => /\ Len(c.current) # 0
                         /\ c.current[Len(c.current)] = c.asked[Len(c.asked)]
  /\ c.pc = "sent" /\ c.recovery = 0 => c.sent = ValidateAndFix(c.current)
  /\ who = "agent" => /\ Plain(c.current) /\ Ordered(c.current)
                      /\ Good(c.validated) /\ Good(c.sent)

(* The memory is the end of the conversation of the a messages added, and  *)
(* what the run has yet to add has no calls either.                        *)
EndOf(ms, a) ==
  /\ ms \in Seq(LLMMessages) /\ Plain(ms) /\ Len(ms) <= a
  /\ \A i \in 1 .. Len(ms) : ms[i].n = (a - Len(ms)) + i

MemoryFits ==
  /\ added \in Nat /\ EndOf(messages, added)
  /\ todo \in Seq(LLMMessages) /\ Plain(todo)
  /\ pc = "summing" => todo # <<>>

ConfigFits ==
  caller \in {"agent", "library"} /\ strategy \in Strategies /\ provider \in Providers

IInv == ConfigFits /\ MemoryFits /\ CallFits(call, caller)

-----------------------------------------------------------------------------
(* The client's steps keep it. *)

LEMMA NoneIsGood == Good(<<>>) /\ Plain(<<>>) /\ Ordered(<<>>) /\ EndsNumbered(<<>>)
<1>1. <<>> \in Seq(LLMMessages) /\ 1 .. Len(<<>>) = {}
  OBVIOUS
<1>2. QED
  BY <1>1 DEF Good, Plain, Quiet, Ordered, EndsNumbered

LEMMA NoCallTypes == NoCall \in CallTypes
<1>1. <<>> \in Seq(LLMMessages) /\ 0 \in 0 .. RecoveryRetries
  BY DEF RecoveryRetries
<1>2. QED
  BY <1>1 DEF NoCall, CallTypes

LEMMA NoCallFits ==
  ASSUME NEW who
  PROVE  CallFits(NoCall, who)
<1>1. /\ NoCall.asked = <<>> /\ NoCall.current = <<>> /\ NoCall.pc = "idle"
      /\ NoCall.validated = <<>> /\ NoCall.sent = <<>>
  BY DEF NoCall
<1>2. QED
  BY <1>1, NoCallTypes, NoneIsGood DEF CallFits

(* A call begins with the list it was given.                               *)
LEMMA GeneratedFits ==
  ASSUME NEW ms \in Seq(LLMMessages), EndsNumbered(ms), NEW who,
         who = "agent" => Plain(ms) /\ Ordered(ms), NEW withThem \in BOOLEAN
  PROVE  CallFits([NoCall EXCEPT !.pc = "attempt", !.asked = ms, !.current = ms,
                                 !.factor = TruncationRatio, !.tools = withThem], who)
<1> DEFINE c == [NoCall EXCEPT !.pc = "attempt", !.asked = ms, !.current = ms,
                               !.factor = TruncationRatio, !.tools = withThem]
<1>1. c \in CallTypes
  BY NoCallTypes DEF CallTypes, TruncationRatio
<1>2. /\ c.asked = ms /\ c.current = ms /\ c.pc = "attempt"
      /\ c.validated = <<>> /\ c.sent = <<>>
  BY DEF NoCall
<1> HIDE DEF c
<1>3. CallFits(c, who)
  BY <1>1, <1>2, NoneIsGood DEF CallFits
<1>4. QED
  BY <1>3 DEF c

LEMMA VerdictTypes ==
  ASSUME NEW wire
  PROVE  Verdict(wire) \in {"none", "empty", "tools", "fine"}
BY DEF Verdict

(* The first request of an attempt is the validated list.                  *)
LEMMA InnerFits ==
  ASSUME NEW who, NEW c, CallFits(c, who), NEW verdict \in {"none", "empty", "tools", "fine"}
  PROVE  CallFits([c EXCEPT !.pc = "sent", !.validated = ValidateAndFix(c.current),
                            !.sent = ValidateAndFix(c.current), !.verdict = verdict,
                            !.withTools = c.tools, !.recovery = 0], who)
<1> DEFINE v == ValidateAndFix(c.current)
           d == [c EXCEPT !.pc = "sent", !.validated = v, !.sent = v, !.verdict = verdict,
                          !.withTools = c.tools, !.recovery = 0]
<1>1. c \in CallTypes /\ c.current \in Seq(LLMMessages) /\ c.tools \in BOOLEAN
  BY DEF CallFits, CallTypes
<1>2. v \in Seq(LLMMessages)
  BY <1>1, ValidatorRepairs DEF Repaired
<1>3. who = "agent" => Good(v)
  BY <1>1, ValidatedIsQuiet DEF CallFits
<1> HIDE DEF v
<1>4. 0 \in 0 .. RecoveryRetries
  BY DEF RecoveryRetries
<1>5. d \in CallTypes
  BY <1>1, <1>2, <1>4 DEF CallTypes
<1>6. d.asked = c.asked /\ d.current = c.current /\ d.validated = v /\ d.sent = v
  BY <1>1 DEF CallTypes
<1> HIDE DEF d
<1>7. CallFits(d, who)
  BY <1>3, <1>5, <1>6 DEF CallFits, v
<1>8. QED
  BY <1>7 DEF d, v

(* A further request of the same attempt is of another list.               *)
LEMMA RetriedFits ==
  ASSUME NEW who, NEW c, CallFits(c, who), NEW k \in 1 .. RecoveryRetries,
         NEW e \in Errors \cup {"none"}, NEW ids \in SUBSET Ids,
         NEW ms \in Seq(LLMMessages), who = "agent" => Good(ms),
         NEW verdict \in {"none", "empty", "tools", "fine"}, NEW withThem \in BOOLEAN
  PROVE  CallFits([c EXCEPT !.recovery = k, !.error = e, !.missing = ids, !.sent = ms,
                            !.verdict = verdict, !.withTools = withThem], who)
<1> DEFINE d == [c EXCEPT !.recovery = k, !.error = e, !.missing = ids, !.sent = ms,
                          !.verdict = verdict, !.withTools = withThem]
<1>1. c \in CallTypes
  BY DEF CallFits
<1>2. k \in 0 .. RecoveryRetries /\ k # 0
  BY DEF RecoveryRetries
<1>3. d \in CallTypes
  BY <1>1, <1>2 DEF CallTypes
<1>4. /\ d.asked = c.asked /\ d.current = c.current /\ d.validated = c.validated /\ d.sent = ms
      /\ d.recovery = k
  BY <1>1 DEF CallTypes
<1> HIDE DEF d
<1>5. CallFits(d, who)
  BY <1>2, <1>3, <1>4 DEF CallFits
<1>6. QED
  BY <1>5 DEF d

(* The list is shortened at its front.                                     *)
LEMMA TruncatedFits ==
  ASSUME NEW who, NEW c, CallFits(c, who), NEW factor \in Nat
  PROVE  CallFits([c EXCEPT !.pc = "attempt", !.current = TruncateMessages(c.current, c.factor),
                            !.attempt = c.attempt + 1, !.factor = factor], who)
<1> DEFINE t == TruncateMessages(c.current, c.factor)
           d == [c EXCEPT !.pc = "attempt", !.current = t,
                          !.attempt = c.attempt + 1, !.factor = factor]
<1>1. /\ c \in CallTypes /\ c.current \in Seq(LLMMessages) /\ c.factor \in Nat
      /\ c.attempt + 1 \in Nat
  BY DEF CallFits, CallTypes
<1>2. /\ t \in Seq(LLMMessages)
      /\ Ordered(c.current) => Ordered(t)
      /\ Plain(c.current) => Plain(t)
      /\ Len(c.current) # 0 => Len(t) # 0 /\ t[Len(t)] = c.current[Len(c.current)]
  BY <1>1, TruncationKeeps
<1> HIDE DEF t
<1>3. d \in CallTypes
  BY <1>1, <1>2 DEF CallTypes
<1>4. /\ d.asked = c.asked /\ d.current = t /\ d.validated = c.validated /\ d.sent = c.sent
      /\ d.pc = "attempt"
  BY <1>1 DEF CallTypes
<1> HIDE DEF d
<1>5. CallFits(d, who)
  BY <1>2, <1>3, <1>4 DEF CallFits
<1>6. QED
  BY <1>5 DEF d, t

LEMMA EndedFits ==
  ASSUME NEW who, NEW c, CallFits(c, who), NEW at \in {"answered", "failed"}
  PROVE  CallFits([c EXCEPT !.pc = at], who)
<1> DEFINE d == [c EXCEPT !.pc = at]
<1>1. c \in CallTypes
  BY DEF CallFits
<1>2. d \in CallTypes
  BY <1>1 DEF CallTypes
<1>3. /\ d.asked = c.asked /\ d.current = c.current /\ d.validated = c.validated
      /\ d.sent = c.sent /\ d.pc = at
  BY <1>1 DEF CallTypes
<1> HIDE DEF d
<1>4. CallFits(d, who)
  BY <1>2, <1>3 DEF CallFits
<1>5. QED
  BY <1>4 DEF d

(* A further request is a recovery of the validated list, or a fallback.   *)
LEMMA RetryFits ==
  ASSUME NEW who, CallFits(call, who), NEW e \in Errors,
         NEW missing \in SUBSET Ids, Retry(e, missing)
  PROVE  CallFits(call', who)
<1> DEFINE first == IF call.recovery = 0 THEN e ELSE call.error
           ids   == IF call.recovery = 0 THEN missing ELSE call.missing
           k     == call.recovery + 1
<1>1. /\ call \in CallTypes /\ call.validated \in Seq(LLMMessages)
      /\ call.recovery \in 0 .. RecoveryRetries /\ call.tools \in BOOLEAN
      /\ call.error \in Errors \cup {"none"} /\ call.missing \in SUBSET Ids
      /\ who = "agent" => Good(call.validated)
  BY DEF CallFits, CallTypes
<1>2. k \in 1 .. RecoveryRetries
  BY <1>1 DEF Retry, RecoveryRetries
<1>3. first \in Errors \cup {"none"} /\ ids \in SUBSET Ids
  BY <1>1
<1>4. PICK ms \in {IF IsRecoverable400Error(first)
                   THEN AttemptRecovery(call.validated, first, ids)
                   ELSE ProgressiveFallback(call.validated, k)} :
        call' = [call EXCEPT
          !.recovery = k, !.error = first, !.missing = ids,
          !.sent = ms, !.verdict = Verdict(Wire(provider, ms)),
          !.withTools = call.tools /\ IsRecoverable400Error(first)]
  BY DEF Retry
<1> HIDE DEF first, ids, k
<1>5. /\ AttemptRecovery(call.validated, first, ids) \in Seq(LLMMessages)
      /\ ProgressiveFallback(call.validated, k) \in Seq(LLMMessages)
  BY <1>1, <1>2, RecoveryTypes, FallbackTypes
<1>6. who = "agent" => /\ Good(AttemptRecovery(call.validated, first, ids))
                       /\ Good(ProgressiveFallback(call.validated, k))
  BY <1>1, <1>2, RecoveryIsGood, FallbackIsGood
<1>7. ms \in Seq(LLMMessages) /\ (who = "agent" => Good(ms))
  BY <1>4, <1>5, <1>6
<1> DEFINE verdict == Verdict(Wire(provider, ms))
           withThem == call.tools /\ IsRecoverable400Error(first)
<1>8. verdict \in {"none", "empty", "tools", "fine"}
  BY VerdictTypes
<1>9. withThem \in BOOLEAN
  BY <1>1
<1>10. call' = [call EXCEPT !.recovery = k, !.error = first, !.missing = ids, !.sent = ms,
                            !.verdict = verdict, !.withTools = withThem]
  BY <1>4
<1> HIDE DEF verdict, withThem
<1>11. CallFits([call EXCEPT !.recovery = k, !.error = first, !.missing = ids, !.sent = ms,
                             !.verdict = verdict, !.withTools = withThem], who)
  BY <1>2, <1>3, <1>7, <1>8, <1>9, RetriedFits, ZenonT(40)
<1>12. QED
  BY <1>10, <1>11

LEMMA TruncateFits ==
  ASSUME NEW who, CallFits(call, who), NEW e \in Errors, Truncate(e)
  PROVE  CallFits(call', who)
<1> DEFINE shorter == TruncateMessages(call.current, call.factor)
           factor == IF call.factor < MaxTruncation THEN call.factor + 1 ELSE call.factor
<1>1. factor \in Nat
  BY DEF CallFits, CallTypes
<1>2. CASE Len(shorter) <= MinMessages
  <2>1. call' = [call EXCEPT !.pc = "failed"]
    BY <1>2 DEF Truncate
  <2>2. QED
    BY <2>1, EndedFits, Zenon
<1>3. CASE ~(Len(shorter) <= MinMessages)
  <2>1. call' = [call EXCEPT !.pc = "attempt", !.current = shorter,
                             !.attempt = call.attempt + 1, !.factor = factor]
    BY <1>3 DEF Truncate
  <2> HIDE DEF factor
  <2>2. QED
    BY <1>1, <2>1, TruncatedFits, Zenon
<1>4. QED
  BY <1>2, <1>3

(* Whatever the client does, its call stays as it should be.               *)
LEMMA LlmStepFits ==
  ASSUME NEW who, CallFits(call, who), LlmStep
  PROVE  CallFits(call', who)
<1>1. CASE CallInner
  <2> DEFINE v == ValidateAndFix(call.current)
             verdict == Verdict(Wire(provider, v))
  <2>1. call' = [call EXCEPT !.pc = "sent", !.validated = v, !.sent = v, !.verdict = verdict,
                             !.withTools = call.tools, !.recovery = 0]
    BY <1>1 DEF CallInner
  <2>2. verdict \in {"none", "empty", "tools", "fine"}
    BY VerdictTypes
  <2> HIDE DEF verdict
  <2>3. QED
    BY <2>1, <2>2, InnerFits, Zenon
<1>2. CASE ProviderAnswers
  BY <1>2, EndedFits, Zenon DEF ProviderAnswers
<1>3. CASE ProviderFails
  <2>1. PICK e \in Errors, missing \in {{}} \cup {{id} : id \in Ids} :
          Retry(e, missing) \/ Truncate(e) \/ GiveUp(e)
    BY <1>3 DEF ProviderFails
  <2>2. missing \in SUBSET Ids
    BY <2>1
  <2>3. GiveUp(e) => CallFits(call', who)
    BY EndedFits, ZenonT(40) DEF GiveUp
  <2>4. QED
    BY <2>1, <2>2, <2>3, RetryFits, TruncateFits
<1>4. QED
  BY <1>1, <1>2, <1>3 DEF LlmStep

-----------------------------------------------------------------------------
(* The memory's and the run's steps keep it. *)

(* A memory of the last numbers is fair to ask with.                       *)
LEMMA RecentIsFair ==
  ASSUME MemoryFits
  PROVE  Fair(messages)
<1>1. /\ added \in Nat /\ Len(messages) \in Nat /\ Len(messages) <= added
      /\ messages \in Seq(LLMMessages) /\ Plain(messages)
      /\ \A i \in 1 .. Len(messages) : messages[i].n = (added - Len(messages)) + i
  BY DEF MemoryFits, EndOf
<1> DEFINE n == Len(messages)
<1>2. \A i, j \in 1 .. n : i < j => (added - n) + i < (added - n) + j
  BY <1>1
<1>3. \A i \in 1 .. n : (added - n) + i # 0
  BY <1>1
<1> HIDE DEF n
<1>4. Ordered(messages)
  BY <1>1, <1>2 DEF Ordered, n
<1>5. EndsNumbered(messages)
  <2>1. n # 0 => n \in 1 .. n
    BY <1>1 DEF n
  <2>2. n = 0 => ~\E i \in 1 .. n : TRUE
    OBVIOUS
  <2>3. QED
    BY <1>1, <1>3, <2>1, <2>2 DEF EndsNumbered, n
<1>6. QED
  BY <1>1, <1>4, <1>5 DEF Fair

(* What is left of a list without its first k messages.                    *)
LEMMA RestIsEnd ==
  ASSUME NEW a \in Nat, NEW ms, EndOf(ms, a), NEW k \in 0 .. Len(ms)
  PROVE  EndOf(SubSeq(ms, k + 1, Len(ms)), a)
<1> DEFINE t == SubSeq(ms, k + 1, Len(ms))
<1>1. ms \in Seq(LLMMessages) /\ Len(ms) \in Nat /\ Len(ms) <= a
  BY DEF EndOf
<1>2. /\ t \in Seq(LLMMessages) /\ Len(t) = Len(ms) - k
      /\ \A i \in 1 .. Len(ms) - k : t[i] = ms[k + i]
  BY <1>1
<1> HIDE DEF t
<1> DEFINE n == Len(ms)
<1>3. n \in Nat /\ k \in Nat /\ k <= n /\ n <= a
  BY <1>1
<1>4. \A i \in 1 .. n - k : k + i \in 1 .. n /\ (a - n) + (k + i) = (a - (n - k)) + i
  BY <1>3
<1>5. n - k <= a
  BY <1>3
<1> HIDE DEF n
<1>6. Plain(t)
  BY <1>2, <1>4 DEF Plain, EndOf, n
<1>7. \A i \in 1 .. Len(t) : t[i].n = (a - Len(t)) + i
  BY <1>2, <1>4 DEF EndOf, n
<1>8. QED
  BY <1>2, <1>5, <1>6, <1>7 DEF EndOf, t, n

LEMMA AppendedIsEnd ==
  ASSUME NEW a \in Nat, NEW ms, EndOf(ms, a), NEW m \in LLMMessages,
         m.calls = <<>>, m.role = "Tool" => m.re # NoId, m.n = a + 1
  PROVE  EndOf(Append(ms, m), a + 1)
<1> DEFINE t == Append(ms, m)
           n == Len(ms)
<1>1. ms \in Seq(LLMMessages) /\ n \in Nat /\ n <= a
  BY DEF EndOf
<1>2. /\ t \in Seq(LLMMessages) /\ Len(t) = n + 1 /\ t[n + 1] = m
      /\ \A i \in 1 .. n : t[i] = ms[i]
  BY <1>1
<1> HIDE DEF t, n
<1>3. \A i \in 1 .. n + 1 : i = n + 1 \/ i \in 1 .. n
  BY <1>1
<1>4. \A i \in 1 .. n : ((a + 1) - (n + 1)) + i = (a - n) + i
  BY <1>1
<1>5. ((a + 1) - (n + 1)) + (n + 1) = a + 1 /\ n + 1 <= a + 1
  BY <1>1
<1>6. Plain(t)
  BY <1>2, <1>3 DEF Plain, EndOf, n
<1>7. \A i \in 1 .. Len(t) : t[i].n = ((a + 1) - Len(t)) + i
  <2>1. \A i \in 1 .. n : t[i].n = ((a + 1) - (n + 1)) + i
    BY <1>2, <1>4 DEF EndOf, n
  <2>2. t[n + 1].n = ((a + 1) - (n + 1)) + (n + 1)
    BY <1>2, <1>5
  <2>3. QED
    BY <1>2, <1>3, <2>1, <2>2
<1>8. QED
  BY <1>2, <1>5, <1>6, <1>7 DEF EndOf, t

(* Evicting the first and adding a last message.                           *)
LEMMA PushedIsEnd ==
  ASSUME NEW a \in Nat, NEW ms, EndOf(ms, a), NEW m \in LLMMessages,
         m.calls = <<>>, m.role = "Tool" => m.re # NoId, m.n = a + 1, NEW s
  PROVE  EndOf(Push(s, ms, m), a + 1)
<1>1. CASE s = "Window" /\ Len(ms) >= MaxHistory /\ ms # <<>>
  <2>1. Push(s, ms, m) = Append(Tail(ms), m)
    BY <1>1 DEF Push
  <2>2. ms \in Seq(LLMMessages) /\ Len(ms) \in Nat /\ 1 <= Len(ms)
    BY <1>1 DEF EndOf
  <2>3. Tail(ms) = SubSeq(ms, 1 + 1, Len(ms)) /\ 1 \in 0 .. Len(ms)
    BY <2>2
  <2>4. EndOf(Tail(ms), a)
    BY <2>3, RestIsEnd
  <2>5. QED
    BY <2>1, <2>4, AppendedIsEnd
<1>2. CASE ~(s = "Window" /\ Len(ms) >= MaxHistory /\ ms # <<>>)
  <2>1. Push(s, ms, m) = Append(ms, m)
    BY <1>2 DEF Push
  <2>2. QED
    BY <2>1, AppendedIsEnd
<1>3. QED
  BY <1>1, <1>2

LEMMA KeptIsEnd ==
  ASSUME NEW a \in Nat, NEW ms, EndOf(ms, a), NEW s
  PROVE  EndOf(Kept(s, ms), a)
<1>1. ms \in Seq(LLMMessages) /\ Len(ms) \in Nat
  BY DEF EndOf
<1>2. CASE s = "SummaryBuffer"
  <2> DEFINE k == Len(Leaving(s, ms))
  <2>1. Leaving(s, ms) = IF TooLong(ms) THEN SubSeq(ms, 1, Len(ms) \div 2) ELSE <<>>
    BY <1>2 DEF Leaving
  <2>2. Len(ms) \div 2 \in 0 .. Len(ms)
    BY <1>1
  <2>3. Len(SubSeq(ms, 1, Len(ms) \div 2)) = Len(ms) \div 2
    BY <1>1, <2>2
  <2>4. k \in 0 .. Len(ms)
    <3>1. Len(<<>>) = 0 /\ 0 \in 0 .. Len(ms)
      BY <1>1
    <3>2. QED
      BY <2>1, <2>2, <2>3, <3>1
  <2>5. Kept(s, ms) = SubSeq(ms, k + 1, Len(ms))
    BY <1>2 DEF Kept
  <2> HIDE DEF k
  <2>6. QED
    BY <2>4, <2>5, RestIsEnd
<1>3. CASE s # "SummaryBuffer"
  BY <1>3 DEF Kept
<1>4. QED
  BY <1>2, <1>3

(* The message added gets the next number.                                 *)
LEMMA NumberedIs ==
  ASSUME NEW m \in LLMMessages, m.calls = <<>>, m.role = "Tool" => m.re # NoId, NEW n \in Nat
  PROVE  LET x == [m EXCEPT !.n = n]
         IN /\ x \in LLMMessages /\ x.calls = <<>> /\ x.n = n
            /\ x.role = "Tool" => x.re # NoId
BY DEF LLMMessages

LEMMA OneIsPlain ==
  ASSUME NEW m \in LLMMessages, m.calls = <<>>, m.role = "Tool" => m.re # NoId
  PROVE  <<m>> \in Seq(LLMMessages) /\ Plain(<<m>>)
<1>1. <<m>> \in Seq(LLMMessages) /\ Len(<<m>>) = 1 /\ <<m>>[1] = m /\ \A i \in 1 .. 1 : i = 1
  OBVIOUS
<1>2. QED
  BY <1>1 DEF Plain

LEMMA JoinedIsPlain ==
  ASSUME NEW u \in Seq(LLMMessages), Plain(u), NEW v \in Seq(LLMMessages), Plain(v)
  PROVE  u \o v \in Seq(LLMMessages) /\ Plain(u \o v)
<1> DEFINE t == u \o v
           a == Len(u)
           b == Len(v)
<1>1. a \in Nat /\ b \in Nat
  OBVIOUS
<1>2. /\ t \in Seq(LLMMessages) /\ Len(t) = a + b
      /\ \A p \in 1 .. a : t[p] = u[p]
      /\ \A p \in a + 1 .. a + b : t[p] = v[p - a]
  BY JoinIs
<1> HIDE DEF t, a, b
<1>3. \A p \in 1 .. a + b : p \in 1 .. a \/ (p \in a + 1 .. a + b /\ p - a \in 1 .. b)
  BY <1>1
<1> DEFINE Fine(m) == m.calls = <<>> /\ (m.role = "Tool" => m.re # NoId)
<1>4. (\A p \in 1 .. a : Fine(u[p])) /\ (\A p \in 1 .. b : Fine(v[p]))
  BY DEF Plain, a, b
<1> HIDE DEF Fine
<1>5. \A p \in 1 .. a + b : Fine(t[p])
  BY <1>2, <1>3, <1>4
<1>6. Plain(t)
  BY <1>2, <1>5 DEF Plain, Fine
<1>7. QED
  BY <1>2, <1>6 DEF t

LEMMA RestIsPlain ==
  ASSUME NEW ms \in Seq(LLMMessages), Plain(ms), ms # <<>>
  PROVE  /\ Head(ms) \in LLMMessages /\ Head(ms).calls = <<>>
         /\ Head(ms).role = "Tool" => Head(ms).re # NoId
         /\ Tail(ms) \in Seq(LLMMessages) /\ Plain(Tail(ms))
<1>1. Len(ms) \in Nat /\ 1 \in 1 .. Len(ms) /\ Head(ms) = ms[1] /\ Head(ms) \in LLMMessages
  OBVIOUS
<1>2. /\ Tail(ms) \in Seq(LLMMessages) /\ Len(Tail(ms)) = Len(ms) - 1
      /\ \A i \in 1 .. Len(ms) - 1 : i + 1 \in 1 .. Len(ms) /\ Tail(ms)[i] = ms[i + 1]
  OBVIOUS
<1>3. Plain(Tail(ms))
  BY <1>2 DEF Plain
<1>4. QED
  BY <1>1, <1>2, <1>3 DEF Plain

(* What a step leaves behind has no calls, and its results name theirs.    *)
LEMMA LeftBehind ==
  \A m \in {Task, Thought, Result, Again} :
    m \in LLMMessages /\ m.calls = <<>> /\ (m.role = "Tool" => m.re # NoId)
<1>1. /\ Roles = {"System", "User", "Assistant", "Tool"} /\ 0 \in Nat
      /\ {"task", "thought", "result", "recovery"} \subseteq Bodies
  BY DEF Roles, Bodies
<1>2. \A m \in {Task, Thought, Again} : m \in LLMMessages
  BY <1>1, MessageTypes DEF Task, Thought, Again
<1>3. \A m \in {Task, Thought, Again} : m.calls = <<>> /\ m.role # "Tool"
  BY DEF Task, Thought, Again, Message
<1> DEFINE id == CHOOSE id \in Ids : TRUE
<1>4. id \in Ids /\ id # NoId
  BY IdsAssumption
<1> HIDE DEF id
<1>5. Message("Tool", "result", 0) \in LLMMessages
  BY <1>1, MessageTypes
<1>6. Result = [Message("Tool", "result", 0) EXCEPT !.re = id]
  BY DEF Result, Responding, id
<1>7. Result \in LLMMessages /\ Result.calls = <<>> /\ Result.re = id
  <2>1. \A m \in LLMMessages : /\ [m EXCEPT !.re = id] \in LLMMessages
                               /\ [m EXCEPT !.re = id].calls = m.calls
                               /\ [m EXCEPT !.re = id].re = id
    BY <1>4 DEF LLMMessages
  <2>2. Message("Tool", "result", 0).calls = <<>>
    BY DEF Message
  <2>3. QED
    BY <1>5, <1>6, <2>1, <2>2
<1>8. QED
  BY <1>2, <1>3, <1>4, <1>7

(* A response has some number of tool calls.                               *)
LEMMA CallsAreCounted ==
  ASSUME NEW p \in Providers, NEW r \in Responses(p)
  PROVE  r.calls \in Nat
<1>1. ASSUME NEW reply \in Replies PROVE Count(reply.calls, "good") \in Nat
  <2>1. PICK m \in 0 .. MaxCalls : reply.calls \in [1 .. m -> Calls]
    <3>1. reply.calls \in BoundedSeq(Calls, MaxCalls)
      BY DEF Replies
    <3>2. QED
      BY <3>1 DEF BoundedSeq, SeqOf
  <2> DEFINE good == {i \in 1 .. m : reply.calls[i] = "good"}
  <2>2. IsFiniteSet(good)
    <3>1. m \in Nat /\ IsFiniteSet(1 .. m)
      BY <2>1, MaxCallsAssumption, FS_Interval
    <3>2. good \subseteq 1 .. m
      OBVIOUS
    <3>3. QED
      BY <3>1, <3>2, FS_Subset
  <2>3. Count(reply.calls, "good") = Cardinality(good)
    BY <2>1 DEF Count
  <2>4. QED
    BY <2>2, <2>3, FS_CardinalityType
<1>2. \A text, n : Response(text, n).calls = n /\ ParseError.calls = 0
  BY DEF Response, ParseError
<1>3. \A reply \in Replies : /\ ParseResponse(reply).calls \in Nat
                             /\ ConvertResponse(reply).calls \in Nat
                             /\ ConvertGeminiResponse(reply).calls \in Nat
  <2>1. SUFFICES ASSUME NEW reply \in Replies
                 PROVE  /\ ParseResponse(reply).calls \in Nat
                        /\ ConvertResponse(reply).calls \in Nat
                        /\ ConvertGeminiResponse(reply).calls \in Nat
    OBVIOUS
  <2> DEFINE n == Count(reply.calls, "good")
  <2>2. n \in Nat /\ 0 \in Nat
    BY <1>1
  <2>3. \/ ParseResponse(reply) = ParseError
        \/ \E text : ParseResponse(reply) = Response(text, n)
    BY DEF ParseResponse
  <2>4. \/ ConvertResponse(reply) = ParseError
        \/ \E text : ConvertResponse(reply) = Response(text, n)
    BY DEF ConvertResponse
  <2>5. \/ ConvertGeminiResponse(reply) = ParseError
        \/ \E text : ConvertGeminiResponse(reply) = Response(text, n)
    BY DEF ConvertGeminiResponse
  <2> HIDE DEF n
  <2>6. QED
    BY <1>2, <2>2, <2>3, <2>4, <2>5
<1>4. \/ \E reply \in Replies : r = ParseResponse(reply)
      \/ \E reply \in Replies : r = ConvertResponse(reply)
      \/ \E reply \in Replies : r = ConvertGeminiResponse(reply)
  BY DEF Responses, Providers, OpenAIResponses, AnthropicResponses, GeminiResponses
<1>5. QED
  BY <1>3, <1>4

-----------------------------------------------------------------------------
(* The invariant is inductive. *)

LEMMA InitFits == Init => IInv
<1>1. SUFFICES ASSUME Init PROVE IInv
  OBVIOUS
<1>2. messages = <<>> /\ added = 0 /\ todo = <<>> /\ call = NoCall /\ pc = "idle"
  BY <1>1 DEF Init
<1>3. <<>> \in Seq(LLMMessages) /\ Len(<<>>) = 0 /\ 0 \in Nat /\ 1 .. 0 = {}
  OBVIOUS
<1>4. MemoryFits
  BY <1>2, <1>3 DEF MemoryFits, EndOf, Plain
<1>5. ConfigFits
  BY <1>1 DEF Init, ConfigFits
<1>6. CallFits(call, caller)
  BY <1>2, NoCallFits
<1>7. QED
  BY <1>4, <1>5, <1>6 DEF IInv

(* A step that leaves the memory alone.                                    *)
LEMMA OnlyTheRun ==
  ASSUME MemoryFits, UNCHANGED memoryVars, todo' \in Seq(LLMMessages), Plain(todo'),
         pc' = "summing" => todo' # <<>>
  PROVE  MemoryFits'
BY DEF MemoryFits, memoryVars

LEMMA NothingToDo ==
  ASSUME MemoryFits, UNCHANGED memoryVars, todo' = <<>>, pc' # "summing"
  PROVE  MemoryFits'
<1>1. <<>> \in Seq(LLMMessages) /\ Plain(<<>>)
  BY NoneIsGood
<1>2. QED
  BY <1>1, OnlyTheRun

LEMMA AddMessageFits ==
  ASSUME IInv, AddMessage
  PROVE  IInv'
<1>1. ConfigFits /\ MemoryFits /\ CallFits(call, caller)
  BY DEF IInv
<1> DEFINE m == [Head(todo) EXCEPT !.n = added + 1]
           pushed == Push(strategy, messages, m)
<1>2. /\ added \in Nat /\ added + 1 \in Nat /\ EndOf(messages, added)
      /\ todo \in Seq(LLMMessages) /\ Plain(todo) /\ todo # <<>>
  BY <1>1 DEF MemoryFits, AddMessage
<1>3. /\ Head(todo) \in LLMMessages /\ Head(todo).calls = <<>>
      /\ Head(todo).role = "Tool" => Head(todo).re # NoId
      /\ Tail(todo) \in Seq(LLMMessages) /\ Plain(Tail(todo))
  BY <1>2, RestIsPlain
<1>4. m \in LLMMessages /\ m.calls = <<>> /\ m.n = added + 1 /\ (m.role = "Tool" => m.re # NoId)
  BY <1>2, <1>3, NumberedIs
<1>5. /\ messages' = Kept(strategy, pushed) /\ added' = added + 1
      /\ \/ todo' = Tail(todo) /\ pc' = "adding" /\ call' = call
         \/ todo' = todo /\ pc' = "summing" /\ Generate(<<Lines>>, FALSE)
      /\ UNCHANGED configVars
  BY DEF AddMessage
<1> HIDE DEF m
<1>6. EndOf(pushed, added + 1)
  BY <1>2, <1>4, PushedIsEnd
<1> HIDE DEF pushed
<1>7. EndOf(messages', added')
  BY <1>2, <1>5, <1>6, KeptIsEnd
<1>8. MemoryFits'
  BY <1>2, <1>3, <1>5, <1>7 DEF MemoryFits
<1>9. CallFits(call', caller)
  <2>1. CASE call' = call
    BY <1>1, <2>1
  <2>2. CASE Generate(<<Lines>>, FALSE)
    <3>1. Fair(<<Lines>>)
      BY MadeUp, OneIsFair
    <3> DEFINE ms == <<Lines>>
    <3>2. call' = [NoCall EXCEPT !.pc = "attempt", !.asked = ms, !.current = ms,
                                 !.factor = TruncationRatio, !.tools = FALSE]
      BY <2>2 DEF Generate
    <3> HIDE DEF ms
    <3>3. ms \in Seq(LLMMessages) /\ EndsNumbered(ms) /\ Plain(ms) /\ Ordered(ms)
      BY <3>1 DEF Fair, ms
    <3>4. QED
      BY <3>2, <3>3, GeneratedFits, Zenon
  <2>3. QED
    BY <1>5, <2>1, <2>2
<1>10. QED
  BY <1>1, <1>5, <1>8, <1>9 DEF IInv, ConfigFits, configVars

LEMMA RunStepFits ==
  ASSUME IInv, RunStep
  PROVE  IInv'
<1>1. ConfigFits /\ MemoryFits /\ CallFits(call, caller)
  BY DEF IInv
<1>2. /\ UNCHANGED <<configVars, memoryVars, todo>> /\ pc' = "stepping"
      /\ Generate(<<Prompt>> \o GetContext(strategy, messages, summary # "none"), TRUE)
  BY DEF RunStep
<1> DEFINE ms == <<Prompt>> \o GetContext(strategy, messages, summary # "none")
<1>3. Fair(ms)
  <2>1. Fair(messages) /\ strategy \in Strategies
    BY <1>1, RecentIsFair DEF ConfigFits
  <2>2. (summary # "none") \in BOOLEAN
    OBVIOUS
  <2> DEFINE given == summary # "none"
  <2> HIDE DEF given
  <2>3. Fair(<<Prompt>> \o GetContext(strategy, messages, given))
    BY <2>1, <2>2, ContextIsFair DEF given
  <2>4. QED
    BY <2>3 DEF given
<1>4. call' = [NoCall EXCEPT !.pc = "attempt", !.asked = ms, !.current = ms,
                             !.factor = TruncationRatio, !.tools = TRUE]
  BY <1>2 DEF Generate
<1> HIDE DEF ms
<1>5. ms \in Seq(LLMMessages) /\ EndsNumbered(ms) /\ Plain(ms) /\ Ordered(ms)
  BY <1>3 DEF Fair
<1>6. CallFits(call', caller)
  BY <1>4, <1>5, GeneratedFits, Zenon
<1>7. MemoryFits'
  BY <1>1, <1>2, OnlyTheRun DEF MemoryFits
<1>8. QED
  BY <1>1, <1>2, <1>6, <1>7 DEF IInv, ConfigFits, configVars

LEMMA StepAnsweredFits ==
  ASSUME IInv, StepAnswered
  PROVE  IInv'
<1>1. ConfigFits /\ MemoryFits /\ CallFits(call, caller)
  BY DEF IInv
<1>2. PICK r \in Responses(provider), looped \in BOOLEAN :
        /\ looped => r.calls > 0
        /\ todo' = (IF r.text = "none" THEN <<>> ELSE <<Thought>>)
                     \o [i \in 1 .. (IF looped THEN r.calls - 1 ELSE r.calls) |-> Result]
                     \o (IF looped THEN <<Again>> ELSE <<>>)
  BY DEF StepAnswered
<1>3. r.calls \in Nat
  BY <1>1, CallsAreCounted DEF ConfigFits
<1> DEFINE said == IF r.text = "none" THEN <<>> ELSE <<Thought>>
           n == IF looped THEN r.calls - 1 ELSE r.calls
           results == [i \in 1 .. n |-> Result]
           again == IF looped THEN <<Again>> ELSE <<>>
<1>4. n \in Nat
  BY <1>2, <1>3
<1> HIDE DEF n
<1>5. <<>> \in Seq(LLMMessages) /\ Plain(<<>>)
  BY NoneIsGood
<1>6. /\ <<Thought>> \in Seq(LLMMessages) /\ Plain(<<Thought>>)
      /\ <<Again>> \in Seq(LLMMessages) /\ Plain(<<Again>>)
  BY LeftBehind, OneIsPlain
<1>7. said \in Seq(LLMMessages) /\ Plain(said) /\ again \in Seq(LLMMessages) /\ Plain(again)
  BY <1>5, <1>6
<1>8. results \in Seq(LLMMessages) /\ Plain(results)
  <2>1. Result \in LLMMessages /\ Result.calls = <<>> /\ (Result.role = "Tool" => Result.re # NoId)
    BY LeftBehind
  <2>2. results \in Seq(LLMMessages) /\ Len(results) = n /\ \A i \in 1 .. n : results[i] = Result
    BY <1>4, <2>1
  <2>3. QED
    BY <2>1, <2>2 DEF Plain
<1>9. todo' = said \o results \o again
  BY <1>2 DEF n
<1> HIDE DEF said, results, again
<1>10. todo' \in Seq(LLMMessages) /\ Plain(todo')
  BY <1>7, <1>8, <1>9, JoinedIsPlain
<1>11. MemoryFits'
  BY <1>1, <1>10, OnlyTheRun DEF StepAnswered
<1>12. CallFits(call', caller)
  BY NoCallFits DEF StepAnswered
<1>13. QED
  BY <1>1, <1>11, <1>12 DEF StepAnswered, IInv, ConfigFits, configVars

LEMMA SummaryFits ==
  ASSUME IInv, SummaryArrives \/ SummaryFails
  PROVE  IInv'
<1>1. ConfigFits /\ MemoryFits /\ CallFits(call, caller)
  BY DEF IInv
<1>2. /\ added \in Nat /\ EndOf(messages, added)
      /\ todo \in Seq(LLMMessages) /\ Plain(todo) /\ todo # <<>>
  BY <1>1 DEF MemoryFits, SummaryArrives, SummaryFails
<1>3. Tail(todo) \in Seq(LLMMessages) /\ Plain(Tail(todo))
  BY <1>2, RestIsPlain
<1>4. <<>> \in Seq(LLMMessages) /\ Plain(<<>>)
  BY NoneIsGood
<1>5. EndOf(<<>>, added)
  <2>1. Len(<<>>) = 0 /\ 1 .. 0 = {} /\ 0 <= added
    BY <1>2
  <2>2. QED
    BY <1>4, <2>1 DEF EndOf
<1>6. added' = added /\ EndOf(messages', added)
  BY <1>2, <1>5 DEF SummaryArrives, SummaryFails, memoryVars
<1>7. pc' # "summing" /\ todo' \in {<<>>, Tail(todo)}
  BY DEF SummaryArrives, SummaryFails, EndRun
<1>8. MemoryFits'
  BY <1>2, <1>3, <1>4, <1>6, <1>7 DEF MemoryFits
<1>9. CallFits(call', caller)
  BY NoCallFits DEF SummaryArrives, SummaryFails
<1>10. QED
  BY <1>1, <1>8, <1>9 DEF SummaryArrives, SummaryFails, IInv, ConfigFits, configVars

LEMMA AskFits ==
  ASSUME IInv, Ask
  PROVE  IInv'
<1>1. ConfigFits /\ MemoryFits /\ caller = "library"
  BY DEF IInv, Ask
<1>2. PICK ms \in Requests : Generate(ms, TRUE)
  BY DEF Ask
<1>3. ms \in Seq(LLMMessages) /\ \A i \in DOMAIN ms : ms[i].n = i
  BY RequestsAssumption
<1>4. EndsNumbered(ms)
  <2>1. Len(ms) # 0 => Len(ms) \in DOMAIN ms
    BY <1>3
  <2>2. Len(ms) = 0 => ~\E i \in 1 .. Len(ms) : TRUE
    OBVIOUS
  <2>3. QED
    BY <1>3, <2>1, <2>2 DEF EndsNumbered
<1>5. call' = [NoCall EXCEPT !.pc = "attempt", !.asked = ms, !.current = ms,
                             !.factor = TruncationRatio, !.tools = TRUE]
  BY <1>2 DEF Generate
<1>6. CallFits(call', caller)
  <2>1. caller # "agent"
    BY <1>1
  <2>2. QED
    BY <1>3, <1>4, <1>5, <2>1, GeneratedFits, Zenon
<1>7. UNCHANGED <<configVars, memoryVars, runVars>>
  BY DEF Ask
<1>8. MemoryFits'
  BY <1>1, <1>7, OnlyTheRun DEF MemoryFits, runVars
<1>9. QED
  BY <1>1, <1>6, <1>7, <1>8 DEF IInv, ConfigFits, configVars

LEMMA GeneratingFits ==
  ASSUME IInv, Generating
  PROVE  IInv'
<1>1. ConfigFits /\ MemoryFits /\ CallFits(call, caller)
  BY DEF IInv
<1>2. LlmStep /\ UNCHANGED <<caller, strategy, memoryVars, runVars>>
  BY DEF Generating
<1>3. provider' = provider
  BY <1>2 DEF LlmStep, CallInner, ProviderAnswers, ProviderFails
<1>4. CallFits(call', caller)
  BY <1>1, <1>2, LlmStepFits
<1>5. MemoryFits'
  BY <1>1, <1>2, OnlyTheRun DEF MemoryFits, runVars
<1>6. QED
  BY <1>1, <1>2, <1>3, <1>4, <1>5 DEF IInv, ConfigFits

LEMMA StepFits == IInv /\ [Next]_vars => IInv'
<1>1. SUFFICES ASSUME IInv, [Next]_vars PROVE IInv'
  OBVIOUS
<1>2. ConfigFits /\ MemoryFits /\ CallFits(call, caller)
  BY <1>1 DEF IInv
<1>3. CASE AddUserTask
  <2>1. /\ UNCHANGED <<configVars, memoryVars, call>> /\ pc' = "adding" /\ todo' = <<Task>>
    BY <1>3 DEF AddUserTask
  <2>2. <<Task>> \in Seq(LLMMessages) /\ Plain(<<Task>>)
    BY LeftBehind, OneIsPlain
  <2>3. MemoryFits'
    BY <1>2, <2>1, <2>2, OnlyTheRun
  <2>4. QED
    BY <1>2, <2>1, <2>3 DEF IInv, ConfigFits, configVars
<1>4. CASE AddMessage
  BY <1>1, <1>4, AddMessageFits
<1>5. CASE SummaryArrives \/ SummaryFails
  BY <1>1, <1>5, SummaryFits
<1>6. CASE RunStep
  BY <1>1, <1>6, RunStepFits
<1>7. CASE RunEnds
  <2>1. MemoryFits'
    BY <1>2, <1>7, NothingToDo DEF RunEnds, EndRun
  <2>2. QED
    BY <1>2, <1>7, <2>1 DEF RunEnds, IInv, ConfigFits, configVars
<1>8. CASE StepAnswered
  BY <1>1, <1>8, StepAnsweredFits
<1>9. CASE StepFails \/ DropRun
  <2>1. MemoryFits'
    BY <1>2, <1>9, NothingToDo DEF StepFails, DropRun, EndRun
  <2>2. CallFits(call', caller)
    BY <1>9, NoCallFits DEF StepFails, DropRun
  <2>3. QED
    BY <1>2, <1>9, <2>1, <2>2 DEF StepFails, DropRun, IInv, ConfigFits, configVars
<1>10. CASE ClearMemory
  <2>1. <<>> \in Seq(LLMMessages) /\ Len(<<>>) = 0 /\ 0 \in Nat /\ 1 .. 0 = {}
    OBVIOUS
  <2>2. EndOf(<<>>, 0)
    BY <2>1 DEF EndOf, Plain
  <2>3. MemoryFits'
    BY <1>2, <1>10, <2>1, <2>2 DEF ClearMemory, runVars, MemoryFits
  <2>4. QED
    BY <1>2, <1>10, <2>3 DEF ClearMemory, IInv, ConfigFits, configVars
<1>11. CASE Ask
  BY <1>1, <1>11, AskFits
<1>12. CASE Return
  <2>1. MemoryFits'
    BY <1>2, <1>12, OnlyTheRun DEF Return, MemoryFits, runVars
  <2>2. QED
    BY <1>2, <1>12, <2>1, NoCallFits DEF Return, IInv, ConfigFits, configVars
<1>13. CASE Generating
  BY <1>1, <1>13, GeneratingFits
<1>14. CASE UNCHANGED vars
  <2>1. UNCHANGED <<configVars, memoryVars, runVars, call>>
    BY <1>14 DEF vars
  <2>2. MemoryFits'
    BY <1>2, <2>1, OnlyTheRun DEF MemoryFits, runVars
  <2>3. QED
    BY <1>2, <2>1, <2>2 DEF IInv, ConfigFits, configVars
<1>15. QED
  BY <1>1, <1>3, <1>4, <1>5, <1>6, <1>7, <1>8, <1>9, <1>10, <1>11, <1>12, <1>13, <1>14 DEF Next

LEMMA AlwaysFits == Spec => []IInv
BY InitFits, StepFits, PTL DEF Spec

-----------------------------------------------------------------------------
(* What follows of it. *)

(* The memory is the end of the conversation, whatever the window evicts,  *)
(* whichever summary fails or is dropped, and after a recovered loop.      *)
THEOREM MemoryStaysRecent == Spec => []MemoryIsRecent
<1>1. IInv => MemoryIsRecent
  <2>1. SUFFICES ASSUME IInv PROVE MemoryIsRecent
    OBVIOUS
  <2>2. EndOf(messages, added)
    BY <2>1 DEF IInv, MemoryFits
  <2>3. DOMAIN messages = 1 .. Len(messages)
    BY <2>2 DEF EndOf
  <2>4. QED
    BY <2>2, <2>3 DEF EndOf, MemoryIsRecent
<1>2. QED
  BY <1>1, AlwaysFits, PTL

(* The first request of an attempt has nothing left to repair: neither a   *)
(* call without a response nor a response without a call.                  *)
THEOREM RequestIsRepaired == Spec => []ValidatedIsValid
<1>1. IInv => ValidatedIsValid
  <2>1. SUFFICES ASSUME IInv, call.pc = "sent", call.recovery = 0
                 PROVE  Issues(call.sent) = {}
    BY DEF ValidatedIsValid
  <2>2. CallFits(call, caller)
    BY <2>1 DEF IInv
  <2>3. call.sent = ValidateAndFix(call.current) /\ call.current \in Seq(LLMMessages)
    BY <2>1, <2>2 DEF CallFits, CallTypes
  <2>4. QED
    BY <2>3, ValidatorFixesAll
<1>2. QED
  BY <1>1, AlwaysFits, PTL

(* The newest message of the caller is the last of his in every request    *)
(* before the fallbacks, however often the list was shortened.             *)
THEOREM NewestGetsThrough == Spec => []NewestIsSent
<1>1. IInv => NewestIsSent
  <2>1. SUFFICES ASSUME IInv, call.pc = "sent", call.recovery = 0, Numbers(call.asked) # <<>>
                 PROVE  /\ Numbers(call.sent) # <<>>
                        /\ Last(Numbers(call.sent)) = Last(Numbers(call.asked))
    BY DEF NewestIsSent
  <2>2. CallFits(call, caller)
    BY <2>1 DEF IInv
  <2> DEFINE asked == call.asked
             current == call.current
             sent == call.sent
  <2>3. /\ asked \in Seq(LLMMessages) /\ current \in Seq(LLMMessages)
        /\ sent = ValidateAndFix(current) /\ EndsNumbered(asked)
        /\ Len(asked) # 0 => /\ Len(current) # 0
                             /\ current[Len(current)] = asked[Len(asked)]
    BY <2>1, <2>2 DEF CallFits, CallTypes
  <2> HIDE DEF asked, current, sent
  <2>4. PICK seat : Repaired(sent, current, seat)
    BY <2>3, ValidatorRepairs
  <2>5. sent \in Seq(LLMMessages)
    BY <2>4 DEF Repaired
  <2>6. \E i \in 1 .. Len(asked) : asked[i].n # 0
    BY <2>1, <2>3, NumbersAre DEF asked
  <2>7. Len(asked) \in 1 .. Len(asked) /\ asked[Len(asked)].n # 0
    <3>1. Len(asked) \in Nat
      BY <2>3
    <3>2. QED
      BY <2>3, <2>6, <3>1 DEF EndsNumbered
  <2>8. Last(Numbers(asked)) = asked[Len(asked)].n
    <3>1. \A p \in 1 .. Len(asked) : ~(Len(asked) < p)
      BY <2>3
    <3>2. QED
      BY <2>3, <2>7, <3>1, NumbersAre
  <2>9. PICK k \in 1 .. Len(sent) :
          sent[k].n = current[Len(current)].n /\ \A p \in 1 .. Len(sent) : k < p => sent[p].n = 0
    <3>1. Len(current) # 0
      BY <2>3, <2>7
    <3>2. QED
      BY <2>3, <2>4, <3>1, RepairedKeepsNumbers
  <2>10. sent[k].n = asked[Len(asked)].n /\ sent[k].n # 0
    <3>1. Len(asked) # 0
      BY <2>7
    <3>2. QED
      BY <2>3, <2>7, <2>9, <3>1
  <2>11. Numbers(sent) # <<>> /\ Last(Numbers(sent)) = sent[k].n
    BY <2>5, <2>9, <2>10, NumbersAre
  <2>12. QED
    BY <2>8, <2>10, <2>11 DEF asked, sent
<1>2. QED
  BY <1>1, AlwaysFits, PTL

(* No request of the agent breaks the providers' rule on tool calls, and   *)
(* each provider is sent its messages in the order they were made.         *)
THEOREM ProvidersRuleKept == Spec => []ToolRuleKept
<1>1. IInv => ToolRuleKept
  <2>1. SUFFICES ASSUME IInv, caller = "agent", call.pc = "sent"
                 PROVE  /\ ToolRule(call.sent)
                        /\ \A i, j \in DOMAIN Numbers(FlattenSeq(Wire(provider, call.sent).turns)) :
                             i < j => Numbers(FlattenSeq(Wire(provider, call.sent).turns))[i]
                                        < Numbers(FlattenSeq(Wire(provider, call.sent).turns))[j]
    BY DEF ToolRuleKept
  <2>2. CallFits(call, caller) /\ provider \in Providers
    BY <2>1 DEF IInv, ConfigFits
  <2>3. Good(call.sent)
    BY <2>1, <2>2 DEF CallFits
  <2>4. QED
    BY <2>2, <2>3, WireInOrder
<1>2. QED
  BY <1>1, AlwaysFits, PTL
=============================================================================
