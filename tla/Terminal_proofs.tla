--------------------------- MODULE Terminal_proofs ---------------------------
(***************************************************************************)
(* What holds of Terminal for any clients, and however long it runs.       *)
(***************************************************************************)
EXTENDS Terminal, SequenceTheorems, TLAPS

(* The types of what a terminal keeps and sends.  A response brings at     *)
(* most one piece, and the last one of a run a context.                    *)
Pieces == Nat \X Nat
Texts  == Seq(Pieces)
Short  == {text \in Texts : Len(text) <= 1}

MessageRecords == [author : Authors, command : BOOLEAN, text : Texts]
StateRecords ==
  [messages : Seq(MessageRecords), context : Texts, waiting : BOOLEAN, warned : BOOLEAN]
RunRecords ==
  [pc : {"asked", "live", "done", "failed", "silent", "aborted", "gone"}, greeting : BOOLEAN,
   context : Texts, deltas : Nat]
SessionRecords ==
  [saved : {TRUE}, torn : {FALSE}, messages : Seq(MessageRecords), context : Texts]

IsEvent(e) ==
  \/ e = NoticeEvent
  \/ /\ e \in [kind : {"Response"}, text : Short, done : BOOLEAN, context : Texts]
     /\ e.done => e.context # <<>>
     /\ \A piece \in ToSet(e.text) : piece[2] > 0

IsAction(a) ==
  \/ a \in [kind : {"Request"}, run : Nat]
  \/ a \in [kind : {"Abort", "Copy", "Accept", "Clear"}]

EventsOK  == \E T : events \in Seq(T) /\ \A i \in DOMAIN events : IsEvent(events[i])
ActionsOK == \E T : actions \in Seq(T) /\ \A i \in DOMAIN actions : IsAction(actions[i])

TerminalTypeOK ==
  /\ ui \in {"down", "starting", "running", "writing"}
  /\ background \in {"down", "loop", "clearing", "failed"}
  /\ app \in StateRecords /\ runs \in Seq(RunRecords)
  /\ file \in {NoFile, Torn} \cup SessionRecords
  /\ EventsOK /\ ActionsOK
  /\ worker \in 0 .. Len(runs)

(* A terminal that is down has nothing under way, and one that starts the  *)
(* greeting alone; the prompts asked for are those nobody has spawned.     *)
PhasesFit ==
  /\ Up => worker \in DOMAIN runs
  /\ ui \in {"down", "starting"} => app = NewState /\ actions = <<>>
  /\ ui = "down" => events = <<>> /\ background = "down"
  /\ ui = "starting" => background = "loop" /\ worker = Len(runs)
  /\ \A n \in DOMAIN runs :
       /\ runs[n].pc = "asked" => runs[n].deltas = 0
       /\ ui \in {"down", "starting"} /\ runs[n].pc \notin {"gone", "aborted"} =>
            ui = "starting" /\ n = worker

IsRequest(i) == actions[i].kind = "Request" /\ actions[i].run > 0
RequestsFit ==
  \A i \in DOMAIN actions : IsRequest(i) =>
    /\ actions[i].run \in DOMAIN runs /\ runs[actions[i].run].pc = "asked"
    /\ \A j \in DOMAIN actions : IsRequest(j) /\ actions[j].run = actions[i].run => j = i

(* A context names prompts of runs that have finished: an interrupt does   *)
(* not reach those.                                                        *)
Responds(i) == events[i].kind = "Response"
Remembers(context) ==
  \A piece \in ToSet(context) :
    /\ piece[1] \in DOMAIN runs
    /\ piece[2] = 0 => runs[piece[1]].pc \in {"done", "gone"}
ContextsRemember ==
  /\ Remembers(app.context)
  /\ \A n \in DOMAIN runs : Remembers(runs[n].context)
  /\ \A i \in DOMAIN events : Responds(i) => Remembers(events[i].context)
  /\ file.saved => Remembers(file.context)

(* What is on the screen or on its way there, before the i-th event.       *)
Sent(es, i) == UNION {ToSet(es[j].text) : j \in {k \in DOMAIN es : k < i /\ es[k].kind = "Response"}}
Coming == Sent(events, Len(events) + 1)
Greets(piece) == piece[2] = 0 /\ runs[piece[1]].greeting
Tells(pieces, context) == \A piece \in ToSet(context) : piece \in pieces \/ Greets(piece)
ContextsAreShown ==
  LET shown == Shown(app.messages)
  IN /\ Tells(shown, app.context)
     /\ \A n \in DOMAIN runs :
          /\ Tells(shown, runs[n].context)
          /\ runs[n].pc \in {"asked", "live"} =>
               runs[n].greeting \/ <<n, 0>> \in shown
     /\ \A i \in DOMAIN events : Responds(i) => Tells(shown \cup Sent(events, i), events[i].context)
     /\ file.saved => Tells(Shown(file.messages), file.context)

(* The pieces of a run reach the screen in the order they were sent.       *)
InTurn ==
  \A i, j \in DOMAIN events : i < j /\ Responds(i) /\ Responds(j) =>
    \A p \in ToSet(events[i].text), q \in ToSet(events[j].text) : p[1] = q[1] => p[2] < q[2]
Ahead(shown, coming) ==
  /\ \A p \in shown, q \in coming : p[2] > 0 /\ p[1] = q[1] => p[2] < q[2]
  /\ \A q \in coming : q[2] > 1 => <<q[1], q[2] - 1>> \in shown \cup coming
Counted(pieces) ==
  /\ \A p \in pieces : p[2] > 0 =>
       /\ p[1] \in DOMAIN runs
       /\ runs[p[1]].pc \in {"asked", "live"} => p[2] <= runs[p[1]].deltas
  /\ \A n \in DOMAIN runs : Live(n) => \A k \in 1 .. runs[n].deltas : <<n, k>> \in pieces
FileCounted ==
  file.saved => \A p \in Shown(file.messages) : p[2] > 0 =>
    p[1] \in DOMAIN runs /\ (ui = "starting" => p[1] # worker)
PiecesCome ==
  LET shown == Shown(app.messages)
  IN  /\ InTurn /\ Ahead(shown, Coming) /\ Counted(shown \cup Coming) /\ FileCounted
      /\ ui = "starting" => \A p \in Coming : p[1] = worker
InOrderInv ==
  /\ PiecesCome /\ ScreenInOrder
  /\ file.saved => PiecesInOrder(file.messages)

Base == TerminalTypeOK /\ PhasesFit /\ RequestsFit

-----------------------------------------------------------------------------
(* Sequences that get longer at the end or shorter at the front. *)
LEMMA AppendOne ==
  ASSUME NEW T, NEW s \in Seq(T), NEW e
  PROVE  /\ s \o <<e>> = Append(s, e) /\ s \o <<>> = s
         /\ Append(s, e) \in Seq(T \cup {e}) /\ Len(Append(s, e)) = Len(s) + 1
         /\ DOMAIN Append(s, e) = 1 .. Len(s) + 1 /\ DOMAIN s = 1 .. Len(s) /\ Len(s) \in Nat
         /\ \A i \in 1 .. Len(s) : Append(s, e)[i] = s[i]
         /\ Append(s, e)[Len(s) + 1] = e
<1>1. s \in Seq(T \cup {e}) /\ e \in T \cup {e} /\ <<e>> \in Seq(T \cup {e})
  OBVIOUS
<1>2. s \o <<>> = s
  BY ConcatEmptySeq
<1>3. s \o <<e>> = Append(s, e)
  BY <1>1, AppendIsConcat
<1>4. QED
  BY <1>1, <1>2, <1>3, AppendProperties

LEMMA TailOne ==
  ASSUME NEW T, NEW s \in Seq(T), s # <<>>
  PROVE  /\ Tail(s) \in Seq(T) /\ Len(Tail(s)) = Len(s) - 1 /\ Len(s) \in Nat \ {0}
         /\ DOMAIN Tail(s) = 1 .. Len(s) - 1 /\ DOMAIN s = 1 .. Len(s)
         /\ \A i \in 1 .. Len(s) - 1 : Tail(s)[i] = s[i + 1]
         /\ Head(s) = s[1] /\ s[1] \in T
<1>1. Len(s) \in Nat \ {0} /\ DOMAIN s = 1 .. Len(s)
  BY EmptySeq, LenProperties
<1>2. Tail(s) \in Seq(T) /\ Len(Tail(s)) = Len(s) - 1
  BY HeadTailProperties
<1>3. DOMAIN Tail(s) = 1 .. Len(s) - 1
  BY <1>2, LenProperties
<1>4. \A i \in 1 .. Len(s) - 1 : Tail(s)[i] = s[i + 1]
  BY <1>1, <1>2, <1>3
<1>5. QED
  BY <1>1, <1>2, <1>3, <1>4

(* The places of a sequence that got longer, or shorter, by one. *)
LEMMA PlacesAre ==
  /\ \A n \in Nat : \A i \in 1 .. n + 1 : i \in 1 .. n \/ (i = n + 1 /\ i \notin 1 .. n)
  /\ \A n \in Nat : n + 1 \notin 1 .. n /\ n + 1 \in 1 .. n + 1 /\ \A i \in 1 .. n : i \in 1 .. n + 1
  /\ \A n \in Nat \ {0} : /\ 1 \in 1 .. n
                           /\ \A i \in 1 .. n - 1 : i \in Nat /\ i + 1 \in 1 .. n /\ i + 1 # 1
  /\ \A i, j \in Nat : i + 1 = j + 1 => i = j
OBVIOUS

(* A run that goes on, the only one that changes. *)
RunIs(n, pc, deltas) ==
  /\ runs' \in Seq(RunRecords) /\ Len(runs') = Len(runs) /\ DOMAIN runs' = DOMAIN runs
  /\ \A m \in DOMAIN runs :
       /\ runs'[m].greeting = runs[m].greeting /\ runs'[m].context = runs[m].context
       /\ runs'[m].pc = IF m = n THEN pc ELSE runs[m].pc
       /\ runs'[m].deltas = IF m = n THEN deltas ELSE runs[m].deltas

LEMMA RunGoes ==
  ASSUME runs \in Seq(RunRecords), NEW n \in DOMAIN runs,
         NEW pc \in {"live", "done", "failed", "silent", "aborted"},
         runs' = [runs EXCEPT ![n].pc = pc]
  PROVE  RunIs(n, pc, runs[n].deltas)
<1>1. \A m \in DOMAIN runs : runs[m] \in RunRecords
  OBVIOUS
<1>2. [runs[n] EXCEPT !.pc = pc] \in RunRecords
  BY <1>1 DEF RunRecords
<1>3. /\ runs' \in Seq(RunRecords) /\ Len(runs') = Len(runs) /\ DOMAIN runs' = DOMAIN runs
  BY <1>2
<1>4. \A m \in DOMAIN runs : runs'[m] = IF m = n THEN [runs[n] EXCEPT !.pc = pc] ELSE runs[m]
  OBVIOUS
<1>5. QED
  BY <1>1, <1>3, <1>4 DEF RunIs, RunRecords

LEMMA RunSays ==
  ASSUME runs \in Seq(RunRecords), NEW n \in DOMAIN runs,
         runs' = [runs EXCEPT ![n].deltas = @ + 1]
  PROVE  RunIs(n, runs[n].pc, runs[n].deltas + 1)
<1>1. \A m \in DOMAIN runs : runs[m] \in RunRecords
  OBVIOUS
<1>2. [runs[n] EXCEPT !.deltas = @ + 1] \in RunRecords
  <2>1. runs[n] \in RunRecords /\ runs[n].deltas + 1 \in Nat
    BY <1>1 DEF RunRecords
  <2>2. QED
    BY <2>1 DEF RunRecords
<1>3. /\ runs' \in Seq(RunRecords) /\ Len(runs') = Len(runs) /\ DOMAIN runs' = DOMAIN runs
  BY <1>2
<1>4. \A m \in DOMAIN runs : runs'[m] = IF m = n THEN [runs[n] EXCEPT !.deltas = @ + 1] ELSE runs[m]
  OBVIOUS
<1>5. QED
  BY <1>1, <1>3, <1>4 DEF RunIs, RunRecords

(* The text of an answer, and the context after it. *)
LEMMA UpdatedPieces ==
  ASSUME runs \in Seq(RunRecords), NEW n \in DOMAIN runs
  PROVE  /\ Updated(n) \in Texts /\ Updated(n) # <<>>
         /\ ToSet(Updated(n)) = ToSet(runs[n].context) \cup {<<n, k>> : k \in 0 .. runs[n].deltas}
<1> DEFINE context == runs[n].context
           d == runs[n].deltas
           said == [k \in 1 .. d |-> <<n, k>>]
           prompt == <<<<n, 0>>>>
<1>1. runs[n] \in RunRecords /\ n \in Nat
  OBVIOUS
<1>2. context \in Texts /\ d \in Nat
  BY <1>1 DEF RunRecords
<1>3. Updated(n) = (context \o prompt) \o said
  BY DEF Updated, Said
<1> HIDE DEF context, d
<1>4. said \in Texts /\ Len(said) = d /\ \A k \in 1 .. d : said[k] = <<n, k>>
  BY <1>1, <1>2 DEF Texts, Pieces
<1>5. <<n, 0>> \in Pieces /\ prompt = <<<<n, 0>>>>
  BY <1>1 DEF Pieces
<1> HIDE DEF said, prompt
<1> DEFINE first == context \o prompt
<1>6. /\ first = Append(context, <<n, 0>>) /\ first \in Texts /\ Len(first) = Len(context) + 1
      /\ \A i \in 1 .. Len(context) : first[i] = context[i]
      /\ first[Len(context) + 1] = <<n, 0>> /\ Len(context) \in Nat
  <2>1. context \in Seq(Pieces)
    BY <1>2 DEF Texts
  <2>2. Pieces \cup {<<n, 0>>} = Pieces
    BY <1>5
  <2>3. QED
    BY <1>5, <2>1, <2>2, AppendOne DEF Texts
<1> HIDE DEF first
<1>7. /\ first \o said \in Texts /\ Len(first \o said) = Len(first) + d
      /\ \A i \in 1 .. Len(first) + d :
           (first \o said)[i] = IF i <= Len(first) THEN first[i] ELSE said[i - Len(first)]
  BY <1>2, <1>4, <1>6, ConcatProperties, ZenonT(40) DEF Texts
<1> DEFINE all == first \o said
<1>8. Updated(n) = all
  BY <1>3 DEF first
<1> HIDE DEF all
<1>9. /\ DOMAIN all = 1 .. Len(all) /\ DOMAIN context = 1 .. Len(context)
      /\ Len(all) = Len(context) + 1 + d
  BY <1>2, <1>6, <1>7 DEF all, Texts
<1>10. \A i \in DOMAIN all : all[i] \in ToSet(context) \cup {<<n, k>> : k \in 0 .. d}
  <2> SUFFICES ASSUME NEW i \in DOMAIN all
               PROVE  all[i] \in ToSet(context) \cup {<<n, k>> : k \in 0 .. d}
    OBVIOUS
  <2>1. CASE i <= Len(context)
    BY <1>6, <1>7, <1>9, <2>1 DEF all, ToSet
  <2>2. CASE i = Len(context) + 1
    BY <1>2, <1>6, <1>7, <1>9, <2>2 DEF all
  <2>3. CASE i > Len(context) + 1
    <3>1. i \in 1 .. Len(first) + d /\ i > Len(first) /\ i - Len(first) \in 1 .. d
      BY <1>2, <1>6, <1>9, <2>3
    <3>2. all[i] = said[i - Len(first)]
      BY <1>6, <1>7, <3>1 DEF all
    <3>3. \A k \in 1 .. d : k \in 0 .. d /\ said[k] = <<n, k>>
      BY <1>2, <1>4
    <3>4. PICK k \in 0 .. d : all[i] = <<n, k>>
      BY <3>1, <3>2, <3>3
    <3>5. QED
      BY <3>4
  <2>4. QED
    BY <1>6, <1>9, <2>1, <2>2, <2>3
<1>11. \A piece \in ToSet(context) : piece \in ToSet(all)
  BY <1>2, <1>6, <1>7, <1>9 DEF all, ToSet
<1>12. \A k \in 0 .. d : <<n, k>> \in ToSet(all)
  <2> SUFFICES ASSUME NEW k \in 0 .. d PROVE \E i \in DOMAIN all : all[i] = <<n, k>>
    BY DEF ToSet
  <2>1. Len(context) + 1 + k \in DOMAIN all
    BY <1>2, <1>6, <1>9
  <2>2. CASE k = 0
    BY <1>2, <1>6, <1>7, <1>9, <2>1, <2>2 DEF all
  <2>3. CASE k # 0
    <3>1. Len(first) + k \in 1 .. Len(first) + d /\ Len(first) + k > Len(first) /\ k \in 1 .. d
      BY <1>2, <1>6, <2>3
    <3>2. all[Len(first) + k] = said[(Len(first) + k) - Len(first)]
      BY <1>6, <1>7, <3>1 DEF all
    <3>3. (Len(first) + k) - Len(first) = k /\ Len(first) + k \in DOMAIN all
      BY <1>2, <1>6, <1>9, <3>1
    <3>4. QED
      BY <1>4, <3>1, <3>2, <3>3
  <2>4. QED
    BY <2>2, <2>3
<1>13. all \in Texts /\ all # <<>>
  BY <1>2, <1>6, <1>7, <1>9, SMTT(30) DEF all, Texts
<1>14. ToSet(all) = ToSet(context) \cup {<<n, k>> : k \in 0 .. d}
  BY <1>10, <1>11, <1>12 DEF ToSet
<1>15. QED
  BY <1>8, <1>13, <1>14 DEF context, d

-----------------------------------------------------------------------------
(* The screen grows: messages stay, but for the text of the last one.      *)
Extends(old, new, text) ==
  /\ new \in Seq(MessageRecords) /\ Len(old) <= Len(new)
  /\ \A i \in DOMAIN old : /\ new[i].author = old[i].author
                           /\ Len(old[i].text) <= Len(new[i].text)
                           /\ \A a \in DOMAIN old[i].text : new[i].text[a] = old[i].text[a]
  /\ \A i \in DOMAIN new : \A a \in DOMAIN new[i].text :
       \/ i \in DOMAIN old /\ a \in DOMAIN old[i].text
       \/ /\ i = Len(new) /\ a = Len(new[i].text) /\ text = <<new[i].text[a]>>
          /\ Len(old) < Len(new) \/ (Len(old) = Len(new) /\ a = Len(old[i].text) + 1)
  /\ \A a \in DOMAIN text : /\ new # <<>> /\ new[Len(new)].text # <<>>
                            /\ text[a] = Last(new[Len(new)].text)

LEMMA TextsAreSequences ==
  /\ \A text \in Texts : text \in Seq(Pieces) /\ DOMAIN text = 1 .. Len(text) /\ Len(text) \in Nat
  /\ \A m \in MessageRecords : m.text \in Texts /\ m.author \in Authors
  /\ \A text \in Short : text \in Texts /\ (text = <<>> \/ \E p \in Pieces : text = <<p>>)
<1>1. \A text \in Texts : text \in Seq(Pieces) /\ DOMAIN text = 1 .. Len(text) /\ Len(text) \in Nat
  BY LenProperties DEF Texts
<1>2. \A m \in MessageRecords : m.text \in Texts /\ m.author \in Authors
  BY DEF MessageRecords
<1>3. ASSUME NEW text \in Short PROVE text \in Texts /\ (text = <<>> \/ \E p \in Pieces : text = <<p>>)
  <2>1. text \in Seq(Pieces) /\ Len(text) \in Nat /\ Len(text) <= 1 /\ text \in Texts
    BY <1>1 DEF Short
  <2>2. CASE Len(text) = 0
    BY <2>1, <2>2, EmptySeq
  <2>3. CASE Len(text) = 1
    <3>1. text[1] \in Pieces
      BY <2>1, <2>3
    <3>2. <<text[1]>> \in Seq(Pieces) /\ Len(<<text[1]>>) = 1 /\ <<text[1]>>[1] = text[1]
      BY <3>1
    <3>3. text = <<text[1]>>
      BY <2>1, <2>3, <3>2, SeqEqual
    <3>4. QED
      BY <2>1, <3>1, <3>3
  <2>4. Len(text) = 0 \/ Len(text) = 1
    <3>1. \A k \in Nat : k <= 1 => k = 0 \/ k = 1
      OBVIOUS
    <3>2. QED
      BY <2>1, <3>1, Zenon
  <2>5. QED
    BY <2>2, <2>3, <2>4, Zenon
<1>4. QED
  BY <1>1, <1>2, <1>3, Zenon

LEMMA AddingExtends ==
  ASSUME NEW old \in Seq(MessageRecords), NEW m \in MessageRecords, m.text \in Short
  PROVE  Extends(old, Append(old, m), m.text)
<1> DEFINE new == Append(old, m)
           text == m.text
<1>1. /\ new \in Seq(MessageRecords \cup {m}) /\ Len(new) = Len(old) + 1 /\ Len(old) \in Nat
      /\ DOMAIN new = 1 .. Len(old) + 1 /\ DOMAIN old = 1 .. Len(old)
      /\ \A i \in DOMAIN old : new[i] = old[i]
      /\ new[Len(old) + 1] = m
  BY AppendOne
<1>2. MessageRecords \cup {m} = MessageRecords
  OBVIOUS
<1>3. text = <<>> \/ \E p \in Pieces : text = <<p>>
  BY TextsAreSequences
<1>4. \A i \in DOMAIN old : Len(old[i].text) \in Nat
  BY <1>1, TextsAreSequences
<1> HIDE DEF new
<1>5. new # <<>> /\ new[Len(new)] = m
  BY <1>1, <1>2
<1>6. \A a \in DOMAIN text : a = 1 /\ a = Len(text) /\ text = <<text[a]>> /\ text # <<>>
  <2>1. CASE text = <<>>
    BY <2>1
  <2>2. ASSUME NEW p \in Pieces, text = <<p>> PROVE <1>6
    <3>1. DOMAIN <<p>> = {1} /\ Len(<<p>>) = 1 /\ <<p>>[1] = p /\ <<p>> # <<>>
      OBVIOUS
    <3>2. QED
      BY <2>2, <3>1, Zenon
  <2>3. QED
    BY <1>3, <2>1, <2>2
<1> HIDE DEF text
<1>7. \A i \in DOMAIN new : i \in DOMAIN old \/ (i = Len(new) /\ new[i].text = text)
  BY <1>1 DEF text
<1>8. \A i \in DOMAIN new : \A a \in DOMAIN new[i].text :
        \/ i \in DOMAIN old /\ a \in DOMAIN old[i].text
        \/ /\ i = Len(new) /\ a = Len(new[i].text) /\ text = <<new[i].text[a]>>
           /\ Len(old) < Len(new)
  BY <1>1, <1>6, <1>7
<1>9. \A a \in DOMAIN text : /\ new # <<>> /\ new[Len(new)].text # <<>>
                              /\ text[a] = Last(new[Len(new)].text)
  BY <1>5, <1>6 DEF Last, text
<1>10. \A i \in DOMAIN old : /\ new[i].author = old[i].author
                              /\ Len(old[i].text) <= Len(new[i].text)
                              /\ \A a \in DOMAIN old[i].text : new[i].text[a] = old[i].text[a]
  BY <1>1, <1>4
<1>11. new \in Seq(MessageRecords) /\ Len(old) <= Len(new)
  BY <1>1, <1>2
<1>12. Extends(old, new, text)
  BY <1>8, <1>9, <1>10, <1>11 DEF Extends
<1>13. QED
  BY <1>12 DEF new, text

LEMMA AppendingExtends ==
  ASSUME NEW old \in Seq(MessageRecords), NEW text \in Short
  PROVE  Extends(old, AppendText(old, text), text)
<1> DEFINE m == Message("Gola", FALSE, text)
           n == Len(old)
           before == old[n].text
           long == before \o text
           last == [old[n] EXCEPT !.text = long]
           new == [old EXCEPT ![n] = last]
<1>1. CASE ~(old # <<>> /\ Last(old).author # "User")
  <2>1. m \in MessageRecords /\ m.text = text
    BY TextsAreSequences DEF Message, MessageRecords, Authors
  <2>2. AppendText(old, text) = Append(old, m)
    BY <1>1 DEF AppendText
  <2>3. QED
    BY <2>1, <2>2, AddingExtends
<1>2. CASE old # <<>> /\ Last(old).author # "User"
  <2>1. AppendText(old, text) = new
    BY <1>2 DEF AppendText, Last
  <2>2. /\ n \in Nat \ {0} /\ DOMAIN old = 1 .. n /\ n \in DOMAIN old
        /\ \A i \in DOMAIN old : old[i] \in MessageRecords
    BY <1>2, EmptySeq, LenProperties
  <2>3. /\ \A i \in DOMAIN old : Len(old[i].text) \in Nat
        /\ before \in Seq(Pieces) /\ DOMAIN before = 1 .. Len(before) /\ Len(before) \in Nat
    BY <2>2, TextsAreSequences
  <2>4. /\ long \in Texts /\ Len(before) <= Len(long)
        /\ \A a \in DOMAIN before : a \in DOMAIN long /\ long[a] = before[a]
        /\ \A a \in DOMAIN long : a \in DOMAIN before \/
             (a = Len(long) /\ a = Len(before) + 1 /\ text = <<long[a]>>)
        /\ \A a \in DOMAIN text : long # <<>> /\ text[a] = long[Len(long)]
    <3>1. CASE text = <<>>
      <4>1. long = before
        BY <2>3, <3>1, AppendOne
      <4> HIDE DEF long, before
      <4>2. QED
        BY <2>3, <3>1, <4>1 DEF Texts
    <3>2. ASSUME NEW p \in Pieces, text = <<p>> PROVE <2>4
      <4>1. /\ long \in Seq(Pieces \cup {p}) /\ Len(long) = Len(before) + 1
            /\ DOMAIN long = 1 .. Len(before) + 1
            /\ \A i \in 1 .. Len(before) : long[i] = before[i]
            /\ long[Len(before) + 1] = p
        BY <2>3, <3>2, AppendOne
      <4>2. Pieces \cup {p} = Pieces
        OBVIOUS
      <4> HIDE DEF long, before
      <4>3. long \in Texts /\ long # <<>>
        BY <2>3, <4>1, <4>2 DEF Texts
      <4>4. QED
        BY <2>3, <3>2, <4>1, <4>3
    <3>3. QED
      BY <3>1, <3>2, TextsAreSequences
  <2> HIDE DEF long
  <2>5. last \in MessageRecords /\ last.author = old[n].author /\ last.text = long
    BY <2>2, <2>4 DEF MessageRecords
  <2> HIDE DEF last
  <2>6. /\ new \in Seq(MessageRecords) /\ Len(new) = n /\ DOMAIN new = 1 .. n
        /\ \A i \in 1 .. n : new[i] = IF i = n THEN last ELSE old[i]
    BY <2>2, <2>5, ExceptSeq
  <2> HIDE DEF new
  <2>7. \A i \in DOMAIN old : /\ new[i].author = old[i].author
                               /\ Len(old[i].text) <= Len(new[i].text)
                               /\ \A a \in DOMAIN old[i].text : new[i].text[a] = old[i].text[a]
    <3> SUFFICES ASSUME NEW i \in DOMAIN old PROVE <2>7!(i)
      OBVIOUS
    <3>1. CASE i = n
      <4>1. new[i].author = old[i].author /\ new[i].text = long /\ old[i].text = before
        BY <2>2, <2>5, <2>6, <3>1, Zenon
      <4>2. QED
        BY <2>4, <4>1, Zenon
    <3>2. CASE i # n
      <4>1. \A k \in Nat : k <= k
        OBVIOUS
      <4>2. new[i] = old[i] /\ Len(old[i].text) \in Nat
        BY <2>2, <2>3, <2>6, <3>2, Zenon
      <4>3. QED
        BY <4>1, <4>2, Zenon
    <3>3. QED
      BY <3>1, <3>2
  <2>8. \A i \in DOMAIN new : \A a \in DOMAIN new[i].text :
          \/ i \in DOMAIN old /\ a \in DOMAIN old[i].text
          \/ /\ i = Len(new) /\ a = Len(new[i].text) /\ text = <<new[i].text[a]>>
             /\ Len(old) = Len(new) /\ a = Len(old[i].text) + 1
    BY <2>2, <2>4, <2>5, <2>6, Zenon
  <2>9. \A a \in DOMAIN text : /\ new # <<>> /\ new[Len(new)].text # <<>>
                                /\ text[a] = Last(new[Len(new)].text)
    BY <2>2, <2>4, <2>5, <2>6, Zenon DEF Last
  <2>10. Extends(old, new, text)
    <3>1. Len(old) <= Len(new)
      <4>1. \A k \in Nat : k <= k
        OBVIOUS
      <4>2. Len(old) \in Nat /\ Len(new) = Len(old)
        BY <2>6, LenProperties, Zenon
      <4>3. QED
        BY <4>1, <4>2, Zenon
    <3>2. QED
      BY <2>6, <2>7, <2>8, <2>9, <3>1, Zenon DEF Extends
  <2>11. QED
    BY <2>1, <2>10
<1>3. QED
  BY <1>1, <1>2

(* What the screen shows after it has grown, and in which order. *)
LEMMA SpotsAre ==
  ASSUME NEW messages
  PROVE  /\ \A i \in DOMAIN messages : \A a \in DOMAIN messages[i].text :
              <<i, a>> \in Spots(messages) /\ messages[i].text[a] \in Shown(messages)
         /\ \A x \in Spots(messages) : \E i \in DOMAIN messages : \E a \in DOMAIN messages[i].text :
              x = <<i, a>>
         /\ \A p \in Shown(messages) : \E i \in DOMAIN messages : \E a \in DOMAIN messages[i].text :
              p = messages[i].text[a]
BY DEF Spots, Shown, ToSet

LEMMA ShownExtends ==
  ASSUME NEW old \in Seq(MessageRecords), NEW new, NEW text \in Short, Extends(old, new, text)
  PROVE  Shown(new) = Shown(old) \cup ToSet(text)
<1>1. DOMAIN old = 1 .. Len(old) /\ DOMAIN new = 1 .. Len(new) /\ Len(old) \in Nat /\ Len(new) \in Nat
      /\ Len(old) <= Len(new)
  BY LenProperties DEF Extends
<1>2. DOMAIN old \subseteq DOMAIN new
  BY <1>1
<1>3. \A i \in DOMAIN old : \A a \in DOMAIN old[i].text :
        a \in DOMAIN new[i].text /\ new[i].text[a] = old[i].text[a]
  <2> SUFFICES ASSUME NEW i \in DOMAIN old, NEW a \in DOMAIN old[i].text
               PROVE  a \in DOMAIN new[i].text /\ new[i].text[a] = old[i].text[a]
    OBVIOUS
  <2>1. old[i].text \in Texts /\ new[i].text \in Texts
    <3>1. old[i] \in MessageRecords /\ new[i] \in MessageRecords
      BY <1>2 DEF Extends
    <3>2. QED
      BY <3>1, TextsAreSequences
  <2>2. /\ DOMAIN old[i].text = 1 .. Len(old[i].text) /\ Len(old[i].text) \in Nat
        /\ DOMAIN new[i].text = 1 .. Len(new[i].text) /\ Len(new[i].text) \in Nat
    BY <2>1, TextsAreSequences
  <2>3. Len(old[i].text) <= Len(new[i].text) /\ new[i].text[a] = old[i].text[a]
    BY Zenon DEF Extends
  <2>4. \A k, m \in Nat : k <= m => \A b \in 1 .. k : b \in 1 .. m
    OBVIOUS
  <2>5. QED
    BY <2>2, <2>3, <2>4, ZenonT(40)
<1>4. ASSUME NEW p \in Shown(old) PROVE p \in Shown(new)
  <2>1. PICK i \in DOMAIN old : \E a \in DOMAIN old[i].text : p = old[i].text[a]
    BY SpotsAre, Zenon
  <2>2. PICK a \in DOMAIN old[i].text : p = old[i].text[a]
    BY <2>1
  <2>3. i \in DOMAIN new /\ a \in DOMAIN new[i].text /\ p = new[i].text[a]
    BY <1>2, <1>3, <2>2, Zenon
  <2>4. QED
    BY <2>3, SpotsAre, Zenon
<1>5. ASSUME NEW a \in DOMAIN text PROVE text[a] \in Shown(new)
  <2>1. new # <<>> /\ new[Len(new)].text # <<>> /\ text[a] = Last(new[Len(new)].text)
    BY Zenon DEF Extends
  <2>2. Len(new) \in DOMAIN new /\ new[Len(new)] \in MessageRecords
    <3>1. new \in Seq(MessageRecords)
      BY Zenon DEF Extends
    <3>2. Len(new) \in Nat \ {0}
      BY <2>1, <3>1, EmptySeq
    <3>3. QED
      BY <3>1, <3>2
  <2>3. new[Len(new)].text \in Seq(Pieces)
    BY <2>2, TextsAreSequences
  <2>4. Len(new[Len(new)].text) \in DOMAIN new[Len(new)].text
    BY <2>1, <2>3, EmptySeq, LenProperties
  <2>5. QED
    BY <2>1, <2>2, <2>4, SpotsAre, Zenon DEF Last
<1>6. ASSUME NEW p \in Shown(new) PROVE p \in Shown(old) \cup ToSet(text)
  <2>0. PICK i \in DOMAIN new : \E a \in DOMAIN new[i].text : p = new[i].text[a]
    BY SpotsAre, Zenon
  <2>1. PICK a \in DOMAIN new[i].text : p = new[i].text[a]
    BY <2>0
  <2>2. CASE i \in DOMAIN old /\ a \in DOMAIN old[i].text
    BY <1>3, <2>1, <2>2, SpotsAre, Zenon
  <2>3. CASE text = <<new[i].text[a]>>
    <3>1. p \in ToSet(<<p>>)
      BY DEF ToSet
    <3>2. QED
      BY <2>1, <2>3, <3>1, Zenon
  <2>4. QED
    BY <2>1, <2>2, <2>3, Zenon DEF Extends
<1>7. \A p \in ToSet(text) : p \in Shown(new)
  BY <1>5 DEF ToSet
<1>8. QED
  BY <1>4, <1>6, <1>7

LEMMA OrderExtends ==
  ASSUME NEW old \in Seq(MessageRecords), NEW new, NEW text \in Short, Extends(old, new, text),
         PiecesInOrder(old),
         \A p \in ToSet(text) : p[2] > 0 =>
           /\ p[2] > 1 => <<p[1], p[2] - 1>> \in Shown(old)
           /\ \A q \in Shown(old) : q[2] > 0 /\ p[1] = q[1] => q[2] < p[2]
  PROVE  PiecesInOrder(new)
<1> DEFINE On(x) == new[x[1]].text[x[2]]
           Was(x) == old[x[1]].text[x[2]]
           Last_(x) == \A y \in Spots(new) : ~Above(x, y)
<1>1. Shown(new) = Shown(old) \cup ToSet(text)
  BY ShownExtends
<1>2. /\ DOMAIN new = 1 .. Len(new) /\ Len(new) \in Nat
      /\ \A i \in DOMAIN new : /\ DOMAIN new[i].text = 1 .. Len(new[i].text)
                               /\ Len(new[i].text) \in Nat
  <2>1. new \in Seq(MessageRecords)
    BY Zenon DEF Extends
  <2>2. DOMAIN new = 1 .. Len(new) /\ Len(new) \in Nat
    BY <2>1, LenProperties
  <2>3. \A i \in DOMAIN new : new[i].text \in Texts
    BY <2>1, <2>2, TextsAreSequences
  <2>4. QED
    BY <2>2, <2>3, TextsAreSequences, Zenon
<1>3. ASSUME NEW x \in Spots(new)
      PROVE  \/ x \in Spots(old) /\ On(x) = Was(x) /\ On(x) \in Shown(old)
             \/ On(x) \in ToSet(text) /\ Last_(x)
  <2>0. PICK i \in DOMAIN new : \E a \in DOMAIN new[i].text : x = <<i, a>>
    BY SpotsAre, Zenon
  <2>1. PICK a \in DOMAIN new[i].text : x = <<i, a>>
    BY <2>0
  <2>2. x[1] = i /\ x[2] = a /\ On(x) = new[i].text[a]
    BY <2>1
  <2>3. CASE i \in DOMAIN old /\ a \in DOMAIN old[i].text
    <3>1. new[i].text[a] = old[i].text[a]
      BY <2>3, Zenon DEF Extends
    <3>2. x \in Spots(old) /\ old[i].text[a] \in Shown(old)
      BY <2>1, <2>3, SpotsAre, Zenon
    <3>3. QED
      BY <2>2, <3>1, <3>2
  <2>4. CASE i = Len(new) /\ a = Len(new[i].text) /\ text = <<new[i].text[a]>>
    <3>1. new[i].text[a] \in ToSet(text)
      <4>1. \A p : p \in ToSet(<<p>>)
        BY DEF ToSet
      <4>2. QED
        BY <2>4, <4>1, Zenon
    <3>2. ASSUME NEW y \in Spots(new), Above(x, y) PROVE FALSE
      <4>1. PICK j \in DOMAIN new : \E b \in DOMAIN new[j].text : y = <<j, b>>
        BY SpotsAre, Zenon
      <4>2. PICK b \in DOMAIN new[j].text : y = <<j, b>>
        BY <4>1
      <4>3. i < j \/ (i = j /\ a < b)
        BY <2>1, <3>2, <4>2 DEF Above
      <4>4. j \in 1 .. i /\ i \in Nat /\ (i = j => b \in 1 .. a /\ a \in Nat)
        BY <1>2, <2>4, <4>2, Zenon
      <4>5. QED
        BY <4>3, <4>4
    <3>3. QED
      BY <2>2, <3>1, <3>2
  <2>5. QED
    BY <2>3, <2>4, Zenon DEF Extends
<1>4. \A x \in Spots(old) : Was(x)[2] > 0 =>
        /\ Was(x)[2] > 1 => <<Was(x)[1], Was(x)[2] - 1>> \in Shown(old)
        /\ \A y \in Spots(old) :
             Above(x, y) /\ Was(y)[1] = Was(x)[1] /\ Was(y)[2] > 0 => Was(x)[2] < Was(y)[2]
  BY Zenon DEF PiecesInOrder
<1> SUFFICES ASSUME NEW x \in Spots(new), On(x)[2] > 0
             PROVE  /\ On(x)[2] > 1 => <<On(x)[1], On(x)[2] - 1>> \in Shown(new)
                    /\ \A y \in Spots(new) :
                         Above(x, y) /\ On(y)[1] = On(x)[1] /\ On(y)[2] > 0 => On(x)[2] < On(y)[2]
  BY Zenon DEF PiecesInOrder
<1> HIDE DEF On, Was, Last_
<1>5. On(x)[2] > 1 => <<On(x)[1], On(x)[2] - 1>> \in Shown(new)
  BY <1>1, <1>3, <1>4, Zenon
<1>6. ASSUME NEW y \in Spots(new), Above(x, y), On(y)[1] = On(x)[1], On(y)[2] > 0
      PROVE  On(x)[2] < On(y)[2]
  <2>1. x \in Spots(old) /\ On(x) = Was(x) /\ On(x) \in Shown(old)
    BY <1>3, <1>6 DEF Last_
  <2>2. CASE y \in Spots(old) /\ On(y) = Was(y)
    BY <1>4, <1>6, <2>1, <2>2, Zenon
  <2>3. CASE On(y) \in ToSet(text)
    BY <1>6, <2>1, <2>3, Zenon
  <2>4. QED
    BY <1>3, <2>2, <2>3, Zenon
<1>7. QED
  BY <1>5, <1>6, Zenon

(* The session file holds the first part of what the screen shows.         *)
Begins(messages, longer) ==
  /\ Len(messages) <= Len(longer)
  /\ \A i \in DOMAIN messages :
       /\ messages[i].author = longer[i].author
       /\ IsPrefix(messages[i].text, longer[i].text)

LEMMA PrefixesAre ==
  ASSUME NEW s \in Texts, NEW t \in Texts
  PROVE  IsPrefix(s, t) <=> Len(s) <= Len(t) /\ \A a \in DOMAIN s : s[a] = t[a]
<1>1. /\ Len(s) \in Nat /\ DOMAIN s = 1 .. Len(s) /\ \A a \in DOMAIN s : s[a] \in Pieces
      /\ Len(t) \in Nat /\ DOMAIN t = 1 .. Len(t) /\ \A a \in DOMAIN t : t[a] \in Pieces
  BY LenProperties DEF Texts
<1> SUFFICES ASSUME Len(s) <= Len(t)
             PROVE  SubSeq(s, 1, Len(s)) = SubSeq(t, 1, Len(s)) <=> \A a \in DOMAIN s : s[a] = t[a]
  BY DEF IsPrefix
<1> DEFINE n == Len(s)
           u == SubSeq(s, 1, n)
           v == SubSeq(t, 1, n)
<1>2. \A a \in 1 .. n : a \in DOMAIN s /\ a \in DOMAIN t /\ (1 + a) - 1 = a
  BY <1>1
<1>3. /\ u \in Seq(Pieces) /\ Len(u) = n /\ \A a \in 1 .. n : u[a] = s[a]
      /\ v \in Seq(Pieces) /\ Len(v) = n /\ \A a \in 1 .. n : v[a] = t[a]
  <2>1. 1 \in Int /\ n \in Int /\ (IF 1 <= n THEN n - 1 + 1 ELSE 0) = n /\ n - 1 + 1 = n
    BY <1>1
  <2>2. /\ u \in Seq(Pieces) /\ Len(u) = n /\ \A a \in 1 .. n : u[a] = s[1 + a - 1]
    BY <1>1, <1>2, <2>1, SubSeqProperties
  <2>3. /\ v \in Seq(Pieces) /\ Len(v) = n /\ \A a \in 1 .. n : v[a] = t[1 + a - 1]
    BY <1>1, <1>2, <2>1, SubSeqProperties
  <2>4. QED
    BY <1>1, <1>2, <2>2, <2>3
<1> HIDE DEF n, u, v
<1>4. ASSUME \A a \in 1 .. n : s[a] = t[a] PROVE u = v
  BY <1>3, <1>4, SeqEqual
<1>5. (u = v) <=> \A a \in 1 .. n : s[a] = t[a]
  BY <1>3, <1>4
<1>6. QED
  BY <1>1, <1>5 DEF n, u, v

LEMMA BeginsExtends ==
  ASSUME NEW saved \in Seq(MessageRecords), NEW old \in Seq(MessageRecords), NEW new, NEW text,
         Begins(saved, old), Extends(old, new, text)
  PROVE  Begins(saved, new)
<1>1. new \in Seq(MessageRecords) /\ Len(old) <= Len(new) /\ Len(saved) <= Len(old)
  BY Zenon DEF Extends, Begins
<1>2. /\ DOMAIN saved = 1 .. Len(saved) /\ Len(saved) \in Nat
      /\ DOMAIN old = 1 .. Len(old) /\ Len(old) \in Nat
      /\ DOMAIN new = 1 .. Len(new) /\ Len(new) \in Nat
  BY <1>1, LenProperties
<1>3. Len(saved) <= Len(new) /\ \A i \in DOMAIN saved : i \in DOMAIN old /\ i \in DOMAIN new
  BY <1>1, <1>2
<1>4. ASSUME NEW i \in DOMAIN saved
      PROVE  /\ saved[i].author = new[i].author
             /\ IsPrefix(saved[i].text, new[i].text)
  <2>1. saved[i].text \in Texts /\ old[i].text \in Texts /\ new[i].text \in Texts
    <3>1. saved[i] \in MessageRecords /\ old[i] \in MessageRecords /\ new[i] \in MessageRecords
      BY <1>1, <1>3
    <3>2. QED
      BY <3>1, TextsAreSequences
  <2>2. /\ saved[i].author = old[i].author /\ IsPrefix(saved[i].text, old[i].text)
        /\ new[i].author = old[i].author /\ IsPrefix(old[i].text, new[i].text)
    <3>1. /\ new[i].author = old[i].author /\ Len(old[i].text) <= Len(new[i].text)
          /\ \A a \in DOMAIN old[i].text : new[i].text[a] = old[i].text[a]
      BY <1>3, Zenon DEF Extends
    <3>2. IsPrefix(old[i].text, new[i].text)
      BY <2>1, <3>1, PrefixesAre
    <3>3. QED
      BY <3>1, <3>2, Zenon DEF Begins
  <2>3. IsPrefix(saved[i].text, new[i].text)
    <3> DEFINE s == saved[i].text
               t == old[i].text
               u == new[i].text
    <3>1. s \in Texts /\ t \in Texts /\ u \in Texts
      BY <2>1
    <3>2. IsPrefix(s, t) /\ IsPrefix(t, u)
      BY <2>2
    <3> HIDE DEF s, t, u
    <3>3. /\ Len(s) <= Len(t) /\ \A a \in DOMAIN s : s[a] = t[a]
          /\ Len(t) <= Len(u) /\ \A a \in DOMAIN t : t[a] = u[a]
      BY <3>1, <3>2, PrefixesAre
    <3>4. DOMAIN s = 1 .. Len(s) /\ DOMAIN t = 1 .. Len(t) /\ {Len(s), Len(t), Len(u)} \subseteq Nat
      BY <3>1, TextsAreSequences
    <3>5. Len(s) <= Len(u) /\ \A a \in DOMAIN s : a \in DOMAIN t
      BY <3>3, <3>4
    <3>6. QED
      BY <3>1, <3>3, <3>5, PrefixesAre, SMTT(30) DEF s, t, u
  <2>4. QED
    BY <2>2, <2>3
<1>5. QED
  BY <1>3, <1>4 DEF Begins

LEMMA BeginsItself ==
  ASSUME NEW messages \in Seq(MessageRecords)
  PROVE  Begins(messages, messages)
<1>1. Len(messages) \in Nat
  OBVIOUS
<1>2. \A i \in DOMAIN messages : IsPrefix(messages[i].text, messages[i].text)
  <2>1. \A i \in DOMAIN messages : messages[i].text \in Texts
    BY TextsAreSequences
  <2>2. \A text \in Texts : Len(text) <= Len(text)
    BY TextsAreSequences
  <2>3. QED
    BY <2>1, <2>2, PrefixesAre
<1>3. QED
  BY <1>1, <1>2 DEF Begins

-----------------------------------------------------------------------------
(* The channels: what is put into one and taken out of it.                 *)
LEMMA EventsStay ==
  ASSUME EventsOK, NEW e, IsEvent(e),
         \/ events' = events \/ events' = <<>> \/ events' = Append(events, e)
         \/ events # <<>> /\ events' = Tail(events)
  PROVE  EventsOK'
<1>1. PICK T : events \in Seq(T) /\ \A i \in DOMAIN events : IsEvent(events[i])
  BY DEF EventsOK
<1> SUFFICES \E U : events' \in Seq(U) /\ \A i \in DOMAIN events' : IsEvent(events'[i])
  BY DEF EventsOK, IsEvent, NoticeEvent
<1>2. CASE events' = events
  BY <1>1, <1>2
<1>3. CASE events' = <<>>
  BY <1>3
<1>4. CASE events' = Append(events, e)
  <2>1. /\ events' \in Seq(T \cup {e}) /\ DOMAIN events' = 1 .. Len(events) + 1
        /\ DOMAIN events = 1 .. Len(events) /\ Len(events) \in Nat
        /\ \A i \in 1 .. Len(events) : events'[i] = events[i]
        /\ events'[Len(events) + 1] = e
    BY <1>1, <1>4, AppendOne
  <2>2. \A i \in DOMAIN events' : i \in DOMAIN events \/ i = Len(events) + 1
    BY <2>1, PlacesAre, Zenon
  <2>3. \A i \in DOMAIN events' : IsEvent(events'[i])
    BY <1>1, <2>1, <2>2, Zenon
  <2>4. QED
    BY <2>1, <2>3, Zenon
<1>5. CASE events # <<>> /\ events' = Tail(events)
  <2>1. /\ events' \in Seq(T) /\ DOMAIN events' = 1 .. Len(events) - 1
        /\ DOMAIN events = 1 .. Len(events) /\ Len(events) \in Nat \ {0}
        /\ \A i \in 1 .. Len(events) - 1 : events'[i] = events[i + 1]
    BY <1>1, <1>5, TailOne
  <2>2. \A i \in DOMAIN events' : i + 1 \in DOMAIN events
    BY <2>1, PlacesAre, Zenon
  <2>3. \A i \in DOMAIN events' : IsEvent(events'[i])
    BY <1>1, <2>1, <2>2, Zenon
  <2>4. QED
    BY <2>1, <2>3, Zenon
<1>6. QED
  BY <1>2, <1>3, <1>4, <1>5

LEMMA ActionsStay ==
  ASSUME ActionsOK, RequestsFit, NEW a, IsAction(a), DOMAIN runs \subseteq DOMAIN runs',
         \/ /\ actions' = actions \/ (actions' = Append(actions, a) /\ (a.kind = "Request" => a.run = 0))
            /\ \A n \in DOMAIN runs : runs[n].pc = "asked" => runs'[n].pc = "asked"
         \/ actions' = <<>>
         \/ /\ actions' = Append(actions, a) /\ a.kind = "Request" /\ a.run \notin DOMAIN runs
            /\ a.run \in DOMAIN runs' /\ runs'[a.run].pc = "asked"
            /\ \A n \in DOMAIN runs : runs[n].pc = "asked" => runs'[n].pc = "asked"
         \/ /\ actions # <<>> /\ actions' = Tail(actions)
            /\ \A n \in DOMAIN runs : runs[n].pc = "asked" =>
                 runs'[n].pc = "asked" \/ (IsRequest(1) /\ actions[1].run = n)
  PROVE  ActionsOK' /\ RequestsFit'
<1>1. PICK T : actions \in Seq(T) /\ \A i \in DOMAIN actions : IsAction(actions[i])
  BY DEF ActionsOK
<1>2. ASSUME \E U : actions' \in Seq(U) /\ \A i \in DOMAIN actions' : IsAction(actions'[i])
      PROVE  ActionsOK'
  BY <1>2 DEF ActionsOK, IsAction
<1>3. CASE actions' = actions /\ \A n \in DOMAIN runs : runs[n].pc = "asked" => runs'[n].pc = "asked"
  BY <1>1, <1>2, <1>3 DEF RequestsFit, IsRequest
<1>4. CASE actions' = <<>>
  BY <1>2, <1>4 DEF RequestsFit
<1>5. CASE /\ actions' = Append(actions, a)
           /\ a.kind = "Request" /\ a.run > 0 =>
                /\ a.run \notin DOMAIN runs /\ a.run \in DOMAIN runs' /\ runs'[a.run].pc = "asked"
           /\ \A n \in DOMAIN runs : runs[n].pc = "asked" => runs'[n].pc = "asked"
  <2>1. /\ actions' \in Seq(T \cup {a}) /\ DOMAIN actions' = 1 .. Len(actions) + 1
        /\ DOMAIN actions = 1 .. Len(actions) /\ Len(actions) \in Nat
        /\ \A i \in 1 .. Len(actions) : actions'[i] = actions[i]
        /\ actions'[Len(actions) + 1] = a
    BY <1>1, <1>5, AppendOne
  <2>2. \A i \in DOMAIN actions' : \/ i \in DOMAIN actions /\ actions'[i] = actions[i]
                                   \/ i \notin DOMAIN actions /\ i = Len(actions) + 1 /\ actions'[i] = a
    BY <2>1, PlacesAre, Zenon
  <2>3. ActionsOK'
    <3>1. \A i \in DOMAIN actions' : IsAction(actions'[i])
      BY <1>1, <2>2, Zenon
    <3>2. QED
      BY <1>2, <2>1, <3>1, Zenon
  <2>4. RequestsFit'
    BY <1>5, <2>2 DEF RequestsFit, IsRequest
  <2>5. QED
    BY <2>3, <2>4
<1>6. CASE /\ actions # <<>> /\ actions' = Tail(actions)
           /\ \A n \in DOMAIN runs : runs[n].pc = "asked" =>
                runs'[n].pc = "asked" \/ (IsRequest(1) /\ actions[1].run = n)
  <2>1. /\ actions' \in Seq(T) /\ DOMAIN actions' = 1 .. Len(actions) - 1
        /\ DOMAIN actions = 1 .. Len(actions) /\ Len(actions) \in Nat \ {0}
        /\ \A i \in 1 .. Len(actions) - 1 : actions'[i] = actions[i + 1]
    BY <1>1, <1>6, TailOne
  <2>2. \A i \in DOMAIN actions' : i + 1 \in DOMAIN actions /\ i + 1 # 1 /\ 1 \in DOMAIN actions
                                   /\ actions'[i] = actions[i + 1]
    BY <2>1, PlacesAre, Zenon
  <2>3. ActionsOK'
    <3>1. \A i \in DOMAIN actions' : IsAction(actions'[i])
      BY <1>1, <2>2, Zenon
    <3>2. QED
      BY <1>2, <2>1, <3>1, Zenon
  <2>4. RequestsFit'
    <3> SUFFICES ASSUME NEW i \in DOMAIN actions', IsRequest(i)' PROVE RequestsFit!(i)'
      BY DEF RequestsFit
    <3>1. /\ IsRequest(i + 1) /\ actions'[i].run = actions[i + 1].run /\ i + 1 \in DOMAIN actions
          /\ i \in Nat
      BY <2>1, <2>2, PlacesAre, Zenon DEF IsRequest
    <3>2. /\ actions[i + 1].run \in DOMAIN runs /\ runs[actions[i + 1].run].pc = "asked"
          /\ \A j \in DOMAIN actions : IsRequest(j) /\ actions[j].run = actions[i + 1].run => j = i + 1
      BY <3>1, Zenon DEF RequestsFit
    <3>3. runs'[actions'[i].run].pc = "asked" /\ actions'[i].run \in DOMAIN runs'
      BY <1>6, <2>2, <3>1, <3>2
    <3>4. ASSUME NEW j \in DOMAIN actions', IsRequest(j)', actions'[j].run = actions'[i].run
          PROVE  j = i
      <4>1. /\ j + 1 \in DOMAIN actions /\ IsRequest(j + 1) /\ actions[j + 1].run = actions[i + 1].run
            /\ j \in Nat
        BY <2>1, <2>2, <3>1, <3>4, PlacesAre, Zenon DEF IsRequest
      <4>2. j + 1 = i + 1
        BY <3>2, <4>1, Zenon
      <4>3. QED
        BY <3>1, <4>1, <4>2, PlacesAre, Zenon
    <3>5. QED
      BY <3>3, <3>4
  <2>5. QED
    BY <2>3, <2>4
<1>7. QED
  BY <1>3, <1>4, <1>5, <1>6

-----------------------------------------------------------------------------
(* What the loop does to its AppState. *)
LEMMA FieldsChange ==
  ASSUME NEW M, NEW C,
         NEW s \in [messages : M, context : C, waiting : BOOLEAN, warned : BOOLEAN]
  PROVE  /\ s.messages \in M /\ s.context \in C /\ s.waiting \in BOOLEAN /\ s.warned \in BOOLEAN
         /\ \A x : /\ [s EXCEPT !.waiting = x].messages = s.messages
                   /\ [s EXCEPT !.waiting = x].context = s.context
                   /\ [s EXCEPT !.warned = x].messages = s.messages
                   /\ [s EXCEPT !.warned = x].context = s.context
                   /\ [s EXCEPT !.messages = x].messages = x
                   /\ [s EXCEPT !.messages = x].context = s.context
                   /\ [s EXCEPT !.context = x].messages = s.messages
                   /\ [s EXCEPT !.context = x].context = x
         /\ \A b \in BOOLEAN :
              /\ [s EXCEPT !.waiting = b] \in [messages : M, context : C, waiting : BOOLEAN, warned : BOOLEAN]
              /\ [s EXCEPT !.warned = b] \in [messages : M, context : C, waiting : BOOLEAN, warned : BOOLEAN]
         /\ \A m \in M : [s EXCEPT !.messages = m] \in
              [messages : M, context : C, waiting : BOOLEAN, warned : BOOLEAN]
         /\ \A c \in C : [s EXCEPT !.context = c] \in
              [messages : M, context : C, waiting : BOOLEAN, warned : BOOLEAN]
OBVIOUS

LEMMA StatesAre ==
  ASSUME NEW s \in StateRecords
  PROVE  /\ s.messages \in Seq(MessageRecords) /\ s.context \in Texts
         /\ s.waiting \in BOOLEAN /\ s.warned \in BOOLEAN
         /\ \A x : /\ [s EXCEPT !.waiting = x].messages = s.messages
                   /\ [s EXCEPT !.waiting = x].context = s.context
                   /\ [s EXCEPT !.warned = x].messages = s.messages
                   /\ [s EXCEPT !.warned = x].context = s.context
                   /\ [s EXCEPT !.messages = x].messages = x
                   /\ [s EXCEPT !.messages = x].context = s.context
                   /\ [s EXCEPT !.context = x].messages = s.messages
                   /\ [s EXCEPT !.context = x].context = x
         /\ \A b \in BOOLEAN :
              [s EXCEPT !.waiting = b] \in StateRecords /\ [s EXCEPT !.warned = b] \in StateRecords
         /\ \A m \in Seq(MessageRecords) : [s EXCEPT !.messages = m] \in StateRecords
         /\ \A c \in Texts : [s EXCEPT !.context = c] \in StateRecords
<1> DEFINE M == Seq(MessageRecords)
           C == Texts
<1>1. s \in [messages : M, context : C, waiting : BOOLEAN, warned : BOOLEAN]
  BY DEF StateRecords
<1>2. StateRecords = [messages : M, context : C, waiting : BOOLEAN, warned : BOOLEAN]
  BY DEF StateRecords
<1>3. M = Seq(MessageRecords) /\ C = Texts
  OBVIOUS
<1> HIDE DEF M, C
<1>4. QED
  BY <1>1, <1>2, <1>3, FieldsChange, Zenon

LEMMA MessagesAre ==
  /\ <<>> \in Short /\ Notice \in MessageRecords /\ Notice.text = <<>>
  /\ \A b \in BOOLEAN : /\ Message("User", b, <<>>) \in MessageRecords
                        /\ Message("User", b, <<>>).text = <<>>
  /\ \A b \in BOOLEAN, n \in Nat : /\ Message("User", b, <<<<n, 0>>>>) \in MessageRecords
                                   /\ Message("User", b, <<<<n, 0>>>>).text = <<<<n, 0>>>>
                                   /\ <<<<n, 0>>>> \in Short
<1>1. <<>> \in Short /\ <<>> \in Texts
  BY DEF Short, Texts
<1>2. \A n \in Nat : <<<<n, 0>>>> \in Short /\ <<<<n, 0>>>> \in Texts
  <2> SUFFICES ASSUME NEW n \in Nat PROVE <<<<n, 0>>>> \in Short /\ <<<<n, 0>>>> \in Texts
    BY Zenon
  <2>1. <<n, 0>> \in Pieces
    BY DEF Pieces
  <2>2. \A p \in Pieces : <<p>> \in Seq(Pieces) /\ Len(<<p>>) = 1
    OBVIOUS
  <2>3. QED
    BY <2>1, <2>2 DEF Short, Texts
<1>3. \A author \in Authors, b \in BOOLEAN, text \in Texts :
        /\ Message(author, b, text) \in MessageRecords
        /\ Message(author, b, text).text = text
  BY DEF Message, MessageRecords
<1>4. "User" \in Authors /\ "Gola" \in Authors
  BY DEF Authors
<1>5. QED
  BY <1>1, <1>2, <1>3, <1>4, Zenon DEF Notice

LEMMA Unextended ==
  ASSUME NEW old \in Seq(MessageRecords)
  PROVE  Extends(old, old, <<>>)
<1>1. Len(old) \in Nat /\ \A i \in DOMAIN old : Len(old[i].text) \in Nat
  BY TextsAreSequences
<1>2. \A k \in Nat : k <= k
  OBVIOUS
<1>3. DOMAIN <<>> = {}
  OBVIOUS
<1>4. QED
  BY <1>1, <1>2, <1>3, Zenon DEF Extends

LEMMA QuietTwice ==
  ASSUME NEW old \in Seq(MessageRecords), NEW mid \in Seq(MessageRecords), NEW new,
         Extends(old, mid, <<>>), Extends(mid, new, <<>>)
  PROVE  Extends(old, new, <<>>)
<1>1. new \in Seq(MessageRecords) /\ Len(old) <= Len(mid) /\ Len(mid) <= Len(new)
  BY Zenon DEF Extends
<1>2. /\ DOMAIN old = 1 .. Len(old) /\ Len(old) \in Nat
      /\ DOMAIN mid = 1 .. Len(mid) /\ Len(mid) \in Nat
      /\ DOMAIN new = 1 .. Len(new) /\ Len(new) \in Nat
  BY <1>1, LenProperties
<1>3. Len(old) <= Len(new) /\ DOMAIN old \subseteq DOMAIN mid /\ DOMAIN mid \subseteq DOMAIN new
  BY <1>1, <1>2
<1>4. DOMAIN <<>> = {} /\ \A x : <<>> # <<x>>
  OBVIOUS
<1>5. /\ \A i \in DOMAIN old : old[i].text \in Texts
      /\ \A i \in DOMAIN mid : mid[i].text \in Texts
      /\ \A i \in DOMAIN new : new[i].text \in Texts
  BY <1>1, TextsAreSequences
<1>6. /\ \A i \in DOMAIN old : mid[i].author = old[i].author /\ Len(old[i].text) <= Len(mid[i].text)
      /\ \A i \in DOMAIN mid : new[i].author = mid[i].author /\ Len(mid[i].text) <= Len(new[i].text)
      /\ \A i \in DOMAIN old : \A a \in DOMAIN old[i].text : mid[i].text[a] = old[i].text[a]
      /\ \A i \in DOMAIN mid : \A a \in DOMAIN mid[i].text : new[i].text[a] = mid[i].text[a]
  BY Zenon DEF Extends
<1>7. ASSUME NEW i \in DOMAIN old
      PROVE  /\ new[i].author = old[i].author /\ Len(old[i].text) <= Len(new[i].text)
             /\ \A a \in DOMAIN old[i].text : new[i].text[a] = old[i].text[a]
  <2> DEFINE s == old[i].text
             t == mid[i].text
             u == new[i].text
  <2>1. i \in DOMAIN mid /\ i \in DOMAIN new
    BY <1>3
  <2>2. s \in Texts /\ t \in Texts /\ u \in Texts
    BY <1>5, <2>1
  <2>3. /\ Len(s) <= Len(t) /\ \A a \in DOMAIN s : t[a] = s[a]
        /\ Len(t) <= Len(u) /\ \A a \in DOMAIN t : u[a] = t[a]
    BY <1>6, <2>1
  <2> HIDE DEF s, t, u
  <2>4. DOMAIN s = 1 .. Len(s) /\ DOMAIN t = 1 .. Len(t) /\ {Len(s), Len(t), Len(u)} \subseteq Nat
    BY <2>2, TextsAreSequences
  <2>5. Len(s) <= Len(u) /\ \A a \in DOMAIN s : a \in DOMAIN t
    BY <2>3, <2>4
  <2>6. \A a \in DOMAIN s : u[a] = s[a]
    BY <2>3, <2>5
  <2>7. QED
    BY <1>6, <2>1, <2>5, <2>6 DEF s, t, u
<1>8. ASSUME NEW i \in DOMAIN new, NEW a \in DOMAIN new[i].text
      PROVE  i \in DOMAIN old /\ a \in DOMAIN old[i].text
  BY <1>4, <1>8, Zenon DEF Extends
<1>9. QED
  BY <1>1, <1>3, <1>4, <1>7, <1>8, Zenon DEF Extends

LEMMA Added ==
  ASSUME NEW s \in StateRecords, NEW m \in MessageRecords, m.text \in Short
  PROVE  /\ AddMessage(s, m) \in StateRecords
         /\ AddMessage(s, m).context = s.context
         /\ Extends(s.messages, AddMessage(s, m).messages, m.text)
<1>1. Extends(s.messages, Append(s.messages, m), m.text)
  BY StatesAre, AddingExtends
<1>2. Append(s.messages, m) \in Seq(MessageRecords)
  BY <1>1, Zenon DEF Extends
<1>3. QED
  BY <1>1, <1>2, StatesAre, ZenonT(40) DEF AddMessage

LEMMA Responded ==
  ASSUME NEW s \in StateRecords, NEW e, IsEvent(e), e.kind = "Response"
  PROVE  /\ HandleAgentResponse(s, e) \in StateRecords
         /\ HandleAgentResponse(s, e).context = IF e.done THEN e.context ELSE s.context
         /\ Extends(s.messages, HandleAgentResponse(s, e).messages, e.text)
<1>1. e.text \in Short /\ e.context \in Texts /\ (e.done => e.context # <<>>)
  BY DEF IsEvent, NoticeEvent
<1> DEFINE shown == [s EXCEPT !.messages = AppendText(@, e.text)]
<1>2. Extends(s.messages, AppendText(s.messages, e.text), e.text)
  BY <1>1, StatesAre, AppendingExtends
<1>3. AppendText(s.messages, e.text) \in Seq(MessageRecords)
  BY <1>2, Zenon DEF Extends
<1>4. /\ shown \in StateRecords /\ shown.context = s.context
      /\ Extends(s.messages, shown.messages, e.text)
  BY <1>2, <1>3, StatesAre, ZenonT(40)
<1>5. HandleAgentResponse(s, e) = IF e.done THEN Close(shown, e.context) ELSE shown
  BY DEF HandleAgentResponse
<1> HIDE DEF shown
<1>6. CASE e.done
  <2> DEFINE open == [shown EXCEPT !.waiting = FALSE]
             closed == [open EXCEPT !.context = e.context]
  <2>1. Close(shown, e.context) = closed
    <3>1. [shown EXCEPT !.waiting = FALSE, !.context = e.context] = closed
      OBVIOUS
    <3>2. QED
      BY <1>1, <1>6, <3>1 DEF Close
  <2>2. open \in StateRecords /\ open.messages = shown.messages
    BY <1>4, StatesAre, Zenon
  <2> HIDE DEF open
  <2>3. closed \in StateRecords /\ closed.context = e.context /\ closed.messages = shown.messages
    BY <1>1, <2>2, StatesAre, Zenon
  <2> HIDE DEF closed
  <2>4. QED
    BY <1>4, <1>5, <1>6, <2>1, <2>3
<1>7. CASE ~e.done
  BY <1>4, <1>5, <1>7
<1>8. QED
  BY <1>6, <1>7

-----------------------------------------------------------------------------
(* A step that leaves the runs and the context alone: it may show a notice *)
(* or a prompt without a run, pass one on, or touch the session file.      *)
Quiet ==
  /\ Up /\ ui' # "down" /\ (ui' = "starting" => ui = "starting")
  /\ ui = "starting" /\ ui' # "starting" => file = NoFile
  /\ runs' = runs /\ worker' = worker
  /\ app'.context = app.context /\ Extends(app.messages, app'.messages, <<>>)
  /\ \/ events' = events \/ events' = Append(events, NoticeEvent)
     \/ events # <<>> /\ Head(events) = NoticeEvent /\ events' = Tail(events)
  /\ file' = file \/ file' = Torn \/ (file' = Session(app) /\ app' = app)

QuietLoop    == AgentMessage \/ WriteFile
QuietService == Help \/ Copy \/ Accept \/ ClearMemory \/ MemoryCleared \/ ClearFails
QuietUser    == (\E input \in Inputs : Command(input)) \/ AskHelp \/ Interrupt \/ Warn \/ Type

LEMMA SessionsAre ==
  ASSUME NEW s \in StateRecords
  PROVE  /\ Session(s) \in SessionRecords /\ Session(s).saved
         /\ Session(s).messages = s.messages /\ Session(s).context = s.context
<1> DEFINE M == Seq(MessageRecords)
<1>1. s.messages \in M /\ s.context \in Texts
  BY StatesAre
<1>2. SessionRecords = [saved : {TRUE}, torn : {FALSE}, messages : M, context : Texts]
  BY DEF SessionRecords
<1> HIDE DEF M
<1>3. QED
  BY <1>1, <1>2 DEF Session

LEMMA FilesAre ==
  ASSUME file \in {NoFile, Torn} \cup SessionRecords
  PROVE  /\ file.saved \in BOOLEAN /\ (file.saved => file \in SessionRecords)
         /\ (file.saved => file.messages \in Seq(MessageRecords) /\ file.context \in Texts)
         /\ ~NoFile.saved /\ ~Torn.saved /\ ~NoFile.torn
<1> DEFINE M == Seq(MessageRecords)
<1>1. SessionRecords = [saved : {TRUE}, torn : {FALSE}, messages : M, context : Texts]
  BY DEF SessionRecords
<1>2. M = Seq(MessageRecords)
  OBVIOUS
<1> HIDE DEF M
<1>3. file = NoFile \/ file = Torn \/ file \in SessionRecords
  OBVIOUS
<1>4. NoFile.saved = FALSE /\ Torn.saved = FALSE /\ NoFile.torn = FALSE
  BY DEF NoFile, Torn
<1>5. ASSUME file \in SessionRecords
      PROVE  file.saved = TRUE /\ file.messages \in M /\ file.context \in Texts
  BY <1>1, <1>5
<1>6. CASE file \in SessionRecords
  BY <1>2, <1>4, <1>5, <1>6
<1>7. CASE file = NoFile \/ file = Torn
  <2>1. file.saved = FALSE
    BY <1>4, <1>7
  <2>2. QED
    BY <1>4, <2>1
<1>8. QED
  BY <1>3, <1>6, <1>7

LEMMA QuietBase ==
  ASSUME Base, Quiet, app' \in StateRecords, ActionsOK', RequestsFit',
         ui' \in {"starting", "running", "writing"},
         background' \in {"down", "loop", "clearing", "failed"},
         ui' = "starting" => app' = app /\ actions' = actions /\ background' = background
  PROVE  Base'
<1>1. EventsOK'
  <2>1. IsEvent(NoticeEvent)
    BY DEF IsEvent
  <2>2. QED
    BY <2>1, EventsStay DEF Base, TerminalTypeOK, Quiet
<1>2. file' \in {NoFile, Torn} \cup SessionRecords
  BY SessionsAre DEF Base, TerminalTypeOK, Quiet
<1>3. TerminalTypeOK'
  BY <1>1, <1>2 DEF Base, TerminalTypeOK, Quiet
<1>4. PhasesFit'
  BY DEF Base, PhasesFit, Quiet, Up
<1>5. QED
  BY <1>3, <1>4 DEF Base

LEMMA PolledBase ==
  ASSUME Base
  PROVE  /\ actions # <<>> \/ background = "clearing" => ui \in {"running", "writing"}
         /\ app \in StateRecords /\ runs \in Seq(RunRecords) /\ Extends(app.messages, app.messages, <<>>)
         /\ EventsOK /\ ActionsOK /\ RequestsFit
<1>1. app \in StateRecords
  BY DEF Base, TerminalTypeOK
<1>2. Extends(app.messages, app.messages, <<>>)
  BY <1>1, StatesAre, Unextended
<1>3. QED
  BY <1>1, <1>2 DEF Base, TerminalTypeOK, PhasesFit

LEMMA QuietServiceStep ==
  ASSUME Base, QuietService
  PROVE  Quiet /\ Base'
<1> DEFINE a == [kind |-> "Abort"]
<1>1. IsAction(a)
  BY DEF IsAction
<1> HIDE DEF a
<1>2. /\ ui' = ui /\ ui \in {"running", "writing"} /\ app' = app /\ runs' = runs /\ worker' = worker
      /\ file' = file /\ events' \in {events, Append(events, NoticeEvent)}
      /\ background' \in {"loop", "clearing", "failed"}
      /\ \/ actions' = actions
         \/ actions # <<>> /\ actions' = Tail(actions)
  BY PolledBase DEF QuietService, Help, Copy, Accept, ClearMemory, MemoryCleared, ClearFails, Takes,
                    Serving
<1>3. Quiet
  BY <1>2, PolledBase DEF Quiet, Up
<1>4. ActionsOK' /\ RequestsFit'
  BY <1>1, <1>2, PolledBase, ActionsStay
<1>5. QED
  BY <1>2, <1>3, <1>4, PolledBase, QuietBase

LEMMA QuietLoopStep ==
  ASSUME Base, QuietLoop
  PROVE  Quiet /\ Base'
<1> DEFINE a == [kind |-> "Abort"]
<1>1. IsAction(a)
  BY DEF IsAction
<1> HIDE DEF a
<1>2. /\ ui \in {"running", "writing"} /\ ui' = "running" /\ actions' = actions /\ runs' = runs
      /\ worker' = worker /\ background' = background
  BY DEF QuietLoop, AgentMessage, WriteFile, Polling
<1>3. ActionsOK' /\ RequestsFit'
  BY <1>1, <1>2, PolledBase, ActionsStay
<1>4. background \in {"down", "loop", "clearing", "failed"}
  BY DEF Base, TerminalTypeOK
<1>5. CASE WriteFile
  <2>1. Quiet /\ app' = app
    BY <1>2, <1>5, PolledBase DEF Quiet, Up, WriteFile
  <2>2. QED
    BY <1>2, <1>3, <1>4, <2>1, PolledBase, QuietBase
<1>6. CASE AgentMessage
  <2> DEFINE long == AddMessage(app, Notice)
  <2>1. /\ long \in StateRecords /\ long.context = app.context
        /\ Extends(app.messages, long.messages, <<>>)
    BY MessagesAre, PolledBase, Added
  <2>2. app' = [long EXCEPT !.waiting = FALSE]
    BY <1>6 DEF AgentMessage
  <2> HIDE DEF long
  <2>3. app' \in StateRecords /\ app'.context = app.context /\ Extends(app.messages, app'.messages, <<>>)
    BY <2>1, <2>2, StatesAre
  <2>4. Quiet
    BY <1>2, <1>6, <2>3 DEF Quiet, Up, AgentMessage
  <2>5. QED
    BY <1>2, <1>3, <1>4, <2>3, <2>4, QuietBase
<1>7. QED
  BY <1>5, <1>6 DEF QuietLoop

LEMMA QuietUserStep ==
  ASSUME Base, QuietUser
  PROVE  Quiet /\ Base'
<1> DEFINE abort == [kind |-> "Abort"]
           help == [kind |-> "Request", run |-> 0]
           copy == [kind |-> "Copy"]
           accept == [kind |-> "Accept"]
           clear == [kind |-> "Clear"]
           user == Message("User", TRUE, <<>>)
           long == AddMessage(app, user)
<1>1. /\ IsAction(abort) /\ IsAction(help) /\ IsAction(copy) /\ IsAction(accept) /\ IsAction(clear)
      /\ abort.kind # "Request" /\ copy.kind # "Request" /\ accept.kind # "Request"
      /\ clear.kind # "Request" /\ help.run = 0
  BY DEF IsAction
<1>2. /\ long \in StateRecords /\ long.context = app.context
      /\ Extends(app.messages, long.messages, <<>>)
  BY MessagesAre, PolledBase, Added DEF Base, TerminalTypeOK
<1>3. /\ ui = "running" /\ runs' = runs /\ worker' = worker /\ background' = background
      /\ events' = events /\ ui' \in {"running", "writing"} /\ file' \in {file, Torn}
  BY DEF QuietUser, Command, AskHelp, Interrupt, Warn, Type, Polling, SaveSession
<1>4. \A e : actions \o <<e>> = Append(actions, e) /\ actions \o <<>> = actions
  <2>1. PICK T : actions \in Seq(T)
    BY PolledBase DEF ActionsOK
  <2>2. QED
    BY <2>1, AppendOne
<1>5. /\ actions' = actions \/ \E a \in {abort, help, copy, accept, clear} : actions' = Append(actions, a)
  BY <1>4 DEF QuietUser, Command, AskHelp, Interrupt, Warn, Type, Asks
<1> HIDE DEF abort, help, copy, accept, clear
<1>6. ActionsOK' /\ RequestsFit'
  <2>1. \A n \in DOMAIN runs : runs[n].pc = "asked" => runs'[n].pc = "asked"
    BY <1>3
  <2>2. CASE actions' = actions
    BY <1>1, <1>3, <2>1, <2>2, PolledBase, ActionsStay
  <2>3. ASSUME NEW a \in {abort, help, copy, accept, clear}, actions' = Append(actions, a)
        PROVE  ActionsOK' /\ RequestsFit'
    <3>1. IsAction(a) /\ (a.kind = "Request" => a.run = 0)
      BY <1>1
    <3>2. QED
      BY <1>3, <2>1, <2>3, <3>1, PolledBase, ActionsStay
  <2>4. QED
    BY <1>5, <2>2, <2>3
<1>7. /\ app' \in StateRecords /\ app'.context = app.context
      /\ Extends(app.messages, app'.messages, <<>>)
  <2>1. CASE \E input \in Inputs : Command(input)
    <3>1. PICK input \in Inputs : Command(input)
      BY <2>1
    <3>2. app' = HandleSlashCommands(long, input)
      BY <3>1 DEF Command
    <3> HIDE DEF long
    <3>3. CASE input = "badblocks"
      <4>1. app' = AddMessage(long, Notice)
        BY <3>2, <3>3 DEF HandleSlashCommands
      <4>2. /\ app' \in StateRecords /\ app'.context = long.context
            /\ Extends(long.messages, app'.messages, <<>>)
        BY <1>2, <4>1, MessagesAre, Added
      <4>3. app.messages \in Seq(MessageRecords) /\ long.messages \in Seq(MessageRecords)
        BY <1>2, PolledBase, StatesAre
      <4>4. QED
        BY <1>2, <4>2, <4>3, QuietTwice
    <3>4. CASE input # "badblocks"
      <4> DEFINE b == long.waiting \/ input \in {"copyblocks", "copychat", "clear"}
      <4>1. app' = [long EXCEPT !.waiting = b]
        BY <3>2, <3>4 DEF HandleSlashCommands
      <4>2. b \in BOOLEAN
        OBVIOUS
      <4> HIDE DEF b
      <4>3. QED
        BY <1>2, <4>1, <4>2, StatesAre
    <3>5. QED
      BY <3>3, <3>4
  <2>2. CASE AskHelp
    <3>1. app' = [long EXCEPT !.waiting = TRUE]
      BY <2>2 DEF AskHelp
    <3> HIDE DEF long
    <3>2. QED
      BY <1>2, <3>1, StatesAre
  <2>3. CASE Interrupt
    <3>1. app' = [app EXCEPT !.waiting = FALSE]
      BY <2>3 DEF Interrupt
    <3>2. QED
      BY <3>1, StatesAre, PolledBase, ZenonT(40)
  <2>4. CASE Type
    <3>1. app' = [app EXCEPT !.warned = FALSE]
      BY <2>4 DEF Type
    <3>2. QED
      BY <3>1, StatesAre, PolledBase, ZenonT(40)
  <2>5. CASE Warn
    <3> DEFINE said == AddMessage(app, Notice)
    <3>1. app' = [said EXCEPT !.warned = TRUE]
      BY <2>5 DEF Warn
    <3>2. /\ said \in StateRecords /\ said.context = app.context
          /\ Extends(app.messages, said.messages, <<>>)
      BY MessagesAre, PolledBase, Added
    <3> HIDE DEF said
    <3>3. QED
      BY <3>1, <3>2, StatesAre
  <2>6. QED
    BY <2>1, <2>2, <2>3, <2>4, <2>5 DEF QuietUser
<1>8. Quiet
  BY <1>3, <1>7 DEF Quiet, Up
<1>9. background \in {"down", "loop", "clearing", "failed"}
  BY DEF Base, TerminalTypeOK
<1>10. QED
  BY <1>3, <1>6, <1>7, <1>8, <1>9, QuietBase

(* NewSession is the other quiet step: the loop starts with what it finds. *)
LEMMA NewSessionStep ==
  ASSUME Base, NewSession
  PROVE  Quiet /\ Base'
<1>1. /\ ui = "starting" /\ ui' = "running" /\ runs' = runs /\ worker' = worker /\ events' = events
      /\ file' = file /\ file = NoFile /\ actions' = actions /\ background' = background
  BY DEF NewSession
<1>2. app = NewState
  BY <1>1 DEF Base, PhasesFit
<1>3. /\ app' \in StateRecords /\ app'.context = app.context
      /\ Extends(app.messages, app'.messages, <<>>)
  <2>1. CASE app' = app
    BY <2>1, PolledBase
  <2>2. CASE app' = AddMessage(app, Notice)
    BY <2>2, PolledBase, MessagesAre, Added
  <2>3. QED
    BY <1>2, <2>1, <2>2 DEF NewSession
<1>4. Quiet
  BY <1>1, <1>3 DEF Quiet, Up
<1>5. ActionsOK' /\ RequestsFit'
  <2> DEFINE a == [kind |-> "Abort"]
  <2>1. IsAction(a)
    BY DEF IsAction
  <2> HIDE DEF a
  <2>2. QED
    BY <1>1, <2>1, PolledBase, ActionsStay
<1>6. background \in {"down", "loop", "clearing", "failed"}
  BY DEF Base, TerminalTypeOK
<1>7. QED
  BY <1>1, <1>3, <1>4, <1>5, <1>6, QuietBase

LEMMA NewStateIs == NewState \in StateRecords /\ NewState.messages = <<>> /\ NewState.context = <<>>
<1> DEFINE M == Seq(MessageRecords)
           C == Texts
<1>1. <<>> \in M /\ <<>> \in C
  BY DEF Texts
<1>2. StateRecords = [messages : M, context : C, waiting : BOOLEAN, warned : BOOLEAN]
  BY DEF StateRecords
<1> HIDE DEF M, C
<1>3. QED
  BY <1>1, <1>2 DEF NewState

LEMMA EmptyChannels ==
  /\ events' = <<>> => EventsOK'
  /\ actions' = <<>> => ActionsOK' /\ RequestsFit'
<1>1. <<>> \in Seq({}) /\ DOMAIN <<>> = {}
  OBVIOUS
<1>2. QED
  BY <1>1 DEF EventsOK, ActionsOK, RequestsFit

(* A terminal that is opened on its session. *)
LEMMA OpenStep ==
  ASSUME Base, OpenSession
  PROVE  /\ Base' /\ ui = "starting" /\ ui' = "running" /\ runs' = runs /\ events' = events /\ file' = file
         /\ worker' = worker /\ app = NewState /\ file.saved
         /\ app'.messages = file.messages /\ app'.context = file.context
<1>1. /\ ui = "starting" /\ ui' = "running" /\ runs' = runs /\ worker' = worker /\ events' = events
      /\ file' = file /\ file.saved /\ actions' = actions /\ background' = background
      /\ app' = Opened(file)
  BY DEF OpenSession
<1>2. app = NewState /\ actions = <<>>
  BY <1>1 DEF Base, PhasesFit
<1>3. app' \in StateRecords /\ app'.messages = file.messages /\ app'.context = file.context
  <2> DEFINE half == [NewState EXCEPT !.messages = file.messages]
  <2>1. app' = [half EXCEPT !.context = file.context]
    BY <1>1 DEF Opened
  <2>2. file.messages \in Seq(MessageRecords) /\ file.context \in Texts
    BY <1>1, FilesAre DEF Base, TerminalTypeOK
  <2>3. half \in StateRecords /\ half.messages = file.messages
    BY <2>2, NewStateIs, StatesAre
  <2> HIDE DEF half
  <2>4. QED
    BY <2>1, <2>2, <2>3, StatesAre
<1>4. ActionsOK' /\ RequestsFit'
  BY <1>1, <1>2, EmptyChannels
<1>5. EventsOK'
  <2>1. EventsOK /\ IsEvent(NoticeEvent)
    BY DEF Base, TerminalTypeOK, IsEvent
  <2>2. QED
    BY <1>1, <2>1, EventsStay
<1>6. TerminalTypeOK'
  BY <1>1, <1>3, <1>4, <1>5 DEF Base, TerminalTypeOK
<1>7. PhasesFit'
  BY <1>1 DEF Base, PhasesFit, Up
<1>8. QED
  BY <1>1, <1>2, <1>3, <1>4, <1>6, <1>7 DEF Base

(* A process that starts, and one that ends, with what that does to runs.  *)
Starts ==
  /\ ui = "down" /\ ui' = "starting" /\ app = NewState /\ app' = NewState /\ events' = <<>>
  /\ file' = file /\ worker' = Len(runs) + 1
  /\ DOMAIN runs' = 1 .. Len(runs) + 1 /\ DOMAIN runs = 1 .. Len(runs) /\ Len(runs) \in Nat
  /\ \A n \in DOMAIN runs : runs'[n] = runs[n] /\ runs[n].pc \in {"gone", "aborted"}
  /\ runs'[worker'] = Run("live", <<>>)

Stops ==
  /\ ui' = "down" /\ app' = NewState /\ events' = <<>> /\ file' = file /\ DOMAIN runs' = DOMAIN runs
  /\ \A n \in DOMAIN runs :
       /\ runs'[n].greeting = runs[n].greeting /\ runs'[n].context = <<>> /\ runs'[n].deltas = 0
       /\ runs'[n].pc = IF runs[n].pc = "aborted" THEN "aborted" ELSE "gone"

LEMMA RunsAre ==
  ASSUME runs \in Seq(RunRecords)
  PROVE  /\ DOMAIN runs = 1 .. Len(runs) /\ Len(runs) \in Nat
         /\ \A n \in DOMAIN runs : /\ runs[n] \in RunRecords /\ runs[n].context \in Texts
                                   /\ runs[n].deltas \in Nat /\ runs[n].greeting \in BOOLEAN
         /\ \A pc \in {"asked", "live"}, context \in Texts :
              /\ Run(pc, context) \in RunRecords /\ Run(pc, context).context = context
              /\ Run(pc, context).pc = pc /\ Run(pc, context).deltas = 0
              /\ Run(pc, context).greeting = (pc = "live")
<1>1. DOMAIN runs = 1 .. Len(runs) /\ Len(runs) \in Nat /\ \A n \in DOMAIN runs : runs[n] \in RunRecords
  OBVIOUS
<1>2. \A run \in RunRecords : run.context \in Texts /\ run.deltas \in Nat /\ run.greeting \in BOOLEAN
  BY DEF RunRecords
<1>3. \A pc \in {"asked", "live"}, context \in Texts :
        /\ Run(pc, context) \in RunRecords /\ Run(pc, context).context = context
        /\ Run(pc, context).pc = pc /\ Run(pc, context).deltas = 0
        /\ Run(pc, context).greeting = (pc = "live")
  BY DEF Run, RunRecords
<1>4. QED
  BY <1>1, <1>2, <1>3

LEMMA StartStep ==
  ASSUME Base, Start
  PROVE  Starts /\ Base'
<1> DEFINE new == Run("live", <<>>)
<1>1. /\ ui = "down" /\ ui' = "starting" /\ background' = "loop" /\ actions' = <<>> /\ events' = <<>>
      /\ runs' = Append(runs, new) /\ worker' = Len(runs') /\ app' = app /\ file' = file
  BY DEF Start
<1>2. app = NewState /\ runs \in Seq(RunRecords)
  BY <1>1 DEF Base, PhasesFit, TerminalTypeOK
<1>3. new \in RunRecords /\ new.deltas = 0 /\ new.pc = "live"
  <2>1. <<>> \in Texts
    BY DEF Texts
  <2>2. QED
    BY <1>2, <2>1, RunsAre
<1> HIDE DEF new
<1>4. /\ runs' \in Seq(RunRecords) /\ Len(runs') = Len(runs) + 1 /\ DOMAIN runs' = 1 .. Len(runs) + 1
      /\ DOMAIN runs = 1 .. Len(runs) /\ Len(runs) \in Nat
      /\ \A n \in 1 .. Len(runs) : runs'[n] = runs[n]
      /\ runs'[Len(runs) + 1] = new
  <2>1. RunRecords \cup {new} = RunRecords
    BY <1>3
  <2>2. QED
    BY <1>1, <1>2, <2>1, AppendOne
<1>5. /\ worker' = Len(runs) + 1 /\ worker' \in DOMAIN runs' /\ worker' \in 0 .. Len(runs')
      /\ DOMAIN runs \subseteq DOMAIN runs'
  BY <1>1, <1>4
<1>6. \A n \in DOMAIN runs' : \/ n \in DOMAIN runs /\ runs'[n] = runs[n]
                              \/ n = worker' /\ runs'[n] = new
  BY <1>4, <1>5, PlacesAre, Zenon
<1>7. \A n \in DOMAIN runs : runs[n].pc \in {"gone", "aborted"}
  BY <1>1 DEF Base, PhasesFit
<1>8. TerminalTypeOK'
  BY <1>1, <1>2, <1>4, <1>5, EmptyChannels DEF Base, TerminalTypeOK
<1>9. PhasesFit'
  BY <1>1, <1>2, <1>3, <1>5, <1>6, <1>7 DEF Base, PhasesFit
<1>10. Starts
  BY <1>1, <1>2, <1>4, <1>5, <1>7 DEF Starts, new
<1>11. QED
  BY <1>1, <1>8, <1>9, <1>10, EmptyChannels DEF Base

LEMMA StopStep ==
  ASSUME Base, Stop
  PROVE  Stops /\ Base'
<1> DEFINE old(n) == [runs[n] EXCEPT !.pc = IF @ = "aborted" THEN @ ELSE "gone",
                                     !.context = <<>>, !.deltas = 0]
<1>1. /\ ui' = "down" /\ app' = NewState /\ background' = "down" /\ actions' = <<>> /\ events' = <<>>
      /\ worker' = 0 /\ file' = file /\ runs' = [n \in DOMAIN runs |-> old(n)]
  BY Zenon DEF Stop
<1>2. runs \in Seq(RunRecords)
  BY DEF Base, TerminalTypeOK
<1>3. \A run \in RunRecords :
        LET new == [run EXCEPT !.pc = IF @ = "aborted" THEN @ ELSE "gone", !.context = <<>>, !.deltas = 0]
        IN  /\ new \in RunRecords /\ new.greeting = run.greeting /\ new.context = <<>> /\ new.deltas = 0
            /\ new.pc = IF run.pc = "aborted" THEN "aborted" ELSE "gone"
  <2>1. <<>> \in Texts
    BY DEF Texts
  <2>2. QED
    BY <2>1 DEF RunRecords
<1>4. \A n \in DOMAIN runs :
        /\ old(n) \in RunRecords /\ old(n).greeting = runs[n].greeting
        /\ old(n).context = <<>> /\ old(n).deltas = 0
        /\ old(n).pc = IF runs[n].pc = "aborted" THEN "aborted" ELSE "gone"
  BY <1>2, <1>3, RunsAre, Zenon
<1> HIDE DEF old
<1>5. /\ runs' \in Seq(RunRecords) /\ DOMAIN runs' = DOMAIN runs /\ Len(runs') = Len(runs)
      /\ \A n \in DOMAIN runs : runs'[n] = old(n)
  <2>1. DOMAIN runs = 1 .. Len(runs) /\ Len(runs) \in Nat
    BY <1>2, RunsAre
  <2>2. QED
    BY <1>1, <1>4, <2>1
<1>6. Stops
  BY <1>1, <1>4, <1>5 DEF Stops
<1>7. TerminalTypeOK'
  <2>1. 0 \in 0 .. Len(runs)
    BY <1>2
  <2>2. QED
    BY <1>1, <1>5, <2>1, EmptyChannels, NewStateIs DEF Base, TerminalTypeOK
<1>8. PhasesFit'
  BY <1>1, <1>4, <1>5 DEF Base, PhasesFit, Up
<1>9. QED
  BY <1>1, <1>6, <1>7, <1>8, EmptyChannels DEF Base

-----------------------------------------------------------------------------
(* A run that goes on: it is spawned, ends without an answer, or is        *)
(* stopped (Moves), it says another piece, or it has finished.             *)
Elsewhere == ui # "down" /\ ui' = ui /\ app' = app /\ file' = file
Moves(n) ==
  /\ Elsewhere /\ n \in DOMAIN runs
  /\ events' = events \/ events' = Append(events, NoticeEvent)
  /\ \/ /\ runs[n].pc = "asked" /\ ui # "starting" /\ worker' = n
        /\ RunIs(n, "live", runs[n].deltas)
     \/ /\ Live(n) /\ worker' = worker
        /\ \E pc \in {"failed", "silent", "aborted"} : RunIs(n, pc, runs[n].deltas)
Says(n) ==
  /\ Elsewhere /\ n \in DOMAIN runs /\ Live(n) /\ worker' = worker
  /\ RunIs(n, "live", runs[n].deltas + 1)
  /\ events' = Append(events, Response(<<<<n, runs[n].deltas + 1>>>>, FALSE, <<>>))
Finishes(n) ==
  /\ Elsewhere /\ n \in DOMAIN runs /\ Live(n) /\ worker' = worker
  /\ RunIs(n, "done", runs[n].deltas)
  /\ events' = Append(events, Response(<<>>, TRUE, Updated(n)))

LEMMA EventsAre ==
  ASSUME runs \in Seq(RunRecords), NEW n \in DOMAIN runs
  PROVE  /\ IsEvent(NoticeEvent)
         /\ IsEvent(Response(<<<<n, runs[n].deltas + 1>>>>, FALSE, <<>>))
         /\ IsEvent(Response(<<>>, TRUE, Updated(n)))
<1>1. n \in Nat /\ runs[n].deltas \in Nat /\ runs[n].deltas + 1 \in Nat /\ runs[n].deltas + 1 > 0
  BY RunsAre
<1> DEFINE piece == <<n, runs[n].deltas + 1>>
           text == <<piece>>
<1>2. piece \in Pieces /\ piece[2] > 0
  BY <1>1 DEF Pieces
<1> HIDE DEF piece
<1>3. text \in Short /\ ToSet(text) = {piece} /\ <<>> \in Short /\ <<>> \in Texts /\ ToSet(<<>>) = {}
  <2>1. text \in Seq(Pieces) /\ Len(text) = 1 /\ <<>> \in Seq(Pieces)
    BY <1>2
  <2>2. \A p : ToSet(<<p>>) = {p}
    BY DEF ToSet
  <2>3. ToSet(<<>>) = {}
    BY DEF ToSet
  <2>4. QED
    BY <2>1, <2>2, <2>3, MessagesAre DEF Short, Texts
<1> HIDE DEF text
<1>4. Updated(n) \in Texts /\ Updated(n) # <<>>
  BY UpdatedPieces
<1>5. \A s \in Short, d \in BOOLEAN, c \in Texts :
        /\ Response(s, d, c) \in [kind : {"Response"}, text : Short, done : BOOLEAN, context : Texts]
        /\ Response(s, d, c).text = s /\ Response(s, d, c).done = d /\ Response(s, d, c).context = c
  BY DEF Response
<1>6. ASSUME NEW s \in Short, NEW d \in BOOLEAN, NEW c \in Texts, d => c # <<>>,
             \A p \in ToSet(s) : p[2] > 0
      PROVE  IsEvent(Response(s, d, c))
  <2> DEFINE e == Response(s, d, c)
  <2>1. /\ e \in [kind : {"Response"}, text : Short, done : BOOLEAN, context : Texts]
        /\ e.text = s /\ e.done = d /\ e.context = c
    BY <1>5
  <2> HIDE DEF e
  <2>2. IsEvent(e)
    BY <1>6, <2>1 DEF IsEvent
  <2>3. QED
    BY <2>2 DEF e
<1>7. IsEvent(Response(text, FALSE, <<>>)) /\ IsEvent(Response(<<>>, TRUE, Updated(n)))
  BY <1>2, <1>3, <1>4, <1>6
<1>8. QED
  BY <1>7 DEF text, piece, IsEvent

(* What every step of a run leaves in place. *)
LEMMA RunBase ==
  ASSUME Base, Elsewhere, NEW n \in DOMAIN runs, NEW pc, NEW deltas, RunIs(n, pc, deltas),
         pc # "asked", EventsOK', ActionsOK', RequestsFit', background' = background,
         worker' \in DOMAIN runs,
         \/ worker' = worker /\ Live(n) /\ actions' = actions
         \/ ui # "starting"
  PROVE  Base'
<1>1. /\ runs' \in Seq(RunRecords) /\ Len(runs') = Len(runs) /\ DOMAIN runs' = DOMAIN runs
      /\ \A m \in DOMAIN runs : /\ runs'[m].pc = IF m = n THEN pc ELSE runs[m].pc
                                /\ runs'[m].deltas = IF m = n THEN deltas ELSE runs[m].deltas
  BY Zenon DEF RunIs
<1>2. worker' \in 0 .. Len(runs')
  BY <1>1, RunsAre DEF Base, TerminalTypeOK
<1>3. TerminalTypeOK'
  BY <1>1, <1>2 DEF Base, TerminalTypeOK, Elsewhere
<1>4. PhasesFit'
  BY <1>1 DEF Base, PhasesFit, Elsewhere, Up, Live
<1>5. QED
  BY <1>3, <1>4 DEF Base

LEMMA LiveIsUp ==
  ASSUME Base, NEW n \in DOMAIN runs, Live(n)
  PROVE  Up /\ worker \in DOMAIN runs /\ (ui = "starting" => n = worker)
BY DEF Base, PhasesFit, Up, Live

LEMMA WorkerSteps ==
  ASSUME Base, NEW n \in DOMAIN runs, WorkerStep(n)
  PROVE  Base' /\ (Moves(n) \/ Says(n) \/ Finishes(n))
<1>1. runs \in Seq(RunRecords) /\ EventsOK /\ ActionsOK /\ RequestsFit
  BY PolledBase
<1>2. \A e : events \o <<e>> = Append(events, e) /\ events \o <<>> = events
  <2>1. PICK T : events \in Seq(T)
    BY <1>1 DEF EventsOK
  <2>2. QED
    BY <2>1, AppendOne
<1>3. /\ Live(n) /\ ui' = ui /\ app' = app /\ file' = file /\ worker' = worker
      /\ actions' = actions /\ background' = background
  BY DEF WorkerStep, Delta, RunFinished, RunFails, Cut, Goes
<1>4. Elsewhere /\ worker' \in DOMAIN runs
  BY <1>3, LiveIsUp DEF Elsewhere, Up
<1>5. ASSUME \A m \in DOMAIN runs : runs[m].pc = "asked" => runs'[m].pc = "asked",
             DOMAIN runs' = DOMAIN runs
      PROVE  ActionsOK' /\ RequestsFit'
  <2> DEFINE a == [kind |-> "Abort"]
  <2>1. IsAction(a)
    BY DEF IsAction
  <2> HIDE DEF a
  <2>2. QED
    BY <1>1, <1>3, <1>5, <2>1, ActionsStay
<1>6. ASSUME NEW pc, NEW deltas, RunIs(n, pc, deltas), pc # "asked", EventsOK' PROVE Base'
  <2>1. /\ \A m \in DOMAIN runs : runs[m].pc = "asked" => runs'[m].pc = "asked"
        /\ DOMAIN runs' = DOMAIN runs
    BY <1>3, <1>6 DEF RunIs, Live
  <2>2. QED
    BY <1>3, <1>4, <1>5, <1>6, <2>1, RunBase
<1>7. ASSUME NEW pc \in {"done", "failed", "silent"}, runs' = [runs EXCEPT ![n].pc = pc]
      PROVE  RunIs(n, pc, runs[n].deltas) /\ (EventsOK' => Base')
  <2>1. RunIs(n, pc, runs[n].deltas)
    BY <1>1, <1>7, RunGoes
  <2>2. QED
    BY <1>6, <2>1
<1>8. CASE Delta(n)
  <2> DEFINE e == Response(<<<<n, runs[n].deltas + 1>>>>, FALSE, <<>>)
  <2>1. runs' = [runs EXCEPT ![n].deltas = @ + 1] /\ events' = Append(events, e)
    BY <1>8 DEF Delta
  <2>2. RunIs(n, "live", runs[n].deltas + 1)
    BY <1>1, <1>3, <2>1, RunSays DEF Live
  <2>3. Says(n)
    BY <1>3, <1>4, <2>1, <2>2 DEF Says
  <2>4. IsEvent(e)
    BY <1>1, EventsAre
  <2> HIDE DEF e
  <2>5. EventsOK'
    BY <1>1, <2>1, <2>4, EventsStay
  <2>6. QED
    BY <1>6, <2>2, <2>3, <2>5
<1>9. CASE Goes(n, "done", <<Response(<<>>, TRUE, Updated(n))>>)
  <2> DEFINE e == Response(<<>>, TRUE, Updated(n))
  <2>1. runs' = [runs EXCEPT ![n].pc = "done"] /\ events' = Append(events, e)
    BY <1>2, <1>9 DEF Goes
  <2>2. RunIs(n, "done", runs[n].deltas) /\ (EventsOK' => Base')
    BY <1>7, <2>1
  <2>3. Finishes(n)
    BY <1>3, <1>4, <2>1, <2>2 DEF Finishes
  <2>4. IsEvent(e)
    BY <1>1, EventsAre
  <2> HIDE DEF e
  <2>5. EventsOK'
    BY <1>1, <2>1, <2>4, EventsStay
  <2>6. QED
    BY <2>2, <2>3, <2>5
<1>10. ASSUME NEW pc \in {"failed", "silent"}, Goes(n, pc, <<NoticeEvent>>) \/ Goes(n, pc, <<>>)
       PROVE  Base' /\ Moves(n)
  <2>1. /\ runs' = [runs EXCEPT ![n].pc = pc]
        /\ events' = events \/ events' = Append(events, NoticeEvent)
    BY <1>2, <1>10 DEF Goes
  <2>2. RunIs(n, pc, runs[n].deltas) /\ (EventsOK' => Base')
    BY <1>7, <2>1
  <2>3. Moves(n)
    BY <1>3, <1>4, <2>1, <2>2 DEF Moves
  <2>4. EventsOK'
    BY <1>1, <2>1, EventsAre, EventsStay
  <2>5. QED
    BY <2>2, <2>3, <2>4
<1>11. QED
  BY <1>8, <1>9, <1>10 DEF WorkerStep, RunFinished, RunFails, Cut

LEMMA SpawnStep ==
  ASSUME Base, Spawn
  PROVE  Base' /\ \E n \in DOMAIN runs : Moves(n)
<1> DEFINE n == Head(actions).run
           a == [kind |-> "Abort"]
<1>1. /\ actions # <<>> /\ Head(actions).kind = "Request" /\ n > 0 /\ worker' = n
      /\ runs' = [runs EXCEPT ![n].pc = "live"] /\ actions' = Tail(actions)
      /\ ui' = ui /\ app' = app /\ events' = events /\ file' = file /\ background' = background
  BY DEF Spawn, Takes, Serving
<1>2. /\ runs \in Seq(RunRecords) /\ EventsOK /\ ActionsOK /\ RequestsFit
      /\ ui \in {"running", "writing"}
  BY <1>1, PolledBase
<1>3. 1 \in DOMAIN actions /\ Head(actions) = actions[1]
  <2>1. PICK T : actions \in Seq(T)
    BY <1>2 DEF ActionsOK
  <2>2. /\ Len(actions) \in Nat \ {0} /\ DOMAIN actions = 1 .. Len(actions)
        /\ Head(actions) = actions[1]
    BY <1>1, <2>1, TailOne
  <2>3. QED
    BY <2>2, PlacesAre, Zenon
<1>4. n \in DOMAIN runs /\ runs[n].pc = "asked" /\ IsRequest(1)
  BY <1>1, <1>2, <1>3 DEF RequestsFit, IsRequest
<1>5. IsAction(a)
  BY DEF IsAction
<1> HIDE DEF a
<1>6. RunIs(n, "live", runs[n].deltas)
  <2> HIDE DEF n
  <2>1. QED
    BY <1>1, <1>2, <1>4, RunGoes
<1>7. /\ \A m \in DOMAIN runs : runs[m].pc = "asked" =>
           runs'[m].pc = "asked" \/ (IsRequest(1) /\ actions[1].run = m)
      /\ DOMAIN runs \subseteq DOMAIN runs'
  BY <1>3, <1>4, <1>6 DEF RunIs
<1>8. ActionsOK' /\ RequestsFit'
  BY <1>1, <1>2, <1>5, <1>7, ActionsStay
<1>9. EventsOK'
  BY <1>1, <1>2, <1>4, EventsAre, EventsStay
<1>10. Elsewhere
  BY <1>1, <1>2 DEF Elsewhere
<1> HIDE DEF n
<1>11. Base'
  BY <1>1, <1>2, <1>4, <1>6, <1>8, <1>9, <1>10, RunBase
<1>12. Moves(n)
  BY <1>1, <1>2, <1>4, <1>6, <1>10 DEF Moves
<1>13. QED
  BY <1>4, <1>11, <1>12

LEMMA AbortStep ==
  ASSUME Base, Abort
  PROVE  Base' /\ (Quiet \/ \E n \in DOMAIN runs : Moves(n))
<1> DEFINE a == [kind |-> "Abort"]
<1>1. /\ actions # <<>> /\ actions' = Tail(actions) /\ worker' = worker
      /\ runs' = IF Live(worker) THEN [runs EXCEPT ![worker].pc = "aborted"] ELSE runs
      /\ ui' = ui /\ app' = app /\ events' = events /\ file' = file /\ background' = background
  BY DEF Abort, Takes, Serving
<1>2. /\ runs \in Seq(RunRecords) /\ EventsOK /\ ActionsOK /\ RequestsFit /\ app \in StateRecords
      /\ ui \in {"running", "writing"} /\ Extends(app.messages, app.messages, <<>>)
      /\ background \in {"down", "loop", "clearing", "failed"}
  BY <1>1, PolledBase DEF Base, TerminalTypeOK
<1>3. worker \in DOMAIN runs
  BY <1>2 DEF Base, PhasesFit, Up
<1>4. IsAction(a)
  BY DEF IsAction
<1> HIDE DEF a
<1>5. CASE Live(worker)
  <2>1. RunIs(worker, "aborted", runs[worker].deltas)
    BY <1>1, <1>2, <1>3, <1>5, RunGoes
  <2>2. /\ \A m \in DOMAIN runs : runs[m].pc = "asked" => runs'[m].pc = "asked"
        /\ DOMAIN runs \subseteq DOMAIN runs'
    BY <1>3, <1>5, <2>1 DEF RunIs, Live
  <2>3. ActionsOK' /\ RequestsFit'
    BY <1>1, <1>2, <1>4, <2>2, ActionsStay
  <2>4. EventsOK'
    BY <1>1, <1>2, <1>3, EventsAre, EventsStay
  <2>5. Elsewhere
    BY <1>1, <1>2 DEF Elsewhere
  <2>6. Base'
    BY <1>1, <1>2, <1>3, <2>1, <2>3, <2>4, <2>5, RunBase
  <2>7. Moves(worker)
    BY <1>1, <1>3, <1>5, <2>1, <2>5 DEF Moves
  <2>8. QED
    BY <1>3, <2>6, <2>7
<1>6. CASE ~Live(worker)
  <2>1. runs' = runs
    BY <1>1, <1>6
  <2>2. ActionsOK' /\ RequestsFit'
    BY <1>1, <1>2, <1>4, <2>1, ActionsStay
  <2>3. Quiet
    BY <1>1, <1>2, <2>1 DEF Quiet, Up
  <2>4. QED
    BY <1>1, <1>2, <2>2, <2>3, QuietBase
<1>7. QED
  BY <1>5, <1>6

(* The loop takes a response. *)
Hears ==
  /\ ui = "running" /\ ui' \in {"running", "writing"} /\ file' \in {file, Torn}
  /\ runs' = runs /\ worker' = worker
  /\ events # <<>> /\ events' = Tail(events)
  /\ IsEvent(Head(events)) /\ Head(events).kind = "Response"
  /\ Extends(app.messages, app'.messages, Head(events).text)
  /\ app'.context = IF Head(events).done THEN Head(events).context ELSE app.context

LEMMA ResponseStep ==
  ASSUME Base, AgentPromptResponse
  PROVE  Hears /\ Base'
<1> DEFINE e == Head(events)
           a == [kind |-> "Abort"]
<1>1. /\ ui = "running" /\ events # <<>> /\ e.kind = "Response" /\ app' = HandleAgentResponse(app, e)
      /\ events' = Tail(events) /\ ui' \in {"running", "writing"} /\ file' \in {file, Torn}
      /\ actions' = actions /\ background' = background /\ worker' = worker /\ runs' = runs
  BY DEF AgentPromptResponse, Polling, SaveSession
<1>2. /\ runs \in Seq(RunRecords) /\ EventsOK /\ ActionsOK /\ RequestsFit /\ app \in StateRecords
  BY PolledBase
<1>3. IsEvent(e)
  <2>1. PICK T : events \in Seq(T) /\ \A i \in DOMAIN events : IsEvent(events[i])
    BY <1>2 DEF EventsOK
  <2>2. /\ Len(events) \in Nat \ {0} /\ DOMAIN events = 1 .. Len(events) /\ e = events[1]
    BY <1>1, <2>1, TailOne
  <2>3. 1 \in DOMAIN events
    BY <2>2, PlacesAre, Zenon
  <2>4. QED
    BY <2>1, <2>2, <2>3, Zenon
<1>4. IsAction(a)
  BY DEF IsAction
<1> HIDE DEF a, e
<1>5. /\ app' \in StateRecords /\ app'.context = IF e.done THEN e.context ELSE app.context
      /\ Extends(app.messages, app'.messages, e.text)
  BY <1>1, <1>2, <1>3, Responded
<1>6. EventsOK'
  BY <1>1, <1>2, <1>3, EventsStay
<1>7. ActionsOK' /\ RequestsFit'
  BY <1>1, <1>2, <1>4, ActionsStay
<1>8. Hears
  BY <1>1, <1>3, <1>5 DEF Hears, e
<1>9. TerminalTypeOK'
  BY <1>1, <1>5, <1>6, <1>7 DEF Base, TerminalTypeOK
<1>10. PhasesFit'
  BY <1>1 DEF Base, PhasesFit, Up
<1>11. QED
  BY <1>7, <1>8, <1>9, <1>10 DEF Base

(* A prompt goes out, with the context of that moment. *)
Sends ==
  /\ ui = "running" /\ ui' = "writing" /\ file' = Torn /\ events' = events /\ worker' = worker
  /\ DOMAIN runs' = 1 .. Len(runs) + 1 /\ DOMAIN runs = 1 .. Len(runs) /\ Len(runs) \in Nat
  /\ \A n \in DOMAIN runs : runs'[n] = runs[n]
  /\ runs'[Len(runs) + 1] = Run("asked", app.context)
  /\ app'.context = app.context
  /\ Extends(app.messages, app'.messages, <<<<Len(runs) + 1, 0>>>>)

LEMMA SendStep ==
  ASSUME Base, Polling, NEW input, Send(input)
  PROVE  Sends /\ Base'
<1> DEFINE n == Len(runs) + 1
           m == Message("User", input # "prompt", <<<<n, 0>>>>)
           long == AddMessage(app, m)
           a == [kind |-> "Request", run |-> n]
           new == Run("asked", app.context)
<1>1. /\ runs' = Append(runs, new) /\ app' = [long EXCEPT !.waiting = TRUE] /\ actions' = Append(actions, a)
      /\ ui = "running" /\ ui' = "writing" /\ file' = Torn
      /\ events' = events /\ background' = background /\ worker' = worker
  BY DEF Send, SaveSession, Polling
<1>2. /\ runs \in Seq(RunRecords) /\ EventsOK /\ ActionsOK /\ RequestsFit /\ app \in StateRecords
  BY PolledBase
<1>3. new \in RunRecords /\ new.deltas = 0 /\ new.pc = "asked"
  BY <1>2, RunsAre, StatesAre
<1> HIDE DEF new
<1>4. /\ runs' \in Seq(RunRecords) /\ Len(runs') = n /\ DOMAIN runs' = 1 .. n
      /\ DOMAIN runs = 1 .. Len(runs) /\ Len(runs) \in Nat
      /\ \A i \in 1 .. Len(runs) : runs'[i] = runs[i]
      /\ runs'[n] = new
  <2>1. RunRecords \cup {new} = RunRecords
    BY <1>3
  <2>2. QED
    BY <1>1, <1>2, <2>1, AppendOne
<1>5. n \in Nat /\ n \in DOMAIN runs' /\ n \notin DOMAIN runs /\ DOMAIN runs \subseteq DOMAIN runs'
  <2>1. n \in Nat
    BY <1>4
  <2>2. QED
    BY <1>4, <2>1, PlacesAre, Zenon
<1>6. \A i \in DOMAIN runs' : (i \in DOMAIN runs /\ runs'[i] = runs[i]) \/ (i = n /\ runs'[i] = new)
  BY <1>4, PlacesAre, Zenon
<1>7. IsAction(a) /\ a.kind = "Request" /\ a.run = n
  BY <1>5 DEF IsAction
<1>8. /\ long \in StateRecords /\ long.context = app.context
      /\ Extends(app.messages, long.messages, <<<<n, 0>>>>)
  <2> DEFINE command == input # "prompt"
             text == <<<<n, 0>>>>
  <2>1. command \in BOOLEAN
    OBVIOUS
  <2>2. m = Message("User", command, text)
    OBVIOUS
  <2> HIDE DEF command, m, n
  <2>3. m \in MessageRecords /\ m.text = text /\ text \in Short
    BY <1>5, <2>1, <2>2, MessagesAre
  <2> HIDE DEF text
  <2>4. QED
    BY <1>2, <2>3, Added DEF text
<1> HIDE DEF long, a, m, n
<1>9. /\ app' \in StateRecords /\ app'.context = app.context
      /\ Extends(app.messages, app'.messages, <<<<n, 0>>>>)
  BY <1>1, <1>8, StatesAre
<1>10. \A i \in DOMAIN runs : runs[i].pc = "asked" => runs'[i].pc = "asked"
  BY <1>4
<1>11. ActionsOK' /\ RequestsFit'
  BY <1>1, <1>2, <1>3, <1>4, <1>5, <1>7, <1>10, ActionsStay
<1>12. EventsOK'
  <2>1. IsEvent(NoticeEvent)
    BY DEF IsEvent
  <2>2. QED
    BY <1>1, <1>2, <2>1, EventsStay
<1>13. worker \in DOMAIN runs' /\ worker \in DOMAIN runs
  BY <1>1, <1>5 DEF Base, PhasesFit, Up
<1>14. TerminalTypeOK'
  <2>1. worker' \in 0 .. Len(runs')
    <3>1. \A k \in Nat : \A i \in 1 .. k : i \in 0 .. k
      OBVIOUS
    <3>2. QED
      BY <1>1, <1>4, <1>5, <1>13, <3>1, Zenon
  <2>2. QED
    BY <1>1, <1>4, <1>9, <1>11, <1>12, <2>1 DEF Base, TerminalTypeOK
<1>15. PhasesFit'
  BY <1>1, <1>3, <1>6, <1>13 DEF Base, PhasesFit, Up
<1>16. Sends
  BY <1>1, <1>4, <1>9 DEF Sends, new, n
<1>17. QED
  BY <1>11, <1>14, <1>15, <1>16 DEF Base

-----------------------------------------------------------------------------
(* Every step is one of these. *)
Opens ==
  /\ ui = "starting" /\ ui' = "running" /\ runs' = runs /\ events' = events /\ file' = file
  /\ worker' = worker /\ app = NewState /\ file.saved
  /\ app'.messages = file.messages /\ app'.context = file.context
Runs == \E n \in DOMAIN runs : Moves(n) \/ Says(n) \/ Finishes(n)

LEMMA Steps ==
  ASSUME Base, [Next]_vars
  PROVE  /\ Base'
         /\ UNCHANGED vars \/ Quiet \/ Starts \/ Stops \/ Opens \/ Hears \/ Sends \/ Runs
<1>1. CASE UNCHANGED vars
  BY <1>1 DEF vars, volatile, Base, TerminalTypeOK, EventsOK, ActionsOK, PhasesFit, RequestsFit,
              IsEvent, IsAction, NoticeEvent, IsRequest, Up
<1>2. CASE Start
  BY <1>2, StartStep
<1>3. CASE Stop
  BY <1>3, StopStep
<1>4. CASE LoopStep
  <2>1. NewSession \/ OpenSession \/ Stop \/ QuietLoop \/ AgentPromptResponse
    BY <1>4 DEF LoopStep, OpenTorn, SaveFails, QuietLoop
  <2>2. CASE OpenSession
    BY <2>2, OpenStep DEF Opens
  <2>3. QED
    BY <1>3, <2>1, <2>2, NewSessionStep, QuietLoopStep, ResponseStep
<1>5. CASE ServiceStep
  <2>1. Spawn \/ Abort \/ Stop \/ QuietService
    BY <1>5 DEF ServiceStep, ServiceEnds, QuietService
  <2>2. QED
    BY <1>3, <2>1, SpawnStep, AbortStep, QuietServiceStep DEF Runs
<1>6. CASE UserStep
  <2>1. Stop \/ QuietUser \/ (Polling /\ \E input : Send(input))
    BY <1>6 DEF UserStep, Enter, Quit, Resubmit, QuietUser
  <2>2. QED
    BY <1>3, <2>1, SendStep, QuietUserStep
<1>7. CASE \E n \in DOMAIN runs : WorkerStep(n)
  BY <1>7, WorkerSteps DEF Runs
<1>8. QED
  BY <1>1, <1>2, <1>3, <1>4, <1>5, <1>6, <1>7 DEF Next, Crash

LEMMA Beginning ==
  ASSUME Init
  PROVE  Base /\ ui = "down" /\ app = NewState /\ events = <<>> /\ runs = <<>> /\ file = NoFile
<1>1. runs = <<>> /\ events = <<>> /\ actions = <<>> /\ app = NewState /\ ui = "down" /\ file = NoFile
      /\ background = "down" /\ worker = 0
  BY DEF Init
<1>2. <<>> \in Seq(RunRecords) /\ <<>> \in Seq({}) /\ DOMAIN <<>> = {} /\ 0 \in 0 .. Len(<<>>)
  OBVIOUS
<1>3. EventsOK /\ ActionsOK /\ RequestsFit
  BY <1>1, <1>2 DEF EventsOK, ActionsOK, RequestsFit
<1>4. PhasesFit
  BY <1>1, <1>2 DEF PhasesFit, Up
<1>5. TerminalTypeOK
  BY <1>1, <1>2, <1>3, NewStateIs DEF TerminalTypeOK
<1>6. QED
  BY <1>1, <1>3, <1>4, <1>5 DEF Base

(* The types and the phases hold whatever the user and the server do.      *)
LEMMA BaseHolds == Spec => []Base
<1>1. Init => Base
  BY Beginning
<1>2. Base /\ [Next]_vars => Base'
  BY Steps
<1>3. QED
  BY <1>1, <1>2, PTL DEF Spec

-----------------------------------------------------------------------------
(* The session file. *)
SavedBegins ==
  ui \notin {"down", "starting"} /\ file.saved => Begins(file.messages, app.messages)

LEMMA SavedBeginsStep ==
  ASSUME Base, [Next]_vars, SavedBegins
  PROVE  SavedBegins'
<1> SUFFICES ASSUME ui' \notin {"down", "starting"}, file'.saved
             PROVE  Begins(file'.messages, app'.messages)
  BY DEF SavedBegins
<1>1. /\ file \in {NoFile, Torn} \cup SessionRecords /\ app \in StateRecords
      /\ app.messages \in Seq(MessageRecords)
  BY StatesAre DEF Base, TerminalTypeOK
<1>2. ~NoFile.saved /\ ~Torn.saved
  BY <1>1, FilesAre
<1>3. ASSUME NEW text, Extends(app.messages, app'.messages, text), file' = file,
             ui \notin {"down", "starting"}
      PROVE  Begins(file'.messages, app'.messages)
  <2>1. file.messages \in Seq(MessageRecords) /\ Begins(file.messages, app.messages)
    BY <1>1, <1>3, FilesAre DEF SavedBegins
  <2>2. QED
    BY <1>1, <1>3, <2>1, BeginsExtends
<1>4. CASE UNCHANGED vars
  BY <1>4 DEF vars, volatile, SavedBegins
<1>5. CASE Quiet
  <2>1. CASE file' = file
    <3>1. ui # "down" /\ (ui = "starting" => file = NoFile)
      BY <1>5 DEF Quiet, Up
    <3>2. QED
      BY <1>2, <1>3, <1>5, <2>1, <3>1 DEF Quiet
  <2>2. CASE file' = Session(app) /\ app' = app
    BY <1>1, <2>2, SessionsAre, BeginsItself
  <2>3. QED
    BY <1>2, <1>5, <2>1, <2>2 DEF Quiet
<1>6. CASE Starts \/ Stops
  BY <1>6 DEF Starts, Stops
<1>7. CASE Opens
  BY <1>1, <1>7, FilesAre, BeginsItself DEF Opens
<1>8. CASE Hears
  BY <1>2, <1>3, <1>8 DEF Hears
<1>9. CASE Sends
  BY <1>2, <1>9 DEF Sends
<1>10. CASE Runs
  BY <1>10 DEF Runs, Moves, Says, Finishes, Elsewhere, SavedBegins
<1>11. QED
  BY <1>4, <1>5, <1>6, <1>7, <1>8, <1>9, <1>10, Steps

(* What the session file holds is what the screen showed at some moment:   *)
(* save_session and from_session, for any clients and however many prompts, *)
(* interrupts, crashes and restarts.                                       *)
THEOREM SessionIsPrefix == Spec => []SavedIsPrefix
<1>1. Init => SavedBegins
  BY Beginning DEF SavedBegins
<1>2. Base /\ SavedBegins /\ [Next]_vars => SavedBegins'
  BY SavedBeginsStep
<1>3. SavedBegins => SavedIsPrefix
  BY DEF SavedBegins, SavedIsPrefix, Begins
<1>4. QED
  BY <1>1, <1>2, <1>3, BaseHolds, PTL DEF Spec

-----------------------------------------------------------------------------
(* The contexts. *)
LEMMA RemembersStays ==
  ASSUME NEW context, Remembers(context), DOMAIN runs \subseteq DOMAIN runs',
         \A n \in DOMAIN runs : runs[n].pc \in {"done", "gone"} => runs'[n].pc \in {"done", "gone"}
  PROVE  \A piece \in ToSet(context) :
           piece[1] \in DOMAIN runs' /\ (piece[2] = 0 => runs'[piece[1]].pc \in {"done", "gone"})
BY Zenon DEF Remembers

LEMMA EventsChange ==
  ASSUME EventsOK
  PROVE  /\ DOMAIN events = 1 .. Len(events) /\ Len(events) \in Nat
         /\ \A e : events' = Append(events, e) =>
              /\ DOMAIN events' = 1 .. Len(events) + 1 /\ Len(events') = Len(events) + 1
              /\ \A i \in DOMAIN events' : \/ i \in DOMAIN events /\ events'[i] = events[i]
                                           \/ i = Len(events) + 1 /\ i \notin DOMAIN events /\ events'[i] = e
         /\ events # <<>> /\ events' = Tail(events) =>
              /\ Len(events) \in Nat \ {0} /\ Len(events') = Len(events) - 1
              /\ DOMAIN events' = 1 .. Len(events) - 1
              /\ 1 \in DOMAIN events /\ Head(events) = events[1]
              /\ \A i \in DOMAIN events' : /\ i \in Nat /\ i + 1 \in DOMAIN events
                                           /\ events'[i] = events[i + 1]
<1>1. PICK T : events \in Seq(T)
  BY DEF EventsOK
<1>2. DOMAIN events = 1 .. Len(events) /\ Len(events) \in Nat
  BY <1>1, LenProperties
<1>3. ASSUME NEW e, events' = Append(events, e)
      PROVE  /\ DOMAIN events' = 1 .. Len(events) + 1 /\ Len(events') = Len(events) + 1
             /\ \A i \in DOMAIN events' : \/ i \in DOMAIN events /\ events'[i] = events[i]
                                          \/ i = Len(events) + 1 /\ i \notin DOMAIN events /\ events'[i] = e
  <2>1. /\ Len(events') = Len(events) + 1 /\ DOMAIN events' = 1 .. Len(events) + 1
        /\ \A i \in 1 .. Len(events) : events'[i] = events[i]
        /\ events'[Len(events) + 1] = e
    BY <1>1, <1>3, AppendOne
  <2>2. QED
    BY <1>2, <2>1, PlacesAre, Zenon
<1>4. ASSUME events # <<>>, events' = Tail(events)
      PROVE  /\ Len(events) \in Nat \ {0} /\ Len(events') = Len(events) - 1
             /\ DOMAIN events' = 1 .. Len(events) - 1
             /\ 1 \in DOMAIN events /\ Head(events) = events[1]
             /\ \A i \in DOMAIN events' : /\ i \in Nat /\ i + 1 \in DOMAIN events
                                          /\ events'[i] = events[i + 1]
  <2>1. /\ Len(events) \in Nat \ {0} /\ Len(events') = Len(events) - 1
        /\ DOMAIN events' = 1 .. Len(events) - 1 /\ Head(events) = events[1]
        /\ \A i \in 1 .. Len(events) - 1 : events'[i] = events[i + 1]
    BY <1>1, <1>4, TailOne
  <2>2. QED
    BY <1>2, <2>1, PlacesAre, Zenon
<1>5. QED
  BY <1>2, <1>3, <1>4, Zenon

(* A run that has finished stays so, or is gone with its process.          *)
LEMMA FinishedStays ==
  ASSUME Base, [Next]_vars
  PROVE  /\ DOMAIN runs \subseteq DOMAIN runs'
         /\ \A n \in DOMAIN runs : /\ runs[n].pc \in {"done", "gone"} => runs'[n].pc \in {"done", "gone"}
                                   /\ runs'[n].greeting = runs[n].greeting
                                   /\ runs'[n].context \in {runs[n].context, <<>>}
<1>1. CASE UNCHANGED vars \/ Quiet \/ Opens \/ Hears
  BY <1>1 DEF vars, volatile, Quiet, Opens, Hears
<1>2. CASE Starts \/ Sends
  <2>1. \A n \in Nat : 1 .. n \subseteq 1 .. n + 1
    OBVIOUS
  <2>2. QED
    BY <1>2, <2>1 DEF Starts, Sends
<1>3. CASE Stops
  BY <1>3 DEF Stops
<1>4. CASE Runs
  BY <1>4 DEF Runs, Moves, Says, Finishes, RunIs, Live
<1>5. QED
  BY <1>1, <1>2, <1>3, <1>4, Steps

LEMMA ContextsRememberStep ==
  ASSUME Base, [Next]_vars, ContextsRemember
  PROVE  ContextsRemember'
<1>1. DOMAIN runs \subseteq DOMAIN runs'
  BY FinishedStays
<1>2. \A context : Remembers(context) =>
        \A piece \in ToSet(context) :
          piece[1] \in DOMAIN runs' /\ (piece[2] = 0 => runs'[piece[1]].pc \in {"done", "gone"})
  BY FinishedStays, RemembersStays
<1>3. ToSet(<<>>) = {}
  BY DEF ToSet
<1>4. ASSUME \/ app'.context = app.context \/ app'.context = <<>>
             \/ file.saved /\ app'.context = file.context
             \/ \E i \in DOMAIN events : Responds(i) /\ app'.context = events[i].context
      PROVE  Remembers(app.context)'
  BY <1>2, <1>3, <1>4 DEF Remembers, ContextsRemember
<1>5. ASSUME \A n \in DOMAIN runs' : \/ n \in DOMAIN runs /\ runs'[n].context \in {runs[n].context, <<>>}
                                     \/ runs'[n].context \in {app.context, <<>>}
      PROVE  (\A n \in DOMAIN runs : Remembers(runs[n].context))'
  BY <1>2, <1>3, <1>5 DEF Remembers, ContextsRemember
<1>6. ASSUME \A i \in DOMAIN events' :
               \/ \E j \in DOMAIN events : events'[i] = events[j]
               \/ events'[i].kind = "Response" =>
                    \A piece \in ToSet(events'[i].context) :
                      piece[1] \in DOMAIN runs' /\ (piece[2] = 0 => runs'[piece[1]].pc \in {"done", "gone"})
      PROVE  (\A i \in DOMAIN events : Responds(i) => Remembers(events[i].context))'
  BY <1>2, <1>6 DEF Remembers, ContextsRemember, Responds
<1>7. ASSUME \/ file' = file \/ ~file'.saved
             \/ file' = Session(app)
      PROVE  (file.saved => Remembers(file.context))'
  <2>1. Session(app).context = app.context
    BY SessionsAre DEF Base, TerminalTypeOK
  <2>2. QED
    BY <1>2, <1>7, <2>1 DEF Remembers, ContextsRemember
<1>8. EventsOK /\ ~Torn.saved /\ NewState.context = <<>> /\ NoticeEvent.kind # "Response"
  BY NewStateIs DEF Base, TerminalTypeOK, Torn, NoticeEvent
<1>9. \A n \in DOMAIN runs : runs'[n].context \in {runs[n].context, <<>>}
  BY FinishedStays
<1>10. CASE UNCHANGED vars \/ Quiet \/ Opens
  <2>1. runs' = runs /\ (file' = file \/ file' = Torn \/ file' = Session(app))
    BY <1>10 DEF vars, volatile, Quiet, Opens
  <2>2. app'.context = app.context \/ (file.saved /\ app'.context = file.context)
    BY <1>10 DEF vars, volatile, Quiet, Opens
  <2>3. \/ events' = events \/ events' = Append(events, NoticeEvent)
        \/ events # <<>> /\ events' = Tail(events)
    BY <1>10 DEF vars, volatile, Quiet, Opens
  <2>4. \A i \in DOMAIN events' : \/ \E j \in DOMAIN events : events'[i] = events[j]
                                  \/ events'[i].kind # "Response"
    BY <1>8, <2>3, EventsChange, Zenon
  <2>5. QED
    BY <1>4, <1>5, <1>6, <1>7, <1>8, <1>9, <2>1, <2>2, <2>4 DEF ContextsRemember
<1>11. CASE Starts \/ Stops
  <2>1. app'.context = <<>> /\ events' = <<>> /\ file' = file
    BY <1>8, <1>11 DEF Starts, Stops
  <2>2. \A n \in DOMAIN runs' : n \in DOMAIN runs \/ runs'[n].context = <<>>
    <3>1. CASE Stops
      BY <3>1 DEF Stops
    <3>2. CASE Starts
      <4>1. Run("live", <<>>).context = <<>>
        BY DEF Run
      <4>2. QED
        BY <3>2, <4>1, PlacesAre, Zenon DEF Starts
    <3>3. QED
      BY <1>11, <3>1, <3>2
  <2>3. DOMAIN events' = {}
    BY <2>1
  <2>4. QED
    BY <1>4, <1>5, <1>6, <1>7, <1>9, <2>1, <2>2, <2>3 DEF ContextsRemember
<1>12. CASE Hears
  <2>1. /\ runs' = runs /\ (file' = file \/ file' = Torn) /\ events # <<>> /\ events' = Tail(events)
        /\ Head(events).kind = "Response"
        /\ app'.context = Head(events).context \/ app'.context = app.context
    BY <1>12 DEF Hears
  <2>2. \A i \in DOMAIN events' : \E j \in DOMAIN events : events'[i] = events[j]
    BY <1>8, <2>1, EventsChange, ZenonT(40)
  <2>3. app'.context = app.context \/ \E i \in DOMAIN events : Responds(i) /\ app'.context = events[i].context
    BY <1>8, <2>1, EventsChange, ZenonT(40) DEF Responds
  <2>4. QED
    BY <1>4, <1>5, <1>6, <1>7, <1>8, <1>9, <2>1, <2>2, <2>3 DEF ContextsRemember
<1>13. CASE Sends
  <2>1. app'.context = app.context /\ events' = events /\ ~file'.saved
    BY <1>8, <1>13 DEF Sends
  <2>2. \A n \in DOMAIN runs' : n \in DOMAIN runs \/ runs'[n].context = app.context
    <3>1. Run("asked", app.context).context = app.context
      BY DEF Run
    <3>2. QED
      BY <1>13, <3>1, PlacesAre, Zenon DEF Sends
  <2>3. QED
    BY <1>4, <1>5, <1>6, <1>7, <1>9, <2>1, <2>2 DEF ContextsRemember
<1>14. CASE Runs
  <2>1. app' = app /\ file' = file /\ DOMAIN runs' = DOMAIN runs
    BY <1>14 DEF Runs, Moves, Says, Finishes, Elsewhere, RunIs
  <2>2. PICK n \in DOMAIN runs : Moves(n) \/ Says(n) \/ Finishes(n)
    BY <1>14 DEF Runs
  <2>3. CASE Moves(n)
    <3>1. \A i \in DOMAIN events' : \/ \E j \in DOMAIN events : events'[i] = events[j]
                                    \/ events'[i].kind # "Response"
      BY <1>8, <2>3, EventsChange, Zenon DEF Moves
    <3>2. QED
      BY <1>4, <1>5, <1>6, <1>7, <1>9, <2>1, <3>1 DEF ContextsRemember
  <2>4. CASE Says(n)
    <3> DEFINE e == Response(<<<<n, runs[n].deltas + 1>>>>, FALSE, <<>>)
    <3>1. e.context = <<>> /\ events' = Append(events, e)
      BY <2>4 DEF Says, Response
    <3> HIDE DEF e
    <3>2. \A i \in DOMAIN events' : \/ \E j \in DOMAIN events : events'[i] = events[j]
                                    \/ events'[i].context = <<>>
      <4>1. \A i \in DOMAIN events' : \/ i \in DOMAIN events /\ events'[i] = events[i]
                                      \/ events'[i] = e
        BY <1>8, <3>1, EventsChange, Zenon
      <4>2. QED
        BY <3>1, <4>1, Zenon
    <3>3. QED
      BY <1>3, <1>4, <1>5, <1>6, <1>7, <1>9, <2>1, <3>2 DEF ContextsRemember
  <2>5. CASE Finishes(n)
    <3> DEFINE e == Response(<<>>, TRUE, Updated(n))
    <3>1. e.context = Updated(n) /\ events' = Append(events, e) /\ runs'[n].pc = "done"
      BY <2>5 DEF Finishes, Response, RunIs
    <3> HIDE DEF e
    <3>2. ToSet(Updated(n)) = ToSet(runs[n].context) \cup {<<n, k>> : k \in 0 .. runs[n].deltas}
      BY UpdatedPieces DEF Base, TerminalTypeOK
    <3>3. \A piece \in ToSet(Updated(n)) :
            piece[1] \in DOMAIN runs' /\ (piece[2] = 0 => runs'[piece[1]].pc \in {"done", "gone"})
      <4> SUFFICES ASSUME NEW piece \in ToSet(Updated(n))
                   PROVE  piece[1] \in DOMAIN runs' /\ (piece[2] = 0 => runs'[piece[1]].pc \in {"done", "gone"})
        OBVIOUS
      <4>1. CASE piece \in ToSet(runs[n].context)
        BY <1>2, <4>1 DEF ContextsRemember
      <4>2. CASE \E k \in 0 .. runs[n].deltas : piece = <<n, k>>
        BY <2>1, <3>1, <4>2
      <4>3. QED
        BY <3>2, <4>1, <4>2
    <3>4. \A i \in DOMAIN events' : \/ \E j \in DOMAIN events : events'[i] = events[j]
                                    \/ events'[i].context = Updated(n)
      <4>1. \A i \in DOMAIN events' : \/ i \in DOMAIN events /\ events'[i] = events[i]
                                      \/ events'[i] = e
        BY <1>8, <3>1, EventsChange, Zenon
      <4>2. QED
        BY <3>1, <4>1, Zenon
    <3>5. QED
      BY <1>4, <1>5, <1>6, <1>7, <1>9, <2>1, <3>3, <3>4 DEF ContextsRemember
  <2>6. QED
    BY <2>2, <2>3, <2>4, <2>5
<1>15. QED
  BY <1>10, <1>11, <1>12, <1>13, <1>14, Steps

(* Abort reaches the last worker while it runs, and its text is in no      *)
(* context then or ever after.                                             *)
THEOREM AbortedIsForgotten == Spec => []InterruptedIsForgotten
<1>1. Init => ContextsRemember
  <2>1. ToSet(<<>>) = {} /\ DOMAIN <<>> = {} /\ ~NoFile.saved
    BY DEF ToSet, NoFile
  <2>2. QED
    BY <2>1, Beginning, NewStateIs DEF ContextsRemember, Remembers
<1>2. Base /\ ContextsRemember /\ [Next]_vars => ContextsRemember'
  BY ContextsRememberStep
<1>3. ContextsRemember => InterruptedIsForgotten
  <2> SUFFICES ASSUME ContextsRemember, NEW n \in DOMAIN runs, runs[n].pc = "aborted",
                      NEW context, Remembers(context)
               PROVE  <<n, 0>> \notin ToSet(context)
    BY Zenon DEF ContextsRemember, InterruptedIsForgotten
  <2>1. QED
    BY DEF Remembers
<1>4. QED
  BY <1>1, <1>2, <1>3, BaseHolds, PTL DEF Spec

-----------------------------------------------------------------------------
(* The pieces on their way. *)
LEMMA SentAre ==
  ASSUME NEW es, NEW i, NEW p
  PROVE  p \in Sent(es, i) <=>
           \E j \in DOMAIN es : j < i /\ es[j].kind = "Response" /\ p \in ToSet(es[j].text)
BY DEF Sent

Brings(e) == IF e.kind = "Response" THEN ToSet(e.text) ELSE {}

LEMMA SentSame ==
  ASSUME NEW s, NEW t, NEW n \in Nat, DOMAIN s = 1 .. n, DOMAIN t = 1 .. n + 1,
         \A i \in DOMAIN s : t[i] = s[i]
  PROVE  \A i \in 1 .. n + 1 : Sent(t, i) = Sent(s, i)
<1>1. /\ \A i \in 1 .. n + 1 : ~(n + 1 < i)
      /\ \A i \in 1 .. n : i \in 1 .. n + 1
      /\ \A i \in 1 .. n + 1 : i \in 1 .. n \/ i = n + 1
  OBVIOUS
<1>2. ASSUME NEW i \in 1 .. n + 1 PROVE Sent(t, i) = Sent(s, i)
  <2>1. ASSUME NEW p PROVE p \in Sent(t, i) <=> p \in Sent(s, i)
    <3>1. p \in Sent(t, i) <=> \E j \in DOMAIN t : j < i /\ t[j].kind = "Response" /\ p \in ToSet(t[j].text)
      BY SentAre
    <3>2. p \in Sent(s, i) <=> \E j \in DOMAIN s : j < i /\ s[j].kind = "Response" /\ p \in ToSet(s[j].text)
      BY SentAre
    <3>3. QED
      BY <1>1, <3>1, <3>2, Zenon
  <2>2. QED
    BY <2>1
<1>3. QED
  BY <1>2

LEMMA SentMore ==
  ASSUME NEW s, NEW t, NEW n \in Nat, DOMAIN s = 1 .. n, DOMAIN t = 1 .. n + 1,
         \A i \in DOMAIN s : t[i] = s[i]
  PROVE  Sent(t, (n + 1) + 1) = Sent(s, n + 1) \cup Brings(t[n + 1])
<1> DEFINE e == t[n + 1]
<1>1. /\ n + 1 \in 1 .. n + 1 /\ n + 1 < (n + 1) + 1
      /\ \A i \in 1 .. n : i \in 1 .. n + 1 /\ i < n + 1 /\ i < (n + 1) + 1
      /\ \A i \in 1 .. n + 1 : i \in 1 .. n \/ i = n + 1
  OBVIOUS
<1>2. ASSUME NEW p PROVE p \in Sent(t, (n + 1) + 1) <=> p \in Sent(s, n + 1) \/ p \in Brings(e)
  <2> DEFINE m == (n + 1) + 1
  <2>1. p \in Sent(t, m) <=> \E j \in DOMAIN t : j < m /\ t[j].kind = "Response" /\ p \in ToSet(t[j].text)
    <3> HIDE DEF m
    <3>1. QED
      BY SentAre
  <2>2. p \in Sent(s, n + 1) <=> \E j \in DOMAIN s : j < n + 1 /\ s[j].kind = "Response" /\ p \in ToSet(s[j].text)
    BY SentAre
  <2>3. p \in Brings(e) <=> e.kind = "Response" /\ p \in ToSet(e.text)
    BY DEF Brings
  <2>4. QED
    BY <1>1, <2>1, <2>2, <2>3, Zenon
<1>3. QED
  BY <1>2

LEMMA SentShorter ==
  ASSUME NEW s, NEW t, NEW n \in Nat \ {0}, DOMAIN s = 1 .. n, DOMAIN t = 1 .. n - 1,
         \A i \in DOMAIN t : t[i] = s[i + 1]
  PROVE  \A i \in 1 .. n : Sent(s, i + 1) = Sent(t, i) \cup Brings(s[1])
<1> SUFFICES ASSUME NEW i \in 1 .. n, NEW p
             PROVE  p \in Sent(s, i + 1) <=> p \in Sent(t, i) \/ p \in Brings(s[1])
  OBVIOUS
<1>1. /\ 1 < i + 1 /\ 1 \in 1 .. n
      /\ \A j \in 1 .. n : j = 1 \/ (j - 1 \in 1 .. n - 1 /\ (j - 1) + 1 = j)
      /\ \A j \in 1 .. n - 1 : (j < i <=> j + 1 < i + 1) /\ j + 1 \in 1 .. n
  OBVIOUS
<1> DEFINE k == i + 1
<1>2. p \in Sent(s, k) <=> \E j \in DOMAIN s : j < k /\ s[j].kind = "Response" /\ p \in ToSet(s[j].text)
  <2> HIDE DEF k
  <2>1. QED
    BY SentAre
<1>3. p \in Sent(t, i) <=> \E j \in DOMAIN t : j < i /\ t[j].kind = "Response" /\ p \in ToSet(t[j].text)
  BY SentAre
<1>4. p \in Brings(s[1]) <=> s[1].kind = "Response" /\ p \in ToSet(s[1].text)
  BY DEF Brings
<1>5. ASSUME p \in Sent(s, k) PROVE p \in Sent(t, i) \/ p \in Brings(s[1])
  <2>1. PICK j \in DOMAIN s : j < k /\ s[j].kind = "Response" /\ p \in ToSet(s[j].text)
    BY <1>2, <1>5
  <2>2. CASE j = 1
    BY <1>4, <2>1, <2>2
  <2>3. CASE j # 1
    <3>1. j - 1 \in DOMAIN t /\ (j - 1) + 1 = j
      BY <1>1, <2>3, Zenon
    <3>2. (j - 1) < i /\ t[j - 1] = s[j]
      BY <1>1, <2>1, <3>1, Zenon
    <3>3. QED
      BY <1>3, <2>1, <3>1, <3>2, Zenon
  <2>4. QED
    BY <2>2, <2>3
<1>6. ASSUME p \in Sent(t, i) PROVE p \in Sent(s, k)
  <2>1. PICK j \in DOMAIN t : j < i /\ t[j].kind = "Response" /\ p \in ToSet(t[j].text)
    BY <1>3, <1>6
  <2>2. j + 1 \in DOMAIN s /\ j + 1 < k /\ t[j] = s[j + 1]
    BY <1>1, <2>1, Zenon
  <2>3. QED
    BY <1>2, <2>1, <2>2, Zenon
<1>7. ASSUME p \in Brings(s[1]) PROVE p \in Sent(s, k)
  BY <1>1, <1>2, <1>4, <1>7, Zenon
<1>8. QED
  BY <1>5, <1>6, <1>7

LEMMA ComingGrows ==
  ASSUME DOMAIN events = 1 .. Len(events), Len(events) \in Nat,
         DOMAIN events' = 1 .. Len(events) + 1, Len(events') = Len(events) + 1,
         \A i \in DOMAIN events : events'[i] = events[i]
  PROVE  /\ \A i \in 1 .. Len(events) + 1 : Sent(events', i) = Sent(events, i)
         /\ Coming' = Coming \cup Brings(events'[Len(events) + 1])
<1>1. Coming' = Sent(events', Len(events') + 1)
  BY DEF Coming
<1>2. Coming' = Sent(events', (Len(events) + 1) + 1)
  BY <1>1
<1>3. \A i \in 1 .. Len(events) + 1 : Sent(events', i) = Sent(events, i)
  BY SentSame
<1>4. Sent(events', (Len(events) + 1) + 1) = Sent(events, Len(events) + 1) \cup Brings(events'[Len(events) + 1])
  BY SentMore
<1>5. QED
  BY <1>2, <1>3, <1>4 DEF Coming

LEMMA SentGrows ==
  ASSUME EventsOK, NEW e, events' = Append(events, e)
  PROVE  /\ \A i \in 1 .. Len(events) + 1 : Sent(events', i) = Sent(events, i)
         /\ Coming' = Coming \cup Brings(e)
<1>1. /\ DOMAIN events = 1 .. Len(events) /\ Len(events) \in Nat
      /\ DOMAIN events' = 1 .. Len(events) + 1 /\ Len(events') = Len(events) + 1
      /\ \A i \in DOMAIN events' : \/ i \in DOMAIN events /\ events'[i] = events[i]
                                   \/ i = Len(events) + 1 /\ i \notin DOMAIN events /\ events'[i] = e
  BY EventsChange, Zenon
<1>2. (\A i \in DOMAIN events : events'[i] = events[i]) /\ events'[Len(events) + 1] = e
  BY <1>1, PlacesAre, Zenon
<1>3. QED
  BY <1>1, <1>2, ComingGrows

LEMMA SentShrinks ==
  ASSUME EventsOK, events # <<>>, events' = Tail(events)
  PROVE  /\ \A i \in DOMAIN events' : /\ i + 1 \in DOMAIN events /\ events'[i] = events[i + 1]
                                      /\ Sent(events, i + 1) = Sent(events', i) \cup Brings(Head(events))
         /\ Coming = Coming' \cup Brings(Head(events))
<1> DEFINE n == Len(events)
<1>1. /\ DOMAIN events = 1 .. n /\ n \in Nat \ {0} /\ Len(events') = n - 1
      /\ DOMAIN events' = 1 .. n - 1
      /\ 1 \in DOMAIN events /\ Head(events) = events[1]
      /\ \A i \in DOMAIN events' : i \in Nat /\ i + 1 \in DOMAIN events /\ events'[i] = events[i + 1]
  BY EventsChange, Zenon
<1>2. \A m \in Nat \ {0} : /\ (m - 1) + 1 = m /\ m \in 1 .. m /\ \A i \in 1 .. m - 1 : i \in 1 .. m
  OBVIOUS
<1>3. \A i \in 1 .. n : Sent(events, i + 1) = Sent(events', i) \cup Brings(events[1])
  BY <1>1, SentShorter
<1>4. Coming = Sent(events, n + 1) /\ Coming' = Sent(events', (n - 1) + 1)
  <2>1. Coming = Sent(events, n + 1)
    BY DEF Coming
  <2>2. Coming' = Sent(events', Len(events') + 1)
    BY DEF Coming
  <2>3. QED
    BY <1>1, <2>1, <2>2, Zenon
<1>5. Coming = Coming' \cup Brings(Head(events))
  BY <1>1, <1>2, <1>3, <1>4, Zenon
<1>6. \A i \in DOMAIN events' : i \in 1 .. n
  BY <1>1, <1>2, Zenon
<1>7. QED
  BY <1>1, <1>3, <1>5, <1>6, Zenon

LEMMA InTurnGrows ==
  ASSUME EventsOK, InTurn, NEW e, events' = Append(events, e),
         \A p \in Coming, q \in Brings(e) : p[1] = q[1] => p[2] < q[2]
  PROVE  InTurn'
<1> SUFFICES ASSUME NEW i \in DOMAIN events', NEW j \in DOMAIN events', i < j,
                    events'[i].kind = "Response", events'[j].kind = "Response",
                    NEW p \in ToSet(events'[i].text), NEW q \in ToSet(events'[j].text), p[1] = q[1]
             PROVE  p[2] < q[2]
  BY DEF InTurn, Responds
<1>1. /\ DOMAIN events = 1 .. Len(events) /\ Len(events) \in Nat
      /\ DOMAIN events' = 1 .. Len(events) + 1
      /\ \A k \in DOMAIN events' : \/ k \in DOMAIN events /\ events'[k] = events[k]
                                   \/ k = Len(events) + 1 /\ k \notin DOMAIN events /\ events'[k] = e
  BY EventsChange, Zenon
<1>2. \A n \in Nat : \A a, b \in 1 .. n + 1 : a < b => a \in 1 .. n /\ a < n + 1
  OBVIOUS
<1>3. i \in DOMAIN events /\ i < Len(events) + 1 /\ events'[i] = events[i]
  BY <1>1, <1>2, PlacesAre, Zenon
<1>4. CASE j \in DOMAIN events /\ events'[j] = events[j]
  BY <1>3, <1>4, Zenon DEF InTurn, Responds
<1>5. CASE events'[j] = e
  <2>1. q \in Brings(e)
    BY <1>5 DEF Brings
  <2>2. p \in Coming
    <3>1. \E k \in DOMAIN events : k < Len(events) + 1 /\ events[k].kind = "Response" /\ p \in ToSet(events[k].text)
      BY <1>3, Zenon
    <3>2. QED
      BY <3>1, SentAre DEF Coming
  <2>3. QED
    BY <2>1, <2>2
<1>6. QED
  BY <1>1, <1>4, <1>5, Zenon

LEMMA InTurnShrinks ==
  ASSUME EventsOK, InTurn, events # <<>>, events' = Tail(events)
  PROVE  InTurn'
<1> SUFFICES ASSUME NEW i \in DOMAIN events', NEW j \in DOMAIN events', i < j,
                    events'[i].kind = "Response", events'[j].kind = "Response",
                    NEW p \in ToSet(events'[i].text), NEW q \in ToSet(events'[j].text), p[1] = q[1]
             PROVE  p[2] < q[2]
  BY DEF InTurn, Responds
<1>1. /\ DOMAIN events' = 1 .. Len(events) - 1
      /\ \A k \in DOMAIN events' : k \in Nat /\ k + 1 \in DOMAIN events /\ events'[k] = events[k + 1]
  BY EventsChange, Zenon
<1>2. \A a, b \in Nat : a < b => a + 1 < b + 1
  OBVIOUS
<1>3. i + 1 \in DOMAIN events /\ j + 1 \in DOMAIN events /\ i + 1 < j + 1
      /\ events'[i] = events[i + 1] /\ events'[j] = events[j + 1]
  BY <1>1, <1>2, Zenon
<1>4. QED
  BY <1>3, Zenon DEF InTurn, Responds

(* The first piece to come is behind the others. *)
LEMMA FirstIsFirst ==
  ASSUME EventsOK, InTurn, events # <<>>, events' = Tail(events)
  PROVE  \A p \in Brings(Head(events)), q \in Coming' : p[1] = q[1] => p[2] < q[2]
<1> SUFFICES ASSUME NEW p \in Brings(Head(events)), NEW q \in Coming', p[1] = q[1]
             PROVE  p[2] < q[2]
  OBVIOUS
<1>1. /\ 1 \in DOMAIN events /\ Head(events) = events[1] /\ DOMAIN events' = 1 .. Len(events) - 1
      /\ \A k \in DOMAIN events' : k \in Nat /\ k + 1 \in DOMAIN events /\ events'[k] = events[k + 1]
  BY EventsChange, Zenon
<1>2. events[1].kind = "Response" /\ p \in ToSet(events[1].text)
  BY <1>1 DEF Brings
<1>3. q \in Sent(events', Len(events') + 1)
  BY DEF Coming
<1>4. PICK j \in DOMAIN events' : events'[j].kind = "Response" /\ q \in ToSet(events'[j].text)
  BY <1>3 DEF Sent
<1>5. j + 1 \in DOMAIN events /\ events'[j] = events[j + 1] /\ 1 < j + 1
  <2>1. \A k \in Nat : \A i \in 1 .. k - 1 : 1 < i + 1
    OBVIOUS
  <2>2. Len(events) \in Nat
    BY EventsChange, Zenon
  <2>3. QED
    BY <1>1, <2>1, <2>2, Zenon
<1>6. QED
  BY <1>1, <1>2, <1>4, <1>5, Zenon DEF InTurn, Responds

LEMMA PiecesAre ==
  ASSUME Base
  PROVE  /\ Shown(app.messages) \subseteq Pieces
         /\ Coming \subseteq Pieces /\ \A p \in Coming : p[2] > 0
         /\ \A p \in Pieces : p[1] \in Nat /\ p[2] \in Nat /\ p = <<p[1], p[2]>>
<1>1. \A p \in Pieces : p[1] \in Nat /\ p[2] \in Nat /\ p = <<p[1], p[2]>>
  BY DEF Pieces
<1>2. \A text \in Texts : ToSet(text) \subseteq Pieces
  BY DEF Texts, ToSet
<1>3. ASSUME NEW p \in Shown(app.messages) PROVE p \in Pieces
  <2>1. app.messages \in Seq(MessageRecords)
    BY StatesAre DEF Base, TerminalTypeOK
  <2>2. PICK i \in DOMAIN app.messages : p \in ToSet(app.messages[i].text)
    BY DEF Shown
  <2>3. app.messages[i].text \in Texts
    BY <2>1, TextsAreSequences
  <2>4. QED
    BY <1>2, <2>2, <2>3
<1>4. ASSUME NEW p \in Coming PROVE p \in Pieces /\ p[2] > 0
  <2>1. PICK j \in DOMAIN events : events[j].kind = "Response" /\ p \in ToSet(events[j].text)
    BY DEF Coming, Sent
  <2>2. IsEvent(events[j])
    BY DEF Base, TerminalTypeOK, EventsOK
  <2>3. events[j].text \in Short /\ \A q \in ToSet(events[j].text) : q[2] > 0
    BY <2>1, <2>2 DEF IsEvent, NoticeEvent
  <2>4. QED
    BY <1>2, <2>1, <2>3, TextsAreSequences
<1>5. QED
  BY <1>1, <1>3, <1>4

-----------------------------------------------------------------------------
(* The order of the pieces, step by step. *)
LEMMA FileInOrder ==
  ASSUME Base, InOrderInv, file' = file \/ file' = Torn \/ file' = Session(app)
  PROVE  (file.saved => PiecesInOrder(file.messages))'
<1>1. Session(app).messages = app.messages /\ ~Torn.saved
  BY SessionsAre DEF Base, TerminalTypeOK, Torn
<1>2. QED
  BY <1>1 DEF InOrderInv, ScreenInOrder

LEMMA NothingShown ==
  Shown(<<>>) = {} /\ PiecesInOrder(<<>>) /\ Brings(NoticeEvent) = {} /\ ToSet(<<>>) = {}
  /\ \A es : es = <<>> => Sent(es, Len(es) + 1) = {}
<1>1. DOMAIN <<>> = {}
  OBVIOUS
<1>2. Spots(<<>>) = {} /\ Shown(<<>>) = {}
  BY <1>1 DEF Spots, Shown
<1>3. PiecesInOrder(<<>>)
  BY <1>2 DEF PiecesInOrder
<1>4. Brings(NoticeEvent) = {}
  BY DEF Brings, NoticeEvent
<1>5. ToSet(<<>>) = {}
  BY DEF ToSet
<1>6. \A es : es = <<>> => Sent(es, Len(es) + 1) = {}
  BY <1>1 DEF Sent
<1>7. QED
  BY <1>2, <1>3, <1>4, <1>5, <1>6

LEMMA QuietPieces ==
  ASSUME Base, Quiet
  PROVE  Shown(app'.messages) = Shown(app.messages) /\ Coming' = Coming
<1>1. Shown(app'.messages) = Shown(app.messages)
  <2>1. app.messages \in Seq(MessageRecords) /\ Extends(app.messages, app'.messages, <<>>)
    BY StatesAre DEF Base, TerminalTypeOK, Quiet
  <2>2. Shown(app'.messages) = Shown(app.messages) \cup ToSet(<<>>)
    BY <2>1, MessagesAre, ShownExtends
  <2>3. QED
    BY <2>2, NothingShown
<1>2. EventsOK
  BY DEF Base, TerminalTypeOK
<1>3. CASE events' = events
  BY <1>1, <1>3 DEF Coming
<1>4. CASE events' = Append(events, NoticeEvent)
  <2>1. Coming' = Coming \cup Brings(NoticeEvent)
    BY <1>2, <1>4, SentGrows
  <2>2. QED
    BY <1>1, <2>1, NothingShown
<1>5. CASE events # <<>> /\ Head(events) = NoticeEvent /\ events' = Tail(events)
  <2>1. Coming = Coming' \cup Brings(NoticeEvent)
    BY <1>2, <1>5, SentShrinks
  <2>2. QED
    BY <1>1, <2>1, NothingShown
<1>6. QED
  BY <1>3, <1>4, <1>5 DEF Quiet

LEMMA QuietOrder ==
  ASSUME Base, InOrderInv, Quiet
  PROVE  InOrderInv'
<1> DEFINE S == Shown(app.messages)
<1>1. Shown(app'.messages) = S /\ Coming' = Coming /\ EventsOK
  BY QuietPieces DEF Base, TerminalTypeOK
<1>2. InTurn'
  <2>1. CASE events' = events
    BY <2>1 DEF InOrderInv, PiecesCome, InTurn, Responds
  <2>2. CASE events' = Append(events, NoticeEvent)
    BY <1>1, <2>2, NothingShown, InTurnGrows DEF InOrderInv, PiecesCome
  <2>3. CASE events # <<>> /\ events' = Tail(events)
    BY <1>1, <2>3, InTurnShrinks DEF InOrderInv, PiecesCome
  <2>4. QED
    BY <2>1, <2>2, <2>3 DEF Quiet
<1>3. runs' = runs /\ worker' = worker /\ (ui' = "starting" => ui = "starting")
  BY DEF Quiet
<1>4. Counted(S \cup Coming)'
  BY <1>1, <1>3 DEF InOrderInv, PiecesCome, Counted, Live
<1>5. FileCounted'
  <2>1. CASE file' = Session(app)
    <3>1. file'.messages = app.messages
      BY <2>1, SessionsAre DEF Base, TerminalTypeOK
    <3>2. ui = "starting" => S = {}
      BY NothingShown, NewStateIs DEF Base, PhasesFit
    <3>3. QED
      BY <1>3, <3>1, <3>2 DEF InOrderInv, PiecesCome, Counted, FileCounted
  <2>2. CASE file' = file
    BY <1>3, <2>2 DEF InOrderInv, PiecesCome, FileCounted
  <2>3. CASE file' = Torn
    BY <2>3 DEF FileCounted, Torn
  <2>4. QED
    BY <2>1, <2>2, <2>3 DEF Quiet
<1>6. PiecesCome'
  BY <1>1, <1>2, <1>3, <1>4, <1>5 DEF InOrderInv, PiecesCome, Ahead
<1>7. ScreenInOrder'
  <2>1. app.messages \in Seq(MessageRecords) /\ Extends(app.messages, app'.messages, <<>>)
    BY StatesAre DEF Base, TerminalTypeOK, Quiet
  <2>2. PiecesInOrder(app.messages) /\ <<>> \in Short /\ ToSet(<<>>) = {}
    BY NothingShown, MessagesAre DEF InOrderInv, ScreenInOrder
  <2>3. PiecesInOrder(app'.messages)
    BY <2>1, <2>2, OrderExtends
  <2>4. QED
    BY <2>3 DEF ScreenInOrder
<1>8. (file.saved => PiecesInOrder(file.messages))'
  BY FileInOrder DEF Quiet
<1>9. QED
  BY <1>6, <1>7, <1>8 DEF InOrderInv

LEMMA BoundsOrder ==
  ASSUME Base, InOrderInv, Starts \/ Stops
  PROVE  InOrderInv'
<1>1. app' = NewState /\ events' = <<>> /\ file' = file /\ DOMAIN runs \subseteq DOMAIN runs'
  <2>1. \A n \in Nat : 1 .. n \subseteq 1 .. n + 1
    OBVIOUS
  <2>2. QED
    BY <2>1 DEF Starts, Stops
<1>2. Shown(app'.messages) = {} /\ Coming' = {} /\ ScreenInOrder'
  BY <1>1, NewStateIs, NothingShown DEF Coming, ScreenInOrder
<1>3. InTurn' /\ Ahead(Shown(app.messages), Coming)'
  <2>1. DOMAIN events' = {}
    BY <1>1
  <2>2. QED
    BY <1>2, <2>1 DEF InTurn, Ahead
<1>4. Counted(Shown(app.messages) \cup Coming)'
  <2>1. \A n \in DOMAIN runs' : runs'[n].pc = "live" => runs'[n].deltas = 0
    <3>1. CASE Stops
      BY <3>1 DEF Stops
    <3>2. CASE Starts
      <4>1. Run("live", <<>>).deltas = 0
        BY DEF Run
      <4>2. \A n \in DOMAIN runs' : n = worker' \/ (n \in DOMAIN runs /\ runs'[n].pc \in {"gone", "aborted"})
        BY <3>2, PlacesAre, Zenon DEF Starts
      <4>3. QED
        BY <3>2, <4>1, <4>2 DEF Starts
    <3>3. QED
      BY <3>1, <3>2
  <2>2. 1 .. 0 = {}
    OBVIOUS
  <2>3. QED
    BY <1>2, <2>1, <2>2 DEF Counted, Live
<1>5. FileCounted'
  <2>1. \A n \in DOMAIN runs : ui' = "starting" => n # worker'
    <3>1. CASE Stops
      BY <3>1 DEF Stops
    <3>2. CASE Starts
      <4>1. worker' = Len(runs) + 1 /\ DOMAIN runs = 1 .. Len(runs) /\ Len(runs) \in Nat
        BY <3>2 DEF Starts
      <4>2. worker' \notin DOMAIN runs
        BY <4>1, PlacesAre, Zenon
      <4>3. QED
        BY <4>2
    <3>3. QED
      BY <3>1, <3>2
  <2>2. QED
    BY <1>1, <2>1 DEF InOrderInv, PiecesCome, FileCounted
<1>6. PiecesCome'
  BY <1>2, <1>3, <1>4, <1>5 DEF PiecesCome
<1>7. QED
  BY <1>1, <1>2, <1>6 DEF InOrderInv

LEMMA OpenOrder ==
  ASSUME Base, InOrderInv, Opens
  PROVE  InOrderInv'
<1> DEFINE T == Shown(file.messages)
<1>1. /\ app'.messages = file.messages /\ events' = events /\ file' = file /\ runs' = runs
      /\ worker' = worker /\ ui = "starting" /\ ui' = "running" /\ file.saved /\ app = NewState
  BY DEF Opens
<1>2. Shown(app'.messages) = T /\ Coming' = Coming /\ Shown(app.messages) = {}
  BY <1>1, NewStateIs, NothingShown DEF Coming
<1>3. /\ \A p \in T : p[2] > 0 => p[1] \in DOMAIN runs /\ p[1] # worker
      /\ \A p \in Coming : p[1] = worker
  BY <1>1 DEF InOrderInv, PiecesCome, FileCounted
<1>4. \A n \in DOMAIN runs : n # worker => runs[n].pc \in {"gone", "aborted"}
  BY <1>1 DEF Base, PhasesFit
<1>5. InTurn' /\ Ahead(Shown(app.messages), Coming)'
  BY <1>1, <1>2, <1>3 DEF InOrderInv, PiecesCome, InTurn, Responds, Ahead
<1>6. Counted(Shown(app.messages) \cup Coming)'
  <2>1. \A p \in T : p[2] > 0 =>
          p[1] \in DOMAIN runs' /\ ~(runs'[p[1]].pc \in {"asked", "live"})
    BY <1>1, <1>3, <1>4
  <2>2. QED
    BY <1>1, <1>2, <2>1 DEF InOrderInv, PiecesCome, Counted, Live
<1>7. FileCounted'
  BY <1>1 DEF InOrderInv, PiecesCome, FileCounted
<1>8. PiecesCome'
  BY <1>1, <1>5, <1>6, <1>7 DEF PiecesCome
<1>9. QED
  BY <1>1, <1>8 DEF InOrderInv, ScreenInOrder

LEMMA HearOrder ==
  ASSUME Base, InOrderInv, Hears
  PROVE  InOrderInv'
<1> DEFINE S == Shown(app.messages)
           e == Head(events)
           B == Brings(e)
<1>1. /\ events # <<>> /\ events' = Tail(events) /\ runs' = runs /\ worker' = worker
      /\ ui' # "starting" /\ IsEvent(e) /\ e.kind = "Response" /\ EventsOK
      /\ Extends(app.messages, app'.messages, e.text)
      /\ file' = file \/ file' = Torn
  BY DEF Hears, Base, TerminalTypeOK
<1>2. B = ToSet(e.text) /\ e.text \in Short /\ app.messages \in Seq(MessageRecords)
  BY <1>1, StatesAre DEF Brings, IsEvent, NoticeEvent, Base, TerminalTypeOK
<1>3. Shown(app'.messages) = S \cup B
  BY <1>1, <1>2, ShownExtends
<1>4. Coming = Coming' \cup B
  BY <1>1, SentShrinks
<1>5. \A p \in B, q \in Coming' : p[1] = q[1] => p[2] < q[2]
  BY <1>1, FirstIsFirst DEF InOrderInv, PiecesCome
<1>6. InTurn' /\ Ahead(S, Coming) /\ Counted(S \cup Coming) /\ FileCounted
  BY <1>1, InTurnShrinks DEF InOrderInv, PiecesCome
<1> DEFINE C == Coming
           D == Coming'
<1>7. C = D \cup B /\ Ahead(S, C) /\ \A p \in B, q \in D : p[1] = q[1] => p[2] < q[2]
  BY <1>4, <1>5, <1>6
<1>8. C \subseteq Pieces /\ \A p \in C : p[2] > 0
  BY PiecesAre
<1>9. \A p \in B : B = {p}
  <2>1. \A q : ToSet(<<q>>) = {q}
    BY DEF ToSet
  <2>2. e.text = <<>> \/ \E q \in Pieces : e.text = <<q>>
    BY <1>2, TextsAreSequences
  <2>3. CASE e.text = <<>>
    BY <1>2, <2>3, NothingShown
  <2>4. ASSUME NEW q \in Pieces, e.text = <<q>> PROVE B = {q}
    BY <1>2, <2>1, <2>4
  <2>5. QED
    BY <2>2, <2>3, <2>4
<1> HIDE DEF S, B, C, D, e
<1>10. Ahead(S \cup B, D)
  BY <1>7 DEF Ahead
<1>11. Counted(Shown(app.messages) \cup Coming)'
  <2>1. (S \cup B) \cup D = S \cup C
    BY <1>7
  <2>2. Shown(app'.messages) \cup Coming' = S \cup Coming
    BY <1>3, <2>1 DEF C, D
  <2>3. QED
    BY <1>1, <1>6, <2>2 DEF Counted, Live
<1>12. FileCounted'
  BY <1>1, <1>6 DEF FileCounted, Torn
<1>13. Ahead(Shown(app.messages), Coming)'
  BY <1>3, <1>10 DEF D, Ahead
<1>14. PiecesCome'
  BY <1>1, <1>6, <1>11, <1>12, <1>13 DEF PiecesCome
<1>15. PiecesInOrder(app'.messages)
  <2>1. ASSUME NEW p \in B, p[2] > 1 PROVE <<p[1], p[2] - 1>> \in S
    <3> DEFINE r == <<p[1], p[2] - 1>>
    <3>1. r \in S \cup C /\ r[1] = p[1] /\ r[2] = p[2] - 1
      BY <1>7, <2>1 DEF Ahead
    <3>2. p[2] \in Nat /\ ~(p[2] < p[2] - 1) /\ p[2] # p[2] - 1
      <4>1. p[2] \in Nat
        BY <1>7, <1>8, PiecesAre
      <4>2. QED
        BY <4>1
    <3> HIDE DEF r
    <3>3. r \notin D
      BY <1>7, <3>1, <3>2
    <3>4. r \notin B
      BY <1>9, <3>1, <3>2
    <3>5. QED
      BY <1>7, <3>1, <3>3, <3>4 DEF r
  <2>2. \A p \in B, q \in S : q[2] > 0 /\ p[1] = q[1] => q[2] < p[2]
    BY <1>7 DEF Ahead
  <2>3. PiecesInOrder(app.messages)
    BY DEF InOrderInv, ScreenInOrder
  <2>4. \A p \in ToSet(e.text) : p[2] > 0 =>
          /\ p[2] > 1 => <<p[1], p[2] - 1>> \in Shown(app.messages)
          /\ \A q \in Shown(app.messages) : q[2] > 0 /\ p[1] = q[1] => q[2] < p[2]
    BY <1>2, <2>1, <2>2 DEF S, B
  <2>5. QED
    BY <1>1, <1>2, <2>3, <2>4, OrderExtends DEF e
<1>16. (file.saved => PiecesInOrder(file.messages))'
  BY <1>1, FileInOrder
<1>17. QED
  BY <1>14, <1>15, <1>16 DEF InOrderInv, ScreenInOrder

LEMMA SendOrder ==
  ASSUME Base, InOrderInv, Sends
  PROVE  InOrderInv'
<1> DEFINE S == Shown(app.messages)
           n == Len(runs) + 1
           prompt == <<n, 0>>
<1>1. /\ events' = events /\ worker' = worker /\ ui' # "starting" /\ file' = Torn
      /\ DOMAIN runs' = 1 .. n /\ DOMAIN runs = 1 .. Len(runs) /\ Len(runs) \in Nat
      /\ \A i \in DOMAIN runs : runs'[i] = runs[i]
      /\ runs'[n] = Run("asked", app.context)
      /\ Extends(app.messages, app'.messages, <<prompt>>)
  BY DEF Sends
<1>2. n \in Nat /\ <<prompt>> \in Short /\ app.messages \in Seq(MessageRecords)
  BY <1>1, MessagesAre, StatesAre DEF Base, TerminalTypeOK
<1>3. ToSet(<<prompt>>) = {prompt} /\ prompt[1] = n /\ prompt[2] = 0
  BY DEF ToSet
<1> HIDE DEF prompt
<1>4. Shown(app'.messages) = S \cup {prompt}
  BY <1>1, <1>2, <1>3, ShownExtends
<1>5. Coming' = Coming /\ InTurn'
  BY <1>1 DEF Coming, InOrderInv, PiecesCome, InTurn, Responds
<1>6. runs'[n].pc = "asked"
  BY <1>1 DEF Run
<1>7. DOMAIN runs \subseteq DOMAIN runs' /\ \A i \in DOMAIN runs' : i = n \/ i \in DOMAIN runs
  BY <1>1, PlacesAre, Zenon
<1>8. Ahead(S, Coming) /\ Counted(S \cup Coming)
  BY DEF InOrderInv, PiecesCome
<1> HIDE DEF S, n
<1>9. Ahead(S \cup {prompt}, Coming)
  BY <1>3, <1>8 DEF Ahead
<1>10. ASSUME NEW p \in (S \cup {prompt}) \cup Coming, p[2] > 0
       PROVE  /\ p[1] \in DOMAIN runs'
              /\ runs'[p[1]].pc \in {"asked", "live"} => p[2] <= runs'[p[1]].deltas
  <2>1. p \in S \cup Coming
    BY <1>3, <1>10
  <2>2. p[1] \in DOMAIN runs /\ (runs[p[1]].pc \in {"asked", "live"} => p[2] <= runs[p[1]].deltas)
    BY <1>8, <1>10, <2>1 DEF Counted
  <2>3. QED
    BY <1>1, <1>7, <2>2
<1>11. ASSUME NEW i \in DOMAIN runs', runs'[i].pc = "live", NEW k \in 1 .. runs'[i].deltas
       PROVE  <<i, k>> \in (S \cup {prompt}) \cup Coming
  BY <1>1, <1>6, <1>7, <1>8, <1>11 DEF Counted, Live
<1>12. PiecesCome'
  <2>1. Counted(Shown(app.messages) \cup Coming)'
    BY <1>4, <1>5, <1>10, <1>11 DEF Counted, Live
  <2>2. Ahead(Shown(app.messages), Coming)'
    BY <1>4, <1>5, <1>9 DEF Ahead
  <2>3. FileCounted'
    BY <1>1 DEF FileCounted, Torn
  <2>4. QED
    BY <1>1, <1>5, <2>1, <2>2, <2>3 DEF PiecesCome
<1>13. PiecesInOrder(app'.messages)
  <2>1. PiecesInOrder(app.messages) /\ \A p \in ToSet(<<prompt>>) : ~(p[2] > 0)
    BY <1>3 DEF InOrderInv, ScreenInOrder
  <2>2. QED
    BY <1>1, <1>2, <2>1, OrderExtends
<1>14. (file.saved => PiecesInOrder(file.messages))'
  BY <1>1, FileInOrder
<1>15. QED
  BY <1>12, <1>13, <1>14 DEF InOrderInv, ScreenInOrder

LEMMA RunOrder ==
  ASSUME Base, InOrderInv, Runs
  PROVE  InOrderInv'
<1> DEFINE S == Shown(app.messages)
<1>1. /\ app' = app /\ file' = file /\ DOMAIN runs' = DOMAIN runs /\ ui' = ui
      /\ (ui = "starting" => worker' = worker)
  BY DEF Runs, Moves, Says, Finishes, Elsewhere, RunIs
<1>2. PICK n \in DOMAIN runs : Moves(n) \/ Says(n) \/ Finishes(n)
  BY DEF Runs
<1>3. EventsOK /\ InTurn /\ Ahead(S, Coming) /\ Counted(S \cup Coming) /\ FileCounted
  BY DEF InOrderInv, PiecesCome, Base, TerminalTypeOK
<1>4. ScreenInOrder' /\ (file.saved => PiecesInOrder(file.messages))' /\ FileCounted'
  BY <1>1, <1>3 DEF InOrderInv, ScreenInOrder, FileCounted
<1>5. ui = "starting" => \A p \in Coming : p[1] = worker
  BY DEF InOrderInv, PiecesCome
<1>6. \A m \in DOMAIN runs : m # n =>
        runs'[m].pc = runs[m].pc /\ runs'[m].deltas = runs[m].deltas
  BY <1>2 DEF Moves, Says, Finishes, RunIs
<1>7. CASE Moves(n) \/ Finishes(n)
  <2>1. Coming' = Coming /\ InTurn'
    <3>1. CASE events' = events
      BY <1>3, <3>1 DEF Coming, InTurn, Responds
    <3>2. CASE events' = Append(events, NoticeEvent)
      <4>1. Coming' = Coming \cup {}
        BY <1>3, <3>2, NothingShown, SentGrows
      <4>2. QED
        BY <1>3, <3>2, <4>1, NothingShown, InTurnGrows
    <3>3. CASE Finishes(n)
      <4> DEFINE e == Response(<<>>, TRUE, Updated(n))
      <4>1. events' = Append(events, e) /\ Brings(e) = {}
        BY <3>3, NothingShown DEF Finishes, Response, Brings
      <4> HIDE DEF e
      <4>2. Coming' = Coming \cup {}
        BY <1>3, <4>1, SentGrows
      <4>3. QED
        BY <1>3, <4>1, <4>2, InTurnGrows
    <3>4. QED
      BY <1>7, <3>1, <3>2, <3>3 DEF Moves
  <2>2. /\ runs'[n].pc \in {"asked", "live"} =>
             runs[n].pc \in {"asked", "live"} /\ runs'[n].deltas = runs[n].deltas
        /\ runs'[n].pc = "live" => runs[n].pc = "asked" /\ runs'[n].deltas = 0
    BY <1>7 DEF Moves, Finishes, RunIs, Live, Base, PhasesFit
  <2>3. Counted(S \cup Coming)'
    <3>1. 1 .. 0 = {}
      OBVIOUS
    <3>2. \A m \in DOMAIN runs' : runs'[m].pc = "live" => \A k \in 1 .. runs'[m].deltas : <<m, k>> \in S \cup Coming
      BY <1>1, <1>3, <1>6, <2>2, <3>1 DEF Counted, Live
    <3>3. \A p \in S \cup Coming : p[2] > 0 =>
            /\ p[1] \in DOMAIN runs'
            /\ runs'[p[1]].pc \in {"asked", "live"} => p[2] <= runs'[p[1]].deltas
      BY <1>1, <1>3, <1>6, <2>2 DEF Counted
    <3>4. QED
      BY <1>1, <2>1, <3>2, <3>3 DEF Counted, Live
  <2>4. Ahead(S, Coming)'
    BY <1>1, <1>3, <2>1 DEF Ahead
  <2>5. PiecesCome'
    BY <1>1, <1>4, <1>5, <2>1, <2>3, <2>4 DEF PiecesCome
  <2>6. QED
    BY <1>4, <2>5 DEF InOrderInv
<1>8. CASE Says(n)
  <2> DEFINE d == runs[n].deltas
             k0 == d + 1
             piece == <<n, k0>>
             e == Response(<<piece>>, FALSE, <<>>)
  <2>1. /\ events' = Append(events, e) /\ runs[n].pc = "live" /\ runs'[n].pc = "live" /\ runs'[n].deltas = k0
    BY <1>8 DEF Says, RunIs, Live
  <2>2. Brings(e) = {piece} /\ piece[1] = n /\ piece[2] = k0 /\ d \in Nat
    <3>1. d \in Nat
      BY RunsAre DEF Base, TerminalTypeOK
    <3>2. QED
      BY <3>1 DEF Brings, Response, ToSet
  <2>3. /\ \A k \in 1 .. k0 : k \in 1 .. d \/ k = k0
        /\ \A p \in Nat : p <= d => p < k0 /\ p <= k0
        /\ k0 - 1 = d /\ k0 <= k0 /\ (k0 > 1 => d \in 1 .. d)
    BY <2>2
  <2> HIDE DEF e, piece, k0, d
  <2>4. Coming' = Coming \cup {piece}
    BY <1>3, <2>1, <2>2, SentGrows
  <2>5. \A p \in S \cup Coming : p[2] > 0 /\ p[1] = n => p[2] < k0 /\ p[2] <= k0
    <3>1. \A p \in S \cup Coming : p[2] \in Nat
      BY PiecesAre
    <3>2. \A p \in S \cup Coming : p[2] > 0 /\ p[1] = n => p[2] <= d
      BY <1>3, <2>1 DEF Counted, d
    <3>3. QED
      BY <2>3, <3>1, <3>2, Zenon
  <2>6. InTurn'
    <3>1. \A p \in Coming, q \in Brings(e) : p[1] = q[1] => p[2] < q[2]
      BY <2>2, <2>5, PiecesAre
    <3>2. QED
      BY <1>3, <2>1, <3>1, InTurnGrows
  <2>7. k0 > 1 => <<n, d>> \in S \cup Coming
    BY <1>3, <2>1, <2>3 DEF Counted, Live, d
  <2> DEFINE C == Coming
             D == Coming \cup {piece}
  <2>8. Ahead(S, D)
    <3>1. \A p \in S, q \in D : p[2] > 0 /\ p[1] = q[1] => p[2] < q[2]
      BY <1>3, <2>2, <2>5 DEF Ahead
    <3>2. ASSUME NEW q \in D, q[2] > 1 PROVE <<q[1], q[2] - 1>> \in S \cup D
      <4>1. CASE q \in Coming
        BY <1>3, <3>2, <4>1 DEF Ahead
      <4>2. CASE q = piece
        BY <2>2, <2>3, <2>7, <3>2, <4>2
      <4>3. QED
        BY <3>2, <4>1, <4>2
    <3>3. QED
      BY <3>1, <3>2 DEF Ahead
  <2>9. \A p \in S \cup D : p[2] > 0 =>
          /\ p[1] \in DOMAIN runs'
          /\ runs'[p[1]].pc \in {"asked", "live"} => p[2] <= runs'[p[1]].deltas
    <3> SUFFICES ASSUME NEW p \in S \cup D, p[2] > 0
                 PROVE  /\ p[1] \in DOMAIN runs'
                        /\ runs'[p[1]].pc \in {"asked", "live"} => p[2] <= runs'[p[1]].deltas
      OBVIOUS
    <3>1. CASE p = piece
      BY <1>1, <2>1, <2>2, <2>3, <3>1
    <3>2. CASE p \in S \cup Coming /\ p[1] = n
      BY <1>1, <2>1, <2>5, <3>2
    <3>3. CASE p \in S \cup Coming /\ p[1] # n
      BY <1>1, <1>3, <1>6, <3>3 DEF Counted
    <3>4. QED
      BY <3>1, <3>2, <3>3
  <2>10. ASSUME NEW m \in DOMAIN runs', runs'[m].pc = "live", NEW k \in 1 .. runs'[m].deltas
         PROVE  <<m, k>> \in S \cup D
    <3>1. CASE m # n
      BY <1>1, <1>3, <1>6, <2>10, <3>1 DEF Counted, Live
    <3>2. CASE m = n /\ k = k0
      BY <3>2 DEF piece
    <3>3. CASE m = n /\ k \in 1 .. d
      BY <1>3, <2>1, <3>3 DEF Counted, Live, d
    <3>4. QED
      BY <2>1, <2>3, <2>10, <3>1, <3>2, <3>3
  <2>11. PiecesCome'
    <3> HIDE DEF D
    <3>1. Coming' = D
      BY <2>4 DEF D
    <3>2. Ahead(S, Coming)'
      BY <1>1, <2>8, <3>1 DEF Ahead
    <3>3. Counted(S \cup Coming)'
      BY <1>1, <2>9, <2>10, <3>1 DEF Counted, Live
    <3>4. ui' = "starting" => \A p \in Coming' : p[1] = worker'
      <4>1. ui = "starting" => n = worker
        BY <2>1, LiveIsUp DEF Live
      <4>2. QED
        BY <1>1, <1>5, <2>2, <2>4, <4>1
    <3>5. QED
      BY <1>1, <1>4, <2>6, <3>2, <3>3, <3>4 DEF PiecesCome
  <2>12. QED
    BY <1>4, <2>11 DEF InOrderInv
<1>9. QED
  BY <1>2, <1>7, <1>8

LEMMA OrderStep ==
  ASSUME Base, InOrderInv, [Next]_vars
  PROVE  InOrderInv'
<1>1. CASE UNCHANGED vars
  BY <1>1 DEF vars, volatile, InOrderInv, PiecesCome, ScreenInOrder, InTurn, Responds, Ahead, Coming,
              Counted, Live, FileCounted
<1>2. QED
  BY <1>1, Steps, QuietOrder, BoundsOrder, OpenOrder, HearOrder, SendOrder, RunOrder

(* Of each run the screen holds the first pieces, in order: AppendText, the *)
(* order of the loop's channel, resubmitted prompts and reopened sessions. *)
THEOREM ScreenStaysInOrder == Spec => []ScreenInOrder
<1>1. Init => InOrderInv
  <2>1. ASSUME Init PROVE InOrderInv
    <3>1. app.messages = <<>> /\ events = <<>> /\ runs = <<>> /\ ~file.saved /\ ui = "down"
      BY <2>1, Beginning, NewStateIs DEF NoFile
    <3>2. Shown(app.messages) = {} /\ Coming = {} /\ PiecesInOrder(app.messages)
          /\ DOMAIN events = {} /\ DOMAIN runs = {}
      BY <3>1, NothingShown DEF Coming
    <3>3. QED
      BY <3>1, <3>2 DEF InOrderInv, PiecesCome, ScreenInOrder, InTurn, Ahead, Counted, FileCounted
  <2>2. QED
    BY <2>1
<1>2. Base /\ InOrderInv /\ [Next]_vars => InOrderInv'
  BY OrderStep
<1>3. InOrderInv => ScreenInOrder
  BY DEF InOrderInv
<1>4. QED
  BY <1>1, <1>2, <1>3, BaseHolds, PTL DEF Spec

-----------------------------------------------------------------------------
(* What the contexts tell. *)
TellsNext(pieces, context) ==
  \A piece \in ToSet(context) : piece \in pieces \/ (piece[2] = 0 /\ runs'[piece[1]].greeting)

LEMMA TellsStays ==
  ASSUME NEW pieces, NEW more, pieces \subseteq more, NEW context,
         Tells(pieces, context), Remembers(context),
         \A n \in DOMAIN runs : runs'[n].greeting = runs[n].greeting
  PROVE  TellsNext(more, context)
BY DEF Tells, TellsNext, Remembers, Greets

(* Every part of the invariant follows from what it was before the step.   *)
LEMMA ContextsTell ==
  ASSUME Base, ContextsRemember, ContextsAreShown, [Next]_vars
  PROVE  LET shown == Shown(app.messages)
         IN  /\ \A more : shown \subseteq more =>
                  /\ TellsNext(more, app.context)
                  /\ \A n \in DOMAIN runs : TellsNext(more, runs[n].context)
             /\ \A i \in DOMAIN events : events[i].kind = "Response" =>
                  \A more : shown \cup Sent(events, i) \subseteq more => TellsNext(more, events[i].context)
             /\ file.saved => TellsNext(Shown(file.messages), file.context)
             /\ \A more : TellsNext(more, <<>>)
             /\ \A n \in DOMAIN runs : /\ runs[n].pc \in {"asked", "live"} =>
                                            runs[n].greeting \/ <<n, 0>> \in shown
                                       /\ runs'[n].greeting = runs[n].greeting
                                       /\ runs'[n].context \in {runs[n].context, <<>>}
<1> DEFINE shown == Shown(app.messages)
<1>1. \A n \in DOMAIN runs : /\ runs'[n].greeting = runs[n].greeting
                             /\ runs'[n].context \in {runs[n].context, <<>>}
  BY FinishedStays
<1>2. ASSUME NEW more, shown \subseteq more
      PROVE  /\ TellsNext(more, app.context)
             /\ \A n \in DOMAIN runs : TellsNext(more, runs[n].context)
  BY <1>1, <1>2, TellsStays DEF ContextsRemember, ContextsAreShown
<1>3. ASSUME NEW i \in DOMAIN events, events[i].kind = "Response",
             NEW more, shown \cup Sent(events, i) \subseteq more
      PROVE  TellsNext(more, events[i].context)
  BY <1>1, <1>3, TellsStays DEF ContextsRemember, ContextsAreShown, Responds
<1>4. ASSUME file.saved PROVE TellsNext(Shown(file.messages), file.context)
  BY <1>1, <1>4, TellsStays DEF ContextsRemember, ContextsAreShown
<1>5. \A more : TellsNext(more, <<>>)
  BY NothingShown DEF TellsNext
<1>6. \A n \in DOMAIN runs : runs[n].pc \in {"asked", "live"} =>
        runs[n].greeting \/ <<n, 0>> \in shown
  BY DEF ContextsAreShown
<1>7. QED
  BY <1>1, <1>2, <1>3, <1>4, <1>5, <1>6

LEMMA TellingNext ==
  ASSUME TellsNext(Shown(app'.messages), app'.context),
         \A n \in DOMAIN runs' :
           /\ TellsNext(Shown(app'.messages), runs'[n].context)
           /\ runs'[n].pc \in {"asked", "live"} =>
                runs'[n].greeting \/ <<n, 0>> \in Shown(app'.messages),
         \A i \in DOMAIN events' : events'[i].kind = "Response" =>
           TellsNext(Shown(app'.messages) \cup Sent(events', i), events'[i].context),
         file'.saved => TellsNext(Shown(file'.messages), file'.context)
  PROVE  ContextsAreShown'
BY DEF ContextsAreShown, Tells, TellsNext, Greets, Responds

LEMMA QuietTells ==
  ASSUME Base, ContextsRemember, ContextsAreShown, [Next]_vars, Quiet
  PROVE  ContextsAreShown'
<1> DEFINE shown == Shown(app.messages)
<1>1. /\ Shown(app'.messages) = shown /\ EventsOK /\ runs' = runs /\ app'.context = app.context
  BY QuietPieces DEF Base, TerminalTypeOK, Quiet
<1>2. /\ TellsNext(shown, app.context)
      /\ \A n \in DOMAIN runs : TellsNext(shown, runs[n].context)
      /\ \A i \in DOMAIN events : events[i].kind = "Response" =>
           TellsNext(shown \cup Sent(events, i), events[i].context)
      /\ file.saved => TellsNext(Shown(file.messages), file.context)
      /\ \A n \in DOMAIN runs : runs[n].pc \in {"asked", "live"} =>
           runs[n].greeting \/ <<n, 0>> \in shown
  BY ContextsTell
<1>3. ASSUME NEW i \in DOMAIN events', events'[i].kind = "Response"
      PROVE  TellsNext(shown \cup Sent(events', i), events'[i].context)
  <2>1. CASE events' = events
    BY <1>2, <1>3, <2>1
  <2>2. CASE events' = Append(events, NoticeEvent)
    <3>1. NoticeEvent.kind # "Response"
      BY DEF NoticeEvent
    <3>2. /\ DOMAIN events = 1 .. Len(events) /\ Len(events) \in Nat
          /\ \A k \in DOMAIN events' : \/ k \in DOMAIN events /\ events'[k] = events[k]
                                       \/ events'[k] = NoticeEvent
      BY <1>1, <2>2, EventsChange, Zenon
    <3>3. i \in DOMAIN events /\ events'[i] = events[i]
      BY <1>3, <3>1, <3>2
    <3>4. i \in 1 .. Len(events) + 1
      BY <3>2, <3>3, PlacesAre, Zenon
    <3>5. Sent(events', i) = Sent(events, i)
      BY <1>1, <2>2, <3>4, SentGrows
    <3>6. QED
      BY <1>2, <1>3, <3>3, <3>5
  <2>3. CASE events # <<>> /\ Head(events) = NoticeEvent /\ events' = Tail(events)
    <3>1. i + 1 \in DOMAIN events /\ events'[i] = events[i + 1]
          /\ Sent(events, i + 1) = Sent(events', i) \cup Brings(NoticeEvent)
      BY <1>1, <2>3, SentShrinks
    <3>2. Sent(events, i + 1) = Sent(events', i)
      BY <3>1, NothingShown
    <3>3. QED
      BY <1>2, <1>3, <3>1, <3>2
  <2>4. QED
    BY <2>1, <2>2, <2>3 DEF Quiet
<1>4. file'.saved => TellsNext(Shown(file'.messages), file'.context)
  <2>1. Session(app).messages = app.messages /\ Session(app).context = app.context /\ ~Torn.saved
    BY SessionsAre DEF Base, TerminalTypeOK, Torn
  <2>2. QED
    BY <1>2, <2>1 DEF Quiet
<1>5. QED
  BY <1>1, <1>2, <1>3, <1>4, TellingNext

LEMMA BoundsTell ==
  ASSUME Base, ContextsRemember, ContextsAreShown, [Next]_vars, Starts \/ Stops
  PROVE  ContextsAreShown'
<1>1. app' = NewState /\ events' = <<>> /\ file' = file
  BY DEF Starts, Stops
<1>2. Shown(app'.messages) = {} /\ app'.context = <<>> /\ DOMAIN events' = {}
  BY <1>1, NewStateIs, NothingShown
<1>3. /\ \A more : TellsNext(more, <<>>)
      /\ file.saved => TellsNext(Shown(file.messages), file.context)
  BY ContextsTell
<1>4. \A n \in DOMAIN runs' :
        /\ TellsNext({}, runs'[n].context)
        /\ runs'[n].pc \in {"asked", "live"} => runs'[n].greeting
  <2>1. CASE Stops
    BY <1>3, <2>1 DEF Stops
  <2>2. CASE Starts
    <3>1. \A n \in DOMAIN runs' : \/ n = worker'
                                  \/ n \in DOMAIN runs /\ runs'[n] = runs[n] /\ runs[n].pc \in {"gone", "aborted"}
      BY <2>2, PlacesAre, Zenon DEF Starts
    <3>2. Run("live", <<>>).greeting = TRUE /\ Run("live", <<>>).context = <<>>
      BY DEF Run
    <3>3. Shown(app.messages) = {}
      BY <2>2, NewStateIs, NothingShown DEF Starts
    <3>4. \A n \in DOMAIN runs : TellsNext({}, runs[n].context)
      BY <3>3, ContextsTell
    <3>5. runs'[worker'] = Run("live", <<>>)
      BY <2>2 DEF Starts
    <3>6. QED
      BY <1>3, <3>1, <3>2, <3>4, <3>5
  <2>3. QED
    BY <2>1, <2>2
<1>5. QED
  BY <1>1, <1>2, <1>3, <1>4, TellingNext

LEMMA OpenTells ==
  ASSUME Base, ContextsRemember, ContextsAreShown, [Next]_vars, Opens
  PROVE  ContextsAreShown'
<1>1. /\ app'.messages = file.messages /\ app'.context = file.context /\ file.saved
      /\ events' = events /\ file' = file /\ runs' = runs /\ app = NewState
  BY DEF Opens
<1> DEFINE shown == Shown(file.messages)
<1>2. Shown(app.messages) = {}
  BY <1>1, NewStateIs, NothingShown
<1>3. /\ \A n \in DOMAIN runs : TellsNext(shown, runs[n].context)
      /\ \A i \in DOMAIN events : events[i].kind = "Response" =>
           TellsNext(shown \cup Sent(events, i), events[i].context)
      /\ TellsNext(shown, file.context)
      /\ \A n \in DOMAIN runs : runs[n].pc \in {"asked", "live"} => runs[n].greeting
  BY <1>1, <1>2, ContextsTell
<1>4. QED
  BY <1>1, <1>3, TellingNext

LEMMA HearTells ==
  ASSUME Base, ContextsRemember, ContextsAreShown, [Next]_vars, Hears
  PROVE  ContextsAreShown'
<1> DEFINE shown == Shown(app.messages)
           e == Head(events)
           B == Brings(e)
<1>1. /\ events # <<>> /\ events' = Tail(events) /\ runs' = runs
      /\ IsEvent(e) /\ e.kind = "Response" /\ EventsOK
      /\ Extends(app.messages, app'.messages, e.text)
      /\ file' = file \/ file' = Torn
      /\ app'.context = IF e.done THEN e.context ELSE app.context
  BY DEF Hears, Base, TerminalTypeOK
<1>2. B = ToSet(e.text) /\ e.text \in Short /\ app.messages \in Seq(MessageRecords)
  BY <1>1, StatesAre DEF Brings, IsEvent, NoticeEvent, Base, TerminalTypeOK
<1>3. Shown(app'.messages) = shown \cup B
  BY <1>1, <1>2, ShownExtends
<1>4. /\ 1 \in DOMAIN events /\ e = events[1]
      /\ \A i \in DOMAIN events' : /\ i + 1 \in DOMAIN events /\ events'[i] = events[i + 1]
                                   /\ Sent(events, i + 1) = Sent(events', i) \cup B
  BY <1>1, EventsChange, SentShrinks, Zenon
<1> HIDE DEF e, B, shown
<1>5. /\ \A more : shown \subseteq more =>
           TellsNext(more, app.context) /\ \A n \in DOMAIN runs : TellsNext(more, runs[n].context)
      /\ \A i \in DOMAIN events : events[i].kind = "Response" =>
           \A more : shown \cup Sent(events, i) \subseteq more => TellsNext(more, events[i].context)
      /\ file.saved => TellsNext(Shown(file.messages), file.context)
      /\ \A n \in DOMAIN runs : runs[n].pc \in {"asked", "live"} =>
           runs[n].greeting \/ <<n, 0>> \in shown
  BY ContextsTell DEF shown
<1>6. TellsNext(shown \cup B, app'.context)
  <2>1. Sent(events, 1) = {}
    <3>1. \A n \in Nat : \A j \in 1 .. n : ~(j < 1)
      OBVIOUS
    <3>2. \A j \in DOMAIN events : ~(j < 1)
      BY <1>1, <3>1, EventsChange, Zenon
    <3>3. QED
      BY <3>2 DEF Sent
  <2>2. TellsNext(shown \cup B, e.context) /\ TellsNext(shown \cup B, app.context)
    BY <1>1, <1>4, <1>5, <2>1
  <2>3. QED
    BY <1>1, <2>2
<1>7. ASSUME NEW i \in DOMAIN events', events'[i].kind = "Response"
      PROVE  TellsNext((shown \cup B) \cup Sent(events', i), events'[i].context)
  <2>1. i + 1 \in DOMAIN events /\ events'[i] = events[i + 1]
        /\ shown \cup Sent(events, i + 1) \subseteq (shown \cup B) \cup Sent(events', i)
    BY <1>4
  <2>2. QED
    BY <1>5, <1>7, <2>1, Zenon
<1>8. \A n \in DOMAIN runs' :
        /\ TellsNext(shown \cup B, runs'[n].context)
        /\ runs'[n].pc \in {"asked", "live"} => runs'[n].greeting \/ <<n, 0>> \in shown \cup B
  BY <1>1, <1>5, Zenon
<1>9. file'.saved => TellsNext(Shown(file'.messages), file'.context)
  BY <1>1, <1>5 DEF Torn
<1>10. QED
  BY <1>3, <1>6, <1>7, <1>8, <1>9, TellingNext

LEMMA SendTells ==
  ASSUME Base, ContextsRemember, ContextsAreShown, [Next]_vars, Sends
  PROVE  ContextsAreShown'
<1> DEFINE shown == Shown(app.messages)
           n == Len(runs) + 1
           prompt == <<n, 0>>
           more == shown \cup {prompt}
<1>1. /\ events' = events /\ file' = Torn /\ app'.context = app.context
      /\ DOMAIN runs' = 1 .. n /\ DOMAIN runs = 1 .. Len(runs) /\ Len(runs) \in Nat
      /\ \A i \in DOMAIN runs : runs'[i] = runs[i]
      /\ runs'[n] = Run("asked", app.context)
      /\ Extends(app.messages, app'.messages, <<prompt>>)
  BY DEF Sends
<1>2. n \in Nat /\ <<prompt>> \in Short /\ app.messages \in Seq(MessageRecords)
  <2>1. n \in Nat
    BY <1>1
  <2>2. <<prompt>> \in Short
    BY <2>1, MessagesAre
  <2>3. app.messages \in Seq(MessageRecords)
    BY StatesAre DEF Base, TerminalTypeOK
  <2>4. QED
    BY <2>1, <2>2, <2>3
<1>3. Shown(app'.messages) = more
  <2>1. ToSet(<<prompt>>) = {prompt}
    BY DEF ToSet
  <2>2. QED
    BY <1>1, <1>2, <2>1, ShownExtends
<1>4. Run("asked", app.context).context = app.context
  BY DEF Run
<1>5. \A i \in DOMAIN runs' : i = n \/ i \in DOMAIN runs
  BY <1>1, PlacesAre, Zenon
<1>6. prompt \in more /\ shown \subseteq more
  OBVIOUS
<1>7. /\ TellsNext(more, app.context)
      /\ \A i \in DOMAIN runs : /\ TellsNext(more, runs[i].context)
                                /\ runs[i].pc \in {"asked", "live"} => runs[i].greeting \/ <<i, 0>> \in shown
      /\ \A i \in DOMAIN events : events[i].kind = "Response" =>
           TellsNext(more \cup Sent(events, i), events[i].context)
  BY <1>6, ContextsTell
<1> HIDE DEF more, shown, n
<1>8. \A i \in DOMAIN runs' :
        /\ TellsNext(more, runs'[i].context)
        /\ runs'[i].pc \in {"asked", "live"} => runs'[i].greeting \/ <<i, 0>> \in more
  BY <1>1, <1>4, <1>5, <1>6, <1>7, Zenon
<1>9. QED
  BY <1>1, <1>3, <1>7, <1>8, TellingNext DEF Torn

LEMMA RunTells ==
  ASSUME Base, ContextsRemember, ContextsAreShown, InOrderInv, [Next]_vars, Runs
  PROVE  ContextsAreShown'
<1> DEFINE shown == Shown(app.messages)
<1>1. /\ app' = app /\ file' = file /\ DOMAIN runs' = DOMAIN runs /\ EventsOK
  BY DEF Runs, Moves, Says, Finishes, Elsewhere, RunIs, Base, TerminalTypeOK
<1>2. PICK n \in DOMAIN runs : Moves(n) \/ Says(n) \/ Finishes(n)
  BY DEF Runs
<1>3. /\ TellsNext(shown, app.context)
      /\ \A m \in DOMAIN runs : /\ TellsNext(shown, runs[m].context)
                                /\ runs[m].pc \in {"asked", "live"} => runs[m].greeting \/ <<m, 0>> \in shown
                                /\ runs'[m].greeting = runs[m].greeting
                                /\ runs'[m].context \in {runs[m].context, <<>>}
      /\ \A i \in DOMAIN events : events[i].kind = "Response" =>
           TellsNext(shown \cup Sent(events, i), events[i].context)
      /\ file.saved => TellsNext(Shown(file.messages), file.context)
      /\ \A more : TellsNext(more, <<>>)
  BY ContextsTell
<1>4. \A m \in DOMAIN runs : runs'[m].pc \in {"asked", "live"} => runs[m].pc \in {"asked", "live"}
  BY <1>2 DEF Moves, Says, Finishes, RunIs, Live
<1>5. \A m \in DOMAIN runs' :
        /\ TellsNext(shown, runs'[m].context)
        /\ runs'[m].pc \in {"asked", "live"} => runs'[m].greeting \/ <<m, 0>> \in shown
  BY <1>1, <1>3, <1>4, Zenon
<1>6. ASSUME NEW e, events' = Append(events, e),
             e.kind = "Response" => TellsNext(shown \cup Coming, e.context)
      PROVE  \A i \in DOMAIN events' : events'[i].kind = "Response" =>
               TellsNext(shown \cup Sent(events', i), events'[i].context)
  <2> SUFFICES ASSUME NEW i \in DOMAIN events', events'[i].kind = "Response"
               PROVE  TellsNext(shown \cup Sent(events', i), events'[i].context)
    OBVIOUS
  <2>1. /\ DOMAIN events = 1 .. Len(events) /\ Len(events) \in Nat
        /\ DOMAIN events' = 1 .. Len(events) + 1
        /\ \A k \in DOMAIN events' : \/ k \in DOMAIN events /\ events'[k] = events[k]
                                     \/ k = Len(events) + 1 /\ k \notin DOMAIN events /\ events'[k] = e
    BY <1>1, <1>6, EventsChange, Zenon
  <2>2. Sent(events', i) = Sent(events, i)
    BY <1>1, <1>6, <2>1, SentGrows
  <2>3. CASE i \in DOMAIN events /\ events'[i] = events[i]
    BY <1>3, <2>2, <2>3
  <2>4. CASE i = Len(events) + 1 /\ events'[i] = e
    <3>1. Sent(events', i) = Coming
      BY <2>2, <2>4 DEF Coming
    <3>2. QED
      BY <1>6, <2>4, <3>1
  <2>5. QED
    BY <2>1, <2>3, <2>4, Zenon
<1>7. \A i \in DOMAIN events' : events'[i].kind = "Response" =>
        TellsNext(shown \cup Sent(events', i), events'[i].context)
  <2>1. CASE Moves(n)
    <3>1. NoticeEvent.kind # "Response"
      BY DEF NoticeEvent
    <3>2. CASE events' = events
      BY <1>3, <3>2
    <3>3. CASE events' = Append(events, NoticeEvent)
      BY <1>6, <3>1, <3>3
    <3>4. QED
      BY <2>1, <3>2, <3>3 DEF Moves
  <2>2. CASE Says(n)
    <3> DEFINE e == Response(<<<<n, runs[n].deltas + 1>>>>, FALSE, <<>>)
    <3>1. events' = Append(events, e) /\ e.context = <<>>
      BY <2>2 DEF Says, Response
    <3> HIDE DEF e
    <3>2. TellsNext(shown \cup Coming, e.context)
      BY <1>3, <3>1
    <3>3. QED
      BY <1>6, <3>1, <3>2
  <2>3. CASE Finishes(n)
    <3> DEFINE e == Response(<<>>, TRUE, Updated(n))
    <3>1. events' = Append(events, e) /\ e.context = Updated(n) /\ runs[n].pc = "live"
      BY <2>3 DEF Finishes, Response, Live
    <3> HIDE DEF e
    <3>2. ToSet(Updated(n)) = ToSet(runs[n].context) \cup {<<n, k>> : k \in 0 .. runs[n].deltas}
      BY UpdatedPieces DEF Base, TerminalTypeOK
    <3>3. \A k \in 1 .. runs[n].deltas : <<n, k>> \in shown \cup Coming
      BY <3>1 DEF InOrderInv, PiecesCome, Counted, Live
    <3>4. \A k \in 0 .. runs[n].deltas : k = 0 \/ k \in 1 .. runs[n].deltas
      <4>1. runs[n].deltas \in Nat
        BY RunsAre DEF Base, TerminalTypeOK
      <4>2. QED
        BY <4>1
    <3>5. TellsNext(shown \cup Coming, Updated(n))
      <4> SUFFICES ASSUME NEW piece \in ToSet(Updated(n))
                   PROVE  piece \in shown \cup Coming \/ (piece[2] = 0 /\ runs'[piece[1]].greeting)
        BY DEF TellsNext
      <4>1. CASE piece \in ToSet(runs[n].context)
        BY <1>3, <4>1 DEF TellsNext
      <4>2. ASSUME NEW k \in 0 .. runs[n].deltas, piece = <<n, k>>
            PROVE  piece \in shown \cup Coming \/ (piece[2] = 0 /\ runs'[piece[1]].greeting)
        BY <1>3, <3>1, <3>3, <3>4, <4>2
      <4>3. QED
        BY <3>2, <4>1, <4>2
    <3>6. QED
      BY <1>6, <3>1, <3>5
  <2>4. QED
    BY <1>2, <2>1, <2>2, <2>3
<1>8. QED
  BY <1>1, <1>3, <1>5, <1>7, TellingNext

LEMMA TellStep ==
  ASSUME Base, ContextsRemember, ContextsAreShown, InOrderInv, [Next]_vars
  PROVE  ContextsAreShown'
<1>1. CASE UNCHANGED vars
  BY <1>1 DEF vars, volatile, ContextsAreShown, Tells, Greets, Responds
<1>2. QED
  BY <1>1, Steps, QuietTells, BoundsTell, OpenTells, HearTells, SendTells, RunTells

(* The agent is never told, in a context, what the user was not shown: the *)
(* context a response brings is taken only after the pieces it consists of. *)
THEOREM ContextStaysShown == Spec => []ContextIsShown
<1>1. Init => InOrderInv /\ ContextsRemember /\ ContextsAreShown
  <2>1. ASSUME Init PROVE InOrderInv /\ ContextsRemember /\ ContextsAreShown
    <3>1. /\ app = NewState /\ events = <<>> /\ runs = <<>> /\ ~file.saved /\ ui = "down"
          /\ app.messages = <<>> /\ app.context = <<>>
      BY <2>1, Beginning, NewStateIs DEF NoFile
    <3>2. Shown(app.messages) = {} /\ Coming = {} /\ PiecesInOrder(app.messages)
          /\ DOMAIN events = {} /\ DOMAIN runs = {} /\ ToSet(app.context) = {}
      BY <3>1, NothingShown DEF Coming
    <3>3. InOrderInv
      BY <3>1, <3>2 DEF InOrderInv, PiecesCome, ScreenInOrder, InTurn, Ahead, Counted, FileCounted
    <3>4. ContextsRemember /\ ContextsAreShown
      BY <3>1, <3>2 DEF ContextsRemember, Remembers, ContextsAreShown, Tells
    <3>5. QED
      BY <3>3, <3>4
  <2>2. QED
    BY <2>1
<1>2. /\ Base /\ InOrderInv /\ [Next]_vars => InOrderInv'
      /\ Base /\ ContextsRemember /\ [Next]_vars => ContextsRemember'
      /\ Base /\ ContextsRemember /\ ContextsAreShown /\ InOrderInv /\ [Next]_vars => ContextsAreShown'
  BY OrderStep, ContextsRememberStep, TellStep
<1>3. Base /\ ContextsAreShown => ContextIsShown
  <2> SUFFICES ASSUME Base, ContextsAreShown, NEW i \in DOMAIN app.context
               PROVE  \/ app.context[i] \in Shown(app.messages)
                      \/ app.context[i][2] = 0 /\ runs[app.context[i][1]].greeting
    BY DEF ContextIsShown
  <2>1. app.context[i] \in ToSet(app.context)
    BY DEF ToSet
  <2>2. QED
    BY <2>1 DEF ContextsAreShown, Tells, Greets
<1>4. QED
  BY <1>1, <1>2, <1>3, BaseHolds, PTL DEF Spec
=============================================================================
