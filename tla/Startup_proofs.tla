--------------------------- MODULE Startup_proofs ---------------------------
(***************************************************************************)
(* What holds of Startup for any number of programs, setups and starts,    *)
(* and of CodeExecutor, Binaries and Profiles, which it stands on, for any *)
(* number of calls.                                                        *)
(***************************************************************************)
EXTENDS Startup, CodeExecutor, Binaries, Profiles, Induction

Fields == {"pc", "server", "need", "tools", "listed", "llm", "key", "config", "env",
           "setup", "mode"}
Conditions == {"none", "torn", "whole"}

Handling == {"unpack", "publish", "tidy"}

StartupTypeOK ==
  /\ DOMAIN program = Programs
  /\ \A p \in Programs : DOMAIN program[p] = Fields
  /\ published \in [Artifacts -> Conditions]
  /\ staged \in [Staged -> Conditions]

(* A program is beside the place of an artifact only when it is one that   *)
(* is staged; it tidies after a repository, and no script makes one of     *)
(* them.                                                                   *)
WantsFit ==
  \A p \in Programs :
    /\ program[p].pc \in Handling \cup {"stage"} => Wanted(p) \in Staged
    /\ At(p, "tidy") => Wanted(p) = "repo"
    /\ At(p, "script") => Wanted(p) \notin Staged

(* As long as no two programs handled it, one alone does, and what it is   *)
(* about to publish is whole, or was cleared away.                         *)
Undisturbed ==
  \A a \in Staged \ disturbed :
    /\ \A p, q \in Programs : Handles(p, a) /\ Handles(q, a) => p = q
    /\ \A p \in Programs : Handles(p, a) /\ At(p, "publish") => staged[a] # "torn"

SInv == StartupTypeOK /\ WantsFit /\ Undisturbed /\ PublishedIsWhole

LEMMA InitSInv == InitStartup => SInv
BY DEF InitStartup, SInv, StartupTypeOK, WantsFit, Undisturbed, PublishedIsWhole, Off, Fields,
       Conditions, Handling, At, Handles, Artifacts

(* A program that goes to a step at which it handles nothing, while the    *)
(* disk stays as it is.                                                    *)
Elsewhere == Handling \cup {"stage", "script"}

(* What a step of one program leaves of the others, and of what they want. *)
LEMMA OthersStay ==
  ASSUME DOMAIN program = Programs, NEW p \in Programs, NEW r, Becomes(p, r)
  PROVE  /\ DOMAIN program' = Programs /\ program'[p] = r
         /\ \A q \in Programs \ {p} : program'[q] = program[q] /\ Wanted(q)' = Wanted(q)
BY DEF Becomes, Wanted, Server

LEMMA GoesElsewhere ==
  ASSUME SInv, NEW p \in Programs, NEW r, Becomes(p, r), DOMAIN r = Fields,
         r.pc \notin Elsewhere, UNCHANGED diskVars
  PROVE  SInv'
<1>1. /\ DOMAIN program' = Programs /\ program'[p] = r
      /\ \A q \in Programs \ {p} : program'[q] = program[q] /\ Wanted(q)' = Wanted(q)
  BY OthersStay DEF SInv, StartupTypeOK
<1>2. StartupTypeOK'
  BY <1>1 DEF SInv, StartupTypeOK, diskVars
<1>3. WantsFit'
  <2> SUFFICES ASSUME NEW q \in Programs PROVE WantsFit!(q)'
    BY DEF WantsFit
  <2>1. CASE q = p
    BY <1>1, <2>1 DEF Elsewhere, Handling, At
  <2>2. CASE q # p
    BY <1>1, <2>2 DEF SInv, WantsFit, At
  <2>3. QED
    BY <2>1, <2>2
<1>4. Undisturbed'
  <2>1. \A q \in Programs : \A a : Handles(q, a)' => q # p /\ Handles(q, a)
    BY <1>1 DEF Handles, Elsewhere, Handling
  <2>2. \A q \in Programs \ {p} : At(q, "publish")' => At(q, "publish")
    BY <1>1 DEF At
  <2>3. QED
    BY <2>1, <2>2 DEF SInv, Undisturbed, diskVars
<1>5. PublishedIsWhole'
  BY DEF SInv, PublishedIsWhole, diskVars
<1>6. QED
  BY <1>2, <1>3, <1>4, <1>5 DEF SInv

(* Where a program goes that has its artifact, or cannot have it. *)
Apart(r) == DOMAIN r = Fields /\ r.pc \notin Elsewhere

LEMMA ToServerApart ==
  ASSUME NEW p \in Programs, DOMAIN program[p] = Fields, NEW i, NEW tools, NEW listed
  PROVE  Apart(ToServer(p, i, tools, listed))
BY Zenon DEF ToServer, Apart, Fields, Elsewhere, Handling

LEMMA NextStepApart ==
  ASSUME StartupTypeOK, NEW p \in Programs
  PROVE  Apart(Off) /\ Apart(Skipped(p)) /\ Apart(Obtained(p)) /\ Apart(Unobtained(p))
<1>1. DOMAIN program[p] = Fields
  BY DEF StartupTypeOK
<1>2. Apart(Off)
  BY DEF Apart, Off, Fields, Elsewhere, Handling
<1>3. Apart(Skipped(p))
  BY <1>1, ToServerApart DEF Skipped
<1>4. Apart(Obtained(p))
  BY <1>1 DEF Apart, Obtained, Fields, Elsewhere, Handling
<1>5. QED
  BY <1>2, <1>3, <1>4 DEF Unobtained

(* The steps of a program that handles nothing before nor after. *)
LEMMA QuietStep ==
  ASSUME SInv, NEW p \in Programs,
         \/ \E s \in Setups : Start(p, s)
         \/ Seek(p) \/ SkipServer(p) \/ Confirm(p) \/ FetchFails(p) \/ UnpackFails(p)
         \/ Read(p) \/ ReadFails(p) \/ ConfigureLlm(p) \/ ConfigureTools(p)
         \/ Connect(p) \/ ConnectFails(p) \/ ListTools(p) \/ ListingFails(p)
         \/ Executor(p) \/ Rag(p) \/ PartFails(p) \/ Authorize(p) \/ Bind(p) \/ Quit(p)
  PROVE  SInv'
<1> DEFINE Goes == UNCHANGED diskVars /\ \E r : Apart(r) /\ Becomes(p, r)
<1> SUFFICES Goes
  BY GoesElsewhere DEF Apart
<1>0. DOMAIN program[p] = Fields /\ StartupTypeOK
  BY DEF SInv, StartupTypeOK
<1>a. /\ Apart(Off) /\ Apart(Skipped(p)) /\ Apart(Obtained(p)) /\ Apart(Unobtained(p))
      /\ \A i, tools, listed : Apart(ToServer(p, i, tools, listed))
  BY <1>0, NextStepApart, ToServerApart
<1>b. \A pc \in {"confirm", "fetch", "list", "rag", "authorize", "working", "serving"} :
        Apart([program[p] EXCEPT !.pc = pc])
  BY <1>0 DEF Apart, Fields, Elsewhere, Handling
<1>1. ASSUME NEW s \in Setups, Start(p, s) PROVE Goes
  BY <1>1, Zenon DEF Start, Apart, Off, Fields, Elsewhere, Handling
<1>2. CASE Seek(p)
  BY <1>2, <1>a, <1>b DEF Seek
<1>3. CASE SkipServer(p) \/ FetchFails(p) \/ UnpackFails(p) \/ ListingFails(p)
  BY <1>3, <1>a DEF SkipServer, FetchFails, UnpackFails, ListingFails
<1>4. CASE Confirm(p) \/ Connect(p) \/ Executor(p) \/ Rag(p)
  BY <1>4, <1>a, <1>b DEF Confirm, Connect, Executor, Rag, GoOn
<1>5. CASE ReadFails(p) \/ ConnectFails(p) \/ PartFails(p) \/ Quit(p)
  BY <1>5, <1>a DEF ReadFails, ConnectFails, PartFails, Quit, Fails
<1>6. CASE Read(p)
  <2>1. \A config, env :
          Apart([program[p] EXCEPT !.pc = "llm", !.config = config, !.env = env])
    BY <1>0 DEF Apart, Fields, Elsewhere, Handling
  <2>2. QED
    BY <1>6, <1>a, <2>1, Zenon DEF Read
<1>7. CASE ConfigureLlm(p)
  <2>1. \A llm, key : Apart([program[p] EXCEPT !.pc = "tools", !.llm = llm, !.key = key])
    BY <1>0 DEF Apart, Fields, Elsewhere, Handling
  <2>2. QED
    BY <1>7, <1>a, <2>1, Zenon DEF ConfigureLlm, Fails
<1>8. CASE ConfigureTools(p) \/ ListTools(p)
  BY <1>8, <1>a DEF ConfigureTools, ListTools, Fails
<1>9. CASE Authorize(p)
  BY <1>9, <1>0 DEF Authorize, Apart, Fields, Elsewhere, Handling
<1>10. CASE Bind(p)
  BY <1>10, <1>a, <1>b DEF Bind, GoOn, Fails
<1>11. QED
  BY <1>1, <1>2, <1>3, <1>4, <1>5, <1>6, <1>7, <1>8, <1>9, <1>10

(* The steps that prepare an artifact beside its place, and those that end *)
(* there.                                                                  *)
LEMMA OthersHandle ==
  ASSUME SInv, NEW p \in Programs, NEW r, Becomes(p, r)
  PROVE  /\ DOMAIN program' = Programs /\ program'[p] = r
         /\ \A q \in Programs \ {p} : \A a :
              /\ Handles(q, a)' = Handles(q, a) /\ At(q, "publish")' = At(q, "publish")
         /\ WantsFit!(p)' => WantsFit'
<1>1. /\ DOMAIN program' = Programs /\ program'[p] = r
      /\ \A q \in Programs \ {p} : program'[q] = program[q] /\ Wanted(q)' = Wanted(q)
  BY OthersStay DEF SInv, StartupTypeOK
<1>2. \A q \in Programs \ {p} : \A a :
        Handles(q, a)' = Handles(q, a) /\ At(q, "publish")' = At(q, "publish")
  BY <1>1 DEF Handles, At
<1>3. ASSUME WantsFit!(p)' PROVE WantsFit'
  <2> SUFFICES ASSUME NEW q \in Programs, q # p PROVE WantsFit!(q)'
    BY <1>3 DEF WantsFit
  <2>1. WantsFit!(q)
    BY DEF SInv, WantsFit
  <2>2. QED
    BY <1>1, <2>1 DEF At
<1>4. QED
  BY <1>1, <1>2, <1>3

LEMMA GoesOn ==
  ASSUME SInv, NEW p \in Programs, NEW pc, GoOn(p, pc)
  PROVE  /\ Becomes(p, [program[p] EXCEPT !.pc = pc])
         /\ program'[p].pc = pc /\ Wanted(p)' = Wanted(p)
         /\ \A q \in Programs : DOMAIN program'[q] = Fields
BY DEF GoOn, Becomes, SInv, StartupTypeOK, Fields, Wanted, Server

LEMMA FetchStep ==
  ASSUME SInv, NEW p \in Programs, Fetch(p)
  PROVE  SInv'
<1>1. PICK pc \in {"stage", "script"} :
         GoOn(p, pc) /\ (pc = "stage" <=> Wanted(p) \in Staged)
  BY DEF Fetch
<1>2. /\ Becomes(p, [program[p] EXCEPT !.pc = pc])
      /\ program'[p].pc = pc /\ Wanted(p)' = Wanted(p)
      /\ \A q \in Programs : DOMAIN program'[q] = Fields
  BY <1>1, GoesOn
<1>3. /\ DOMAIN program' = Programs
      /\ \A q \in Programs \ {p} : \A a :
           /\ Handles(q, a)' = Handles(q, a) /\ At(q, "publish")' = At(q, "publish")
      /\ WantsFit!(p)' => WantsFit'
  BY <1>2, OthersHandle
<1>4. UNCHANGED diskVars
  BY DEF Fetch
<1>5. StartupTypeOK' /\ PublishedIsWhole'
  BY <1>2, <1>3, <1>4 DEF SInv, StartupTypeOK, PublishedIsWhole, diskVars
<1>6. WantsFit'
  BY <1>1, <1>2, <1>3 DEF At, Handling
<1>7. Undisturbed'
  <2>1. \A q \in Programs : \A a : Handles(q, a)' => q # p /\ Handles(q, a)
    BY <1>2, <1>3 DEF Handles
  <2>2. QED
    BY <2>1, <1>3, <1>4 DEF SInv, Undisturbed, diskVars
<1>8. QED
  BY <1>5, <1>6, <1>7 DEF SInv

LEMMA StageStep ==
  ASSUME SInv, NEW p \in Programs, Stage(p)
  PROVE  SInv'
<1> DEFINE a == Wanted(p)
<1>1. a \in Staged /\ GoOn(p, "unpack") /\ published' = published /\ halfCleared' = halfCleared
      /\ staged' = [staged EXCEPT ![a] = "torn"] /\ Disturb(p, a)
  BY DEF Stage, SInv, WantsFit, At
<1> HIDE DEF a
<1>2. /\ Becomes(p, [program[p] EXCEPT !.pc = "unpack"])
      /\ program'[p].pc = "unpack" /\ Wanted(p)' = a
      /\ \A q \in Programs : DOMAIN program'[q] = Fields
  BY <1>1, GoesOn DEF a
<1>3. /\ DOMAIN program' = Programs
      /\ \A q \in Programs \ {p} : \A b :
           /\ Handles(q, b)' = Handles(q, b) /\ At(q, "publish")' = At(q, "publish")
      /\ WantsFit!(p)' => WantsFit'
  BY <1>2, OthersHandle
<1>4. StartupTypeOK' /\ PublishedIsWhole'
  BY <1>1, <1>2, <1>3 DEF SInv, StartupTypeOK, PublishedIsWhole, Disturb, Conditions
<1>5. WantsFit'
  BY <1>1, <1>2, <1>3 DEF At, Handling
<1>6. Undisturbed'
  <2> SUFFICES ASSUME NEW b \in Staged \ disturbed' PROVE Undisturbed!(b)'
    BY DEF Undisturbed
  <2>1. Undisturbed!(b) /\ \A q : ~(Handles(p, b)' /\ q = p /\ At(p, "publish")')
    BY <1>1, <1>2 DEF SInv, Undisturbed, Disturb, At
  <2>2. CASE b # a
    BY <1>1, <1>2, <1>3, <2>1, <2>2 DEF Handles, At, SInv, StartupTypeOK
  <2>3. CASE b = a
    <3>1. \A q \in Programs \ {p} : ~Handles(q, a)
      BY <1>1, <2>3 DEF Disturb, Others
    <3>2. QED
      BY <3>1, <1>2, <1>3, <2>3 DEF At
  <2>4. QED
    BY <2>2, <2>3
<1>7. QED
  BY <1>4, <1>5, <1>6 DEF SInv

(* Whoever unpacks what nobody disturbed is alone with it. *)
LEMMA UnpackStep ==
  ASSUME SInv, NEW p \in Programs, Unpack(p)
  PROVE  SInv'
<1> DEFINE a == Wanted(p)
<1>1. /\ a \in Staged /\ Handles(p, a) /\ GoOn(p, "publish")
      /\ published' = published /\ disturbed' = disturbed /\ halfCleared' = halfCleared
  BY DEF Unpack, SInv, WantsFit, At, Handles, Handling
<1>2. PICK unpacked \in {"torn", "whole"} :
        /\ staged' = [staged EXCEPT ![a] = unpacked]
        /\ Others(p, a) = {} /\ a \notin disturbed => unpacked = "whole"
  BY DEF Unpack
<1> HIDE DEF a
<1>3. /\ Becomes(p, [program[p] EXCEPT !.pc = "publish"])
      /\ program'[p].pc = "publish" /\ Wanted(p)' = a
      /\ \A q \in Programs : DOMAIN program'[q] = Fields
  BY <1>1, GoesOn DEF a
<1>4. /\ DOMAIN program' = Programs
      /\ \A q \in Programs \ {p} : \A b :
           /\ Handles(q, b)' = Handles(q, b) /\ At(q, "publish")' = At(q, "publish")
      /\ WantsFit!(p)' => WantsFit'
  BY <1>3, OthersHandle
<1>5. StartupTypeOK' /\ PublishedIsWhole'
  BY <1>1, <1>2, <1>3, <1>4 DEF SInv, StartupTypeOK, PublishedIsWhole, Conditions
<1>6. WantsFit'
  BY <1>1, <1>3, <1>4 DEF At, Handling
<1>7. Undisturbed'
  <2> SUFFICES ASSUME NEW b \in Staged \ disturbed PROVE Undisturbed!(b)'
    BY <1>1 DEF Undisturbed
  <2>1. Undisturbed!(b)
    BY DEF SInv, Undisturbed
  <2>2. CASE b # a
    <3>1. ~Handles(p, b)' /\ staged'[b] = staged[b]
      BY <1>2, <1>3, <2>2 DEF Handles, SInv, StartupTypeOK
    <3>2. QED
      BY <1>4, <2>1, <3>1
  <2>3. CASE b = a
    <3>1. \A q \in Programs \ {p} : ~Handles(q, a)
      BY <1>1, <2>1, <2>3
    <3>2. staged'[a] = "whole"
      BY <1>1, <1>2, <2>3, <3>1 DEF Others, SInv, StartupTypeOK
    <3>3. QED
      BY <3>1, <3>2, <1>4, <2>3
  <2>4. QED
    BY <2>2, <2>3
<1>8. QED
  BY <1>5, <1>6, <1>7 DEF SInv

(* The steps at the end: a program leaves the place beside.                *)
LEMMA PublishStep ==
  ASSUME SInv, NEW p \in Programs, Publish(p)
  PROVE  SInv'
<1> DEFINE a == Wanted(p)
           renamed == staged[a] # "none" /\ (a = "repo" => published[a] = "none")
<1>1. a \in Staged /\ Handles(p, a) /\ At(p, "publish") /\ Disturb(p, a)
  BY DEF Publish, SInv, WantsFit, At, Handles, Handling
<1>2. /\ published' = IF renamed THEN [published EXCEPT ![a] = staged[a]] ELSE published
      /\ staged' = IF renamed THEN [staged EXCEPT ![a] = "none"] ELSE staged
  BY DEF Publish
<1>3. PICK r : /\ Becomes(p, r) /\ DOMAIN r = Fields
               /\ Apart(r) \/ (a = "repo" /\ r = [program[p] EXCEPT !.pc = "tidy"])
  <2>1. DOMAIN [program[p] EXCEPT !.pc = "tidy"] = Fields
    BY DEF SInv, StartupTypeOK
  <2>2. Apart(Obtained(p)) /\ Apart(Unobtained(p))
    BY NextStepApart DEF SInv
  <2>3. QED
    BY <2>1, <2>2 DEF Publish, Apart
<1> HIDE DEF a, renamed
<1>4. /\ DOMAIN program' = Programs /\ program'[p] = r
      /\ \A q \in Programs \ {p} : \A b :
           /\ Handles(q, b)' = Handles(q, b) /\ At(q, "publish")' = At(q, "publish")
      /\ WantsFit!(p)' => WantsFit'
      /\ \A q \in Programs \ {p} : program'[q] = program[q]
  BY <1>3, OthersHandle, OthersStay DEF SInv, StartupTypeOK
<1>5. program'[p].pc \notin Elsewhere \/ (program'[p].pc = "tidy" /\ Wanted(p)' = "repo" /\ a = "repo")
  BY <1>3, <1>4 DEF Apart, a, Wanted, Server, SInv, StartupTypeOK, Fields
<1>6. StartupTypeOK'
  BY <1>1, <1>2, <1>3, <1>4 DEF SInv, StartupTypeOK, Artifacts, Staged, Conditions
<1>7. WantsFit'
  BY <1>4, <1>5 DEF At, Handling, Elsewhere, Staged
<1>8. \A b \in Staged \ disturbed' :
        b \notin disturbed /\ (b = a => \A q \in Programs \ {p} : ~Handles(q, a))
  BY <1>1 DEF Disturb, Others
<1>9. \A b \in Staged \ disturbed' : published'[b] = "torn" => b = "repo" /\ halfCleared'
  BY <1>1, <1>2, <1>8 DEF Publish, SInv, StartupTypeOK, PublishedIsWhole, Undisturbed, Artifacts
<1>10. Undisturbed'
  <2> SUFFICES ASSUME NEW b \in Staged \ disturbed' PROVE Undisturbed!(b)'
    BY DEF Undisturbed
  <2>1. Undisturbed!(b)
    BY <1>8 DEF SInv, Undisturbed
  <2>2. /\ ~At(p, "publish")' /\ (Handles(p, b)' => b = a)
        /\ b # a => staged'[b] = staged[b]
    BY <1>2, <1>5 DEF At, Handles, Elsewhere, Handling, SInv, StartupTypeOK
  <2>3. CASE b # a
    BY <1>4, <2>1, <2>2, <2>3
  <2>4. CASE b = a
    BY <1>4, <1>8, <2>2, <2>4
  <2>5. QED
    BY <2>3, <2>4
<1>11. QED
  BY <1>6, <1>7, <1>9, <1>10 DEF SInv, PublishedIsWhole

(* A program that handles nothing afterwards, and left the disk as it was  *)
(* but for the place beside a repository it tidied, or an artifact that a  *)
(* script makes.                                                           *)
LEMMA LeavingStep ==
  ASSUME SInv, NEW p \in Programs,
         Tidy(p) \/ RunScript(p) \/ ScriptFails(p) \/ Crash(p)
  PROVE  SInv'
<1>1. PICK r : Becomes(p, r) /\ Apart(r)
  BY NextStepApart DEF Tidy, RunScript, ScriptFails, Crash, SInv
<1>2. /\ DOMAIN program' = Programs /\ program'[p] = r
      /\ \A q \in Programs \ {p} : program'[q] = program[q]
      /\ \A q \in Programs \ {p} : \A b :
           /\ Handles(q, b)' = Handles(q, b) /\ At(q, "publish")' = At(q, "publish")
      /\ WantsFit!(p)' => WantsFit'
  BY <1>1, OthersHandle, OthersStay DEF SInv, StartupTypeOK
<1>3. \/ UNCHANGED published
      \/ \E rest \in {published[Wanted(p)], "torn", "whole"} :
           /\ Wanted(p) \notin Staged
           /\ published' = [published EXCEPT ![Wanted(p)] = rest]
  BY DEF Tidy, RunScript, ScriptFails, Crash, HalfWritten, SInv, WantsFit
<1>4. /\ published' \in [Artifacts -> Conditions] /\ halfCleared' = halfCleared
      /\ \A b \in Staged : published'[b] = published[b]
  BY <1>3 DEF SInv, StartupTypeOK, Conditions, Artifacts, Tidy, RunScript, ScriptFails, Crash
<1>5. /\ staged' \in [Staged -> Conditions]
      /\ \A b \in Staged \ disturbed' : b \notin disturbed /\ staged'[b] \in {staged[b], "none"}
  <2>1. CASE Tidy(p)
    BY <2>1 DEF Tidy, Disturb, SInv, StartupTypeOK, Staged, Conditions
  <2>2. CASE RunScript(p) \/ ScriptFails(p) \/ Crash(p)
    BY <2>2 DEF RunScript, ScriptFails, Crash, SInv, StartupTypeOK
  <2>3. QED
    BY <2>1, <2>2
<1>6. StartupTypeOK' /\ PublishedIsWhole'
  BY <1>1, <1>2, <1>4, <1>5 DEF SInv, StartupTypeOK, PublishedIsWhole, Apart
<1>7. WantsFit'
  BY <1>1, <1>2 DEF Apart, At, Elsewhere, Handling
<1>8. Undisturbed'
  <2>1. \A q \in Programs : \A a : Handles(q, a)' => q # p /\ Handles(q, a)
    BY <1>1, <1>2 DEF Handles, Apart, Elsewhere, Handling
  <2>2. \A b \in Staged \ disturbed' : b \in Staged \ disturbed /\ (staged'[b] = "torn" => staged[b] = "torn")
    BY <1>5
  <2>3. QED
    BY <1>2, <2>1, <2>2 DEF SInv, Undisturbed
<1>9. QED
  BY <1>6, <1>7, <1>8 DEF SInv

LEMMA ClearStep == SInv /\ (ClearCache \/ ClearHalf) => SInv'
<1> SUFFICES ASSUME SInv, ClearCache \/ ClearHalf PROVE SInv'
  OBVIOUS
<1>1. /\ program' = program
      /\ disturbed' = IF \E p \in Programs : Handles(p, "repo")
                      THEN disturbed \cup {"repo"} ELSE disturbed
  BY DEF ClearCache, ClearHalf, ClearStarts
<1>2. PICK repo \in Conditions, beside \in Conditions :
         /\ published' = [published EXCEPT !["repo"] = repo]
         /\ staged' = [staged EXCEPT !["repo"] = beside]
         /\ halfCleared' = (repo = "torn")
  <2>1. published["repo"] \in Conditions /\ staged["repo"] \in Conditions
    BY DEF SInv, StartupTypeOK, Artifacts, Staged
  <2>2. CASE ClearCache
    BY <2>2 DEF ClearCache, Conditions
  <2>3. CASE ClearHalf
    BY <2>1, <2>3 DEF ClearHalf, Remains, Conditions
  <2>4. QED
    BY <2>2, <2>3
<1>3. StartupTypeOK' /\ PublishedIsWhole'
  BY <1>1, <1>2 DEF SInv, StartupTypeOK, PublishedIsWhole, Staged, Artifacts
<1>4. WantsFit'
  BY <1>1 DEF SInv, WantsFit, At, Wanted, Server
<1>5. Undisturbed'
  <2> SUFFICES ASSUME NEW a \in Staged \ disturbed' PROVE Undisturbed!(a)'
    BY DEF Undisturbed
  <2>1. Undisturbed!(a)
    BY <1>1 DEF SInv, Undisturbed
  <2>2. \A p \in Programs : Handles(p, a)' = Handles(p, a) /\ At(p, "publish")' = At(p, "publish")
    BY <1>1 DEF Handles, At, Wanted, Server
  <2>3. a = "repo" => \A p \in Programs : ~Handles(p, a)
    BY <1>1
  <2>4. a # "repo" => staged'[a] = staged[a]
    BY <1>2 DEF SInv, StartupTypeOK
  <2>5. QED
    BY <2>1, <2>2, <2>3, <2>4
<1>6. QED
  BY <1>3, <1>4, <1>5 DEF SInv

LEMMA NextSInv == SInv /\ [NextStartup]_startupVars => SInv'
<1> SUFFICES ASSUME SInv, [NextStartup]_startupVars PROVE SInv'
  OBVIOUS
<1>1. ASSUME NEW p \in Programs, StartStep(p) PROVE SInv'
  BY <1>1, QuietStep, FetchStep, StageStep, UnpackStep, PublishStep, LeavingStep DEF StartStep
<1>2. ASSUME NEW p \in Programs, Quit(p) \/ Crash(p) PROVE SInv'
  BY <1>2, QuietStep, LeavingStep
<1>3. ASSUME NEW p \in Programs, NEW s \in Setups, Start(p, s) PROVE SInv'
  BY <1>3, QuietStep
<1>4. CASE ClearCache \/ ClearHalf
  BY <1>4, ClearStep
<1>5. CASE UNCHANGED startupVars
  <2>1. UNCHANGED <<program, published, staged, disturbed, halfCleared>>
    BY <1>5 DEF startupVars, diskVars
  <2>2. \A q \in Programs : Wanted(q)' = Wanted(q)
    BY <2>1 DEF Wanted, Server
  <2>3. StartupTypeOK' /\ WantsFit' /\ PublishedIsWhole'
    BY <2>1, <2>2 DEF SInv, StartupTypeOK, WantsFit, PublishedIsWhole, At
  <2>4. Undisturbed'
    BY <2>1, <2>2 DEF SInv, Undisturbed, Handles, At
  <2>5. QED
    BY <2>3, <2>4 DEF SInv
<1>6. QED
  BY <1>1, <1>2, <1>3, <1>4, <1>5 DEF NextStartup

-----------------------------------------------------------------------------
(* However many programs start and die, and however often the cache is     *)
(* cleared: a repository or bun that no two of them handled at once is     *)
(* whole when it is found, unless it is the repository that a clear which  *)
(* ended half-way left (that one is not made whole again, nor noticed).    *)
THEOREM FoundIsWhole == SpecStartup => []PublishedIsWhole
<1>1. SpecStartup => []SInv
  BY InitSInv, NextSInv, PTL DEF SpecStartup
<1>2. SInv => PublishedIsWhole
  BY DEF SInv
<1>3. QED
  BY <1>1, <1>2, PTL

-----------------------------------------------------------------------------
(* What a program's record is at each step of the start, stated about the  *)
(* record: a step gives one program a new one, whatever the disk is.       *)
Sought   == {"seek", "confirm", "fetch", "stage", "unpack", "publish", "tidy", "script"}
AtServer == Sought \cup {"skip", "connect", "list"}
Made     == {"executor", "rag", "authorize", "bind", "serving", "working"}
InServers(r) == r.pc \in AtServer /\ r.server # 0
HasRead(r) == r.pc \in {"llm", "tools"} \cup Made \/ InServers(r)

(* What from_source leaves of the configuration it was given. *)
LlmFits(s, llm, env) ==
  IF s.config.llm = NoLlm THEN llm = NoLlm
  ELSE /\ llm # NoLlm /\ llm.keyEnv = s.config.llm.keyEnv
       /\ llm.key = IF llm.keyEnv \in env THEN llm.keyEnv
                    ELSE IF llm.keyEnv = "none" /\ s.config.llm.key = "none"
                    THEN FirstSet(LlmKeys, env) ELSE s.config.llm.key

TextIn(home, prompts, part) ==
  Join(home, IF part.kind = "file" THEN part.file ELSE prompts.fragments[part.fragment])

PromptsFit(s, config) ==
  LET home == IF s.source = "github" THEN "repo" ELSE s.dir
      prompts == s.config.prompts
  IN s.source # "url" /\ prompts.given =>
       config.prompts.assembled =
         [i \in DOMAIN prompts.system |-> TextIn(home, prompts, prompts.system[i])]

ConfigFits(s, config, env) ==
  /\ config.servers = s.config.servers
  /\ LlmFits(s, config.llm, env) /\ PromptsFit(s, config)
  /\ s.env \cup s.config.variables \subseteq env /\ "none" \notin env

KeyIsFit(s, llm, key, env) ==
  LET given == s.config.llm
  IN CASE given = NoLlm ->
            /\ key \in env
            /\ \E i \in DOMAIN Patterns : Patterns[i].variable = key /\ Patterns[i].provider = llm.provider
       [] given # NoLlm /\ given.keyEnv \in env -> key = given.keyEnv
       [] given # NoLlm /\ given.keyEnv \notin env /\ given.key # "none" -> key = given.key
       [] OTHER -> /\ given.keyEnv = "none" /\ key \in env
                   /\ \E i \in DOMAIN LlmKeys :
                        LlmKeys[i] = key /\ \A j \in 1 .. i - 1 : LlmKeys[j] \notin env

(* Prompts are resolved without a change to the rest of a configuration.   *)
LEMMA ResolvePromptsKeeps ==
  ASSUME NEW config, NEW base, NEW there, NEW fields, DOMAIN config = fields
  PROVE  LET to == ResolvePrompts(config, base, there).config
         IN /\ DOMAIN to = fields
            /\ \A f \in fields \ {"prompts"} : to[f] = config[f]
BY Zenon DEF ResolvePrompts

(* A prompt is read from the base directory, or not at all. *)
PromptsResolve(prompts, base, to) ==
  /\ to.given /\ DOMAIN to = DOMAIN prompts
  /\ to.system = prompts.system /\ to.fragments = prompts.fragments
  /\ to.assembled = [i \in DOMAIN prompts.system |-> TextIn(base, prompts, prompts.system[i])]
  /\ \A i \in DOMAIN prompts.system :
       prompts.system[i].kind = "fragment" => prompts.system[i].fragment \in DOMAIN prompts.fragments

LEMMA ResolvePromptsReads ==
  ASSUME NEW config, NEW base, NEW there, NEW prompts,
         "prompts" \in DOMAIN config, config.prompts = prompts, prompts.given,
         DOMAIN prompts = {"given", "fragments", "system", "purpose", "assembled"},
         base # "none", ResolvePrompts(config, base, there).ok,
         prompts.system = <<>> => prompts.assembled = <<>>
  PROVE  PromptsResolve(prompts, base, ResolvePrompts(config, base, there).config.prompts)
<1>1. prompts.system = <<>> =>
        prompts.assembled = [i \in DOMAIN prompts.system |-> TextIn(base, prompts, prompts.system[i])]
  OBVIOUS
<1>2. QED
  BY <1>1 DEF ResolvePrompts, PromptsResolve, TextIn

(* The environment fills in keys, and nothing else. *)
LEMMA ResolveEnvironmentFits ==
  ASSUME NEW s \in Setups, NEW there
  PROVE  LET env == EnvironmentOf(s.config, s.env, there)
             to == ResolveEnvironment(s.config, s.env, there).config
         IN /\ DOMAIN to = DOMAIN s.config
            /\ to.servers = s.config.servers /\ to.prompts = s.config.prompts
            /\ LlmFits(s, to.llm, env)
            /\ s.env \cup s.config.variables \subseteq env /\ "none" \notin env
<1> DEFINE env == EnvironmentOf(s.config, s.env, there)
           to == ResolveEnvironment(s.config, s.env, there).config
           llm == s.config.llm
<1>1. /\ IsGolaConfig(s.config) /\ llm \in LlmConfigs
      /\ s.env \subseteq STRING \ {"none"} /\ s.config.variables \subseteq STRING \ {"none"}
      /\ \A f \in s.config.envFiles : f.variables \subseteq STRING \ {"none"}
  BY StartupAssumption, Zenon DEF IsGolaConfig, IsEnvironmentConfig
<1>2. s.env \cup s.config.variables \subseteq env /\ "none" \notin env
  BY <1>1 DEF EnvironmentOf
<1>3. /\ DOMAIN to = DOMAIN s.config
      /\ to.servers = s.config.servers /\ to.prompts = s.config.prompts
      /\ to.llm = IF llm = NoLlm THEN llm ELSE ResolveAuth(llm, env, LlmKeys)
  BY <1>1 DEF ResolveEnvironment, IsGolaConfig
<1> HIDE DEF env, to
<1>4. llm # NoLlm => LlmFits(s, ResolveAuth(llm, env, LlmKeys), env)
  <2> SUFFICES ASSUME llm # NoLlm PROVE LlmFits(s, ResolveAuth(llm, env, LlmKeys), env)
    OBVIOUS
  <2> DEFINE r == ResolveAuth(llm, env, LlmKeys)
  <2>1. \/ llm.keyEnv \in env /\ r = [llm EXCEPT !.key = llm.keyEnv]
        \/ /\ llm.keyEnv \notin env /\ llm.keyEnv = "none" /\ llm.key = "none"
           /\ r = [llm EXCEPT !.key = FirstSet(LlmKeys, env)]
        \/ llm.keyEnv \notin env /\ ~(llm.keyEnv = "none" /\ llm.key = "none") /\ r = llm
    <3>1. CASE llm.keyEnv \in env
      <4>1. llm.keyEnv # "none"
        BY <1>2, <3>1
      <4>2. QED
        BY <3>1, <4>1, Zenon DEF ResolveAuth
    <3>2. CASE llm.keyEnv \notin env
      BY <3>2, Zenon DEF ResolveAuth
    <3>3. QED
      BY <3>1, <3>2
  <2>2. r.keyEnv = llm.keyEnv /\ r.provider = llm.provider
    BY <1>1, <2>1 DEF LlmConfigs, Auths
  <2>3. llm.keyEnv \in env => r.key = llm.keyEnv
    BY <1>1, <2>1 DEF LlmConfigs, Auths
  <2>4. llm.keyEnv \notin env =>
          r.key = IF llm.keyEnv = "none" /\ llm.key = "none" THEN FirstSet(LlmKeys, env) ELSE llm.key
    BY <1>1, <2>1 DEF LlmConfigs, Auths
  <2>5. r # NoLlm
    <3>1. CASE llm.keyEnv # "none" \/ llm.provider # "none"
      BY <2>2, <3>1 DEF NoLlm
    <3>2. CASE llm.keyEnv = "none" /\ llm.provider = "none"
      <4>1. llm.key # "none"
        BY <1>1, <3>2 DEF NoLlm, LlmConfigs, Auths
      <4>2. QED
        BY <1>2, <2>4, <3>2, <4>1 DEF NoLlm
    <3>3. QED
      BY <3>1, <3>2
  <2>6. QED
    BY <2>2, <2>3, <2>4, <2>5 DEF LlmFits
<1>5. LlmFits(s, to.llm, env)
  BY <1>3, <1>4 DEF LlmFits
<1>6. QED
  BY <1>2, <1>3, <1>5 DEF env, to

LEMMA FromStrFits ==
  ASSUME NEW s \in Setups, NEW base, NEW there
  PROVE  LET env == EnvironmentOf(s.config, s.env, there)
             from == FromStr(s.config, s.env, base, there)
             prompts == s.config.prompts
             to == from.config
         IN /\ DOMAIN to = DOMAIN s.config
            /\ to.servers = s.config.servers
            /\ LlmFits(s, to.llm, env)
            /\ s.env \cup s.config.variables \subseteq env /\ "none" \notin env
            /\ base # "none" /\ prompts.given /\ from.ok => PromptsResolve(prompts, base, to.prompts)
<1> DEFINE env == EnvironmentOf(s.config, s.env, there)
           environment == ResolveEnvironment(s.config, s.env, there)
           prompts == ResolvePrompts(environment.config, base, there)
           from == FromStr(s.config, s.env, base, there)
<1>1. /\ from.config = prompts.config
      /\ from.ok => prompts.ok
  BY DEF FromStr
<1>2. /\ DOMAIN environment.config = DOMAIN s.config
      /\ environment.config.servers = s.config.servers
      /\ environment.config.prompts = s.config.prompts
      /\ LlmFits(s, environment.config.llm, env)
      /\ s.env \cup s.config.variables \subseteq env /\ "none" \notin env
  BY ResolveEnvironmentFits
<1>3. /\ {"servers", "llm", "prompts"} \subseteq DOMAIN s.config
      /\ DOMAIN s.config.prompts = {"given", "fragments", "system", "purpose", "assembled"}
      /\ s.config.prompts.assembled = <<>>
  BY StartupAssumption, Zenon DEF IsGolaConfig, IsPromptConfig
<1> HIDE DEF env, environment
<1>4. /\ DOMAIN prompts.config = DOMAIN s.config
      /\ prompts.config.servers = s.config.servers
      /\ prompts.config.llm = environment.config.llm
  BY <1>2, <1>3, ResolvePromptsKeeps
<1>5. ASSUME base # "none", s.config.prompts.given, from.ok
      PROVE  PromptsResolve(s.config.prompts, base, prompts.config.prompts)
  BY <1>1, <1>2, <1>3, <1>5, ResolvePromptsReads
<1>6. QED
  BY <1>1, <1>2, <1>4, <1>5 DEF env

(* Read again from the repository, a prompt is still the file it named.    *)
LEMMA RebasedTwice ==
  ASSUME NEW config, NEW base, NEW there, NEW prompts, NEW first,
         IsPromptConfig(prompts), prompts.given,
         "prompts" \in DOMAIN config, config.prompts = first, PromptsResolve(prompts, base, first),
         ResolvePrompts(ResolveRelativePaths(config, "repo"), "repo", there).ok
  PROVE  ResolvePrompts(ResolveRelativePaths(config, "repo"), "repo", there).config.prompts.assembled
           = [i \in DOMAIN prompts.system |-> TextIn("repo", prompts, prompts.system[i])]
<1> DEFINE moved == ResolveRelativePaths(config, "repo")
           to == ResolvePrompts(moved, "repo", there).config.prompts
<1>1. /\ "prompts" \in DOMAIN moved
      /\ DOMAIN moved.prompts = {"given", "fragments", "system", "purpose", "assembled"}
      /\ moved.prompts.given = first.given /\ moved.prompts.assembled = first.assembled
      /\ moved.prompts.fragments = [f \in DOMAIN first.fragments |-> Join("repo", first.fragments[f])]
      /\ moved.prompts.system =
           [i \in DOMAIN first.system |-> [first.system[i] EXCEPT !.file = Join("repo", @)]]
  BY DEF ResolveRelativePaths, PromptsResolve, IsPromptConfig
<1>2. /\ moved.prompts.given /\ ResolvePrompts(moved, "repo", there).ok
      /\ moved.prompts.system = <<>> => moved.prompts.assembled = <<>>
  <2>1. ASSUME moved.prompts.system = <<>> PROVE moved.prompts.assembled = <<>>
    <3>1. DOMAIN prompts.system = DOMAIN <<>>
      BY <1>1, <2>1 DEF PromptsResolve
    <3>2. first.assembled = [i \in DOMAIN <<>> |-> TextIn(base, prompts, prompts.system[i])]
      BY <3>1, Zenon DEF PromptsResolve
    <3>3. QED
      BY <1>1, <3>2
  <2>2. QED
    BY <1>1, <2>1 DEF PromptsResolve
<1> HIDE DEF moved
<1>3. PromptsResolve(moved.prompts, "repo", to)
  BY <1>1, <1>2, ResolvePromptsReads DEF PromptsResolve
<1>4. ASSUME NEW i \in DOMAIN prompts.system
      PROVE  TextIn("repo", moved.prompts, moved.prompts.system[i])
               = TextIn("repo", prompts, prompts.system[i])
  <2>1. prompts.system[i] \in PromptSources
    BY DEF IsPromptConfig
  <2>2. /\ moved.prompts.system[i] = [prompts.system[i] EXCEPT !.file = Join("repo", @)]
        /\ prompts.system[i].kind = "fragment" =>
             /\ prompts.system[i].fragment \in DOMAIN prompts.fragments
             /\ moved.prompts.fragments[prompts.system[i].fragment]
                  = Join("repo", prompts.fragments[prompts.system[i].fragment])
    BY <1>1 DEF PromptsResolve
  <2>3. \A file : Join("repo", Join("repo", file)) = Join("repo", file)
    BY Zenon DEF Join, File
  <2>4. QED
    BY <2>1, <2>2, <2>3 DEF TextIn, PromptSources
<1>5. DOMAIN moved.prompts.system = DOMAIN prompts.system
  BY <1>1 DEF PromptsResolve
<1>6. to.assembled = [i \in DOMAIN prompts.system |-> TextIn("repo", prompts, prompts.system[i])]
  BY <1>3, <1>4, <1>5 DEF PromptsResolve
<1>7. QED
  BY <1>6 DEF moved

LEMMA LoadedFits ==
  ASSUME NEW s \in Setups, NEW there, Loaded(s, there).ok
  PROVE  ConfigFits(s, Loaded(s, there).config, EnvironmentOf(s.config, s.env, there))
<1> DEFINE env == EnvironmentOf(s.config, s.env, there)
           base == IF s.source = "url" THEN "none" ELSE s.dir
           first == FromStr(s.config, s.env, base, there)
           again == ResolvePrompts(ResolveRelativePaths(first.config, "repo"), "repo", there)
           prompts == s.config.prompts
<1>1. /\ DOMAIN first.config = DOMAIN s.config
      /\ first.config.servers = s.config.servers
      /\ LlmFits(s, first.config.llm, env)
      /\ s.env \cup s.config.variables \subseteq env /\ "none" \notin env
      /\ base # "none" /\ prompts.given /\ first.ok =>
           PromptsResolve(prompts, base, first.config.prompts)
  BY FromStrFits
<1>2. /\ s.source \in {"file", "url", "github"} /\ s.dir # "none" /\ IsPromptConfig(prompts)
      /\ {"servers", "llm", "prompts"} \subseteq DOMAIN s.config
  BY StartupAssumption, Zenon DEF IsGolaConfig
<1> HIDE DEF first, env
<1>3. CASE s.source \in {"file", "url"}
  <2>1. Loaded(s, there) = first
    BY <1>3 DEF Loaded, FromSource, first
  <2>2. PromptsFit(s, first.config)
    BY <1>1, <1>2, <1>3, <2>1 DEF PromptsFit, PromptsResolve
  <2>3. QED
    BY <1>1, <2>1, <2>2 DEF ConfigFits, env
<1>4. CASE s.source = "github"
  <2>1. /\ Loaded(s, there).config = again.config /\ first.ok /\ again.ok
    BY <1>4 DEF Loaded, FromSource, FromGithub, first
  <2>2. PromptsFit(s, again.config)
    <3> SUFFICES ASSUME prompts.given
                 PROVE  again.config.prompts.assembled =
                          [i \in DOMAIN prompts.system |-> TextIn("repo", prompts, prompts.system[i])]
      BY <1>4 DEF PromptsFit
    <3>1. PromptsResolve(prompts, base, first.config.prompts)
      BY <1>1, <1>2, <1>4, <2>1
    <3>2. QED
      BY <1>1, <1>2, <2>1, <3>1, RebasedTwice
  <2>3. again.config.servers = first.config.servers /\ again.config.llm = first.config.llm
    <3> DEFINE moved == ResolveRelativePaths(first.config, "repo")
    <3>1. /\ DOMAIN moved = DOMAIN first.config
          /\ moved.servers = first.config.servers /\ moved.llm = first.config.llm
      BY <1>1, <1>2 DEF ResolveRelativePaths
    <3> HIDE DEF moved
    <3>2. /\ ResolvePrompts(moved, "repo", there).config.servers = moved.servers
          /\ ResolvePrompts(moved, "repo", there).config.llm = moved.llm
      BY <1>1, <1>2, <3>1, ResolvePromptsKeeps
    <3>3. QED
      BY <3>1, <3>2 DEF moved
  <2>4. QED
    BY <1>1, <2>1, <2>2, <2>3 DEF ConfigFits, env
<1>5. QED
  BY <1>2, <1>3, <1>4

-----------------------------------------------------------------------------
(* What is detected for a provider is one of its patterns, for a variable  *)
(* that is set.                                                            *)
LEMMA PatternsAreWhole ==
  /\ DOMAIN Patterns = 1..8
  /\ \A i \in 1..8 : Patterns[i].provider \in Providers /\ Patterns[i].confidence \in {1, 2, 3}
<1> DEFINE Whole(d) == /\ d.provider \in {"OpenAI", "Anthropic", "Gemini"}
                       /\ d.confidence \in {1, 2, 3}
<1>1. DOMAIN Patterns = 1..8
  BY DEF Patterns
<1>2. \A provider, variable, confidence :
        provider \in {"OpenAI", "Anthropic", "Gemini"} /\ confidence \in {1, 2, 3}
          => Whole(Pattern(provider, variable, confidence))
  BY DEF Pattern
<1> HIDE DEF Whole
<1>3. /\ Whole(Patterns[1]) /\ Whole(Patterns[2]) /\ Whole(Patterns[3]) /\ Whole(Patterns[4])
      /\ Whole(Patterns[5]) /\ Whole(Patterns[6]) /\ Whole(Patterns[7]) /\ Whole(Patterns[8])
  BY <1>2 DEF Patterns
<1>4. \A i \in 1..8 : i = 1 \/ i = 2 \/ i = 3 \/ i = 4 \/ i = 5 \/ i = 6 \/ i = 7 \/ i = 8
  OBVIOUS
<1>5. \A i \in 1..8 : Whole(Patterns[i])
  BY <1>3, <1>4
<1>6. QED
  BY <1>1, <1>5 DEF Whole, Providers

LEMMA DetectedIsSet ==
  ASSUME NEW env, NEW provider \in DOMAIN DetectProviders(env)
  PROVE  /\ provider \in Providers
         /\ \E i \in DOMAIN Patterns : /\ DetectProviders(env)[provider] = Patterns[i]
                                      /\ Patterns[i].variable \in env
                                      /\ Patterns[i].provider = provider
<1> DEFINE set == {i \in DOMAIN Patterns : Patterns[i].variable \in env}
           own == {i \in set : Patterns[i].provider = provider}
           Better(i, j) == \/ Patterns[i].confidence > Patterns[j].confidence
                           \/ Patterns[i].confidence = Patterns[j].confidence /\ i <= j
           best == CHOOSE i \in own : \A j \in own : Better(i, j)
           Rank(i) == 10 * (3 - Patterns[i].confidence) + i
<1>1. /\ provider \in {Patterns[i].provider : i \in set}
      /\ DetectProviders(env)[provider] = Patterns[best]
  BY DEF DetectProviders
<1>2. own # {} /\ own \subseteq 1..8
  BY <1>1, PatternsAreWhole
<1>3. \A i \in 1..8 : Rank(i) \in Nat
  BY PatternsAreWhole
<1>4. PICK i \in own : \A j \in own : Rank(i) <= Rank(j)
  <2> DEFINE ranks == {Rank(i) : i \in own}
  <2>1. ranks \in SUBSET Nat /\ ranks # {}
    BY <1>2, <1>3
  <2>2. PICK r \in ranks : \A q \in ranks : r <= q
    BY <2>1, LeastNumber
  <2>3. QED
    BY <2>2
<1>5. \A j \in own : Better(i, j)
  BY <1>2, <1>4, PatternsAreWhole
<1>6. best \in own
  BY <1>5
<1>7. QED
  BY <1>1, <1>6, PatternsAreWhole, Zenon

LEMMA ProvidedIsSet ==
  ASSUME NEW env, NEW preferred, ProvideDefaults(env, preferred) # NoLlm
  PROVE  \E i \in DOMAIN Patterns :
           /\ Patterns[i].variable \in env
           /\ ProvideDefaults(env, preferred) =
                [provider |-> Patterns[i].provider, keyEnv |-> Patterns[i].variable, key |-> "none"]
<1> DEFINE detected == DetectProviders(env)
           order == <<preferred, Contextual("none"), "Anthropic", "OpenAI", "Gemini">>
           IsFirst(i) == /\ order[i] \in DOMAIN detected
                         /\ \A j \in DOMAIN order : order[j] \in DOMAIN detected => i <= j
           first == CHOOSE i \in DOMAIN order : IsFirst(i)
           hits == {i \in 1..5 : order[i] \in DOMAIN detected}
           selected == SelectProvider(detected, preferred, "none")
<1>1. /\ DOMAIN detected # {}
      /\ ProvideDefaults(env, preferred) =
           [provider |-> selected.provider, keyEnv |-> selected.variable, key |-> "none"]
  BY DEF ProvideDefaults
<1>2. DOMAIN detected \subseteq Providers
  BY DetectedIsSet
<1>3. DOMAIN order = 1..5 /\ order[3] = "Anthropic" /\ order[4] = "OpenAI" /\ order[5] = "Gemini"
  OBVIOUS
<1>4. selected = detected[order[first]]
  BY DEF SelectProvider
<1> HIDE DEF detected, order
<1>5. hits # {} /\ hits \in SUBSET Nat
  BY <1>1, <1>2, <1>3 DEF Providers
<1>6. \E i \in DOMAIN order : IsFirst(i)
  <2>1. PICK i \in hits : \A j \in hits : i <= j
    BY <1>5, LeastNumber
  <2>2. QED
    BY <2>1, <1>3
<1>7. order[first] \in DOMAIN detected
  BY <1>6
<1>8. QED
  BY <1>1, <1>4, <1>7, DetectedIsSet DEF detected

(* The first of the common variables that is set. *)
LEMMA FirstSetIs ==
  ASSUME NEW env, NEW key, key = FirstSet(LlmKeys, env)
  PROVE  \/ key = "none" /\ \A i \in DOMAIN LlmKeys : LlmKeys[i] \notin env
         \/ \E i \in DOMAIN LlmKeys : /\ LlmKeys[i] = key /\ key \in env
                                     /\ \A j \in 1 .. i - 1 : LlmKeys[j] \notin env
<1> DEFINE set == {i \in DOMAIN LlmKeys : LlmKeys[i] \in env}
           first == CHOOSE i \in set : \A j \in set : i <= j
<1>1. DOMAIN LlmKeys = 1 .. 3
  BY DEF LlmKeys
<1>2. CASE set = {}
  BY <1>2 DEF FirstSet
<1>3. CASE set # {}
  <2>1. \E i \in set : \A j \in set : i <= j
    BY <1>1, <1>3
  <2>2. first \in set /\ \A j \in set : first <= j
    BY <2>1
  <2>3. key = LlmKeys[first]
    BY <1>3 DEF FirstSet
  <2> HIDE DEF first
  <2>4. \A j \in 1 .. first - 1 : LlmKeys[j] \notin env
    BY <1>1, <2>2
  <2>5. QED
    BY <2>2, <2>3, <2>4
<1>4. QED
  BY <1>2, <1>3

(* A client that is made has the key its configuration says.               *)
LEMMA ClientKeyFits ==
  ASSUME NEW s \in Setups, NEW config, NEW env, ConfigFits(s, config, env),
         NEW llm, llm = IF config.llm = NoLlm THEN ProvideDefaults(env, s.preferred) ELSE config.llm,
         NEW key, key = CreateLlmClient(llm, env), key # "none"
  PROVE  KeyIsFit(s, llm, key, env)
<1>1. LlmFits(s, config.llm, env) /\ "none" \notin env
  BY DEF ConfigFits
<1>2. /\ llm.key # "none" => key = llm.key
      /\ llm.key = "none" /\ llm.keyEnv \in env => key = llm.keyEnv
      /\ llm.key = "none" /\ llm.keyEnv \notin env => llm.provider = "Gemini" /\ llm.keyEnv = "none"
  BY <1>1 DEF CreateLlmClient, CreateGeminiClient, CreateClient
<1>3. CASE s.config.llm = NoLlm
  <2>1. llm = ProvideDefaults(env, s.preferred)
    BY <1>1, <1>3 DEF LlmFits
  <2>2. llm # NoLlm
    BY <1>1, <1>2 DEF NoLlm
  <2>3. PICK i \in DOMAIN Patterns :
          /\ Patterns[i].variable \in env
          /\ llm = [provider |-> Patterns[i].provider, keyEnv |-> Patterns[i].variable, key |-> "none"]
    BY <2>1, <2>2, ProvidedIsSet
  <2>4. QED
    BY <1>2, <1>3, <2>3 DEF KeyIsFit
<1>4. CASE s.config.llm # NoLlm
  <2>1. llm = config.llm /\ llm.keyEnv = s.config.llm.keyEnv
    BY <1>1, <1>4 DEF LlmFits
  <2>2. CASE llm.keyEnv \in env
    <3>1. llm.key = llm.keyEnv
      BY <1>1, <1>4, <2>1, <2>2 DEF LlmFits
    <3>2. key = llm.keyEnv
      BY <1>1, <1>2, <2>2, <3>1
    <3>3. QED
      BY <1>4, <2>1, <2>2, <3>2 DEF KeyIsFit
  <2>3. CASE llm.keyEnv \notin env
    <3>1. llm.key = IF llm.keyEnv = "none" /\ s.config.llm.key = "none"
                    THEN FirstSet(LlmKeys, env) ELSE s.config.llm.key
      BY <1>1, <1>4, <2>1, <2>3 DEF LlmFits
    <3>2. CASE s.config.llm.key # "none"
      <4>1. key = s.config.llm.key
        BY <1>2, <3>1, <3>2
      <4>2. QED
        BY <1>4, <2>1, <2>3, <3>2, <4>1 DEF KeyIsFit
    <3>3. CASE s.config.llm.key = "none"
      <4>1. llm.keyEnv = "none" /\ llm.key = FirstSet(LlmKeys, env)
        BY <1>2, <2>3, <3>1, <3>3
      <4>2. llm.key # "none"
        <5>1. llm.key = "none" => key = "GEMINI_API_KEY" /\ "GEMINI_API_KEY" \in env
          BY <4>1 DEF CreateLlmClient, CreateGeminiClient, CreateClient
        <5>2. "GEMINI_API_KEY" = LlmKeys[2] /\ 2 \in DOMAIN LlmKeys
          BY DEF LlmKeys
        <5>3. llm.key # "none" \/ "GEMINI_API_KEY" \notin env
          BY <1>1, <4>1, <5>2, FirstSetIs
        <5>4. QED
          BY <5>1, <5>3
      <4>3. key = FirstSet(LlmKeys, env) /\ key # "none"
        BY <1>2, <4>1, <4>2
      <4>4. /\ key \in env
            /\ \E i \in DOMAIN LlmKeys :
                 LlmKeys[i] = key /\ \A j \in 1 .. i - 1 : LlmKeys[j] \notin env
        BY <4>3, FirstSetIs
      <4>5. QED
        BY <1>4, <2>1, <2>3, <3>3, <4>1, <4>4 DEF KeyIsFit
    <3>4. QED
      BY <3>2, <3>3
  <2>4. QED
    BY <2>2, <2>3
<1>5. QED
  BY <1>3, <1>4

-----------------------------------------------------------------------------
(* The table of tools while servers are listed one after another: the last *)
(* of them that offers a tool has it.                                      *)
LastOf(I) == CHOOSE i \in I : \A j \in I : j <= i

OwnTools(tools, config, listed) ==
  LET servers == config.servers
      Offering(n) == {i \in listed : n \in servers[i].offers}
  IN /\ DOMAIN tools = BuiltinTools(config) \cup UNION {servers[i].offers : i \in listed}
     /\ \A n \in DOMAIN tools :
          tools[n] = IF Offering(n) # {} THEN servers[LastOf(Offering(n))].name ELSE "builtin"

LEMMA LastIsGreatest ==
  ASSUME NEW I \in SUBSET Nat, NEW i \in I, \A j \in I : j <= i
  PROVE  LastOf(I) = i
<1> DEFINE last == LastOf(I)
<1>1. last \in I /\ \A j \in I : j <= last
  BY DEF LastOf
<1> HIDE DEF last
<1>2. last \in Nat /\ i \in Nat /\ last <= i /\ i <= last
  BY <1>1
<1>3. last = i
  BY <1>2
<1>4. QED
  BY <1>3 DEF last

LEMMA BuiltinToolsAreOwn ==
  ASSUME NEW config
  PROVE  OwnTools(OwnedBy(BuiltinTools(config), "builtin"), config, {})
BY DEF OwnTools, OwnedBy

LEMMA ListedToolsAreOwn ==
  ASSUME NEW tools, NEW config, NEW i \in Nat, NEW listed \in SUBSET (1..(i - 1)),
         OwnTools(tools, config, listed)
  PROVE  OwnTools(Insert(config.servers[i].offers, config.servers[i].name, tools),
                  config, listed \cup {i})
<1> DEFINE server == config.servers[i]
           after == Insert(server.offers, server.name, tools)
           Offering(n, l) == {j \in l : n \in config.servers[j].offers}
<1>1. /\ DOMAIN after = server.offers \cup DOMAIN tools
      /\ \A n \in DOMAIN after : after[n] = IF n \in server.offers THEN server.name ELSE tools[n]
  BY DEF Insert
<1>2. DOMAIN after = BuiltinTools(config) \cup UNION {config.servers[j].offers : j \in listed \cup {i}}
  BY <1>1 DEF OwnTools
<1>3. ASSUME NEW n \in DOMAIN after
      PROVE  after[n] = IF Offering(n, listed \cup {i}) # {}
                        THEN config.servers[LastOf(Offering(n, listed \cup {i}))].name ELSE "builtin"
  <2>1. CASE n \in server.offers
    <3> DEFINE I == Offering(n, listed \cup {i})
    <3>0. \A j \in listed \cup {i} : j \in Nat /\ j <= i
      OBVIOUS
    <3>1. i \in I /\ I \in SUBSET Nat /\ \A j \in I : j <= i
      BY <2>1, <3>0
    <3> HIDE DEF I
    <3>2. LastOf(I) = i
      BY <3>1, LastIsGreatest
    <3> USE DEF I
    <3>3. QED
      BY <1>1, <2>1, <3>1, <3>2
  <2>2. CASE n \notin server.offers
    <3>1. Offering(n, listed \cup {i}) = Offering(n, listed)
      BY <2>2
    <3>2. n \in DOMAIN tools /\ after[n] = tools[n]
      BY <1>1, <2>2
    <3>3. QED
      BY <3>1, <3>2 DEF OwnTools
  <2>3. QED
    BY <2>1, <2>2
<1> HIDE DEF after
<1>4. QED
  BY <1>2, <1>3 DEF OwnTools, after

OwnOrControl(tools, config, listed) ==
  LET servers == config.servers
      Offering(n) == {i \in listed : n \in servers[i].offers}
      all == ControlTools \cup BuiltinTools(config) \cup UNION {servers[i].offers : i \in listed}
  IN /\ DOMAIN tools = all
     /\ \A n \in all :
          tools[n] = CASE n \in ControlTools -> "control"
                       [] n \notin ControlTools /\ Offering(n) # {} ->
                            servers[CHOOSE i \in Offering(n) : \A j \in Offering(n) : j <= i].name
                       [] OTHER -> "builtin"

LEMMA ControlToolsAreAdded ==
  ASSUME NEW tools, NEW config, NEW listed, OwnTools(tools, config, listed)
  PROVE  OwnOrControl(Insert(ControlTools, "control", tools), config, listed)
<1> DEFINE after == Insert(ControlTools, "control", tools)
<1>1. /\ DOMAIN after = ControlTools \cup DOMAIN tools
      /\ \A n \in DOMAIN after : after[n] = IF n \in ControlTools THEN "control" ELSE tools[n]
  BY DEF Insert
<1> HIDE DEF after
<1>2. OwnOrControl(after, config, listed)
  BY <1>1 DEF OwnTools, OwnOrControl, LastOf
<1>3. QED
  BY <1>2 DEF after

-----------------------------------------------------------------------------
(* The invariant of a record, from the first step of a start to the last.  *)
ModeFits(s, mode) ==
  mode = "AlwaysAllow" => s.noToolAuth \/ s.mode \in {"embedded", "task"}

RecordFits(r) ==
  /\ DOMAIN r = Fields /\ r.server \in Nat
  /\ r.pc # "off" => r.setup \in Setups /\ ModeFits(r.setup, r.mode)
  /\ r.pc \in {"skip", "connect", "list"} => r.server # 0
  /\ HasRead(r) => ConfigFits(r.setup, r.config, r.env)
  /\ HasRead(r) /\ r.pc # "llm" => KeyIsFit(r.setup, r.llm, r.key, r.env)
  /\ InServers(r) => /\ r.server \in DOMAIN r.config.servers
                     /\ r.listed \subseteq 1..(r.server - 1)
                     /\ OwnTools(r.tools, r.config, r.listed)
  /\ r.pc \in Made => OwnOrControl(r.tools, r.config, r.listed)

CInv == DOMAIN program = Programs /\ \A p \in Programs : RecordFits(program[p])

LEMMA OffFits == RecordFits(Off)
BY DEF RecordFits, Off, Fields, HasRead, InServers, AtServer, Sought, Made

(* The next server, or the end of them. *)
LEMMA ToServerFits ==
  ASSUME CInv, NEW p \in Programs, NEW i \in Nat, NEW tools, NEW listed \in SUBSET (1..i),
         HasRead(program[p]), program[p].pc # "llm", program[p].setup \in Setups,
         OwnTools(tools, program[p].config, listed)
  PROVE  RecordFits(ToServer(p, i, tools, listed))
<1> DEFINE r == program[p]
           to == ToServer(p, i, tools, listed)
           servers == r.config.servers
           later == {k \in DOMAIN servers : k > i /\ servers[k].enabled}
           j == CHOOSE j \in later : \A k \in later : j <= k
<1>1. /\ RecordFits(r) /\ DOMAIN r = Fields /\ r.setup \in Setups
      /\ ConfigFits(r.setup, r.config, r.env) /\ KeyIsFit(r.setup, r.llm, r.key, r.env)
      /\ ModeFits(r.setup, r.mode) /\ r.server \in Nat
  BY DEF CInv, RecordFits, HasRead, InServers, AtServer, Sought, Made
<1>2. servers \in Seq(McpServerConfigs)
  BY <1>1, StartupAssumption, Zenon DEF ConfigFits, IsGolaConfig
<1>3. CASE later = {}
  <2>1. to = [r EXCEPT !.pc = "executor", !.listed = listed, !.tools = Insert(ControlTools, "control", tools)]
    BY <1>3, Zenon DEF ToServer
  <2>2. /\ DOMAIN to = Fields /\ to.pc = "executor" /\ to.server = r.server /\ to.setup = r.setup
        /\ to.mode = r.mode /\ to.config = r.config /\ to.env = r.env /\ to.llm = r.llm /\ to.key = r.key
        /\ to.listed = listed /\ to.tools = Insert(ControlTools, "control", tools)
    BY <1>1, <2>1 DEF Fields
  <2>3. OwnOrControl(to.tools, to.config, to.listed)
    BY <2>2, ControlToolsAreAdded
  <2>4. ~InServers(to)
    BY <2>2 DEF InServers, AtServer, Sought
  <2> HIDE DEF to
  <2>5. RecordFits(to)
    BY <1>1, <2>2, <2>3, <2>4 DEF RecordFits
  <2>6. QED
    BY <2>5 DEF to
<1>4. CASE later # {}
  <2>1. PICK pc \in {"skip", "connect", "seek"} :
          to = [r EXCEPT !.server = j, !.need = 1, !.tools = tools, !.listed = listed, !.pc = pc]
    BY <1>4, Zenon DEF ToServer
  <2>2. j \in later
    <3>1. later \in SUBSET Nat
      BY <1>2
    <3>2. QED
      BY <1>4, <3>1, LeastNumber
  <2> HIDE DEF j
  <2>3. j \in DOMAIN servers /\ j \in Nat /\ j > i
    BY <1>2, <2>2
  <2> HIDE DEF to
  <2>4. j # 0 /\ listed \subseteq 1..(j - 1)
    BY <2>3
  <2>5. /\ DOMAIN to = Fields /\ to.pc = pc /\ to.server = j /\ to.setup = r.setup
        /\ to.mode = r.mode /\ to.config = r.config /\ to.env = r.env /\ to.llm = r.llm /\ to.key = r.key
        /\ to.listed = listed /\ to.tools = tools
    BY <1>1, <2>1 DEF Fields
  <2>6. to.pc \in AtServer /\ to.pc \notin Made /\ to.pc # "off"
    BY <2>5 DEF AtServer, Sought, Made
  <2>7. RecordFits(to)
    BY <1>1, <2>3, <2>4, <2>5, <2>6 DEF RecordFits, InServers
  <2>8. QED
    BY <2>7 DEF to
<1>5. QED
  BY <1>3, <1>4

(* A program that goes on within a part of its start takes its record.     *)
LEMMA GoesOnFits ==
  ASSUME NEW r, RecordFits(r), NEW pc,
         \/ r.pc \in Sought /\ pc \in Sought \cup {"read"}
         \/ r.pc \in Sought /\ r.server # 0 /\ pc = "connect"
         \/ r.pc = "connect" /\ pc = "list"
         \/ r.pc \in Made /\ pc \in Made
  PROVE  /\ RecordFits([r EXCEPT !.pc = pc])
         /\ r.pc \in Sought /\ pc \in Sought => \A need : RecordFits([r EXCEPT !.pc = pc, !.need = need])
<1>1. ASSUME NEW need, NEW to,
             \/ to = [r EXCEPT !.pc = pc]
             \/ to = [r EXCEPT !.pc = pc, !.need = need]
      PROVE  RecordFits(to)
  <2>1. /\ DOMAIN to = Fields /\ to.pc = pc /\ to.server = r.server /\ to.setup = r.setup
        /\ to.mode = r.mode /\ to.config = r.config /\ to.env = r.env /\ to.llm = r.llm
        /\ to.key = r.key /\ to.listed = r.listed /\ to.tools = r.tools
    BY <1>1 DEF RecordFits, Fields
  <2>2. /\ to.pc # "off" /\ r.pc # "off"
        /\ to.pc \in {"skip", "connect", "list"} => r.server # 0
        /\ HasRead(to) => HasRead(r) /\ r.pc # "llm"
        /\ InServers(to) => InServers(r)
        /\ to.pc \in Made => r.pc \in Made
    BY <2>1 DEF RecordFits, HasRead, InServers, AtServer, Sought, Made
  <2>3. QED
    BY <2>1, <2>2 DEF RecordFits
<1>2. QED
  BY <1>1, Zenon

LEMMA SkippedFits ==
  ASSUME CInv, NEW p \in Programs, InServers(program[p])
  PROVE  RecordFits(Skipped(p))
<1> DEFINE r == program[p]
<1>1. /\ HasRead(r) /\ r.pc # "llm" /\ r.pc # "off" /\ RecordFits(r)
  BY DEF CInv, HasRead, InServers, AtServer, Sought
<1>2. /\ r.setup \in Setups /\ r.server \in Nat /\ r.listed \subseteq 1..(r.server - 1)
      /\ OwnTools(r.tools, r.config, r.listed)
  BY <1>1 DEF RecordFits
<1>3. r.listed \in SUBSET (1..r.server)
  BY <1>2
<1>4. QED
  BY <1>1, <1>2, <1>3, ToServerFits DEF Skipped

(* After an artifact, whether it is there or not. *)
LEMMA SoughtFits ==
  ASSUME CInv, NEW p \in Programs, program[p].pc \in Sought
  PROVE  RecordFits(Obtained(p)) /\ RecordFits(Unobtained(p))
<1>1. RecordFits(program[p]) /\ (Wanted(p) # "repo" => program[p].server # 0)
  BY DEF CInv, Wanted
<1>2. RecordFits(Obtained(p))
  <2>1. CASE Wanted(p) = "repo"
    BY <1>1, <2>1, GoesOnFits, Zenon DEF Obtained
  <2>2. CASE Wanted(p) # "repo"
    <3>1. Obtained(p) \in {[program[p] EXCEPT !.pc = "seek", !.need = @ + 1],
                           [program[p] EXCEPT !.pc = "connect"]}
      BY <2>2 DEF Obtained
    <3>2. RecordFits([program[p] EXCEPT !.pc = "connect"])
      BY <1>1, <2>2, GoesOnFits, Zenon
    <3>3. RecordFits([program[p] EXCEPT !.pc = "seek", !.need = @ + 1])
      BY <1>1, GoesOnFits, Zenon DEF Sought
    <3>4. QED
      BY <3>1, <3>2, <3>3
  <2>3. QED
    BY <2>1, <2>2
<1>3. RecordFits(Unobtained(p))
  <2>1. Wanted(p) # "repo" => InServers(program[p])
    BY <1>1 DEF InServers, AtServer
  <2>2. QED
    BY <2>1, OffFits, SkippedFits DEF Unobtained
<1>4. QED
  BY <1>2, <1>3

(* Every step gives its program such a record.                             *)
LEMMA RecordStep ==
  ASSUME CInv, NEW p \in Programs, NEW r, RecordFits(r), Becomes(p, r)
  PROVE  CInv'
BY DEF CInv, Becomes

LEMMA FetchingFits ==
  ASSUME CInv, NEW p \in Programs,
         \/ Seek(p) \/ Confirm(p) \/ Fetch(p) \/ FetchFails(p) \/ Stage(p) \/ Unpack(p)
         \/ UnpackFails(p) \/ Publish(p) \/ Tidy(p) \/ RunScript(p) \/ ScriptFails(p)
  PROVE  CInv'
<1> DEFINE Goes == \/ Becomes(p, Obtained(p)) \/ Becomes(p, Unobtained(p))
                   \/ \E pc \in Sought : Becomes(p, [program[p] EXCEPT !.pc = pc])
<1>1. program[p].pc \in Sought /\ RecordFits(program[p])
  BY DEF CInv, Sought, At, Seek, Confirm, Fetch, FetchFails, Stage, Unpack, UnpackFails, Publish,
         Tidy, RunScript, ScriptFails
<1>2. Goes
  <2>1. CASE Seek(p)
    BY <2>1 DEF Seek, Sought
  <2>2. CASE Confirm(p) \/ Fetch(p) \/ Stage(p) \/ Unpack(p)
    BY <2>2 DEF Confirm, Fetch, Stage, Unpack, GoOn, Sought
  <2>3. CASE Publish(p)
    BY <2>3 DEF Publish, Sought
  <2>4. CASE FetchFails(p) \/ UnpackFails(p) \/ Tidy(p) \/ RunScript(p) \/ ScriptFails(p)
    BY <2>4 DEF FetchFails, UnpackFails, Tidy, RunScript, ScriptFails
  <2>5. QED
    BY <2>1, <2>2, <2>3, <2>4
<1>3. \A pc \in Sought : RecordFits([program[p] EXCEPT !.pc = pc])
  BY <1>1, GoesOnFits, Zenon
<1>4. QED
  BY <1>1, <1>2, <1>3, SoughtFits, RecordStep

LEMMA EndingFits ==
  ASSUME CInv, NEW p \in Programs,
         ReadFails(p) \/ ConnectFails(p) \/ PartFails(p) \/ Quit(p) \/ Crash(p)
  PROVE  CInv'
BY OffFits, RecordStep DEF ReadFails, ConnectFails, PartFails, Quit, Crash, Fails

LEMMA StartFits ==
  ASSUME CInv, NEW p \in Programs, NEW s \in Setups, Start(p, s)
  PROVE  CInv'
<1>1. PICK pc \in {"seek", "read"} : Becomes(p, [Off EXCEPT !.setup = s, !.pc = pc])
  BY DEF Start
<1> DEFINE r == [Off EXCEPT !.setup = s, !.pc = pc]
<1>2. /\ DOMAIN r = Fields /\ r.pc = pc /\ r.setup = s /\ r.mode = "Ask" /\ r.server = 0
  BY DEF Off, Fields
<1> HIDE DEF r
<1>3. RecordFits(r)
  BY <1>2 DEF RecordFits, ModeFits, HasRead, InServers, Made
<1>4. QED
  BY <1>1, <1>3, RecordStep DEF r

LEMMA ReadFits ==
  ASSUME CInv, NEW p \in Programs, Read(p)
  PROVE  CInv'
<1> DEFINE s == program[p].setup
<1>1. RecordFits(program[p]) /\ s \in Setups /\ ModeFits(s, program[p].mode)
  BY DEF CInv, RecordFits, Read, At
<1>2. PICK there :
        \/ Becomes(p, Off)
        \/ /\ Loaded(s, there).ok
           /\ Becomes(p, [program[p] EXCEPT !.pc = "llm", !.config = Loaded(s, there).config,
                                            !.env = EnvironmentOf(s.config, s.env, there)])
  BY Zenon DEF Read
<1>3. CASE Becomes(p, Off)
  BY <1>3, OffFits, RecordStep
<1>4. CASE Loaded(s, there).ok
  <2> DEFINE r == [program[p] EXCEPT !.pc = "llm", !.config = Loaded(s, there).config,
                                     !.env = EnvironmentOf(s.config, s.env, there)]
  <2>1. ConfigFits(s, Loaded(s, there).config, EnvironmentOf(s.config, s.env, there))
    BY <1>1, <1>4, LoadedFits
  <2>2. /\ DOMAIN r = Fields /\ r.pc = "llm" /\ r.setup = s /\ r.mode = program[p].mode
        /\ r.server = program[p].server
        /\ r.config = Loaded(s, there).config /\ r.env = EnvironmentOf(s.config, s.env, there)
    BY <1>1 DEF RecordFits, Fields
  <2> HIDE DEF r
  <2>3. RecordFits(r)
    BY <1>1, <2>1, <2>2 DEF RecordFits, InServers, AtServer, Sought, Made
  <2>4. QED
    BY <1>2, <1>3, <2>3, RecordStep DEF r
<1>5. QED
  BY <1>2, <1>3, <1>4

LEMMA LlmIsConfigured ==
  ASSUME CInv, NEW p \in Programs, ConfigureLlm(p)
  PROVE  CInv'
<1> DEFINE s == program[p].setup
           config == program[p].config
           env == program[p].env
           llm == IF config.llm = NoLlm THEN ProvideDefaults(env, s.preferred) ELSE config.llm
           key == CreateLlmClient(llm, env)
           r == [program[p] EXCEPT !.pc = "tools", !.llm = llm, !.key = key]
<1>1. /\ RecordFits(program[p]) /\ s \in Setups /\ ModeFits(s, program[p].mode)
      /\ ConfigFits(s, config, env)
  BY DEF CInv, RecordFits, HasRead, ConfigureLlm, At
<1>2. Becomes(p, Off) \/ (key # "none" /\ Becomes(p, r))
  BY DEF ConfigureLlm, Fails
<1>3. CASE Becomes(p, Off)
  BY <1>3, OffFits, RecordStep
<1>4. CASE key # "none" /\ Becomes(p, r)
  <2>1. KeyIsFit(s, llm, key, env)
    BY <1>1, <1>4, ClientKeyFits
  <2> HIDE DEF llm, key
  <2>2. /\ DOMAIN r = Fields /\ r.pc = "tools" /\ r.setup = s /\ r.mode = program[p].mode
        /\ r.server = program[p].server /\ r.config = config /\ r.env = env
        /\ r.llm = llm /\ r.key = key
    BY <1>1 DEF RecordFits, Fields
  <2> HIDE DEF r
  <2>3. RecordFits(r)
    BY <1>1, <2>1, <2>2 DEF RecordFits, InServers, AtServer, Sought, Made
  <2>4. QED
    BY <1>4, <2>3, RecordStep
<1>5. QED
  BY <1>2, <1>3, <1>4

LEMMA ToolsAreConfigured ==
  ASSUME CInv, NEW p \in Programs,
         ConfigureTools(p) \/ ListTools(p) \/ ListingFails(p) \/ SkipServer(p) \/ Connect(p)
  PROVE  CInv'
<1> DEFINE r == program[p]
<1>1. RecordFits(r)
  BY DEF CInv
<1>2. CASE ConfigureTools(p)
  <2> DEFINE tools == OwnedBy(BuiltinTools(r.config), "builtin")
  <2>1. HasRead(r) /\ r.pc # "llm" /\ r.setup \in Setups
    BY <1>1, <1>2 DEF ConfigureTools, At, HasRead, RecordFits
  <2>2. RecordFits(ToServer(p, 0, tools, {}))
    BY <2>1, BuiltinToolsAreOwn, ToServerFits
  <2>3. QED
    BY <1>2, <2>2, OffFits, RecordStep DEF ConfigureTools, Fails
<1>3. CASE ListTools(p)
  <2> DEFINE i == r.server
             tools == Insert(Server(p).offers, Server(p).name, r.tools)
  <2>1. /\ HasRead(r) /\ r.pc # "llm" /\ r.setup \in Setups
        /\ i \in Nat /\ r.listed \subseteq 1..(i - 1) /\ OwnTools(r.tools, r.config, r.listed)
        /\ i # 0
    BY <1>1, <1>3 DEF ListTools, At, HasRead, InServers, AtServer, RecordFits
  <2>2. OwnTools(tools, r.config, r.listed \cup {i})
    BY <2>1, ListedToolsAreOwn DEF Server
  <2>3. r.listed \cup {i} \in SUBSET (1..i)
    BY <2>1
  <2> HIDE DEF tools
  <2>4. RecordFits(ToServer(p, i, tools, r.listed \cup {i}))
    BY <2>1, <2>2, <2>3, ToServerFits
  <2>5. QED
    BY <1>3, <2>4, RecordStep DEF ListTools, tools
<1>4. CASE ListingFails(p) \/ SkipServer(p)
  <2>1. InServers(r)
    BY <1>1, <1>4 DEF ListingFails, SkipServer, At, InServers, AtServer, RecordFits
  <2>2. QED
    BY <1>4, <2>1, SkippedFits, RecordStep DEF ListingFails, SkipServer
<1>5. CASE Connect(p)
  BY <1>1, <1>5, GoesOnFits, RecordStep, Zenon DEF Connect, At, GoOn
<1>6. QED
  BY <1>2, <1>3, <1>4, <1>5

LEMMA RestIsConfigured ==
  ASSUME CInv, NEW p \in Programs, Executor(p) \/ Rag(p) \/ Authorize(p) \/ Bind(p)
  PROVE  CInv'
<1> DEFINE r == program[p]
<1>1. RecordFits(r) /\ r.pc \in Made /\ r.pc # "off" /\ r.setup \in Setups
  BY DEF CInv, Executor, Rag, Authorize, Bind, At, Made, RecordFits
<1>2. CASE Executor(p) \/ Rag(p) \/ Bind(p)
  <2>1. \A pc \in Made : RecordFits([r EXCEPT !.pc = pc])
    BY <1>1, GoesOnFits, Zenon
  <2>2. \/ Becomes(p, Off) \/ \E pc \in Made : Becomes(p, [r EXCEPT !.pc = pc])
    BY <1>2 DEF Executor, Rag, Bind, GoOn, Fails, Made
  <2>3. QED
    BY <2>1, <2>2, OffFits, RecordStep
<1>3. CASE Authorize(p)
  <2>1. PICK mode : /\ Becomes(p, [r EXCEPT !.pc = "bind", !.mode = mode])
                    /\ ModeFits(r.setup, mode)
    BY <1>1, <1>3, Zenon DEF Authorize, RecordFits, ModeFits
  <2> DEFINE to == [r EXCEPT !.pc = "bind", !.mode = mode]
  <2>2. /\ DOMAIN to = Fields /\ to.pc = "bind" /\ to.server = r.server /\ to.setup = r.setup
        /\ to.mode = mode /\ to.config = r.config /\ to.env = r.env /\ to.llm = r.llm
        /\ to.key = r.key /\ to.listed = r.listed /\ to.tools = r.tools
    BY <1>1 DEF RecordFits, Fields
  <2> HIDE DEF to
  <2>3. HasRead(r) /\ r.pc # "llm" /\ ~InServers(to)
    BY <1>1, <2>2 DEF HasRead, InServers, AtServer, Sought, Made
  <2>4. RecordFits(to)
    BY <1>1, <2>1, <2>2, <2>3 DEF RecordFits, Made
  <2>5. QED
    BY <2>1, <2>4, RecordStep DEF to
<1>4. QED
  BY <1>2, <1>3

LEMMA NextCInv == CInv /\ [NextStartup]_startupVars => CInv'
<1> SUFFICES ASSUME CInv, [NextStartup]_startupVars PROVE CInv'
  OBVIOUS
<1>1. ASSUME NEW p \in Programs, StartStep(p) PROVE CInv'
  BY <1>1, FetchingFits, ReadFits, EndingFits, LlmIsConfigured, ToolsAreConfigured,
     RestIsConfigured DEF StartStep
<1>2. ASSUME NEW p \in Programs, Quit(p) \/ Crash(p) PROVE CInv'
  BY <1>2, EndingFits
<1>3. ASSUME NEW p \in Programs, NEW s \in Setups, Start(p, s) PROVE CInv'
  BY <1>3, StartFits
<1>4. CASE ClearCache \/ ClearHalf \/ UNCHANGED startupVars
  BY <1>4 DEF ClearCache, ClearHalf, startupVars, CInv
<1>5. QED
  BY <1>1, <1>2, <1>3, <1>4 DEF NextStartup

LEMMA FittingIsConfigured == CInv => StartedAsConfigured
<1> SUFFICES ASSUME CInv, NEW p \in Programs, Serving(p)
             PROVE  /\ KeyFits(p) /\ ToolsAreTheirOwn(p) /\ PromptsAreRead(p)
                    /\ program[p].mode = "AlwaysAllow" =>
                         program[p].setup.noToolAuth \/ program[p].setup.mode \in {"embedded", "task"}
  BY DEF StartedAsConfigured
<1> DEFINE r == program[p]
           s == r.setup
<1>1. /\ ModeFits(s, r.mode) /\ ConfigFits(s, r.config, r.env)
      /\ KeyIsFit(s, r.llm, r.key, r.env) /\ OwnOrControl(r.tools, r.config, r.listed)
  BY DEF CInv, RecordFits, HasRead, Made, Serving
<1>2. KeyFits(p)
  <2>1. s.env \cup s.config.variables \cup r.env = r.env
    BY <1>1 DEF ConfigFits
  <2>2. QED
    BY <1>1, <2>1 DEF KeyFits, KeyIsFit
<1>3. ToolsAreTheirOwn(p)
  BY <1>1, Zenon DEF ToolsAreTheirOwn, OwnOrControl
<1>4. PromptsAreRead(p)
  BY <1>1, Zenon DEF ConfigFits, PromptsFit, TextIn, PromptsAreRead
<1>5. QED
  BY <1>1, <1>2, <1>3, <1>4 DEF ModeFits

(* Whatever the setups, the files and the environment are, however often   *)
(* servers fail and programs die: an agent that serves has the key, tools, *)
(* prompts and mode of authorization its configuration says.               *)
THEOREM ServesAsConfigured == SpecStartup => []StartedAsConfigured
<1>1. InitStartup => CInv
  BY OffFits DEF InitStartup, CInv
<1>2. SpecStartup => []CInv
  BY <1>1, NextCInv, PTL DEF SpecStartup
<1>3. QED
  BY <1>2, FittingIsConfigured, PTL

-----------------------------------------------------------------------------
(* The executor of code. *)

Container ==
  [state : {"none", "created", "running", "exited", "gone"}, code : Nat,
   output : {"none", "part", "whole"}]

ExecutorTypeOK ==
  /\ containers \in [Containers -> Container]
  /\ execution \in [pc : {"idle", "create", "start", "wait", "stop", "logs"},
                    container : Containers \cup {"none"}, code : Nat]
  /\ result \in [kind : {"none", "ok", "failed", "error", "timeout"},
                 container : Containers \cup {"none"},
                 output : {"none", "part", "whole"}]
  /\ execution.pc # "idle" => execution.container \in Containers
  /\ result.kind = "ok" => result.container \in Containers

Ended(c) == containers[c].state \in {"exited", "gone"}

(* A program that ended with code 0 was not stopped, and printed it all;   *)
(* a call that reads the logs knows how its container ended, and since no  *)
(* container is started twice, that does not change any more.              *)
EndsAreFinal ==
  /\ \A c \in Containers :
       Ended(c) /\ containers[c].code = 0 => containers[c].output = "whole"
  /\ execution.pc # "idle" => result.kind = "none"
  /\ execution.pc = "create" => containers[execution.container].state = "none"
  /\ execution.pc = "start" => containers[execution.container].state = "created"
  /\ execution.pc = "logs" =>
       Ended(execution.container) /\ execution.code = containers[execution.container].code

XInv == ExecutorTypeOK /\ EndsAreFinal /\ SuccessIsWhole

LEMMA InitXInv == InitExecutor => XInv
BY DEF InitExecutor, XInv, ExecutorTypeOK, EndsAreFinal, SuccessIsWhole, Ended, Container,
       NoContainer, NoExecution, NoResult

(* Every step of the call, of its container and of the others keeps it.    *)
LEMMA NextXInv == XInv /\ [NextExecutor]_executorVars => XInv'
<1> SUFFICES ASSUME XInv, [NextExecutor]_executorVars PROVE XInv'
  OBVIOUS
<1> USE DEF XInv, ExecutorTypeOK, EndsAreFinal, SuccessIsWhole, Ended, Container
<1>1. ASSUME NEW c \in Containers, ExecuteCode(c) PROVE XInv'
  BY <1>1 DEF ExecuteCode, NoExecution, NoResult, NoContainer
<1>2. CASE CreateContainer
  BY <1>2 DEF CreateContainer, MineBecomes, GoesTo
<1>3. CASE StartContainer
  BY <1>3 DEF StartContainer, MineBecomes, GoesTo
<1>4. CASE SetupFails
  BY <1>4 DEF SetupFails, Returns, NoExecution
<1>5. CASE WaitReturns
  BY <1>5 DEF WaitReturns, Mine
<1>6. CASE WaitFails
  BY <1>6 DEF WaitFails, Returns, NoExecution
<1>7. CASE TimesOut
  BY <1>7 DEF TimesOut, GoesTo
<1>8. CASE StopContainer
  BY <1>8 DEF StopContainer, Returns, NoExecution, Mine
<1>9. CASE ReadLogs
  BY <1>9 DEF ReadLogs, Returns, NoExecution, Mine
<1>10. CASE LogsFail
  BY <1>10 DEF LogsFail, Returns, NoExecution
<1>11. CASE DropExecution
  BY <1>11 DEF DropExecution, NoExecution, NoResult
<1>12. ASSUME NEW c \in Containers, ProgramPrints(c) PROVE XInv'
  BY <1>12 DEF ProgramPrints
<1>13. ASSUME NEW c \in Containers, ProgramEnds(c) PROVE XInv'
  BY <1>13 DEF ProgramEnds
<1>14. ASSUME NEW c \in Containers, AutoRemove(c) PROVE XInv'
  BY <1>14 DEF AutoRemove
<1>15. CASE UNCHANGED executorVars
  BY <1>15 DEF executorVars
<1>16. QED
  BY <1>1, <1>2, <1>3, <1>4, <1>5, <1>6, <1>7, <1>8, <1>9, <1>10, <1>11, <1>12,
     <1>13, <1>14, <1>15
  DEF NextExecutor, ExecutionStep

-----------------------------------------------------------------------------
(* What execute_code returns as a success is all the output of the call's  *)
(* own program, for any number of calls and containers.                    *)
THEOREM SuccessesAreWhole == SpecExecutor => []SuccessIsWhole
<1>1. SpecExecutor => []XInv
  BY InitXInv, NextXInv, PTL DEF SpecExecutor
<1>2. XInv => SuccessIsWhole
  BY DEF XInv
<1>3. QED
  BY <1>1, <1>2, PTL

-----------------------------------------------------------------------------
(* The installation of a binary. *)

(* While a binary is installed, each strategy has said something or has    *)
(* its turn to come, and none has installed it.                            *)
Words == {"unavailable", "unknown", "failed", "installed"}

BinariesTypeOK ==
  /\ manager \in Managers
  /\ DOMAIN files = Places
  /\ \E T : work \in [pc : {"idle", "ask", "install", "write"}, rest : Seq(T)]
  /\ tried \in Seq(Words)

EachHasItsTurn ==
  IF work.pc = "idle" THEN work = NoWork
  ELSE /\ work.rest # <<>> /\ Len(tried) + Len(work.rest) = Len(manager.strategies)
       /\ "installed" \notin ToSet(tried) /\ ~reply.ok

BInv == BinariesTypeOK /\ EachHasItsTurn /\ InstallTriesAll

LEMMA InitBInv == InitBinaries => BInv
BY DEF InitBinaries, BInv, BinariesTypeOK, EachHasItsTurn, InstallTriesAll, NoWork, NoReply, Places

(* The order in which strategies are tried leaves none of them out.        *)
LEMMA InOrderIsLong ==
  ASSUME NEW m \in Managers
  PROVE  \E T : InOrder(m) \in Seq(T) /\ Len(InOrder(m)) = Len(m.strategies)
<1> DEFINE at == DOMAIN m.strategies
           Sorts(order) == \A i, j \in at :
             Before(m, m.strategies[order[i]], m.strategies[order[j]]) => i < j
           order == CHOOSE order \in Bijection(at, at) : Sorts(order)
           T == {m.strategies[order[i]] : i \in at}
<1>1. m.strategies \in Seq({"github", "docker", "source"})
  BY BinariesAssumption
<1>2. at = 1..Len(m.strategies) /\ Len(m.strategies) \in Nat
  BY <1>1
<1>3. InOrder(m) = [i \in at |-> m.strategies[order[i]]]
  BY DEF InOrder
<1> HIDE DEF order
<1>4. [i \in at |-> m.strategies[order[i]]] \in Seq(T)
  BY <1>2
<1>5. InOrder(m) \in Seq(T)
  BY <1>3, <1>4
<1> HIDE DEF T
<1>6. Len(InOrder(m)) = Len(m.strategies)
  BY <1>2, <1>3
<1>7. QED
  BY <1>5, <1>6

LEMMA BegunFits ==
  ASSUME NEW m \in Managers, manager = m
  PROVE  /\ \E T : Begun \in [pc : {"idle", "ask"}, rest : Seq(T)]
         /\ Begun.pc = "idle" => Begun = NoWork
         /\ Begun.pc = "ask" => /\ Begun.rest # <<>>
                                /\ Len(Begun.rest) = Len(manager.strategies)
<1>1. manager.strategies \in Seq({"github", "docker", "source"})
  BY BinariesAssumption
<1>2. CASE manager.strategies = <<>>
  BY <1>2 DEF Begun, NoWork
<1>3. CASE manager.strategies # <<>>
  <2>1. PICK T : InOrder(m) \in Seq(T) /\ Len(InOrder(m)) = Len(m.strategies)
    BY InOrderIsLong
  <2>2. InOrder(m) # <<>>
    BY <1>1, <1>3, <2>1
  <2>3. QED
    BY <1>3, <2>1, <2>2 DEF Begun
<1>4. QED
  BY <1>2, <1>3

(* A strategy that could not has said so, and the next has its turn; the   *)
(* last one's word is the last.                                            *)
LEMMA NextHasItsTurn ==
  ASSUME BInv, work.pc # "idle", NEW word \in Words \ {"installed"}, Tell(word),
         work' = NextStrategy, UNCHANGED <<manager, files, reply>>
  PROVE  BInv'
<1>1. PICK T : work \in [pc : {"idle", "ask", "install", "write"}, rest : Seq(T)]
  BY DEF BInv, BinariesTypeOK
<1>2. /\ tried \in Seq(Words) /\ tried' = Append(tried, word) /\ tried' \in Seq(Words)
      /\ Len(tried') = Len(tried) + 1 /\ tried' # <<>>
      /\ \A i \in 1..Len(tried') : tried'[i] = IF i <= Len(tried) THEN tried[i] ELSE word
  BY DEF BInv, BinariesTypeOK, Tell
<1>3. "installed" \notin ToSet(tried')
  BY <1>2 DEF BInv, EachHasItsTurn, ToSet
<1>4. /\ work.rest \in Seq(T) /\ work.rest # <<>> /\ ~reply'.ok
      /\ Len(tried) + Len(work.rest) = Len(manager.strategies)
  BY <1>1 DEF BInv, EachHasItsTurn
<1>5. CASE Len(work.rest) = 1
  <2>1. work' = NoWork /\ Len(tried') = Len(manager'.strategies)
    BY <1>2, <1>4, <1>5 DEF NextStrategy
  <2>2. BinariesTypeOK'
    BY <1>1, <1>2, <2>1 DEF BInv, BinariesTypeOK, NoWork
  <2>3. QED
    BY <1>3, <1>4, <2>1, <2>2 DEF BInv, EachHasItsTurn, InstallTriesAll, NoWork
<1>6. CASE Len(work.rest) # 1
  <2>1. work' = [pc |-> "ask", rest |-> Tail(work.rest)]
    BY <1>6 DEF NextStrategy
  <2>2. /\ Tail(work.rest) \in Seq(T) /\ Len(Tail(work.rest)) = Len(work.rest) - 1
        /\ Tail(work.rest) # <<>>
    <3> DEFINE rest == work.rest
    <3>1. rest \in Seq(T) /\ rest # <<>> /\ Len(rest) # 1
      BY <1>4, <1>6
    <3> HIDE DEF rest
    <3>2. Tail(rest) \in Seq(T) /\ Len(Tail(rest)) = Len(rest) - 1
      BY <3>1, HeadTailProperties
    <3>3. Len(rest) \in Nat /\ Len(rest) # 0
      BY <3>1, EmptySeq, LenProperties
    <3>4. Tail(rest) # <<>>
      BY <3>1, <3>2, <3>3, EmptySeq
    <3>5. QED
      BY <3>2, <3>4 DEF rest
  <2>3. BinariesTypeOK'
    BY <1>1, <1>2, <2>1, <2>2 DEF BInv, BinariesTypeOK
  <2>4. EachHasItsTurn'
    <3>1. Len(tried') + Len(work'.rest) = Len(manager'.strategies) /\ work'.rest # <<>>
      <4>1. /\ Len(tried) \in Nat /\ Len(work.rest) \in Nat /\ Len(tried') = Len(tried) + 1
            /\ Len(work'.rest) = Len(work.rest) - 1
        BY <1>2, <1>4, <2>1, <2>2
      <4>2. work'.rest # <<>> /\ manager' = manager
        BY <2>1, <2>2
      <4>3. \A a, b \in Nat : (a + 1) + (b - 1) = a + b
        OBVIOUS
      <4>4. QED
        BY <1>4, <4>1, <4>2, <4>3
    <3>2. QED
      BY <1>3, <1>4, <2>1, <3>1 DEF EachHasItsTurn
  <2>5. QED
    BY <2>1, <2>3, <2>4 DEF BInv, InstallTriesAll, NoWork
<1>7. QED
  BY <1>5, <1>6

LEMMA BegunKeeps ==
  ASSUME BInv, tried' = <<>>, UNCHANGED manager, DOMAIN files' = Places,
         work' = NoWork \/ (work' = Begun /\ ~reply'.ok)
  PROVE  BInv'
<1>1. manager \in Managers
  BY DEF BInv, BinariesTypeOK
<1>2. /\ \E T : work' \in [pc : {"idle", "ask"}, rest : Seq(T)]
      /\ work'.pc = "idle" => work' = NoWork
      /\ work'.pc = "ask" => /\ work'.rest # <<>> /\ ~reply'.ok
                             /\ Len(work'.rest) = Len(manager.strategies)
  <2>1. CASE work' = NoWork
    BY <2>1 DEF NoWork
  <2>2. QED
    BY <1>1, <2>1, BegunFits
<1>3. BinariesTypeOK'
  BY <1>1, <1>2 DEF BinariesTypeOK
<1>4. EachHasItsTurn'
  <2>1. Len(tried') = 0 /\ ToSet(tried') = {}
    BY DEF ToSet
  <2>2. Len(manager.strategies) \in Nat
    BY <1>1, BinariesAssumption
  <2>3. QED
    BY <1>2, <2>1, <2>2 DEF EachHasItsTurn
<1>5. QED
  BY <1>3, <1>4 DEF BInv, InstallTriesAll

LEMMA NextBInv == BInv /\ [NextBinaries]_binaryVars => BInv'
<1> SUFFICES ASSUME BInv, [NextBinaries]_binaryVars PROVE BInv'
  OBVIOUS
<1>0. PICK T : work \in [pc : {"idle", "ask", "install", "write"}, rest : Seq(T)]
  BY DEF BInv, BinariesTypeOK
<1>1. CASE Ensure
  <2>1. work' = NoWork \/ (work' = Begun /\ ~reply'.ok)
    BY <1>1 DEF Ensure, NoReply
  <2>2. QED
    BY <1>1, <2>1, BegunKeeps DEF Ensure, BInv, BinariesTypeOK
<1>2. CASE Install \/ ClearBinaries \/ Die
  BY <1>2, BegunKeeps DEF Install, ClearBinaries, Die, NoReply, BInv, BinariesTypeOK
<1>3. CASE Unavailable \/ InstallFails
  BY <1>3, NextHasItsTurn DEF Unavailable, Unwilling, InstallFails, Words
<1>4. CASE Available \/ Write \/ NextRegistry
  <2>1. /\ UNCHANGED <<manager, reply, tried>> /\ DOMAIN files' = DOMAIN files
        /\ work.pc # "idle"
        /\ \E pc \in {"install", "write"} : work' = [work EXCEPT !.pc = pc]
    BY <1>4 DEF Available, Write, NextRegistry
  <2>2. work' \in [pc : {"install", "write"}, rest : Seq(T)] /\ work'.rest = work.rest
    BY <1>0, <2>1
  <2>3. QED
    BY <2>1, <2>2 DEF BInv, BinariesTypeOK, EachHasItsTurn, InstallTriesAll, NoWork
<1>5. CASE Installed
  <2>1. /\ tried' = Append(tried, "installed") /\ tried' \in Seq(Words) /\ tried' # <<>>
        /\ Last(tried') = "installed"
    <3>1. tried \in Seq(Words) /\ tried' = Append(tried, "installed") /\ "installed" \in Words
      BY <1>5 DEF Installed, Tell, BInv, BinariesTypeOK, Words
    <3>2. tried' \in Seq(Words) /\ Len(tried') = Len(tried) + 1 /\ tried'[Len(tried) + 1] = "installed"
      BY <3>1
    <3>3. QED
      BY <3>1, <3>2 DEF Last
  <2>2. /\ work' = NoWork /\ reply' = [ok |-> TRUE, place |-> Target(Current), found |-> FALSE]
        /\ files' = [files EXCEPT ![Target(Current)] = "whole"] /\ manager' = manager
    BY <1>5 DEF Installed
  <2>3. /\ Target(Current) \in Places
        /\ Target(Current) \in {"other", "cache", "installed"}
    BY DEF Target, Places
  <2>4. BinariesTypeOK' /\ EachHasItsTurn'
    BY <2>1, <2>2 DEF BInv, BinariesTypeOK, EachHasItsTurn, NoWork
  <2>5. files'[reply'.place] = "whole"
    BY <2>2, <2>3 DEF BInv, BinariesTypeOK
  <2>6. manager'.strategies # <<>>
    <3>1. /\ Len(work.rest) \in Nat \ {0} /\ Len(tried) \in Nat
          /\ Len(tried) + Len(work.rest) = Len(manager.strategies)
      BY <1>0, <1>5 DEF Installed, BInv, BinariesTypeOK, EachHasItsTurn
    <3>2. QED
      BY <2>2, <3>1
  <2>7. {"cache", "installed"} \subseteq ToSet(Looked')
    BY DEF Looked, ToSet
  <2>8. QED
    BY <2>1, <2>2, <2>3, <2>4, <2>5, <2>6, <2>7 DEF BInv, InstallTriesAll
<1>6. CASE UNCHANGED binaryVars
  BY <1>6 DEF binaryVars, BInv, BinariesTypeOK, EachHasItsTurn, InstallTriesAll, Looked
<1>7. QED
  BY <1>1, <1>2, <1>3, <1>4, <1>5, <1>6 DEF NextBinaries

(* Whichever strategies a manager has, an installation that fails has      *)
(* asked every one of them, and one that succeeds names a finished file.   *)
THEOREM EveryStrategyIsTried == SpecBinaries => []InstallTriesAll
<1>1. SpecBinaries => []BInv
  BY InitBInv, NextBInv, PTL DEF SpecBinaries
<1>2. BInv => InstallTriesAll
  BY DEF BInv
<1>3. QED
  BY <1>1, <1>2, PTL

-----------------------------------------------------------------------------
(* Profiles. *)

ProfileKinds ==
  [name : Names \cup {"none"}, parents : Seq(Names), makes : SUBSET Settings,
   there : BOOLEAN, reads : BOOLEAN]

(* What load_profile finds under each name: a profile that reads has a name*)
(* of its own, which need not be that of its file.                         *)
ProfilesFit(L) ==
  L \in [Names -> ProfileKinds] /\ \A n \in Names : L[n].reads => L[n].name \in Names

(* What a resolution may return, and the calls of one, for each set visited*)
Results(L) ==
  [ok : BOOLEAN, read : SUBSET {f \in Names : L[f].reads}, settings : [Settings -> SUBSET Names]]
Calls(L) == [SUBSET Names -> [Names -> Results(L)]]

LEMMA JoinedFits ==
  ASSUME NEW L, NEW a \in Results(L), NEW b \in Results(L)
  PROVE  Joined(a, b) \in Results(L)
<1>1. MergeConfigs(b.settings, a.settings) \in [Settings -> SUBSET Names]
  BY DEF MergeConfigs, Results
<1>2. QED
  BY <1>1 DEF Joined, Results

(* The loop over the parents is one: there is a function as it says.       *)
LEMMA InheritedByStep ==
  ASSUME NEW L, NEW own \in Results(L), NEW ps \in Seq(Results(L))
  PROVE  \E sofar \in [0 .. Len(ps) -> Results(L)] :
           /\ Inherited(own, ps) = sofar[Len(ps)]
           /\ sofar[0] = own
           /\ \A k \in 1 .. Len(ps) : sofar[k] = Joined(sofar[k - 1], ps[k])
<1> DEFINE R == Results(L)
           n == Len(ps)
           G == [k \in 1 .. n |-> [a \in R |-> Joined(a, ps[k])]]
           Eq(f) == f = [k \in 0 .. n |-> IF k = 0 THEN own ELSE Joined(f[k - 1], ps[k])]
<1>1. n \in Nat /\ own \in R /\ \A k \in 1 .. n : ps[k] \in R
  OBVIOUS
<1>2. G \in [1 .. n -> [R -> R]]
  <2>1. \A k \in 1 .. n : \A a \in R : Joined(a, ps[k]) \in R
    BY <1>1, JoinedFits
  <2> HIDE DEF R, n
  <2>2. QED
    BY <2>1
<1> HIDE DEF R, n
<1>3. PICK f : Recursive(f, R, own, n, G)
  <2>1. StepsOn(R, n, G)
    BY <1>1, <1>2 DEF StepsOn
  <2> HIDE DEF G
  <2>2. QED
    BY <1>1, <2>1, Recursion
<1>4. f \in [0 .. n -> R] /\ f[0] = own
  BY <1>3 DEF Recursive
<1>5. \A k \in 1 .. n : f[k] = Joined(f[k - 1], ps[k])
  <2> SUFFICES ASSUME NEW k \in 1 .. n PROVE f[k] = Joined(f[k - 1], ps[k])
    OBVIOUS
  <2>1. f[k - 1] \in R
    BY <1>1, <1>4
  <2>2. f[k] = G[k][f[k - 1]]
    BY <1>3 DEF Recursive
  <2>3. QED
    BY <2>1, <2>2
<1>6. Eq(f)
  <2>1. \A k \in 0 .. n : f[k] = IF k = 0 THEN own ELSE Joined(f[k - 1], ps[k])
    BY <1>1, <1>4, <1>5
  <2>2. QED
    BY <1>4, <2>1
<1> DEFINE sofar == CHOOSE g : Eq(g)
<1>7. Eq(sofar) /\ Inherited(own, ps) = sofar[n]
  <2>1. Eq(sofar)
    <3> HIDE DEF Eq
    <3>1. QED
      BY <1>6
  <2>2. QED
    BY <2>1, Zenon DEF Inherited, n
<1> HIDE DEF sofar
<1>8. sofar[0] = own /\ \A k \in 1 .. n : sofar[k] = Joined(sofar[k - 1], ps[k])
  <2>1. 0 \in 0 .. n /\ \A k \in 1 .. n : k \in 0 .. n /\ k # 0
    BY <1>1
  <2>2. QED
    BY <1>7, <2>1, Zenon
<1>9. \A k \in 0 .. n : sofar[k] \in R
  <2> DEFINE T == {k \in Nat : k <= n => sofar[k] \in R}
  <2>1. 0 \in T
    BY <1>1, <1>8
  <2>2. ASSUME NEW k \in T PROVE k + 1 \in T
    <3>1. ASSUME k + 1 <= n PROVE sofar[k + 1] \in R
      <4>1. k + 1 \in 1 .. n /\ (k + 1) - 1 = k /\ sofar[k] \in R
        BY <1>1, <3>1
      <4>2. sofar[k + 1] = Joined(sofar[k], ps[k + 1]) /\ ps[k + 1] \in R
        BY <1>1, <1>8, <4>1
      <4>3. QED
        BY <4>1, <4>2, JoinedFits DEF R
    <3>2. QED
      BY <3>1
  <2>3. T = Nat
    <3>1. T \in SUBSET Nat
      OBVIOUS
    <3> HIDE DEF T
    <3>2. QED
      BY <2>1, <2>2, <3>1, AllNumbers
  <2>4. QED
    BY <1>1, <2>3
<1>10. sofar \in [0 .. n -> R]
  BY <1>7, <1>9
<1>11. QED
  BY <1>7, <1>8, <1>10 DEF n, R

(* The setting s of the first of ps up to m that has it.                   *)
Firsts(ps, s, m) ==
  {k \in 1 .. m : ps[k].settings[s] # {} /\ \A j \in 1 .. k - 1 : ps[j].settings[s] = {}}
FirstGiven(ps, s, m) == UNION {ps[k].settings[s] : k \in Firsts(ps, s, m)}

LEMMA OneMoreGives ==
  ASSUME NEW ps, NEW s, NEW m \in Nat
  PROVE  FirstGiven(ps, s, m + 1) =
           IF FirstGiven(ps, s, m) # {} THEN FirstGiven(ps, s, m) ELSE ps[m + 1].settings[s]
<1>1. CASE \E k \in 1 .. m : ps[k].settings[s] # {}
  <2> DEFINE T == {k \in 1 .. m : ps[k].settings[s] # {}}
  <2>1. PICK k \in T : \A j \in T : k <= j
    <3>1. T \in SUBSET Nat /\ T # {}
      BY <1>1
    <3> HIDE DEF T
    <3>2. QED
      BY <3>1, LeastNumber
  <2>2. k \in Firsts(ps, s, m)
    BY <2>1 DEF Firsts
  <2>3. Firsts(ps, s, m + 1) = Firsts(ps, s, m)
    BY <2>1 DEF Firsts
  <2>4. FirstGiven(ps, s, m) # {}
    BY <2>1, <2>2 DEF FirstGiven
  <2>5. QED
    BY <2>3, <2>4 DEF FirstGiven
<1>2. CASE \A k \in 1 .. m : ps[k].settings[s] = {}
  <2>1. Firsts(ps, s, m) = {}
    BY <1>2 DEF Firsts
  <2>2. Firsts(ps, s, m + 1) = IF ps[m + 1].settings[s] = {} THEN {} ELSE {m + 1}
    BY <1>2 DEF Firsts
  <2>3. QED
    BY <2>1, <2>2 DEF FirstGiven
<1>3. QED
  BY <1>1, <1>2

(* The loop succeeds if all parents do, and then a setting is the          *)
(* profile's own, else, but for llm, that of the first parent that has it. *)
LEMMA InheritedIs ==
  ASSUME NEW L, NEW own \in Results(L), own.ok, NEW ps \in Seq(Results(L))
  PROVE  LET returned == Inherited(own, ps)
         IN /\ returned \in Results(L)
            /\ returned.ok <=> \A k \in 1 .. Len(ps) : ps[k].ok
            /\ returned.ok => \A s \in Settings :
                 returned.settings[s] =
                   IF s = "llm" \/ own.settings[s] # {} THEN own.settings[s]
                   ELSE FirstGiven(ps, s, Len(ps))
<1> DEFINE R == Results(L)
           n == Len(ps)
           Value(s, k) == IF s = "llm" \/ own.settings[s] # {} THEN own.settings[s]
                          ELSE FirstGiven(ps, s, k)
<1>1. PICK sofar \in [0 .. n -> R] :
        /\ Inherited(own, ps) = sofar[n]
        /\ sofar[0] = own
        /\ \A k \in 1 .. n : sofar[k] = Joined(sofar[k - 1], ps[k])
  BY InheritedByStep
<1>2. n \in Nat /\ \A k \in 1 .. n : ps[k] \in R
  OBVIOUS
<1> HIDE DEF R, n
<1> DEFINE Fits(k) == /\ sofar[k].ok <=> \A j \in 1 .. k : ps[j].ok
                      /\ sofar[k].ok => \A s \in Settings : sofar[k].settings[s] = Value(s, k)
           T == {k \in Nat : k <= n => Fits(k)}
<1>3. 0 \in T
  <2>1. \A s : FirstGiven(ps, s, 0) = {}
    BY DEF FirstGiven, Firsts
  <2>2. \A s : own.settings[s] = Value(s, 0)
    BY <2>1, Zenon
  <2>3. 1 .. 0 = {}
    OBVIOUS
  <2>4. QED
    BY <1>1, <2>2, <2>3
<1>4. ASSUME NEW k \in T PROVE k + 1 \in T
  <2> SUFFICES ASSUME k + 1 <= n PROVE Fits(k + 1)
    OBVIOUS
  <2>1. k \in Nat /\ k + 1 \in 1 .. n /\ (k + 1) - 1 = k /\ Fits(k)
    BY <1>2
  <2>2. sofar[k + 1] = Joined(sofar[k], ps[k + 1]) /\ sofar[k] \in R /\ ps[k + 1] \in R
    BY <1>1, <1>2, <2>1
  <2>3. sofar[k + 1].ok <=> sofar[k].ok /\ ps[k + 1].ok
    BY <2>2 DEF Joined, R, Results
  <2>4. sofar[k + 1].ok <=> \A j \in 1 .. k + 1 : ps[j].ok
    BY <2>1, <2>3
  <2>5. ASSUME sofar[k + 1].ok, NEW s \in Settings
        PROVE  sofar[k + 1].settings[s] = Value(s, k + 1)
    <3>1. sofar[k].ok /\ sofar[k].settings[s] = Value(s, k)
      BY <2>1, <2>3, <2>5
    <3>2. sofar[k + 1].settings = MergeConfigs(ps[k + 1].settings, sofar[k].settings)
      BY <2>2, <3>1 DEF Joined
    <3>3. sofar[k + 1].settings[s] = IF s # "llm" /\ Value(s, k) = {} THEN ps[k + 1].settings[s]
                                     ELSE Value(s, k)
      BY <3>1, <3>2, <2>5 DEF MergeConfigs
    <3>4. FirstGiven(ps, s, k + 1) =
            IF FirstGiven(ps, s, k) # {} THEN FirstGiven(ps, s, k) ELSE ps[k + 1].settings[s]
      BY <2>1, OneMoreGives
    <3>5. QED
      BY <3>3, <3>4
  <2>6. QED
    BY <2>4, <2>5
<1>5. T = Nat
  <2>1. T \in SUBSET Nat
    OBVIOUS
  <2> HIDE DEF T
  <2>2. QED
    BY <1>3, <1>4, <2>1, AllNumbers
<1>6. Fits(n) /\ sofar[n] \in R
  BY <1>1, <1>2, <1>5
<1>7. QED
  BY <1>1, <1>6 DEF n, R

(* What one call asks of the others, and what it returns.                  *)
LEMMA CallFits ==
  ASSUME NEW L, ProfilesFit(L), NEW n \in Names, NEW visited \in SUBSET Names,
         NEW above \in Calls(L)
  PROVE  ResolveRecursive(L, n, visited, above) \in Results(L)
<1>1. CASE L[n].reads /\ L[n].name \notin visited
  <2> DEFINE W == visited \cup {L[n].name}
             ps == [k \in DOMAIN L[n].parents |-> above[W][L[n].parents[k]]]
  <2>1. W \in SUBSET Names /\ L[n].parents \in Seq(Names)
    BY <1>1 DEF ProfilesFit, ProfileKinds
  <2>2. above[W] \in [Names -> Results(L)]
    BY <2>1 DEF Calls
  <2>3. ps \in Seq(Results(L))
    <3> DEFINE R == Results(L)
               parents == L[n].parents
    <3>1. parents \in Seq(Names) /\ above[W] \in [Names -> R]
      BY <2>1, <2>2
    <3> HIDE DEF R, W, parents
    <3>2. [k \in DOMAIN parents |-> above[W][parents[k]]] \in Seq(R)
      BY <3>1
    <3>3. QED
      BY <3>2 DEF R, parents
  <2>4. Own(L[n], n) \in Results(L) /\ Own(L[n], n).ok
    BY <1>1 DEF Own, MadeBy, Results, ProfilesFit
  <2>5. QED
    BY <1>1, <2>3, <2>4, InheritedIs DEF ResolveRecursive
<1>2. CASE ~(L[n].reads /\ L[n].name \notin visited)
  BY <1>2 DEF ResolveRecursive, Failed, MadeBy, NoProfile, Results
<1>3. QED
  BY <1>1, <1>2

LEMMA CallDepends ==
  ASSUME NEW L, ProfilesFit(L), NEW n \in Names, NEW visited \in SUBSET Names, NEW g, NEW h,
         \A m \in Names \ visited : g[visited \cup {m}] = h[visited \cup {m}]
  PROVE  ResolveRecursive(L, n, visited, g) = ResolveRecursive(L, n, visited, h)
<1>1. CASE L[n].reads /\ L[n].name \notin visited
  <2>1. g[visited \cup {L[n].name}] = h[visited \cup {L[n].name}]
    BY <1>1 DEF ProfilesFit
  <2>2. QED
    BY <1>1, <2>1 DEF ResolveRecursive
<1>2. CASE ~(L[n].reads /\ L[n].name \notin visited)
  BY <1>2 DEF ResolveRecursive
<1>3. QED
  BY <1>1, <1>2
(* All calls, one level deeper.                                            *)
Deeper(L, above) ==
  [visited \in SUBSET Names |-> [n \in Names |-> ResolveRecursive(L, n, visited, above)]]

(* A call for a larger set visited leaves fewer to visit.                  *)
LEMMA FewerLeft ==
  ASSUME IsFiniteSet(Names), NEW visited \in SUBSET Names
  PROVE  /\ Cardinality(Names \ visited) \in 0 .. Cardinality(Names)
         /\ \A m \in Names \ visited :
              Cardinality(Names \ (visited \cup {m})) = Cardinality(Names \ visited) - 1
<1>1. /\ IsFiniteSet(Names \ visited) /\ Cardinality(Names \ visited) <= Cardinality(Names)
      /\ Cardinality(Names) \in Nat
  BY FS_Subset, FS_CardinalityType
<1>2. Cardinality(Names \ visited) \in Nat
  BY <1>1, FS_CardinalityType
<1>3. ASSUME NEW m \in Names \ visited
      PROVE  Cardinality(Names \ (visited \cup {m})) = Cardinality(Names \ visited) - 1
  <2>1. Names \ (visited \cup {m}) = (Names \ visited) \ {m}
    OBVIOUS
  <2> DEFINE S == Names \ visited
  <2>2. Cardinality(S \ {m}) = Cardinality(S) - 1
    <3>1. IsFiniteSet(S) /\ m \in S
      BY <1>1
    <3> HIDE DEF S
    <3>2. QED
      BY <3>1, FS_RemoveElement
  <2>3. QED
    BY <2>1, <2>2
<1>4. QED
  BY <1>1, <1>2, <1>3

(* Calls that agree where fewer than k are left agree, one level deeper,   *)
(* where k are.                                                            *)
Agree(g, h, k) ==
  \A visited \in SUBSET Names : Cardinality(Names \ visited) < k => g[visited] = h[visited]

LEMMA DeeperAgree ==
  ASSUME IsFiniteSet(Names), NEW L, ProfilesFit(L), NEW g, NEW h, NEW k \in Nat, Agree(g, h, k)
  PROVE  Agree(Deeper(L, g), Deeper(L, h), k + 1)
<1> SUFFICES ASSUME NEW visited \in SUBSET Names, Cardinality(Names \ visited) < k + 1
             PROVE  Deeper(L, g)[visited] = Deeper(L, h)[visited]
  BY DEF Agree
<1>1. \A m \in Names \ visited : g[visited \cup {m}] = h[visited \cup {m}]
  <2> SUFFICES ASSUME NEW m \in Names \ visited
               PROVE  g[visited \cup {m}] = h[visited \cup {m}]
    OBVIOUS
  <2>1. visited \cup {m} \in SUBSET Names
    OBVIOUS
  <2>2. Cardinality(Names \ (visited \cup {m})) < k
    BY FewerLeft
  <2>3. QED
    BY <2>1, <2>2 DEF Agree
<1>2. \A n \in Names : ResolveRecursive(L, n, visited, g) = ResolveRecursive(L, n, visited, h)
  BY <1>1, CallDepends
<1>3. QED
  BY <1>2 DEF Deeper

(* A resolution ends: there are calls as its definition says, and only     *)
(* those, since each call adds a name to the set visited.                  *)
LEMMA ResolutionIs ==
  ASSUME IsFiniteSet(Names), NEW L, ProfilesFit(L)
  PROVE  /\ Resolution(L) \in Calls(L)
         /\ \A visited \in SUBSET Names, n \in Names :
              Resolution(L)[visited][n] = ResolveRecursive(L, n, visited, Resolution(L))
<1> DEFINE N == Cardinality(Names)
           S == Calls(L)
           base == [visited \in SUBSET Names |-> [n \in Names |-> Failed({})]]
           G == [k \in 1 .. N + 2 |-> [g \in S |-> Deeper(L, g)]]
           Eq(g) == g = Deeper(L, g)
<1>1. N \in Nat
  BY FS_CardinalityType
<1>2. base \in S
  BY DEF Calls, Results, Failed, MadeBy, NoProfile
<1>3. \A g \in S : Deeper(L, g) \in S
  <2> SUFFICES ASSUME NEW g \in S PROVE Deeper(L, g) \in S
    OBVIOUS
  <2>1. \A visited \in SUBSET Names, n \in Names : ResolveRecursive(L, n, visited, g) \in Results(L)
    BY CallFits
  <2>2. QED
    BY <2>1 DEF Deeper, Calls
<1> HIDE DEF N, S, base
<1>4. PICK f : Recursive(f, S, base, N + 2, G)
  <2>1. StepsOn(S, N + 2, G)
    BY <1>1, <1>3 DEF StepsOn
  <2> HIDE DEF G
  <2>2. QED
    BY <1>2, <2>1, Recursion
<1>5. /\ \A k \in 0 .. N + 2 : f[k] \in S
      /\ \A k \in 0 .. N + 1 : f[k + 1] = Deeper(L, f[k])
  <2>1. f \in [0 .. N + 2 -> S] /\ \A k \in 1 .. N + 2 : f[k] = G[k][f[k - 1]]
    BY <1>4 DEF Recursive
  <2>2. ASSUME NEW k \in 0 .. N + 1 PROVE f[k + 1] = Deeper(L, f[k])
    <3>1. k + 1 \in 1 .. N + 2 /\ (k + 1) - 1 = k /\ f[k] \in S
      BY <1>1, <2>1
    <3>2. f[k + 1] = G[k + 1][f[k]]
      BY <2>1, <3>1
    <3>3. QED
      BY <3>1, <3>2
  <2>3. QED
    BY <2>1, <2>2
<1> DEFINE C == f[N + 1]
<1>6. C \in S /\ Eq(C)
  <2> DEFINE T == {k \in Nat : k <= N + 1 => Agree(f[k], f[k + 1], k)}
  <2>1. 0 \in T
    BY FewerLeft DEF Agree
  <2>2. ASSUME NEW k \in T PROVE k + 1 \in T
    <3> SUFFICES ASSUME k + 1 <= N + 1 PROVE Agree(f[k + 1], f[(k + 1) + 1], k + 1)
      OBVIOUS
    <3>1. k \in Nat /\ k \in 0 .. N + 1 /\ k + 1 \in 0 .. N + 1 /\ Agree(f[k], f[k + 1], k)
      BY <1>1
    <3>2. f[k + 1] = Deeper(L, f[k]) /\ f[(k + 1) + 1] = Deeper(L, f[k + 1])
      BY <1>5, <3>1
    <3> HIDE DEF T
    <3>3. Agree(Deeper(L, f[k]), Deeper(L, f[k + 1]), k + 1)
      BY <3>1, DeeperAgree
    <3>4. QED
      BY <3>2, <3>3
  <2>3. T = Nat
    <3>1. T \in SUBSET Nat
      OBVIOUS
    <3> HIDE DEF T
    <3>2. QED
      BY <2>1, <2>2, <3>1, AllNumbers
  <2>4. N + 1 \in 0 .. N + 1 /\ N + 1 \in 0 .. N + 2 /\ (N + 1) + 1 = N + 2
    BY <1>1
  <2>5. Agree(C, f[N + 2], N + 1) /\ f[N + 2] = Deeper(L, C) /\ C \in S
    BY <1>1, <1>5, <2>3, <2>4
  <2>6. \A visited \in SUBSET Names : C[visited] = Deeper(L, C)[visited]
    <3> SUFFICES ASSUME NEW visited \in SUBSET Names PROVE C[visited] = Deeper(L, C)[visited]
      OBVIOUS
    <3>1. Cardinality(Names \ visited) < N + 1
      BY <1>1, FewerLeft DEF N
    <3>2. QED
      BY <2>5, <3>1 DEF Agree
  <2>7. DOMAIN C = SUBSET Names /\ C = [visited \in SUBSET Names |-> C[visited]]
    BY <2>5 DEF S, Calls
  <2>8. Deeper(L, C) = [visited \in SUBSET Names |-> Deeper(L, C)[visited]]
    BY DEF Deeper
  <2>9. QED
    BY <2>5, <2>6, <2>7, <2>8
<1> HIDE DEF C
<1>7. Eq(Resolution(L))
  <2> DEFINE call == CHOOSE g : Eq(g)
  <2>1. Eq(call)
    <3> HIDE DEF Eq
    <3>1. QED
      BY <1>6
  <2>2. Resolution(L) = call
    BY DEF Resolution, Deeper
  <2>3. QED
    BY <2>1, <2>2
<1> DEFINE D == Resolution(L)
<1>8. D = C
  <2> HIDE DEF D
  <2> DEFINE T == {k \in Nat : Agree(D, C, k)}
  <2>1. 0 \in T
    BY FewerLeft DEF Agree
  <2>2. ASSUME NEW k \in T PROVE k + 1 \in T
    <3>1. k \in Nat /\ Agree(D, C, k)
      OBVIOUS
    <3> HIDE DEF T
    <3>2. Agree(Deeper(L, D), Deeper(L, C), k + 1)
      BY <3>1, DeeperAgree
    <3>3. D = Deeper(L, D) /\ C = Deeper(L, C)
      BY <1>6, <1>7 DEF D
    <3>4. Agree(D, C, k + 1)
      BY <3>2, <3>3, Zenon
    <3>5. QED
      BY <3>1, <3>4 DEF T
  <2>3. T = Nat
    <3>1. T \in SUBSET Nat
      OBVIOUS
    <3> HIDE DEF T
    <3>2. QED
      BY <2>1, <2>2, <3>1, AllNumbers
  <2>4. Agree(D, C, N + 1)
    BY <1>1, <2>3
  <2>5. \A visited \in SUBSET Names : D[visited] = C[visited]
    <3> SUFFICES ASSUME NEW visited \in SUBSET Names PROVE D[visited] = C[visited]
      OBVIOUS
    <3>1. Cardinality(Names \ visited) < N + 1
      BY <1>1, FewerLeft DEF N
    <3>2. QED
      BY <2>4, <3>1 DEF Agree
  <2>6. D = [visited \in SUBSET Names |-> D[visited]] /\ C = [visited \in SUBSET Names |-> C[visited]]
    <3>1. \A g : Deeper(L, g) = [visited \in SUBSET Names |-> Deeper(L, g)[visited]]
      BY DEF Deeper
    <3>2. QED
      BY <1>6, <1>7, <3>1 DEF D
  <2>7. QED
    BY <2>5, <2>6
<1>9. \A visited \in SUBSET Names, n \in Names : D[visited][n] = ResolveRecursive(L, n, visited, D)
  <2> HIDE DEF D
  <2>1. D = Deeper(L, D)
    BY <1>7 DEF D
  <2>2. \A g : \A visited \in SUBSET Names, n \in Names :
          Deeper(L, g)[visited][n] = ResolveRecursive(L, n, visited, g)
    BY DEF Deeper
  <2>3. QED
    BY <2>1, <2>2
<1>10. QED
  BY <1>6, <1>8, <1>9 DEF S
(* What a profile inherits from: its parents, and what they inherit from.  *)
LEMMA LineageUnfolds ==
  ASSUME NEW L, ProfilesFit(L), NEW n \in Names
  PROVE  /\ Parents(L, n) \subseteq Names
         /\ Lineage(L, n) = {n} \cup UNION {Lineage(L, p) : p \in Parents(L, n)}
<1> DEFINE Closed(C) == \A g \in C : Parents(L, g) \subseteq C
           M == {n} \cup UNION {Lineage(L, p) : p \in Parents(L, n)}
<1>1. \A f \in Names : Parents(L, f) \subseteq Names
  BY DEF Parents, ToSet, ProfilesFit, ProfileKinds
<1>2. \A f \in Names : /\ f \in Lineage(L, f) /\ Lineage(L, f) \subseteq Names
                       /\ Closed(Lineage(L, f))
                       /\ \A C \in SUBSET Names : f \in C /\ Closed(C) => Lineage(L, f) \subseteq C
  <2> SUFFICES ASSUME NEW f \in Names
               PROVE  /\ f \in Lineage(L, f) /\ Lineage(L, f) \subseteq Names
                      /\ Closed(Lineage(L, f))
                      /\ \A C \in SUBSET Names : f \in C /\ Closed(C) => Lineage(L, f) \subseteq C
    OBVIOUS
  <2> HIDE DEF Closed
  <2>1. Lineage(L, f) = {h \in Names : \A C \in SUBSET Names : f \in C /\ Closed(C) => h \in C}
    BY DEF Lineage, Closed
  <2>2. ASSUME NEW g \in Lineage(L, f), NEW h \in Parents(L, g) PROVE h \in Lineage(L, f)
    <3>1. g \in Names /\ h \in Names
      BY <1>1, <2>1
    <3>2. ASSUME NEW C \in SUBSET Names, f \in C, Closed(C) PROVE h \in C
      BY <2>1, <3>2 DEF Closed
    <3>3. QED
      BY <2>1, <3>1, <3>2
  <2>3. Closed(Lineage(L, f))
    BY <2>2 DEF Closed
  <2>4. QED
    BY <2>1, <2>3
<1>3. M \in SUBSET Names /\ n \in M
  BY <1>1, <1>2
<1>4. Closed(M)
  <2> SUFFICES ASSUME NEW g \in M, NEW h \in Parents(L, g) PROVE h \in M
    OBVIOUS
  <2>1. CASE g = n
    BY <1>1, <1>2, <2>1
  <2>2. CASE g # n
    <3>1. PICK p \in Parents(L, n) : g \in Lineage(L, p)
      BY <2>2
    <3>2. h \in Lineage(L, p)
      BY <1>1, <1>2, <3>1
    <3>3. QED
      BY <3>1, <3>2
  <2>3. QED
    BY <2>1, <2>2
<1>5. Lineage(L, n) \subseteq M
  <2> HIDE DEF M, Closed
  <2>1. QED
    BY <1>2, <1>3, <1>4
<1>6. ASSUME NEW p \in Parents(L, n) PROVE Lineage(L, p) \subseteq Lineage(L, n)
  <2>1. p \in Names /\ p \in Lineage(L, n)
    BY <1>1, <1>2
  <2> HIDE DEF Closed
  <2>2. QED
    BY <1>2, <2>1
<1>7. n \in Lineage(L, n)
  BY <1>2
<1>8. QED
  BY <1>1, <1>5, <1>6, <1>7

(* No profile that n inherits from fails, nor was visited on the way here. *)
Clear(L, n, visited) ==
  \A f \in Lineage(L, n) : Sound(L, f) /\ L[f].name \notin visited

LEMMA ClearUnfolds ==
  ASSUME NEW L, ProfilesFit(L), NEW n \in Names, NEW visited
  PROVE  Clear(L, n, visited) <=>
           /\ L[n].reads /\ L[n].name \notin visited
           /\ \A p \in Parents(L, n) : Clear(L, p, visited \cup {L[n].name})
<1>1. Lineage(L, n) = {n} \cup UNION {Lineage(L, p) : p \in Parents(L, n)}
  BY LineageUnfolds
<1>2. ASSUME Clear(L, n, visited)
      PROVE  /\ L[n].reads /\ L[n].name \notin visited
             /\ \A p \in Parents(L, n) : Clear(L, p, visited \cup {L[n].name})
  <2>1. L[n].reads /\ L[n].name \notin visited /\ Sound(L, n)
    BY <1>1, <1>2 DEF Clear, Sound
  <2>2. ASSUME NEW p \in Parents(L, n), NEW f \in Lineage(L, p)
        PROVE  Sound(L, f) /\ L[f].name \notin visited \cup {L[n].name}
    <3>1. Sound(L, f) /\ L[f].name \notin visited
      BY <1>1, <1>2 DEF Clear
    <3>2. L[f].name # L[n].name
      BY <2>1, <3>1 DEF Sound
    <3>3. QED
      BY <3>1, <3>2
  <2>3. QED
    BY <2>1, <2>2 DEF Clear
<1>3. ASSUME L[n].reads, L[n].name \notin visited,
             \A p \in Parents(L, n) : Clear(L, p, visited \cup {L[n].name})
      PROVE  Clear(L, n, visited)
  <2>1. \A p \in Parents(L, n) : \A f \in Lineage(L, p) :
          Sound(L, f) /\ L[f].name \notin visited /\ L[f].name # L[n].name
    BY <1>3 DEF Clear
  <2>2. Sound(L, n)
    BY <1>3, <2>1 DEF Sound
  <2>3. QED
    BY <1>1, <1>3, <2>1, <2>2 DEF Clear
<1>4. QED
  BY <1>2, <1>3

(* What the calls for the parents return, and a setting by that.           *)
ParentCalls(L, n, visited) ==
  [k \in DOMAIN L[n].parents |-> Resolution(L)[visited \cup {L[n].name}][L[n].parents[k]]]
Settled(L, n, visited, s) ==
  IF s \in L[n].makes THEN {L[n].name}
  ELSE IF s = "llm" THEN {}
  ELSE FirstGiven(ParentCalls(L, n, visited), s, Len(L[n].parents))

(* A call, by the calls for the parents.                                   *)
CallIs(L, n, visited) ==
  /\ Resolution(L)[visited][n].ok <=>
       /\ L[n].reads /\ L[n].name \notin visited
       /\ \A p \in Parents(L, n) : Resolution(L)[visited \cup {L[n].name}][p].ok
  /\ \A s \in Settings : Resolution(L)[visited][n].ok =>
       Resolution(L)[visited][n].settings[s] = Settled(L, n, visited, s)

LEMMA CallUnfolds ==
  ASSUME IsFiniteSet(Names), NEW L, ProfilesFit(L), NEW n \in Names, NEW visited \in SUBSET Names
  PROVE  CallIs(L, n, visited)
<1> DEFINE D == Resolution(L)
           W == visited \cup {L[n].name}
           parents == L[n].parents
           ps == ParentCalls(L, n, visited)
           own == Own(L[n], n)
<1>1. D \in Calls(L) /\ D[visited][n] = ResolveRecursive(L, n, visited, D)
  BY ResolutionIs
<1> HIDE DEF D
<1>2. CASE L[n].reads /\ L[n].name \notin visited
  <2>1. W \in SUBSET Names /\ parents \in Seq(Names)
    BY <1>2 DEF ProfilesFit, ProfileKinds
  <2>2. D[W] \in [Names -> Results(L)]
    BY <1>1, <2>1 DEF Calls
  <2>3. ps \in Seq(Results(L)) /\ Len(ps) = Len(parents)
    <3> DEFINE R == Results(L)
    <3>1. parents \in Seq(Names) /\ D[W] \in [Names -> R]
      BY <2>1, <2>2
    <3>2. ps = [k \in DOMAIN parents |-> D[W][parents[k]]]
      BY DEF ParentCalls, D
    <3> HIDE DEF R, W, parents, ps
    <3>3. ps \in Seq(R) /\ Len(ps) = Len(parents)
      BY <3>1, <3>2
    <3>4. QED
      BY <3>3 DEF R
  <2>4. own \in Results(L) /\ own.ok
    BY <1>2 DEF Own, MadeBy, Results, ProfilesFit
  <2>5. D[visited][n] = Inherited(own, ps)
    BY <1>1, <1>2 DEF ResolveRecursive, ParentCalls, D
  <2>6. \A s \in Settings : own.settings[s] = IF s \in L[n].makes THEN {L[n].name} ELSE {}
    BY DEF Own, MadeBy
  <2> HIDE DEF own, ps, W, parents
  <2>7. /\ D[visited][n].ok <=> \A k \in 1 .. Len(ps) : ps[k].ok
        /\ D[visited][n].ok => \A s \in Settings :
             D[visited][n].settings[s] =
               IF s = "llm" \/ own.settings[s] # {} THEN own.settings[s]
               ELSE FirstGiven(ps, s, Len(ps))
    BY <2>3, <2>4, <2>5, InheritedIs
  <2>8. (\A k \in 1 .. Len(ps) : ps[k].ok) <=> \A p \in Parents(L, n) : D[W][p].ok
    <3>1. \A k \in 1 .. Len(parents) : ps[k] = D[W][parents[k]]
      BY <2>1 DEF ps, ParentCalls, D, W, parents
    <3>2. Parents(L, n) = {parents[k] : k \in 1 .. Len(parents)}
      BY <2>1 DEF Parents, ToSet, parents
    <3>3. QED
      BY <2>3, <3>1, <3>2
  <2>9. \A s \in Settings :
          (IF s = "llm" \/ own.settings[s] # {} THEN own.settings[s] ELSE FirstGiven(ps, s, Len(ps)))
          = Settled(L, n, visited, s)
    BY <2>3, <2>6 DEF Settled, ps, parents
  <2>10. D[visited][n].ok <=> /\ L[n].reads /\ L[n].name \notin visited
                              /\ \A p \in Parents(L, n) : D[W][p].ok
    BY <1>2, <2>7, <2>8
  <2>11. \A s \in Settings : D[visited][n].ok =>
           D[visited][n].settings[s] = Settled(L, n, visited, s)
    BY <2>7, <2>9
  <2>12. QED
    BY <2>10, <2>11, Zenon DEF CallIs, D, W
<1>3. CASE ~(L[n].reads /\ L[n].name \notin visited)
  <2>1. ~D[visited][n].ok
    BY <1>1, <1>3 DEF ResolveRecursive, Failed
  <2>2. QED
    BY <1>3, <2>1, Zenon DEF CallIs, D
<1>4. QED
  BY <1>2, <1>3, Zenon

(* A call succeeds exactly if nothing it inherits from fails.              *)
LEMMA CallSucceeds ==
  ASSUME IsFiniteSet(Names), NEW L, ProfilesFit(L), NEW n0 \in Names, NEW visited0 \in SUBSET Names
  PROVE  Resolution(L)[visited0][n0].ok <=> Clear(L, n0, visited0)
<1> DEFINE D == Resolution(L)
           T == {k \in Nat : \A visited \in SUBSET Names : Cardinality(Names \ visited) < k =>
                   \A n \in Names : D[visited][n].ok <=> Clear(L, n, visited)}
<1> HIDE DEF D
<1>1. 0 \in T
  BY FewerLeft
<1>2. ASSUME NEW k \in T PROVE k + 1 \in T
  <2> SUFFICES ASSUME NEW visited \in SUBSET Names, Cardinality(Names \ visited) < k + 1,
                      NEW n \in Names
               PROVE  D[visited][n].ok <=> Clear(L, n, visited)
    <3>1. k + 1 \in Nat
      OBVIOUS
    <3>2. QED
      BY <3>1, Zenon
  <2> DEFINE W == visited \cup {L[n].name}
  <2>1. D[visited][n].ok <=> /\ L[n].reads /\ L[n].name \notin visited
                             /\ \A p \in Parents(L, n) : D[W][p].ok
    BY CallUnfolds DEF CallIs, D
  <2>2. CASE L[n].reads /\ L[n].name \notin visited
    <3>1. L[n].name \in Names \ visited /\ W \in SUBSET Names
      BY <2>2 DEF ProfilesFit
    <3>2. Cardinality(Names \ W) < k
      BY <3>1, FewerLeft
    <3>3. \A p \in Parents(L, n) : D[W][p].ok <=> Clear(L, p, W)
      BY <3>1, <3>2, LineageUnfolds
    <3>4. QED
      BY <2>1, <3>3, ClearUnfolds
  <2>3. CASE ~(L[n].reads /\ L[n].name \notin visited)
    BY <2>1, <2>3, ClearUnfolds
  <2>4. QED
    BY <2>2, <2>3
<1>3. T = Nat
  <2>1. T \in SUBSET Nat
    OBVIOUS
  <2> HIDE DEF T
  <2>2. QED
    BY <1>1, <1>2, <2>1, AllNumbers
<1>4. Cardinality(Names \ visited0) \in Nat
  BY FewerLeft, FS_CardinalityType
<1> DEFINE c == Cardinality(Names \ visited0)
<1>5. c + 1 \in T /\ c < c + 1
  <2> HIDE DEF T, c
  <2>1. QED
    BY <1>3, <1>4 DEF c
<1>6. \A visited \in SUBSET Names : Cardinality(Names \ visited) < c + 1 =>
        \A n \in Names : D[visited][n].ok <=> Clear(L, n, visited)
  <2> HIDE DEF c
  <2>1. QED
    BY <1>5
<1>7. QED
  BY <1>5, <1>6 DEF D

LEMMA SameGiven ==
  ASSUME NEW ps, NEW qs, NEW s, NEW m \in Nat,
         \A k \in 1 .. m : ps[k].settings[s] = qs[k].settings[s]
  PROVE  FirstGiven(ps, s, m) = FirstGiven(qs, s, m)
<1>1. Firsts(ps, s, m) = Firsts(qs, s, m)
  BY DEF Firsts
<1>2. \A k \in Firsts(ps, s, m) : ps[k].settings[s] = qs[k].settings[s]
  BY DEF Firsts
<1>3. QED
  BY <1>1, <1>2 DEF FirstGiven

(* A call that succeeds returns what it would with fewer profiles visited. *)
LEMMA VisitedOnlyFails ==
  ASSUME IsFiniteSet(Names), NEW L, ProfilesFit(L), NEW n0 \in Names,
         NEW visited0 \in SUBSET Names, NEW fewer0 \in SUBSET visited0,
         Resolution(L)[visited0][n0].ok, NEW s \in Settings
  PROVE  Resolution(L)[fewer0][n0].settings[s] = Resolution(L)[visited0][n0].settings[s]
<1> DEFINE D == Resolution(L)
           Same(V, U, n) == D[V][n].ok => D[U][n].settings[s] = D[V][n].settings[s]
           T == {k \in Nat : \A V \in SUBSET Names : Cardinality(Names \ V) < k =>
                   \A U \in SUBSET V, n \in Names : Same(V, U, n)}
<1> HIDE DEF D
<1>1. 0 \in T
  BY FewerLeft
<1>2. ASSUME NEW k \in T PROVE k + 1 \in T
  <2> SUFFICES ASSUME NEW V \in SUBSET Names, Cardinality(Names \ V) < k + 1,
                      NEW U \in SUBSET V, NEW n \in Names
               PROVE  Same(V, U, n)
    <3>1. k + 1 \in Nat
      OBVIOUS
    <3> HIDE DEF Same
    <3>2. QED
      BY <3>1
  <2> SUFFICES ASSUME D[V][n].ok PROVE D[U][n].settings[s] = D[V][n].settings[s]
    OBVIOUS
  <2> DEFINE parents == L[n].parents
             Above(W) == W \cup {L[n].name}
             ps(W) == ParentCalls(L, n, W)
  <2>1. U \in SUBSET Names
    OBVIOUS
  <2>2. ASSUME NEW W \in SUBSET Names, D[W][n].ok
        PROVE  D[W][n].settings[s] = Settled(L, n, W, s)
    <3>1. CallIs(L, n, W)
      BY CallUnfolds
    <3>2. QED
      BY <2>2, <3>1 DEF CallIs, D
  <2>3. D[V][n].ok /\ D[U][n].ok
    <3>1. Clear(L, n, V)
      BY CallSucceeds DEF D
    <3>2. Clear(L, n, U)
      BY <3>1 DEF Clear
    <3>3. QED
      BY <2>1, <3>2, CallSucceeds DEF D
  <2>4. /\ L[n].reads /\ L[n].name \notin V
        /\ \A p \in Parents(L, n) : D[Above(V)][p].ok
    BY CallUnfolds DEF CallIs, D
  <2>5. L[n].name \in Names \ V /\ Above(V) \in SUBSET Names /\ Above(U) \in SUBSET Above(V)
    BY <2>4 DEF ProfilesFit
  <2>6. Cardinality(Names \ Above(V)) < k
    BY <2>5, FewerLeft
  <2>7. \A p \in Parents(L, n) : D[Above(U)][p].settings[s] = D[Above(V)][p].settings[s]
    BY <2>4, <2>5, <2>6, LineageUnfolds
  <2>8. /\ Len(parents) \in Nat
        /\ \A j \in 1 .. Len(parents) : j \in DOMAIN parents /\ parents[j] \in Parents(L, n)
    BY DEF ProfilesFit, ProfileKinds, Parents, ToSet
  <2>9. \A j \in 1 .. Len(parents) : ps(U)[j].settings[s] = ps(V)[j].settings[s]
    BY <2>7, <2>8 DEF ParentCalls, D
  <2> HIDE DEF ps, parents
  <2>10. FirstGiven(ps(U), s, Len(parents)) = FirstGiven(ps(V), s, Len(parents))
    BY <2>8, <2>9, SameGiven
  <2>11. QED
    BY <2>1, <2>2, <2>3, <2>10 DEF Settled, ps, parents
<1>3. T = Nat
  <2>1. T \in SUBSET Nat
    OBVIOUS
  <2> HIDE DEF T
  <2>2. QED
    BY <1>1, <1>2, <2>1, AllNumbers
<1>4. Cardinality(Names \ visited0) \in Nat
  BY FewerLeft, FS_CardinalityType
<1> DEFINE c == Cardinality(Names \ visited0)
<1>5. c + 1 \in T /\ c < c + 1
  <2> HIDE DEF T, c
  <2>1. QED
    BY <1>3, <1>4 DEF c
<1>6. \A V \in SUBSET Names : Cardinality(Names \ V) < c + 1 =>
        \A U \in SUBSET V, n \in Names : Same(V, U, n)
  <2> HIDE DEF c
  <2>1. QED
    BY <1>5
<1>7. QED
  BY <1>5, <1>6 DEF D
(* What a profile resolves to, in terms of what it inherits from.          *)
LEMMA ResolvesRightly ==
  ASSUME IsFiniteSet(Names), NEW L, ProfilesFit(L), NEW n \in Names
  PROVE  /\ Resolution(L)[{}][n].ok <=> \A f \in Lineage(L, n) : Sound(L, f)
         /\ \A s \in Settings : Resolution(L)[{}][n].ok =>
              Resolution(L)[{}][n].settings[s] =
                IF s \in L[n].makes THEN {L[n].name}
                ELSE IF s = "llm" THEN {} ELSE FromParents(L, n, s)
<1> DEFINE D == Resolution(L)
           V == {L[n].name}
           parents == L[n].parents
           direct == [k \in DOMAIN parents |-> D[{}][parents[k]]]
<1>1. D[{}][n].ok <=> \A f \in Lineage(L, n) : Sound(L, f)
  BY CallSucceeds DEF Clear
<1>2. ASSUME NEW s \in Settings, D[{}][n].ok
      PROVE  D[{}][n].settings[s] = IF s \in L[n].makes THEN {L[n].name}
                                    ELSE IF s = "llm" THEN {} ELSE FromParents(L, n, s)
  <2>1. CallIs(L, n, {})
    BY CallUnfolds
  <2>2. /\ L[n].reads /\ \A p \in Parents(L, n) : D[{} \cup {L[n].name}][p].ok
        /\ D[{}][n].settings[s] = Settled(L, n, {}, s)
    BY <1>2, <2>1 DEF CallIs
  <2>3. V \in SUBSET Names /\ {} \cup {L[n].name} = V
    BY <2>2 DEF ProfilesFit
  <2>4. ASSUME NEW p \in Parents(L, n) PROVE D[V][p].settings[s] = D[{}][p].settings[s]
    <3>1. p \in Names /\ D[V][p].ok
      BY <2>2, <2>3, LineageUnfolds
    <3>2. {} \in SUBSET V
      OBVIOUS
    <3> HIDE DEF V
    <3>3. QED
      BY <2>3, <3>1, <3>2, VisitedOnlyFails
  <2>5. /\ Len(parents) \in Nat /\ DOMAIN parents = 1 .. Len(parents)
        /\ \A k \in 1 .. Len(parents) : parents[k] \in Parents(L, n)
    BY DEF ProfilesFit, ProfileKinds, Parents, ToSet
  <2>6. \A k \in 1 .. Len(parents) :
          ParentCalls(L, n, {})[k].settings[s] = direct[k].settings[s]
    BY <2>3, <2>4, <2>5 DEF ParentCalls
  <2>7. FirstGiven(ParentCalls(L, n, {}), s, Len(parents)) = FirstGiven(direct, s, Len(parents))
    <3> HIDE DEF direct, parents
    <3>1. QED
      BY <2>5, <2>6, SameGiven
  <2>8. FirstGiven(direct, s, Len(parents)) = FromParents(L, n, s)
    <3> DEFINE Gives(k) == D[{}][parents[k]].settings[s]
               First == {k \in DOMAIN parents : Gives(k) # {} /\ \A j \in 1 .. k - 1 : Gives(j) = {}}
    <3>1. \A k \in 1 .. Len(parents) :
            direct[k].settings[s] = Gives(k) /\ \A j \in 1 .. k - 1 : direct[j].settings[s] = Gives(j)
      BY <2>5
    <3>2. Firsts(direct, s, Len(parents)) = First
      <4> HIDE DEF direct, Gives, parents
      <4>1. QED
        BY <2>5, <3>1 DEF Firsts
    <3>3. FirstGiven(direct, s, Len(parents)) = UNION {Gives(k) : k \in First}
      <4>1. \A k \in First : direct[k].settings[s] = Gives(k)
        BY <2>5, <3>1
      <4> HIDE DEF direct, Gives, parents, First
      <4>2. QED
        BY <3>2, <4>1 DEF FirstGiven
    <3>4. FromParents(L, n, s) = UNION {Gives(k) : k \in First}
      BY DEF FromParents
    <3>5. QED
      BY <3>3, <3>4
  <2>9. QED
    BY <2>2, <2>7, <2>8 DEF Settled
<1>3. QED
  BY <1>1, <1>2

-----------------------------------------------------------------------------
(* The manager. *)

(* A profile in the cache has a name; and what a resolution returned is    *)
(* right by the cache and the directory that it left.                      *)
PInv ==
  /\ profiles \in [Names -> ProfileKinds]
  /\ cached \in [Names -> ProfileKinds]
  /\ \A n \in Names : cached[n].reads => cached[n].name \in Names
  /\ ProfilesResolve

LEMMA PInvLoads == PInv => ProfilesFit(LoadedProfiles)
<1> SUFFICES ASSUME PInv PROVE ProfilesFit(LoadedProfiles)
  OBVIOUS
<1>1. ASSUME NEW n \in Names
      PROVE  LoadProfile(n) \in ProfileKinds /\ (LoadProfile(n).reads => LoadProfile(n).name \in Names)
  <2> DEFINE p == profiles[n]
  <2>1. p \in ProfileKinds /\ cached[n] \in ProfileKinds /\ (cached[n].reads => cached[n].name \in Names)
    BY DEF PInv
  <2> HIDE DEF p
  <2>2. CASE p.name = "none"
    <3>1. [p EXCEPT !.name = n] \in ProfileKinds /\ [p EXCEPT !.name = n].name = n
      BY <2>1 DEF ProfileKinds
    <3>2. QED
      BY <2>1, <2>2, <3>1 DEF LoadProfile, Named, p
  <2>3. CASE p.name # "none"
    <3>1. p.name \in Names
      BY <2>1, <2>3 DEF ProfileKinds
    <3>2. QED
      BY <2>1, <2>3, <3>1 DEF LoadProfile, Named, p
  <2>4. QED
    BY <2>2, <2>3
<1>2. QED
  BY <1>1 DEF ProfilesFit, LoadedProfiles

LEMMA NothingFits ==
  /\ NoProfile \in ProfileKinds /\ ~NoProfile.reads
  /\ Unreadable \in ProfileKinds
<1>1. <<>> \in Seq(Names)
  OBVIOUS
<1>2. NoProfile \in ProfileKinds /\ ~NoProfile.reads
  BY <1>1 DEF NoProfile, ProfileKinds
<1>3. QED
  BY <1>2 DEF Unreadable, ProfileKinds

LEMMA WrittenFits ==
  ASSUME NEW c \in Contents
  PROVE  Written(c) \in ProfileKinds /\ Written(c).name = c.name
<1>1. c.name \in Names \cup {"none"} /\ c.parents \in Seq(Names) /\ c.makes \in SUBSET Settings
  BY ProfilesAssumption DEF Settings
<1>2. QED
  BY <1>1 DEF Written, ProfileKinds

(* To resolve a profile changes nothing of what the next call finds, though*)
(* it fills the cache, also where it fails.                                *)
LEMMA ResolvingKeeps ==
  ASSUME PInv, NEW n \in Names, ResolveProfile(n)
  PROVE  LoadedProfiles' = LoadedProfiles
<1> DEFINE returned == Resolved[n]
<1>1. returned.read \subseteq {f \in Names : LoadedProfiles[f].reads}
  <2>1. IsFiniteSet(Names) /\ ProfilesFit(LoadedProfiles)
    BY PInvLoads, ProfilesAssumption
  <2>2. Resolution(LoadedProfiles) \in Calls(LoadedProfiles)
    BY <2>1, ResolutionIs
  <2>3. returned \in Results(LoadedProfiles)
    BY <2>2 DEF Resolved, Calls
  <2>4. QED
    BY <2>3 DEF Results
<1> HIDE DEF returned
<1>2. /\ cached' = [f \in Names |-> IF f \in returned.read THEN LoadProfile(f) ELSE cached[f]]
      /\ UNCHANGED profiles
  BY DEF ResolveProfile, returned
<1>3. ASSUME NEW f \in Names PROVE LoadProfile(f)' = LoadProfile(f)
  <2>1. LoadedProfiles[f] = LoadProfile(f)
    BY DEF LoadedProfiles
  <2>2. CASE f \in returned.read
    BY <1>1, <1>2, <2>1, <2>2 DEF LoadProfile
  <2>3. CASE f \notin returned.read
    BY <1>2, <2>3 DEF LoadProfile
  <2>4. QED
    BY <2>2, <2>3
<1>4. QED
  BY <1>3 DEF LoadedProfiles

LEMMA InitPInv == InitProfiles => PInv
BY NothingFits DEF InitProfiles, PInv, ProfilesResolve, NoAnswer

LEMMA NextPInv == PInv /\ [NextProfiles]_profileVars => PInv'
<1> SUFFICES ASSUME PInv, [NextProfiles]_profileVars PROVE PInv'
  OBVIOUS
<1> USE DEF PInv
<1>1. ASSUME NEW n \in Names, ResolveProfile(n) PROVE PInv'
  <2> DEFINE L == LoadedProfiles
             returned == Resolution(L)[{}][n]
  <2>1. IsFiniteSet(Names) /\ ProfilesFit(L)
    BY PInvLoads, ProfilesAssumption
  <2>2. L' = L
    BY <1>1, ResolvingKeeps
  <2>3. /\ answer' = [call |-> "resolve", name |-> n, result |-> returned]
        /\ cached' = [f \in Names |-> IF f \in returned.read THEN LoadProfile(f) ELSE cached[f]]
        /\ UNCHANGED profiles
    BY <1>1 DEF ResolveProfile, Resolved
  <2>4. \A f \in Names : LoadProfile(f) = L[f]
    BY DEF LoadedProfiles
  <2> HIDE DEF L
  <2>5. /\ returned.ok <=> \A f \in Lineage(L, n) : Sound(L, f)
        /\ \A s \in Settings : returned.ok =>
             returned.settings[s] = IF s \in L[n].makes THEN {L[n].name}
                                  ELSE IF s = "llm" THEN {} ELSE FromParents(L, n, s)
    BY <2>1, ResolvesRightly
  <2> HIDE DEF returned
  <2>6. answer'.name = n /\ answer'.result = returned
    BY <2>3
  <2>7. ProfilesResolve'
    BY <2>2, <2>5, <2>6 DEF ProfilesResolve, L
  <2>8. /\ cached' \in [Names -> ProfileKinds]
        /\ \A f \in Names : cached'[f].reads => cached'[f].name \in Names
    BY <2>1, <2>3, <2>4 DEF ProfilesFit
  <2>9. QED
    BY <2>3, <2>7, <2>8
<1>2. ASSUME answer'.call # "resolve" PROVE ProfilesResolve'
  BY <1>2 DEF ProfilesResolve
<1>3. ASSUME NEW c \in Contents, SaveProfile(c) PROVE PInv'
  <2>1. answer'.call # "resolve"
    BY <1>3 DEF SaveProfile, NoAnswer
  <2>2. c.name \in Names
    BY <1>3, ProfilesAssumption DEF SaveProfile
  <2>3. QED
    BY <1>2, <1>3, <2>1, <2>2, WrittenFits DEF SaveProfile
<1>4. ASSUME NEW n \in Names, DeleteProfile(n) \/ DieSaving(n) PROVE PInv'
  <2>1. answer'.call # "resolve"
    BY <1>4 DEF DeleteProfile, DieSaving, NoAnswer
  <2>2. QED
    BY <1>2, <1>4, <2>1, NothingFits DEF DeleteProfile, DieSaving
<1>5. ASSUME CreateBuiltinProfiles PROVE PInv'
  <2> DEFINE missing == {c \in Builtin : ~profiles[c.name].there}
             Chosen(n) == CHOOSE c \in missing : c.name = n
             With(there) == [n \in Names |-> IF \E c \in missing : c.name = n
                                             THEN Written(Chosen(n)) ELSE there[n]]
  <2>1. ASSUME NEW n \in Names, \E c \in missing : c.name = n
        PROVE  Written(Chosen(n)) \in ProfileKinds /\ Written(Chosen(n)).name = n
    <3>1. Chosen(n) \in missing /\ Chosen(n).name = n
      BY <2>1
    <3> HIDE DEF Chosen
    <3>2. QED
      BY <3>1, WrittenFits, ProfilesAssumption
  <2>2. answer'.call # "resolve"
    BY <1>5 DEF CreateBuiltinProfiles, NoAnswer
  <2>3. profiles' = With(profiles) /\ cached' = With(cached)
    BY <1>5 DEF CreateBuiltinProfiles
  <2>4. ASSUME NEW there \in [Names -> ProfileKinds]
        PROVE  /\ With(there) \in [Names -> ProfileKinds]
               /\ \A n \in Names : With(there)[n].name = n \/ With(there)[n] = there[n]
    <3> HIDE DEF missing, Chosen
    <3>1. QED
      BY <2>1
  <2> HIDE DEF With
  <2>5. QED
    BY <1>2, <2>2, <2>3, <2>4
<1>6. ASSUME NEW n \in Names, NEW c \in Contents, EditProfile(n, c) PROVE PInv'
  <2>1. answer'.call # "resolve"
    BY <1>6 DEF EditProfile, NoAnswer
  <2>2. QED
    BY <1>2, <1>6, <2>1, WrittenFits DEF EditProfile
<1>7. CASE ListProfiles
  <2>1. answer'.call # "resolve"
    BY <1>7 DEF ListProfiles
  <2>2. QED
    BY <1>2, <1>7, <2>1 DEF ListProfiles
<1>8. CASE UNCHANGED profileVars
  BY <1>8 DEF profileVars, ProfilesResolve, LoadedProfiles, LoadProfile
<1>9. QED
  BY <1>1, <1>3, <1>4, <1>5, <1>6, <1>7, <1>8 DEF NextProfiles

(* For any finite directory of profiles, however they inherit from each    *)
(* other: a resolution ends, fails exactly where a profile it needs cannot *)
(* be read or is its own ancestor, and otherwise has the first setting     *)
(* there is along the parents, whatever earlier calls left in the cache.   *)
THEOREM ProfilesResolveRightly == SpecProfiles => []ProfilesResolve
<1>1. SpecProfiles => []PInv
  BY InitPInv, NextPInv, PTL DEF SpecProfiles
<1>2. PInv => ProfilesResolve
  BY DEF PInv
<1>3. QED
  BY <1>1, <1>2, PTL
=============================================================================
