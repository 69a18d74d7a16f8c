------------------------------ MODULE Binaries ------------------------------
(***************************************************************************)
(* The installation library (installation/binary): BinaryManagerImpl and   *)
(* InstallationOrchestrator look for a binary on disk, and install it with *)
(* the first strategy that can: a release from GitHub, an image from a     *)
(* registry, a build in a container.  One caller at a time, who may die;   *)
(* no program of the repository is one.                                    *)
(***************************************************************************)
EXTENDS Naturals, Sequences, SequencesExt

CONSTANTS
  Managers,     \* sequences of strategies, each with who tries them
  MaxInstalls,  \* bound: calls
  MaxLeft       \* bound: containers left behind

ASSUME BinariesAssumption ==
  /\ MaxInstalls \in Nat /\ MaxLeft \in Nat
  /\ \A m \in Managers : m.who \in {"manager", "orchestrator"}
                           /\ m.strategies \in Seq({"github", "docker", "source"})

VARIABLES
  manager,   \* who the caller uses
  files,     \* what is in the cache, where binaries are installed, in the PATH
             \* of the system and, for a build of another name, beside them
  work,      \* the call in progress
  reply,     \* what the last call returned
  tried,     \* history: what each strategy said to the last call
  left,      \* containers nobody removed
  installs

binaryVars == <<manager, files, work, reply, tried, left, installs>>

(* priority: GitHub releases 10, Docker registries 20, source builds 30.   *)
(* The manager tries the lowest first, the orchestrator the highest.       *)
Priority(s) == CASE s = "github" -> 10 [] s = "docker" -> 20 [] s = "source" -> 30
Before(m, s, t) ==
    IF m.who = "manager" THEN Priority(s) < Priority(t) ELSE Priority(s) > Priority(t)
InOrder(m) ==
  LET at == DOMAIN m.strategies
      order == CHOOSE order \in Bijection(at, at) :
                 \A i, j \in at : Before(m, m.strategies[order[i]], m.strategies[order[j]]) => i < j
  IN [i \in at |-> m.strategies[order[i]]]

Places == {"cache", "installed", "system", "other"}
NoReply == [ok |-> FALSE, place |-> "none", found |-> FALSE]
NoWork == [pc |-> "idle", rest |-> <<>>]

InitBinaries ==
  /\ manager \in Managers
  /\ \E s \in {"none", "whole"} :
       files = [f \in Places |-> IF f = "system" THEN s ELSE "none"]
  /\ work = NoWork /\ reply = NoReply /\ tried = <<>> /\ left = 0 /\ installs = 0

(* Both look into the cache, then where binaries are installed; only the  *)
(* manager goes on to the PATH.                                            *)
Looked == <<"cache", "installed">> \o (IF manager.who = "manager" THEN <<"system">> ELSE <<>>)
Found == SelectSeq(Looked, LAMBDA f : files[f] # "none")

(* Where a strategy writes: the manager gives it its cache, the            *)
(* orchestrator its directory; a build keeps the name of the file built.   *)
Target(s) == CASE s = "source" -> "other"
               [] s # "source" /\ manager.who = "manager" -> "cache"
               [] OTHER -> "installed"

Begun == IF manager.strategies = <<>> THEN NoWork
         ELSE [pc |-> "ask", rest |-> InOrder(manager)]

(* ensure_binary; that of the manager has no strategies and gives up.      *)
Ensure ==
  /\ work = NoWork /\ installs < MaxInstalls /\ installs' = installs + 1
  /\ tried' = <<>>
  /\ CASE Found # <<>> ->
            reply' = [ok |-> TRUE, place |-> Head(Found), found |-> TRUE] /\ UNCHANGED work
       [] Found = <<>> /\ manager.who = "manager" -> reply' = NoReply /\ UNCHANGED work
       [] OTHER -> reply' = NoReply /\ work' = Begun
  /\ UNCHANGED <<manager, files, left>>

(* install_binary: the orchestrator uses its own, whatever it is given.    *)
Install ==
  /\ work = NoWork /\ installs < MaxInstalls /\ installs' = installs + 1
  /\ tried' = <<>> /\ reply' = NoReply
  /\ work' = Begun
  /\ UNCHANGED <<manager, files, left>>

Current == Head(work.rest)
Tell(word) == tried' = Append(tried, word)

(* is_available says no; a request that fails leaves it unknown whether    *)
(* there is a release, while an engine that does not answer is a no.       *)
Unwilling == {"unavailable"} \cup (IF Current = "github" THEN {"unknown"} ELSE {})

(* A variant with a bug, to test InstallTriesAll: an error ends the call.  *)
UnavailableEnds ==
  /\ work.pc = "ask"
  /\ \E word \in Unwilling :
       /\ Tell(word)
       /\ work' = IF word = "unknown" \/ Len(work.rest) = 1 THEN NoWork
                  ELSE [pc |-> "ask", rest |-> Tail(work.rest)]
  /\ UNCHANGED <<manager, files, reply, left, installs>>

NextStrategy == IF Len(work.rest) = 1 THEN NoWork ELSE [pc |-> "ask", rest |-> Tail(work.rest)]

(* Either way it is the turn of the next one. *)
Unavailable ==
  /\ work.pc = "ask"
  /\ \E word \in Unwilling : Tell(word)
  /\ work' = NextStrategy
  /\ UNCHANGED <<manager, files, reply, left, installs>>

(* It says yes; containers are made from here on.  A docker strategy or a  *)
(* build may ask again and find no engine or no image.                     *)
Available ==
  /\ work.pc = "ask"
  /\ work' = [work EXCEPT !.pc = "install"]
  /\ UNCHANGED <<manager, files, reply, tried, left, installs>>

(* The file is opened and filled, and then made executable. *)
Write ==
  /\ work.pc = "install"
  /\ files' = [files EXCEPT ![Target(Current)] = "torn"]
  /\ work' = [work EXCEPT !.pc = "write"]
  /\ UNCHANGED <<manager, reply, tried, left, installs>>

Installed ==
  /\ work.pc = "write"
  /\ files' = [files EXCEPT ![Target(Current)] = "whole"]
  /\ reply' = [ok |-> TRUE, place |-> Target(Current), found |-> FALSE]
  /\ Tell("installed")
  /\ work' = NoWork
  /\ UNCHANGED <<manager, left, installs>>

(* What was written stays.  A container stays as well when it could not be *)
(* started, when a build ran out of time, or when its file was not there.  *)
InstallFails ==
  /\ work.pc \in {"install", "write"}
  /\ \/ UNCHANGED left
     \/ Current # "github" /\ work.pc = "install" /\ left < MaxLeft /\ left' = left + 1
     \/ Current = "source" /\ work.pc = "write" /\ left < MaxLeft /\ left' = left + 1
  /\ Tell("failed")
  /\ work' = NextStrategy
  /\ UNCHANGED <<manager, files, reply, installs>>

(* A docker strategy takes the image of each registry in turn, until its   *)
(* binary can be extracted.                                                *)
NextRegistry ==
  /\ work.pc \in {"install", "write"} /\ Current = "docker"
  /\ work' = [work EXCEPT !.pc = "install"]
  /\ left' \in {left} \cup (IF work.pc = "install" /\ left < MaxLeft THEN {left + 1} ELSE {})
  /\ UNCHANGED <<manager, files, reply, tried, installs>>

(* BinaryCache::remove_binary and clear_cache. *)
ClearBinaries ==
  /\ work = NoWork /\ files["cache"] # "none"
  /\ files' = [files EXCEPT !["cache"] = "none"]
  /\ reply' = NoReply /\ tried' = <<>>
  /\ UNCHANGED <<manager, work, left, installs>>

Die ==
  /\ work # NoWork
  /\ work' = NoWork /\ reply' = NoReply /\ tried' = <<>>
  /\ left' = IF Current # "github" /\ work.pc # "ask" /\ left < MaxLeft THEN left + 1 ELSE left
  /\ UNCHANGED <<manager, files, installs>>

NextBinaries ==
  \/ Ensure \/ Install \/ Unavailable \/ Available \/ Write \/ Installed \/ NextRegistry
  \/ InstallFails \/ ClearBinaries \/ Die

SpecBinaries == InitBinaries /\ [][NextBinaries]_binaryVars

-----------------------------------------------------------------------------
(* A call that tried to install names a file it has just finished, or      *)
(* every strategy was asked and none could: one that fails, or cannot say  *)
(* whether it is available, never keeps the next from its turn, and an     *)
(* installed binary is in the place the next call looks, but for a build.  *)
(* A file found there may be what a failed installation left.  Hazard: one *)
(* step of several failing (install_with_strategies, install_binary).      *)
InstallTriesAll ==
  work = NoWork /\ tried # <<>> =>
    IF reply.ok
    THEN /\ files[reply.place] = "whole"
         /\ manager.strategies # <<>> /\ Last(tried) = "installed"
         /\ reply.place \in {"other"} \cup ToSet(Looked)
    ELSE Len(tried) = Len(manager.strategies) /\ "installed" \notin ToSet(tried)
=============================================================================
