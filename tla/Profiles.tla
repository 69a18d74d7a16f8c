------------------------------ MODULE Profiles ------------------------------
(***************************************************************************)
(* ProfileManager (config/defaults/profiles.rs): a directory of profiles,  *)
(* a cache of those this manager has read or written, and the resolution   *)
(* of a profile against those it inherits from.                            *)
(*                                                                         *)
(* A setting is named by the profile that made it.  No program of the      *)
(* repository uses the manager: its caller is a user of the library.       *)
(***************************************************************************)
EXTENDS Naturals, Sequences, FiniteSets, SequencesExt

CONSTANTS
  Names,      \* the names of profiles and of their files
  Contents,   \* what a file may hold: name, parents, settings made
  Builtin,    \* what create_builtin_profiles writes
  MaxCalls    \* bound: calls of the manager and edits of the directory

ASSUME ProfilesAssumption ==
  /\ IsFiniteSet(Names) /\ Builtin \subseteq Contents /\ MaxCalls \in Nat
  /\ \A c \in Contents :
       /\ c.name \in Names \cup {"none"} /\ c.parents \in Seq(Names)
       /\ c.makes \subseteq {"llm", "rag", "prompts"}

VARIABLES
  profiles,   \* the directory: a profile, NoProfile or Unreadable for each name
  cached,     \* profile_cache
  answer,     \* what the last call returned
  calls       \* calls and edits so far

profileVars == <<profiles, cached, answer, calls>>

NoProfile  == [name |-> "none", parents |-> <<>>, makes |-> {}, there |-> FALSE, reads |-> FALSE]
Unreadable == [NoProfile EXCEPT !.there = TRUE]
Written(content) ==
    [name |-> content.name, parents |-> content.parents, makes |-> content.makes,
     there |-> TRUE, reads |-> TRUE]

NoAnswer == [call |-> "none"]

(* load_profile: the cache first, then the file, whose name is filled in.  *)
Named(profile, n) == IF profile.name = "none" THEN [profile EXCEPT !.name = n] ELSE profile
LoadProfile(n) == IF cached[n].reads THEN cached[n] ELSE Named(profiles[n], n)
LoadedProfiles == [n \in Names |-> LoadProfile(n)]

-----------------------------------------------------------------------------
Settings == {"llm", "rag", "prompts"}
MadeBy(profile) == [s \in Settings |-> IF s \in profile.makes THEN {profile.name} ELSE {}]

(* A variant with a bug, to test ProfilesResolve: the parent wins.         *)
MergeParentFirst(base, over) ==
  [s \in Settings |-> IF s # "llm" /\ base[s] # {} THEN base[s] ELSE over[s]]

(* merge_configs: rag and prompts are inherited, nothing else is.          *)
MergeConfigs(base, over) ==
  [s \in Settings |-> IF s # "llm" /\ over[s] = {} THEN base[s] ELSE over[s]]

(* resolve_profile_inheritance_recursive: the files it has read, whether   *)
(* it succeeds, and with which settings.  Its loop stops at the first      *)
(* parent that fails, and merges what the others resolve to.               *)
Failed(read)    == [ok |-> FALSE, read |-> read, settings |-> MadeBy(NoProfile)]
Own(profile, n) == [ok |-> TRUE, read |-> {n}, settings |-> MadeBy(profile)]

Joined(sofar, parent) ==
  IF ~sofar.ok THEN sofar
  ELSE [ok |-> parent.ok, read |-> sofar.read \cup parent.read,
        settings |-> MergeConfigs(parent.settings, sofar.settings)]

Inherited(own, parents) ==
  LET sofar[k \in 0 .. Len(parents)] ==
        IF k = 0 THEN own ELSE Joined(sofar[k - 1], parents[k])
  IN sofar[Len(parents)]

(* One call; visited holds the profiles on the way here, which the calls   *)
(* for the parents have with this one.                                     *)
ResolveRecursive(loaded, n, visited, above) ==
  LET profile == loaded[n]
  IN CASE ~profile.reads -> Failed({})
       [] profile.reads /\ profile.name \in visited -> Failed({n})
       [] profile.reads /\ profile.name \notin visited ->
            Inherited(Own(profile, n),
                      [k \in DOMAIN profile.parents |->
                         above[visited \cup {profile.name}][profile.parents[k]]])

Resolution(loaded) ==
  LET call[visited \in SUBSET Names] ==
        [n \in Names |-> ResolveRecursive(loaded, n, visited, call)]
  IN call

Resolved == Resolution(LoadedProfiles)[{}]

-----------------------------------------------------------------------------
InitProfiles ==
  /\ profiles = [n \in Names |-> NoProfile]
  /\ cached = [n \in Names |-> NoProfile]
  /\ answer = NoAnswer /\ calls = 0

Call == calls < MaxCalls /\ calls' = calls + 1

(* resolve_profile: what was read stays in the cache, also on an error.    *)
ResolveProfile(n) ==
  /\ Call
  /\ LET result == Resolved[n]
     IN /\ answer' = [call |-> "resolve", name |-> n, result |-> result]
        /\ cached' = [f \in Names |-> IF f \in result.read THEN LoadProfile(f) ELSE cached[f]]
  /\ UNCHANGED profiles

(* save_profile writes the file in place, under the name in the profile.   *)
SaveProfile(content) ==
  /\ Call /\ content.name # "none"
  /\ profiles' = [profiles EXCEPT ![content.name] = Written(content)]
  /\ cached' = [cached EXCEPT ![content.name] = Written(content)]
  /\ answer' = NoAnswer

DeleteProfile(n) ==
  /\ Call
  /\ profiles' = [profiles EXCEPT ![n] = NoProfile]
  /\ cached' = [cached EXCEPT ![n] = NoProfile]
  /\ answer' = NoAnswer

(* create_builtin_profiles: those without a file. *)
CreateBuiltinProfiles ==
  /\ Call
  /\ LET missing == {c \in Builtin : ~profiles[c.name].there}
         With(there) == [n \in Names |-> IF \E c \in missing : c.name = n
                                         THEN Written(CHOOSE c \in missing : c.name = n)
                                         ELSE there[n]]
     IN profiles' = With(profiles) /\ cached' = With(cached)
  /\ answer' = NoAnswer

(* list_profiles asks the directory, not the cache. *)
ListProfiles ==
  /\ Call
  /\ answer' = [call |-> "list", names |-> {n \in Names : profiles[n].there}]
  /\ UNCHANGED <<profiles, cached>>

(* Another program edits a file; a program that is saving dies, and a new  *)
(* manager finds the file cut.                                             *)
EditProfile(n, content) ==
  /\ Call
  /\ profiles' = [profiles EXCEPT ![n] = Written(content)]
  /\ answer' = NoAnswer
  /\ UNCHANGED cached

DieSaving(n) ==
  /\ Call
  /\ profiles' = [profiles EXCEPT ![n] = Unreadable]
  /\ cached' = [f \in Names |-> NoProfile]
  /\ answer' = NoAnswer

NextProfiles ==
  \/ \E n \in Names : ResolveProfile(n) \/ DeleteProfile(n) \/ DieSaving(n)
  \/ \E n \in Names, content \in Contents : EditProfile(n, content)
  \/ \E content \in Contents : SaveProfile(content)
  \/ CreateBuiltinProfiles \/ ListProfiles

SpecProfiles == InitProfiles /\ [][NextProfiles]_profileVars

-----------------------------------------------------------------------------
(* A profile and all it inherits from: what every set with it holds, where *)
(* the set has the parents of all its profiles.                            *)
Parents(loaded, f) == ToSet(loaded[f].parents)
Lineage(loaded, n) ==
  {f \in Names : \A C \in SUBSET Names :
     n \in C /\ (\A g \in C : Parents(loaded, g) \subseteq C) => f \in C}

(* It can be read, and what it inherits from has other names.              *)
Sound(loaded, f) ==
  /\ loaded[f].reads
  /\ \A p \in Parents(loaded, f) : \A g \in Lineage(loaded, p) :
       loaded[g].reads => loaded[g].name # loaded[f].name

(* What the first parent that has the setting, if one has it, resolves to. *)
FromParents(loaded, n, s) ==
  LET parents  == loaded[n].parents
      Gives(k) == Resolution(loaded)[{}][parents[k]].settings[s]
      First    == {k \in DOMAIN parents : Gives(k) # {} /\ \A j \in 1 .. k - 1 : Gives(j) = {}}
  IN UNION {Gives(k) : k \in First}

(* A profile resolves exactly if everything it inherits from, at any depth,*)
(* can be read and none is its own ancestor; its settings are its own,     *)
(* else those the first of its parents resolves to that has any, and never *)
(* a parent's llm.  Hazards: the cache stands in for the directory, a      *)
(* failed resolution leaves it half filled, and files and profiles have    *)
(* names of their own (resolve_profile_inheritance_recursive,              *)
(* merge_configs).                                                         *)
ProfilesResolve ==
  answer.call = "resolve" =>
    LET n == answer.name
        result == answer.result
    IN /\ result.ok <=> \A f \in Lineage(LoadedProfiles, n) : Sound(LoadedProfiles, f)
       /\ result.ok => \A s \in Settings :
            result.settings[s] =
              IF s \in LoadedProfiles[n].makes THEN {LoadedProfiles[n].name}
              ELSE IF s = "llm" THEN {} ELSE FromParents(LoadedProfiles, n, s)
=============================================================================
