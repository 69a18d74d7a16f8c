---------------------------- MODULE ConfigLoader ----------------------------
(***************************************************************************)
(* ConfigLoader and GitHubConfigLoader (config/loader.rs, config/github.rs)*)
(* and GolaConfig::validate (config/types.rs): from a parsed file to the   *)
(* configuration an agent is made from.                                    *)
(*                                                                         *)
(* A file is a directory and a name; a relative one has the directory "".  *)
(* The text of a file is the file.  there is the set of files that exist.  *)
(***************************************************************************)
EXTENDS Defaults, FiniteSets

File(dir, name)  == [dir |-> dir, name |-> name]
Join(base, file) == IF file.dir = "" THEN File(base, file.name) ELSE file

(* The types of config/types.rs, as far as a start compares a field, reads *)
(* or fills it in.                                                         *)
Paths == [dir : STRING, name : STRING]

Auths(providers)  == [provider : providers \cup {"none"}, keyEnv : STRING, key : STRING]
LlmConfigs        == Auths(Providers \cup {"Custom"})
EmbeddingConfigs  == Auths({"OpenAI", "Cohere", "HuggingFace", "Simple", "Custom"})
WebSearchConfigs  == Auths({"DuckDuckGo", "Tavily", "Serper"})

(* A server runs by a command or on a runtime, "other" being one that is   *)
(* not known; complete: the texts its format needs are there.  The last    *)
(* two are no configuration: what the server does, and its tools.          *)
McpServerConfigs ==
  [name : STRING, enabled : BOOLEAN, complete : BOOLEAN,
   formats : SUBSET {"command", "execution_type", "execution_environment"},
   runtime : {"command", "nodejs", "python", "rust", "other"},
   answers : {"all", "handshake", "nothing"}, offers : SUBSET STRING]

(* The input and the output schema of an agent, of those that are not      *)
(* written in the configuration itself.                                    *)
SchemaSources == [kind : {"file", "url"}, file : Paths]

PromptSources == [kind : {"fragment", "file"}, file : Paths, fragment : STRING]
IsPromptConfig(prompts) ==
  /\ DOMAIN prompts = {"given", "fragments", "system", "purpose", "assembled"}
  /\ prompts.given \in BOOLEAN
  /\ \A f \in DOMAIN prompts.fragments : prompts.fragments[f] \in Paths
  /\ {prompts.system, prompts.purpose} \subseteq Seq(PromptSources)
  /\ prompts.assembled \in Seq(Paths)

IsToolsConfig(config) ==
  config.calculator \in BOOLEAN /\ config.docker \in BOOLEAN /\ config.search \in WebSearchConfigs

IsEnvironmentConfig(config) ==
  /\ config.variables \subseteq STRING \ {"none"}
  /\ \A f \in config.envFiles : f.file \in Paths /\ f.variables \subseteq STRING \ {"none"}

IsGolaConfig(config) ==
  /\ DOMAIN config = {"llm", "retrieval", "rag", "servers", "schemas", "complete", "prompts",
                      "calculator", "docker", "search", "variables", "envFiles"}
  /\ config.llm \in LlmConfigs
  /\ config.retrieval \in BOOLEAN /\ config.rag \in EmbeddingConfigs
  /\ config.servers \in Seq(McpServerConfigs)
  /\ config.schemas \subseteq SchemaSources /\ config.complete \in BOOLEAN
  /\ IsPromptConfig(config.prompts) /\ IsToolsConfig(config) /\ IsEnvironmentConfig(config)

(* Prompts: a fragment is a named file; a role and a purpose are sequences *)
(* of parts, each a file or the name of a fragment.                        *)
FilePart(file)     == [kind |-> "file", file |-> file, fragment |-> "none"]
FragmentPart(name) == [kind |-> "fragment", file |-> File("", "none"), fragment |-> name]
NoPrompts ==
    [given |-> FALSE, fragments |-> <<>>, system |-> <<>>, purpose |-> <<>>, assembled |-> <<>>]

SystemMain == File("", "prompts/system/main.md")
IceBreaker == File("", "prompts/user/ice_breaker.md")

(* What resolve_prompts makes up when no prompts are configured. *)
Detected(base, there) ==
  LET If(file) == IF Join(base, file) \in there THEN <<FilePart(file)>> ELSE <<>>
      system == If(SystemMain)
      purpose == If(IceBreaker)
  IN [NoPrompts EXCEPT !.given = system \o purpose # <<>>, !.system = system, !.purpose = purpose]

(* resolve_prompts: the system role keeps its parts and gets their text;   *)
(* the parts of a purpose are replaced by one file, named by their text.   *)
(* Without a base directory, as for a URL, nothing is resolved.            *)
ResolvePrompts(config, base, there) ==
  LET prompts == IF config.prompts.given THEN config.prompts ELSE Detected(base, there)
      Readable(part) ==
        CASE part.kind = "file" -> Join(base, part.file) \in there
          [] part.kind = "fragment" -> part.fragment \in DOMAIN prompts.fragments
      TextOf(part) ==
        Join(base, IF part.kind = "file" THEN part.file ELSE prompts.fragments[part.fragment])
      Assembled(parts) == [i \in DOMAIN parts |-> TextOf(parts[i])]
      InText(parts) == IF parts = <<>> THEN <<>> ELSE <<FilePart(File("", "an assembled text"))>>
  IN IF base = "none" \/ ~prompts.given
     THEN [ok |-> TRUE, config |-> config]
     ELSE [ok |-> /\ \A f \in DOMAIN prompts.fragments : Join(base, prompts.fragments[f]) \in there
                  /\ \A i \in DOMAIN prompts.system : Readable(prompts.system[i])
                  /\ \A i \in DOMAIN prompts.purpose : Readable(prompts.purpose[i]),
           config |-> [config EXCEPT !.prompts =
             [prompts EXCEPT !.assembled = IF prompts.system = <<>> THEN @
                                           ELSE Assembled(prompts.system),
                             !.purpose = InText(@)]]]

-----------------------------------------------------------------------------
(* resolve_environment: the files of variables that exist, seen from the   *)
(* working directory, the configured variables, then the keys.  Last the   *)
(* schemas: a file is read, seen from the working directory too, and one   *)
(* with a URL is asked for, without a timeout.                             *)
EnvironmentOf(config, env, there) ==
  env \cup config.variables
      \cup UNION {f.variables : f \in {g \in config.envFiles : Join("cwd", g.file) \in there}}

ResolveEnvironment(config, env, there) ==
  LET now == EnvironmentOf(config, env, there)
  IN [ok |-> \A schema \in config.schemas : schema.kind = "file" => Join("cwd", schema.file) \in there,
      config |-> [config EXCEPT !.llm = IF @ = NoLlm THEN @ ELSE ResolveAuth(@, now, LlmKeys),
                                !.rag = ResolveAuth(@, now, EmbeddingKeys),
                                !.search = ResolveAuth(@, now, SearchKeys)]]

AsksForSchema(config) == \E schema \in config.schemas : schema.kind = "url"

(* GolaConfig::validate: complete stands for the fields that must not be   *)
(* empty; a server is described in exactly one of three ways, and what the *)
(* way execution_type says is not looked into.                             *)
Validate(config) ==
  /\ config.complete
  /\ \A i \in DOMAIN config.servers :
       LET server == config.servers[i]
       IN /\ server.name # "" /\ Cardinality(server.formats) = 1
          /\ server.formats = {"execution_type"} \/ server.complete

(* from_str *)
FromStr(config, env, base, there) ==
  LET environment == ResolveEnvironment(config, env, there)
      prompts == ResolvePrompts(environment.config, base, there)
  IN [ok |-> environment.ok /\ prompts.ok /\ Validate(prompts.config),
      config |-> prompts.config]

-----------------------------------------------------------------------------
(* resolve_relative_paths, as far as the files are still to be read. *)
ResolveRelativePaths(config, repo) ==
  LET Rebased(parts) == [i \in DOMAIN parts |-> [parts[i] EXCEPT !.file = Join(repo, @)]]
  IN [config EXCEPT !.prompts.fragments = [f \in DOMAIN @ |-> Join(repo, @[f])],
                    !.prompts.system = Rebased(@),
                    !.prompts.purpose = Rebased(@)]

(* from_source for a repository: the file is loaded from its own directory,*)
(* and the prompts are resolved once more from that of the repository.     *)
FromGithub(config, env, dir, repo, there) ==
  LET loaded == FromStr(config, env, dir, there)
      again == ResolvePrompts(ResolveRelativePaths(loaded.config, repo), repo, there)
  IN [ok |-> loaded.ok /\ again.ok, config |-> again.config]

(* from_source: dir is the directory of the configuration file. *)
FromSource(source, config, env, dir, there) ==
  CASE source = "file"   -> FromStr(config, env, dir, there)
    [] source = "url"    -> FromStr(config, env, "none", there)
    [] source = "github" -> FromGithub(config, env, dir, "repo", there)
=============================================================================
