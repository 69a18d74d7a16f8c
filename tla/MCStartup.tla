----------------------------- MODULE MCStartup -----------------------------
(* Four parts of the ground an agent stands on, which share no state: two  *)
(* programs that start, a manager of profiles, the installation of a       *)
(* binary, and the executor of code.  A behaviour is one of the four.      *)
EXTENDS Startup, Profiles, Binaries, CodeExecutor

VARIABLE part

Server_(name, runtime, answers, offers) ==
  [name |-> name, runtime |-> runtime, answers |-> answers, offers |-> offers,
   formats |-> {IF runtime = "command" THEN "command" ELSE "execution_type"},
   complete |-> TRUE, enabled |-> TRUE]

Plain(provider) == [provider |-> provider, keyEnv |-> "none", key |-> "none"]
Config ==
  [prompts |-> NoPrompts, variables |-> {}, envFiles |-> {}, schemas |-> {},
   llm |-> NoLlm, rag |-> Plain("OpenAI"), search |-> Plain("none"), complete |-> TRUE,
   servers |-> <<>>, calculator |-> FALSE, docker |-> FALSE, retrieval |-> FALSE]

Main == File("", "main")
Prompts == [NoPrompts EXCEPT !.given = TRUE, !.fragments = "tone" :> File("", "tone"),
                             !.system = <<FilePart(Main), FragmentPart("tone")>>]
Files(dir) == {File(dir, "main"), File(dir, "tone")}

Setup0 ==
  [mode |-> "server", source |-> "file", dir |-> "home", config |-> Config, preferred |-> "none",
   env |-> {"ANTHROPIC_API_KEY", "OPENAI_TOKEN"}, there |-> {}, noToolAuth |-> FALSE]

(* From GitHub, beside the configuration and above it, with servers on bun.*)
FromRepo ==
  [Setup0 EXCEPT !.source = "github", !.dir = "repo", !.there = Files("repo"),
     !.config.prompts = Prompts, !.config.calculator = TRUE,
     !.config.servers = << Server_("node", "nodejs", "all", {"t", "calculator"}) >>]
FromSubdirectory ==
  [FromRepo EXCEPT !.dir = "sub", !.there = Files("repo") \cup Files("sub"), !.mode = "embedded",
     !.config.servers = << Server_("node", "nodejs", "handshake", {"t"}) >>,
     !.config.llm = [Plain("Anthropic") EXCEPT !.keyEnv = "ANTHROPIC_API_KEY", !.key = "inline"]]

(* Servers of every kind, and everything that can fail. *)
Local ==
  [Setup0 EXCEPT !.mode = "gola-server", !.noToolAuth = TRUE,
     !.config.servers = << Server_("py", "python", "all", {"t", "report_progress"}),
                           Server_("old", "other", "all", {"t"}),
                           [Server_("no", "command", "all", {"u"}) EXCEPT !.enabled = FALSE],
                           Server_("rs", "rust", "all", {"t", "web_search"}) >>,
     !.config.search = [Plain("Serper") EXCEPT !.keyEnv = "SERPER_API_KEY"],
     !.config.variables = {"SERPER_API_KEY"}, !.config.docker = TRUE, !.config.retrieval = TRUE]
Remote ==
  [Setup0 EXCEPT !.mode = "task", !.source = "url", !.preferred = "OpenAI",
     !.config.servers = << Server_("a", "command", "all", {"t"}),
                           Server_("b", "command", "nothing", {"t"}) >>]
(* A key for another provider, and one with its output schema at a URL.    *)
NoKeyOfItsOwn ==
  [Setup0 EXCEPT !.env = {"OPENAI_API_KEY"}, !.config.llm = Plain("Anthropic"),
     !.config.schemas = {[kind |-> "file", file |-> File("", "in.json")]},
     !.there = {File("cwd", "in.json")}]
UrlSchema ==
  [Setup0 EXCEPT !.config.schemas = {[kind |-> "url", file |-> File("", "out.json")]},
     !.config.llm = [Plain("Anthropic") EXCEPT !.keyEnv = "CLAUDE_API_KEY"],
     !.config.variables = {"CLAUDE_API_KEY"}]
NotSet    == [Setup0 EXCEPT !.config.llm = [Plain("OpenAI") EXCEPT !.keyEnv = "OPENAI_API_KEY"]]
NoKey     == [Setup0 EXCEPT !.env = {}]
NoSearch  == [Setup0 EXCEPT !.config.search = Plain("Tavily")]
Detects   == [Setup0 EXCEPT !.there = {Join("home", SystemMain)}]
TwoWays   == [Local EXCEPT !.config.servers[1].formats = {"command", "execution_type"}]
FromLocal == [Setup0 EXCEPT !.config.prompts = Prompts, !.env = {},
                !.config.envFiles = {[file |-> File("", ".env"), variables |-> {"GEMINI_API_KEY"}]},
                !.there = Files("home") \cup {File("cwd", ".env")},
                !.config.llm = [Plain("Gemini") EXCEPT !.keyEnv = "GEMINI_API_KEY", !.key = "inline"]]

MCSetups ==
  {FromRepo, FromSubdirectory, Local, Remote, NoKey, NoSearch, Detects, TwoWays, FromLocal,
   NoKeyOfItsOwn, UrlSchema, NotSet}

-----------------------------------------------------------------------------
Profile(name, parents, makes) == [name |-> name, parents |-> parents, makes |-> makes]
Development == Profile("a", <<>>, {"llm"})
Research    == Profile("b", <<"a">>, {"llm", "rag"})
MCBuiltin   == {Development, Research}
MCContents  == MCBuiltin \cup { Profile("c", <<"a", "b">>, {}), Profile("none", <<"b", "c">>, {"prompts"}),
                                Profile("a", <<"c">>, {"prompts", "rag"}),
                                Profile("a", <<>>, {"rag"}) }

MCManagers ==
  [who : {"manager", "orchestrator"},
   strategies : {<<>>, <<"github", "docker">>, <<"github", "docker", "source">>, <<"source">>}]

-----------------------------------------------------------------------------
allVars == <<part, startupVars, profileVars, binaryVars, executorVars>>

Init ==
  /\ part \in {"programs", "profiles", "binaries", "executor"}
  /\ InitStartup /\ InitProfiles /\ InitBinaries /\ InitExecutor
  /\ part # "binaries" =>
       manager.strategies = <<>> /\ manager.who = "manager" /\ files["system"] = "none"

Next ==
  \/ part = "programs" /\ NextStartup /\ UNCHANGED <<part, profileVars, binaryVars, executorVars>>
  \/ part = "profiles" /\ NextProfiles /\ UNCHANGED <<part, startupVars, binaryVars, executorVars>>
  \/ part = "binaries" /\ NextBinaries /\ UNCHANGED <<part, startupVars, profileVars, executorVars>>
  \/ part = "executor" /\ NextExecutor /\ UNCHANGED <<part, startupVars, profileVars, binaryVars>>

Spec == Init /\ [][Next]_allVars /\ Fairness
=============================================================================
