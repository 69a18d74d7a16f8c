------------------------------ MODULE Startup ------------------------------
(***************************************************************************)
(* The start of gola (gola-cli, gola-server): the configuration is loaded, *)
(* from GitHub through a cache on disk; AgentFactory makes the agent, and  *)
(* RuntimeManager installs what its tool servers run on; the server binds  *)
(* its address.  Programs share the user's home: the cache of repositories *)
(* and the directory of runtimes, without any lock.                        *)
(*                                                                         *)
(* An artifact is what is downloaded once and found afterwards: "repo" and *)
(* the tools of the runtimes.  "repo" and "bun" are unpacked beside their  *)
(* place and renamed; the others are written in place by a script.         *)
(***************************************************************************)
EXTENDS ConfigLoader, TLC

CONSTANTS
  Programs,   \* processes
  Setups,     \* what a program may be started with
  MaxStarts,  \* bound: starts
  MaxClears   \* bound: `gola cache clear` commands

Modes == {"embedded", "server", "task", "gola-server"}
ASSUME StartupAssumption ==
  /\ MaxStarts \in Nat /\ MaxClears \in Nat
  /\ \A s \in Setups :
       /\ s.mode \in Modes /\ s.source \in {"file", "url", "github"} /\ s.noToolAuth \in BOOLEAN
       /\ s.dir \in STRING \ {"", "none"} /\ s.env \subseteq STRING \ {"none"}
       /\ s.there \subseteq Paths /\ s.preferred \in STRING
       /\ IsGolaConfig(s.config) /\ s.config.prompts.assembled = <<>>

Staged    == {"repo", "bun"}
Scripted  == {"uv", "python", "cargo", "package"}
Artifacts == Staged \cup Scripted

VARIABLES
  program,    \* what each process is doing, see Off
  published,  \* an artifact under its name: "none", "torn" or "whole"
  staged,     \* beside it
  disturbed,  \* history: artifacts that two processes handled at once
  halfCleared, \* history: the repository is what a clear that ended half-way left of it
  bound,      \* the program that has the address, or "nobody"
  starts, clears

diskVars == <<published, staged, disturbed, halfCleared>>
startupVars == <<program, diskVars, bound, starts, clears>>

(* server: the tool server being started; need: which of its artifacts;    *)
(* tools: whose each tool is; listed: history, the servers whose tools     *)
(* were listed; env: the variables of its environment, once it has read.   *)
Off == [pc |-> "off", server |-> 0, need |-> 0, tools |-> <<>>, listed |-> {},
        llm |-> NoLlm, key |-> "none", config |-> <<>>, env |-> {}, setup |-> <<>>, mode |-> "Ask"]

InitStartup ==
  /\ program = [p \in Programs |-> Off]
  /\ published = [a \in Artifacts |-> "none"] /\ staged = [a \in Staged |-> "none"]
  /\ disturbed = {} /\ halfCleared = FALSE /\ bound = "nobody" /\ starts = 0 /\ clears = 0

At(p, pc)      == program[p].pc = pc
Becomes(p, to) == program' = [program EXCEPT ![p] = to]
GoOn(p, pc)    == Becomes(p, [program[p] EXCEPT !.pc = pc])
Fails(p)       == Becomes(p, Off)

Serving(p) == program[p].pc \in {"serving", "working"}
Starting(p) == ~At(p, "off") /\ ~Serving(p)

-----------------------------------------------------------------------------
(* The server a program is at, what resolve_command needs for it, and the  *)
(* artifact it is after: at first, that of its configuration.              *)
Server(p) == program[p].config.servers[program[p].server]

Needs(runtime) ==
  CASE runtime = "nodejs" -> <<"bun">>
    [] runtime = "python" -> <<"uv", "python">>
    [] runtime = "rust"   -> <<"cargo", "package">>
    [] OTHER              -> <<>>      \* run by a command

Wanted(p) == IF program[p].server = 0 THEN "repo" ELSE Needs(Server(p).runtime)[program[p].need]

(* The next enabled server after the i-th; without one, the control tools. *)
ControlTools == {"assistant_done", "report_progress"}
OwnedBy(names, owner) == [n \in names |-> owner]
Insert(names, owner, tools) ==
    [n \in names \cup DOMAIN tools |-> IF n \in names THEN owner ELSE tools[n]]

(* A variant with a bug, to test StartedAsConfigured: a server may take the*)
(* name of a control tool.                                                 *)
ToServerTakingNames(p, i, tools, listed) ==
  LET servers == program[p].config.servers
      left == {j \in DOMAIN servers : j > i /\ servers[j].enabled}
      j == CHOOSE j \in left : \A k \in left : j <= k
  IN IF left = {}
     THEN [program[p] EXCEPT !.pc = "executor", !.listed = listed,
                             !.tools = tools @@ OwnedBy(ControlTools, "control")]
     ELSE [program[p] EXCEPT !.server = j, !.need = 1, !.tools = tools, !.listed = listed,
             !.pc = IF servers[j].runtime = "other" THEN "skip"
                    ELSE IF Needs(servers[j].runtime) = <<>> THEN "connect" ELSE "seek"]

ToServer(p, i, tools, listed) ==
  LET servers == program[p].config.servers
      left == {j \in DOMAIN servers : j > i /\ servers[j].enabled}
      j == CHOOSE j \in left : \A k \in left : j <= k
  IN IF left = {}
     THEN [program[p] EXCEPT !.pc = "executor", !.listed = listed,
                             !.tools = Insert(ControlTools, "control", tools)]
     ELSE [program[p] EXCEPT !.server = j, !.need = 1, !.tools = tools, !.listed = listed,
             !.pc = IF servers[j].runtime = "other" THEN "skip"
                    ELSE IF Needs(servers[j].runtime) = <<>> THEN "connect" ELSE "seek"]

(* resolve_command failed: configure_tools logs it and takes the next one. *)
Skipped(p) == ToServer(p, program[p].server, program[p].tools, program[p].listed)
SkipServer(p) == At(p, "skip") /\ Becomes(p, Skipped(p)) /\ UNCHANGED <<diskVars, bound, starts, clears>>

(* An artifact is there, or cannot be had. *)
Obtained(p) ==
  CASE Wanted(p) = "repo" -> [program[p] EXCEPT !.pc = "read"]
    [] Wanted(p) # "repo" /\ program[p].need < Len(Needs(Server(p).runtime)) ->
         [program[p] EXCEPT !.pc = "seek", !.need = @ + 1]
    [] OTHER -> [program[p] EXCEPT !.pc = "connect"]
Unobtained(p) == IF Wanted(p) = "repo" THEN Off ELSE Skipped(p)

-----------------------------------------------------------------------------
(* run_gola, run_task_mode and run_server: the source of the configuration.*)
Start(p, s) ==
  /\ At(p, "off") /\ starts < MaxStarts
  /\ starts' = starts + 1
  /\ Becomes(p, [Off EXCEPT !.setup = s, !.pc = IF s.source = "github" THEN "seek" ELSE "read"])
  /\ UNCHANGED <<diskVars, bound, clears>>

(* find_tool and the look into the cache: a name that exists is enough.    *)
(* A broken uv or cargo is found, and fails when it is run.                *)
Interactive(p) == program[p].setup.mode \in {"embedded", "gola-server"}
Seek(p) ==
  /\ At(p, "seek")
  /\ LET a == Wanted(p)
         broken == \/ a = "python" /\ published["uv"] # "whole"
                   \/ a = "package" /\ published["cargo"] # "whole"
     IN Becomes(p, CASE broken -> Unobtained(p)
                     [] ~broken /\ published[a] # "none" -> Obtained(p)
                     [] OTHER -> [program[p] EXCEPT !.pc =
                                   IF a \in {"bun", "uv", "cargo"} /\ Interactive(p)
                                   THEN "confirm" ELSE "fetch"])
  /\ UNCHANGED <<diskVars, bound, starts, clears>>

(* confirm_install *)
Confirm(p) ==
  /\ At(p, "confirm")
  /\ GoOn(p, "fetch") \/ Becomes(p, Unobtained(p))
  /\ UNCHANGED <<diskVars, bound, starts, clears>>

Fetch(p) ==
  /\ At(p, "fetch")
  /\ GoOn(p, IF Wanted(p) \in Staged THEN "stage" ELSE "script")
  /\ UNCHANGED <<diskVars, bound, starts, clears>>

FetchFails(p) ==
  /\ At(p, "fetch")
  /\ Becomes(p, Unobtained(p))
  /\ UNCHANGED <<diskVars, bound, starts, clears>>

-----------------------------------------------------------------------------
(* download_and_extract_repo and install_bun: the place beside is made     *)
(* anew, filled, and renamed; two processes use the same one.              *)
Handles(p, a) == program[p].pc \in {"unpack", "publish", "tidy"} /\ Wanted(p) = a
Others(p, a) == {q \in Programs \ {p} : Handles(q, a)}
Disturb(p, a) == disturbed' = IF Others(p, a) = {} THEN disturbed ELSE disturbed \cup {a}

Stage(p) ==
  /\ At(p, "stage")
  /\ LET a == Wanted(p) IN staged' = [staged EXCEPT ![a] = "torn"] /\ Disturb(p, a)
  /\ GoOn(p, "unpack")
  /\ UNCHANGED <<published, halfCleared, bound, starts, clears>>

(* With others at it, or the directory gone, parts may be missing. *)
Unpack(p) ==
  /\ At(p, "unpack")
  /\ LET a == Wanted(p)
         alone == Others(p, a) = {} /\ a \notin disturbed
     IN \E result \in (IF alone THEN {"whole"} ELSE {"torn", "whole"}) :
          staged' = [staged EXCEPT ![a] = result]
  /\ GoOn(p, "publish")
  /\ UNCHANGED <<published, disturbed, halfCleared, bound, starts, clears>>

(* A variant with a bug, to test PublishedIsWhole: the error is dropped.   *)
UnpackFailsUnnoticed(p) ==
  /\ At(p, "unpack")
  /\ GoOn(p, "publish")
  /\ UNCHANGED <<diskVars, bound, starts, clears>>

UnpackFails(p) ==
  /\ At(p, "unpack")
  /\ Becomes(p, Unobtained(p))
  /\ UNCHANGED <<diskVars, bound, starts, clears>>

(* A directory cannot be renamed onto another; bun is a file.              *)
Publish(p) ==
  /\ At(p, "publish")
  /\ LET a == Wanted(p)
         renamed == staged[a] # "none" /\ (a = "repo" => published[a] = "none")
     IN /\ published' = IF renamed THEN [published EXCEPT ![a] = staged[a]] ELSE published
        /\ staged'    = IF renamed THEN [staged EXCEPT ![a] = "none"] ELSE staged
        /\ Becomes(p, CASE ~renamed -> Unobtained(p)
                        [] renamed /\ a = "repo" -> [program[p] EXCEPT !.pc = "tidy"]
                        [] OTHER -> Obtained(p))
        /\ Disturb(p, a)
  /\ UNCHANGED <<halfCleared, bound, starts, clears>>

Tidy(p) ==
  /\ At(p, "tidy")
  /\ staged' = [staged EXCEPT !["repo"] = "none"]
  /\ Disturb(p, "repo")
  /\ Becomes(p, Obtained(p))
  /\ UNCHANGED <<published, halfCleared, bound, starts, clears>>

(* install_uv, ensure_python_via_uv, install_rustup and cargo install.     *)
RunScript(p) ==
  /\ At(p, "script")
  /\ published' = [published EXCEPT ![Wanted(p)] = "whole"]
  /\ Becomes(p, Obtained(p))
  /\ UNCHANGED <<staged, disturbed, halfCleared, bound, starts, clears>>

(* An installation in place that stops half-way; cargo install renames.    *)
HalfWritten(a) == IF a \in {"uv", "cargo"} THEN {published[a], "torn"} ELSE {published[a]}
ScriptFails(p) ==
  /\ At(p, "script")
  /\ \E left \in HalfWritten(Wanted(p)) : published' = [published EXCEPT ![Wanted(p)] = left]
  /\ Becomes(p, Unobtained(p))
  /\ UNCHANGED <<staged, disturbed, halfCleared, bound, starts, clears>>

(* GitHubConfigLoader::clear_cache removes the directory of all that is    *)
(* cached, in no order; it may end half-way, killed or with an error.      *)
ClearStarts ==
  /\ clears < MaxClears /\ clears' = clears + 1
  /\ published["repo"] # "none" \/ staged["repo"] # "none"
  /\ disturbed' = IF \E p \in Programs : Handles(p, "repo")
                  THEN disturbed \cup {"repo"} ELSE disturbed

ClearCache ==
  /\ ClearStarts
  /\ published' = [published EXCEPT !["repo"] = "none"]
  /\ staged' = [staged EXCEPT !["repo"] = "none"]
  /\ halfCleared' = FALSE
  /\ UNCHANGED <<program, bound, starts>>

Remains(of) == IF of = "none" THEN {"none"} ELSE {"none", "torn", of}
ClearHalf ==
  /\ ClearStarts
  /\ \E repo \in Remains(published["repo"]), beside \in Remains(staged["repo"]) :
       /\ published' = [published EXCEPT !["repo"] = repo]
       /\ staged' = [staged EXCEPT !["repo"] = beside]
       /\ halfCleared' = (repo = "torn")
  /\ UNCHANGED <<program, bound, starts>>

-----------------------------------------------------------------------------
(* from_source: a torn repository may lack the configuration, or any of    *)
(* its prompts; a schema may come from a URL, whatever the source is.      *)
Loaded(s, there) == FromSource(s.source, s.config, s.env, s.dir, there)

FromAfar(s) == s.source = "url" \/ AsksForSchema(s.config)

Read(p) ==
  /\ At(p, "read")
  /\ LET s == program[p].setup
         files == IF s.source = "github" /\ published["repo"] # "whole" THEN SUBSET s.there
                  ELSE {s.there}
     IN \E there \in files :
          LET loaded == Loaded(s, there)
          IN Becomes(p, IF loaded.ok /\ (s.source = "github" => published["repo"] # "none")
                        THEN [program[p] EXCEPT !.pc = "llm", !.config = loaded.config,
                                !.env = EnvironmentOf(s.config, s.env, there)]
                        ELSE Off)
  /\ UNCHANGED <<diskVars, bound, starts, clears>>

ReadFails(p) ==
  /\ At(p, "read")
  /\ \/ FromAfar(program[p].setup)
     \/ program[p].setup.source = "github" /\ published["repo"] = "torn"
  /\ Fails(p)
  /\ UNCHANGED <<diskVars, bound, starts, clears>>

(* configure_llm *)
ConfigureLlm(p) ==
  /\ At(p, "llm")
  /\ LET s == program[p].setup
         llm == IF program[p].config.llm = NoLlm THEN ProvideDefaults(program[p].env, s.preferred)
                ELSE program[p].config.llm
         key == CreateLlmClient(llm, program[p].env)
     IN IF key = "none" THEN Fails(p)
        ELSE Becomes(p, [program[p] EXCEPT !.pc = "tools", !.llm = llm, !.key = key])
  /\ UNCHANGED <<diskVars, bound, starts, clears>>

(* configure_tools, up to the servers; what it does with each of them.     *)
BuiltinTools(config) ==
    (IF config.calculator THEN {"calculator"} ELSE {})
      \cup (IF config.search.provider = "none" THEN {} ELSE {"web_search"})

ConfigureTools(p) ==
  /\ At(p, "tools")
  /\ LET config == program[p].config
     IN IF config.search.provider \in {"Tavily", "Serper"} /\ config.search.key = "none"
        THEN Fails(p)
        ELSE Becomes(p, ToServer(p, 0, OwnedBy(BuiltinTools(config), "builtin"), {}))
  /\ UNCHANGED <<diskVars, bound, starts, clears>>

(* RMCPClient::new_with_mcp_command: a failure ends the start, and a       *)
(* server that does not answer is waited for.                              *)
Connect(p) ==
  /\ At(p, "connect") /\ Server(p).answers # "nothing"
  /\ Server(p).runtime = "nodejs" => published["bun"] = "whole"
  /\ GoOn(p, "list")
  /\ UNCHANGED <<diskVars, bound, starts, clears>>

ConnectFails(p) ==
  /\ At(p, "connect")
  /\ Fails(p)
  /\ UNCHANGED <<diskVars, bound, starts, clears>>

(* create_all_tools *)
ListTools(p) ==
  /\ At(p, "list") /\ Server(p).answers = "all"
  /\ LET i == program[p].server
     IN Becomes(p, ToServer(p, i, Insert(Server(p).offers, Server(p).name, program[p].tools),
                            program[p].listed \cup {i}))
  /\ UNCHANGED <<diskVars, bound, starts, clears>>

(* A variant with a bug, to test EveryStartEnds: it connects once more.    *)
ListingFailsReconnecting(p) ==
  /\ At(p, "list")
  /\ GoOn(p, "connect")
  /\ UNCHANGED <<diskVars, bound, starts, clears>>

(* An error, or the timeout of 30 seconds. *)
ListingFails(p) ==
  /\ At(p, "list")
  /\ Becomes(p, Skipped(p))
  /\ UNCHANGED <<diskVars, bound, starts, clears>>

-----------------------------------------------------------------------------
(* configure_code_executor and configure_rag_system. *)
Executor(p) ==
  /\ At(p, "executor")
  /\ GoOn(p, "rag")
  /\ UNCHANGED <<diskVars, bound, starts, clears>>

Rag(p) ==
  /\ At(p, "rag")
  /\ GoOn(p, "authorize")
  /\ UNCHANGED <<diskVars, bound, starts, clears>>

PartFails(p) ==
  /\ \/ At(p, "executor") /\ program[p].config.docker
     \/ At(p, "rag") /\ program[p].config.retrieval
  /\ Fails(p)
  /\ UNCHANGED <<diskVars, bound, starts, clears>>

(* The handler starts with Ask; the terminal cannot be asked. *)
Authorize(p) ==
  /\ At(p, "authorize")
  /\ LET s == program[p].setup
     IN Becomes(p, [program[p] EXCEPT !.pc = "bind",
                      !.mode = IF s.mode \in {"embedded", "task"} \/ s.noToolAuth
                               THEN "AlwaysAllow" ELSE @])
  /\ UNCHANGED <<diskVars, bound, starts, clears>>

(* serve_with_shutdown; in embedded mode it runs in a task whose result    *)
(* nobody looks at, and a task has no server.                              *)
Bind(p) ==
  /\ At(p, "bind")
  /\ LET mode == program[p].setup.mode
     IN /\ bound' = IF mode # "task" /\ bound = "nobody" THEN p ELSE bound
        /\ CASE mode = "task" -> GoOn(p, "working")
             [] mode = "embedded" -> GoOn(p, "serving")
             [] OTHER -> IF bound = "nobody" THEN GoOn(p, "serving") ELSE Fails(p)
  /\ UNCHANGED <<diskVars, starts, clears>>

Release(p) == bound' = IF bound = p THEN "nobody" ELSE bound

Quit(p) ==
  /\ Serving(p)
  /\ Becomes(p, Off) /\ Release(p)
  /\ UNCHANGED <<diskVars, starts, clears>>

(* The process dies: what it had staged stays, a script stops half-way.    *)
Crash(p) ==
  /\ Starting(p)
  /\ Becomes(p, Off)
  /\ IF At(p, "script")
     THEN \E left \in HalfWritten(Wanted(p)) : published' = [published EXCEPT ![Wanted(p)] = left]
     ELSE UNCHANGED published
  /\ UNCHANGED <<staged, disturbed, halfCleared, bound, starts, clears>>

-----------------------------------------------------------------------------
(* A step of a program that starts is its own, or one of somebody it waits *)
(* for without a timeout: the user, a transfer, an installer, the handshake*)
(* of a tool server, a URL that the configuration or a schema comes from;  *)
(* and a retrieval system that is filled, with documents from URLs, their  *)
(* embeddings, and a splitter that may never end.                          *)
StartStep(p) ==
  \/ Seek(p) \/ SkipServer(p) \/ Confirm(p) \/ Fetch(p) \/ FetchFails(p)
  \/ Stage(p) \/ Unpack(p) \/ UnpackFails(p) \/ Publish(p) \/ Tidy(p)
  \/ RunScript(p) \/ ScriptFails(p)
  \/ Read(p) \/ ReadFails(p) \/ ConfigureLlm(p) \/ ConfigureTools(p)
  \/ Connect(p) \/ ConnectFails(p) \/ ListTools(p) \/ ListingFails(p)
  \/ Executor(p) \/ Rag(p) \/ PartFails(p) \/ Authorize(p) \/ Bind(p)

Waiting(p) ==
  \/ program[p].pc \in {"confirm", "fetch", "script", "connect"}
  \/ At(p, "read") /\ FromAfar(program[p].setup)
  \/ At(p, "rag") /\ program[p].config.retrieval

OwnStep(p) == ~Waiting(p) /\ StartStep(p)

NextStartup ==
  \/ \E p \in Programs : StartStep(p) \/ Quit(p) \/ Crash(p)
  \/ \E p \in Programs, s \in Setups : Start(p, s)
  \/ ClearCache \/ ClearHalf

(* Weak fairness of a program's own steps: Busy says when one is enabled.  *)
Busy(p) == Starting(p) /\ ~Waiting(p)
Fairness == \A p \in Programs : []<>~Busy(p) \/ []<><<OwnStep(p)>>_startupVars

SpecStartup == InitStartup /\ [][NextStartup]_startupVars /\ Fairness

-----------------------------------------------------------------------------
(* What a start finds of bun is whole, and of a repository too, although   *)
(* programs die while they fetch it and fetches fail, unless two processes *)
(* handled it at once or it is what a clear of the cache, ended half-way,  *)
(* left: that stays, and every later start takes it as complete            *)
(* (download_and_extract_repo looks for the directory only).  Hazards: a   *)
(* crash between two steps, a step that fails (download_and_extract_repo,  *)
(* install_bun).                                                           *)
PublishedIsWhole ==
  \A a \in Staged \ disturbed : published[a] = "torn" => a = "repo" /\ halfCleared

(* An agent that serves is the one configured.  A tool is the one of the   *)
(* last server listed that offers it, over a builtin one, but the control  *)
(* tools are the program's own.  The key the model's client sends is, of a *)
(* provider that was detected, the variable that speaks for it; of one     *)
(* that is configured, the variable it names, when set, else the key that  *)
(* is written there.  A provider configured with neither gets the first of *)
(* the common variables that is set, whosever key that is: OpenAI's goes   *)
(* to Anthropic (resolve_llm_auth), and a variable that is named but not   *)
(* set never serves.  Tool calls go unasked only where nobody can be asked *)
(* or somebody said so.  Hazards: servers that fail or time out, names     *)
(* that collide, configurations resolved twice, a key for another provider.*)
KeyFits(p) ==
  LET s == program[p].setup
      llm == s.config.llm
      env == s.env \cup s.config.variables \cup program[p].env
      key == program[p].key
      Speaks(d) == d.variable = key /\ d.provider = program[p].llm.provider
      Common(i) == LlmKeys[i] = key /\ \A j \in 1 .. i - 1 : LlmKeys[j] \notin env
  IN CASE llm = NoLlm -> key \in env /\ \E i \in DOMAIN Patterns : Speaks(Patterns[i])
       [] llm # NoLlm /\ llm.keyEnv \in env -> key = llm.keyEnv
       [] llm # NoLlm /\ llm.keyEnv \notin env /\ llm.key # "none" -> key = llm.key
       [] OTHER -> llm.keyEnv = "none" /\ key \in env /\ \E i \in DOMAIN LlmKeys : Common(i)

ToolsAreTheirOwn(p) ==
  LET tools == program[p].tools
      servers == program[p].config.servers
      Offering(n) == {i \in program[p].listed : n \in servers[i].offers}
      all == ControlTools \cup BuiltinTools(program[p].config)
               \cup UNION {servers[i].offers : i \in program[p].listed}
  IN /\ DOMAIN tools = all
     /\ \A n \in all :
          tools[n] = CASE n \in ControlTools -> "control"
                       [] n \notin ControlTools /\ Offering(n) # {} ->
                            servers[CHOOSE i \in Offering(n) : \A j \in Offering(n) : j <= i].name
                       [] OTHER -> "builtin"

PromptsAreRead(p) ==
  LET s == program[p].setup
      home == IF s.source = "github" THEN "repo" ELSE s.dir
      prompts == s.config.prompts
      TextOf(part) == Join(home, IF part.kind = "file" THEN part.file
                                 ELSE prompts.fragments[part.fragment])
  IN s.source # "url" /\ prompts.given =>
       program[p].config.prompts.assembled = [i \in DOMAIN prompts.system |-> TextOf(prompts.system[i])]

StartedAsConfigured ==
  \A p \in Programs : Serving(p) =>
    /\ KeyFits(p) /\ ToolsAreTheirOwn(p) /\ PromptsAreRead(p)
    /\ program[p].mode = "AlwaysAllow" =>
         program[p].setup.noToolAuth \/ program[p].setup.mode \in {"embedded", "task"}

(* A start ends, or waits for good for what has no timeout: the user, a    *)
(* transfer, an installer, the handshake of a tool server, a URL, or the   *)
(* documents of a retrieval system; never for a server's list of tools,    *)
(* nor for another program.  Hazard: an answer that does not come (the     *)
(* timeouts of list_tools and configure_tools).                            *)
EveryStartEnds == \A p \in Programs : []<>~Starting(p) \/ <>[]Waiting(p)
=============================================================================
