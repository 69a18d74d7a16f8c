# gola: a TLA+ model of the agent and what it stands on

gola runs a language-model agent that calls tools. Users reach it over a
streaming HTTP interface or from a terminal; a person may be asked before a
tool runs. The specifications follow a prompt through the whole program: the
terminal that sends it, the mutex it waits for, the steps of the agent with
their tools and authorizations, the memory and the requests to a model provider,
and retrieval; and the start of the programs, from the configuration to what
they install. Source paths below are relative to `src/crates/`, and `core/`
stands for `gola-core/src/`.

## Inventory

| Component | State it keeps | Operations | What makes it correct |
|---|---|---|---|
| Tool authorization: `core/polling_authorization_handler.rs`, `core/authorization_client.rs`, `core/guardrails.rs`; an SSE variant in `core/sse_authorization_handler.rs` | the configuration; a map from tool call id to the sender of a one-shot channel, each behind a mutex | request, answer, cancel, list, reconfigure, expire | a request gets one verdict; a grant comes from an answer to it or from the policy; an answer is not lost; a request always returns |
| Agent step: `core/agent.rs`, `core/tools/control_plane/` | authorization mode and handler, the flag *all tools approved*, failures in a row per tool, the loop detector, the conversation | `run_step` | no tool runs unasked in Ask mode; a failing tool is cut off; loops end the step |
| Streams over one agent: `core/ag_ui_handler.rs`, `gola-ag-ui-server/src/` | the agent behind a fair mutex; per stream its place in `handle_input` | open a stream, run directly, disconnect, configure | one run at a time; one terminal event; the run ends and the agent is given back |
| Loop detection: `core/loop_detection/` | a window of calls, a count per call | add a call, clear | the counts agree with the window |
| LLM resilience: `core/llm/{message_validator,auto_recovery_llm,context_truncation,summarizer,utils}.rs` | none between calls; two nested loops within one | repair, retry, truncate, fall back | what is sent pairs every tool call with one response; the newest message is kept; attempts are bounded |
| Conversation memory: `core/memory/` | messages, a running summary | add, read, clear | what is kept is the end of the conversation, without holes |
| Retrieval: `core/rag/` | embedding cache, vectors, documents, and a file of each | split, embed, put, evict, save, load, add, query, clear | bounded cache; a vector is cached under its own text; chunks and vectors stay aligned |
| Terminal client: `gola-term/src/` and the clients in `gola-cli/src/` | messages, context, waiting flag, the handle of the last worker, session files | prompt, interrupt, resubmit, commands, save, open | answers come in order; what is interrupted leaves no trace in the context; the terminal does not wait for ever |
| Executors and runtimes: `core/executors/` | runtimes on disk, containers | find, install, execute code | a runtime that is found is whole; a success is all of a program's output |
| Binary installation: `core/installation/` | a cache and a directory of binaries | strategies in order | a strategy that fails is followed by the next |
| Tools and MCP clients: `core/tools/` | connections | list, call | the tool called is the one configured; a start does not hang on a list |
| Configuration: `core/config/` | a cache of repositories, profiles | load, resolve, inherit, default | each key and prompt is the one asked for; a profile overrides its parents |
| LLM providers: `core/llm/providers/` | none | convert, read a reply | what is sent is accepted; a reply is not misread |
| Factory and command lines: `core/agent_factory.rs`, `gola-cli/src/main.rs`, `gola-server/src/main.rs` | the address | start in one of four modes | an agent that serves is the one configured |
| Tracing, simple tools, event types | none that is shared | | |

How they interact. `gola-cli` builds an agent (`agent_factory.rs`) and gives it
to `GolaAgentHandler`. The HTTP server calls `handle_input` for each stream; it
locks the agent to install the authorization handler, unlocks it, and returns a
stream that locks it again for its whole run. Inside, `run_step` asks the LLM
(through retries, truncation and message repair), adds to the conversation
memory, and puts each tool call through the loop detector, the circuit breaker
of its tool and, in Ask mode, `request_authorization`, which waits until a
client that polls another endpoint answers. Nothing but the two mutexes of the
authorization handler and the mutex of the agent orders these tasks.

A terminal is three kinds of tasks over two channels: the loop that draws, a
service that takes one action at a time, and a worker per prompt, which writes
to the loop's channel whether or not anybody still waits for it. Programs share
the home directory of their user, where repositories and runtimes are unpacked,
without any lock.

What is hard: state read in one critical section and used in another (the two
locks of a stream, the clone of the configuration that the answer *All* writes
back, the breaker read before two awaits, the cache between insert and evict);
answers, time-outs and cleanup that race for the same map entry; a client that
disconnects, and a process that dies, at any await; retries inside retries;
files written in place; detector and approval state that outlive the run that
made it. `PROJECT.json` lists each hazard at its line.

## Modules

| Module | Models | Correspondence |
|---|---|---|
| `Consent` | the abstract promise of authorization | a policy, per request an answer and a verdict; no code of its own |
| `ToolAuthorization` | polling handler and client | `config`, `pending` = the two mutex-protected fields; `channel` = the one-shot channel; `pc` = the await points of `request_authorization`; `snapshot` = the local clone of the configuration; `view` = what a client's last poll returned; `consent`, `command` are history |
| `LoopDetector` | `PatternDetector` | `callHistory` and `exactMatchCounts` are the fields; `pattern` is the return value |
| `Agent` | `Agent::run_step` | EXTENDS `LoopDetector`; `pc`, `response`, `at`, `step` are the locals of a step; `outcome` its return value; `failures`, `mode`, `allApproved`, `hasHandler` the fields of the agent |
| `AgentHandler` | `GolaAgentHandler` | EXTENDS `Agent`; `owner` and `queue` are tokio's mutex; `phase` is where each session's future stands; `status` is what its events or its result told the caller |
| `RunProtocol` | the abstract promise of a run | started once, alone with the agent, told once how it ended |
| `SseAuthorization` | the handler that announces requests on a channel | EXTENDS `ToolAuthorization`, whose map, channels and time-outs it keeps; `announced` = events the client has not answered, `listening` = whether the receiver lives |
| `AuthorizationClient` | the poll loops of the client library | `isPolling` = the shared flag; `poller` = where each spawned loop stands |
| `Lists` | filters of `Vec`s | `Sublist` = the items of a list at some places, in their order; used by `Messages`, `Splitter` and `EmbeddingCache` |
| `Messages` | messages, their repair, the providers' wire forms | operators: `Issues`, `ValidateAndFix`, `Wire`, `ToolRule`, `Verdict` |
| `LlmStack` | `ContextTruncatingLLM` around `AutoRecoveryLLM` around a provider | EXTENDS `Messages`; `call` holds the locals of the two loops |
| `Memory`, `Replies` | the four memories; what a provider's reply is read as | operators |
| `Conversation` | an agent's run over its memory and its client, or the client alone | EXTENDS `Memory`, `LlmStack`, `Replies`; `todo` = the messages a step has yet to add |
| `Splitter`, `EmbeddingCache` | the text splitter; the cache and the embedding services | operators |
| `Retrieval` | `RagSystem` | EXTENDS `EmbeddingCache`; `documents`, `counter`, `store` are its fields; `job` = each task's call of the generator; three files |
| `ChatState`, `Terminal` | `AppState`; the loop, the service, the workers and their clients | `app`, `actions`, `events`, `worker` are the program's; `runs` = what became of each prompt |
| `Defaults`, `ConfigLoader` | keys and providers by environment; the loader, GitHub sources, validation | operators |
| `Startup` | the programs from `main` to their address | EXTENDS `ConfigLoader`; `program` = where each start stands and what it has made; `published`, `staged` = the disk |
| `Profiles`, `Binaries`, `CodeExecutor` | `ProfileManager`; the installation library; `execute_code` and the Docker daemon | one module each, a caller at a time |
| `ToolAuthorization_proofs`, `LoopDetector_proofs`, `AgentHandler_proofs`, `Conversation_proofs`, `Terminal_proofs`, `Retrieval_proofs` | theorems | each EXTENDS the module it is about, the first also `SseAuthorization` and `AuthorizationClient` |
| `Startup_proofs` | theorems | EXTENDS `Startup`, and `Profiles`, `CodeExecutor` and `Binaries`, with which it shares nothing |
| `Induction` | lemmas | induction and recursion over the naturals, stated about sets and functions, and what they show of sublists and of lists joined together |
| `MCToolAuthorization`, `MCAgentHandler`, `MCConversation`, `MCRetrieval` | constants for TLC | ids, calls, lists, setups |
| `MCSideParts`, `MCStartup` | constants, and parts that share no state side by side | a behaviour is one of the parts, named by `part` |

Each action is one critical section, or one poll of a future between two awaits.
`HandleResponse`, for instance, removes the map entry and sends in the same
action, because the code does both under the lock; the answer *All* is two
actions, `ReceiveAll` and `SaveAll`, because the code locks twice.

`Agent` uses what `ToolAuthorization` promises and not its detail. In Ask mode
the handler reads its configuration when it is called: `AllowedByPolicy` and
`DeniedByPolicy` are the verdicts it gives at once, `AskHandler` begins the wait,
and `Authorized` and `Unauthorized` end it, whatever an operator has set since
(`SetPolicy`).

Definitions whose comment says "a variant with a bug" are not used by any
specification. Each is a plausible mistake in the definition below it, kept to
show that the property it names can fail.

### Abstractions

- A tool call is a model value: its name and arguments matter only through its
  kind (executable, `assistant_done`, `report_progress` with or without a reason
  that needs the user, invalid), its tool, and which calls it is similar to.
- The conversation is not in the state; adding to it may fail, as it may with a
  summarising memory.
- `report_progress` with a context that is itself JSON with a `reason` field is
  not distinguished from one without.
- A message is its role, its origin, its place in the conversation and the ids
  of its calls. A memory's limit counts messages.
- An embedding is named by the text it was made of; a search is a step that
  reads. A text is its bytes: line feeds, spaces, and letters of one to four
  bytes, which tell where they begin. A document that the splitter never gets to
  the end of leaves its writer where it is (`work.hangs`) until the process dies.
- The requests that `Truncate` makes of its own, one for each large tool message
  it summarises (`core/llm/context_truncation.rs:94`), change the text of that
  message only, whether they are answered or fail, and are left out.
- A text on the terminal's screen is a sequence of pieces of answers; bubbles,
  scrolling and code blocks are functions of it.
- A key is named by the variable it comes from; a prompt is the file it is in;
  a download, a script and an archive are steps that end, fail or stop half-way.
- Writes of one file are truncation and then content. What tokio buffers of a
  file within one task is not seen apart from that.
- The agent's mode is initially any of the three: `Agent` and `GolaAgentHandler`
  are public, although `agent_factory.rs` always sets Ask.
- `run_task_directly` is part of the public interface of the handler; nothing in
  the repository calls it. `HandlerMixed` has it, the other runs do not.
- A stream's `RunStarted` event and the start of its wait for the mutex are one
  action: both happen when it is polled, and no other state is touched.
- The oldest-first order of tokio's mutex is modelled, cancellation of a waiter
  included.
- Dropping a session drops its step where it stands. The entry that its
  `request_authorization` left in the map stays there (`DropRequest`).

## What the runs check

| Run | Instance | What it shows |
|---|---|---|
| `auth_unique` (`AuthUnique.cfg`) | 2 requests with an id each, 1 client | the type invariant; no lost wake-up (`SenderHeld`); approvals reach only the request that was shown (`ConsentIsSpecific`); no request fails with a closed channel (`NoSpuriousFailure`); an answer beats a time-out (`AnswerIsReturned`); the handler implements `Consent` |
| `auth_shared` (`AuthShared.cfg`) | 2 requests under one id, 1 client | ids come from the LLM and may repeat: the second request overwrites the entry of the first, which then fails, but still returns (`RequestReturns`) |
| `auth_stale_write` (`AuthStaleWrite.cfg`) | as `auth_unique` | **violated**: `DenyModeDenies` |
| `loop_detector` (`SideParts.cfg`) | four parts beside each other. The detector: window 4, thresholds 3, 3 calls, 3 steps. Each handler: 2 requests under one id. The client: 3 poll loops | counts agree with the window (`CountsMatchWindow`); an exact loop is reported when and only when it is there (`ExactLoopMeansRepeated`); both handlers implement `Consent` and return, also when an answer comes before its entry (`HandlersKeepConsent`); somebody polls while the flag is set, and nobody once it stays clear (`PollingFollowsFlag`) |
| `handler_mixed` (`HandlerMixed.cfg`) | a stream and a direct run, up to 2 calls per response, 2 steps, window 3 | `BreakerStaysClosed`, `RepeatsAreBounded`, `ToolsNeedConsent`, `LockIsConsistent`, `StreamsAreSetUp`, under disconnects and reconfiguration anywhere |
| `handler_streams` (`HandlerStreams.cfg`) | 2 streams, every kind of control call | implements `RunProtocol`; every run ends (`EveryRunEnds`) |
| `handler_report`, `handler_deny` | 2 streams | **violated**: `ReportStopsStep`, `DenyStopsTools` |
| `conversation` (`Conversation.cfg`) | every list of up to 3 messages over 2 ids for the client alone; an agent of 2 steps over each memory, limit 3; 2 outer retries | repair leaves nothing to repair (`ValidatedIsValid`); truncation keeps the newest message (`NewestIsSent`); an agent never sends what a provider's rule on tool calls refuses, and in order (`ToolRuleKept`); a memory is the end of the conversation (`MemoryIsRecent`); a generation ends (`EveryGenerateEnds`) |
| `retrieval` (`Retrieval.cfg`) | 2 querying tasks and a writer, a cache of 1 entry, 6 configurations; for 16 splitters, with overlaps up to the chunk size and beyond it, every shape of text of up to 7 letters of one byte, or 4 of one, two or four bytes | `NothingLost` (where a chunk has room the splitter ends, and when it ends it has lost nothing), `ChunksFit` of the splitter; `CacheBounded`, `EmbeddingOfText` of the cache and its file; `KeepsAligned` of chunks and vectors |
| `terminal` (`Terminal.cfg`) | the HTTP and the remote client, 3 inputs, 2 deltas | `ScreenInOrder`, `ContextIsShown`, `SavedIsPrefix`, `InterruptedIsForgotten`, `EveryPromptIsAnswered` |
| `startup` (`Startup.cfg`) | 2 programs, 12 setups, 2 starts, 1 clear of the cache, whole or half-way; profiles of 3 names; 8 managers of binaries; 3 containers | `PublishedIsWhole`, `StartedAsConfigured`, `EveryStartEnds`; `ProfilesResolve`; `InstallTriesAll`; `SuccessIsWhole` |

What the last four show of the program, beyond that it is right:

- `KeepsAligned` names the only two ways in which chunks and vectors come apart
  under a cached generator: a cleared store whose file cannot be written, and a
  system loaded beside the file of another moment. Without the cache a blank
  chunk is enough (`core/rag/rag_system.rs:253` pairs chunks and vectors by
  position), which is why the property has that condition.
- `CacheBounded` allows for what was loaded: `load` does not evict.
- `EveryPromptIsAnswered` excepts a run whose connection the remote client lost:
  it returns without a word and the terminal waits until it is interrupted.
- The splitter need not end. `split_by_length` starts a chunk an overlap before
  the end of the last, moved back to where a letter begins; when that is where
  the last one started it goes on for ever. `NothingLost` says where it ends: the
  chunk has room for two of the widest letters beside the overlap, less a byte
  (for one letter, when there is no overlap). `GolaConfig::validate` asks only
  that the chunk size is not zero (`core/config/types.rs:1084`), so that an
  overlap as large as the chunk stops the start of a program that has documents.
- `ChunksFit` counts the bytes by which a chunk may be longer than its size: the
  overlap, the bytes before it of the letter it begins in
  (`core/rag/splitter.rs:73`), and a separator.
- `PublishedIsWhole` has two exceptions. One is artifacts that two processes
  handled at once (`disturbed`). The other is the repository that a clear of the
  cache left when it ended half-way, in one process alone (`halfCleared`): the
  next start looks only for the directory (`core/config/github.rs:138-141`) and
  takes it as complete, and so does every later one.
- `KeyFits`, in `StartedAsConfigured`, states whose key a client sends. A provider
  that is configured with neither a variable nor a key gets the first of
  `OPENAI_API_KEY`, `GEMINI_API_KEY` and `CUSTOM_API_KEY` that is set, whichever
  provider it is (`core/config/loader.rs:445-453`): the setup `NoKeyOfItsOwn`
  sends OpenAI's key to Anthropic.
- `EveryStartEnds` lets a start wait for the user, a transfer, an installer, the
  handshake of a server, a URL of the configuration or of a schema, or a
  retrieval system that is filled; none of these has a time-out. It rules out a
  wait for a server's list of tools, or for another program.

The violated properties state what a comment or a test of the repository says:

1. *All* after *Deny* (`auth_stale_write`). The answer *All* clones the
   configuration and writes the clone back in a second critical section
   (`core/polling_authorization_handler.rs:206-209`). An AlwaysDeny set in
   between is acknowledged and then lost.
2. *All* outlives everything (`handler_deny`). After one answer *All* the agent
   never asks its handler again (`core/agent.rs:216`), in this run or any later;
   `reset_authorization_state` has no caller. Setting AlwaysDeny stops nothing.
3. `report_progress` (`handler_report`). `run_step` means to stop for a reason
   that needs the user (`core/agent.rs:598`), but the observation it inspects
   was rewritten before, so later calls of the response run. The stream itself
   does stop after the step, since `ag_ui_handler.rs` looks at the arguments of
   the call.

### Bounds, and why they are enough

- Two requests are enough for every race over one map entry: the handler
  relates a request only to its own id and to the entry it overwrites. One
  client does all that several could, since it may answer any request it was
  shown, at any time after.
- Two sessions make one wait while the other runs, arrives, leaves or changes
  what it will find. Two calls per response are needed for a call to follow
  another in one step (`ReportStopsStep`), and with two steps a tool can fail
  twice and be called a third time, so the breaker opens in `HandlerMixed`.
- Window 3 over four calls of a run makes calls leave the window; the exact
  threshold is 2 there, so loops and recoveries happen.
- Counters: `round` stops at `MaxSteps` as in the code; failures stop at the
  breaker; the window is bounded by the code. `MaxCalls` is the one bound that
  is the model's own.
- Three messages over two ids give every way in which a call, its response and
  a third message can be out of place, with ids that repeat; two retries of the
  outer loop let a truncated list be truncated again. A memory of three, and
  runs of two steps whose replies have up to two calls, overflow each kind.
- A cache of one entry evicts at every second put, and two tasks are enough for
  a put between another's insert and eviction. Texts of seven letters are longer
  than three chunks of two. Letters of four bytes with chunks of two to four, and
  overlaps up to the size of the chunk, let the splitter end or not; one text of
  two paragraphs has such a letter where the overlap of a chunk of eight begins.
- Three inputs let a prompt overlap an answer and be interrupted, the first
  being the start itself. Two deltas give an answer pieces to reorder.
- Two programs make every race over one artifact; two starts and one clear let
  one find what a dead one left.
- The bounds that are the model's own and not the code's: `MaxCalls`, `MaxAdded`,
  `MaxCount`, `MaxChunks`, `MaxDeltas`, `MaxInputs`, `MaxStarts`, `MaxClears`,
  `MaxInstalls`, `MaxLeft`, the three pollers and the three containers.
- The runs of authorization, detector, handler and conversation check for
  deadlock; none can stop. The others say CHECK_DEADLOCK FALSE: a torn cache
  file stops every start of a retrieval system, a user may leave the terminal,
  and starts, installations and containers are bounded.

### Fairness

`ToolAuthorization` assumes weak fairness of each request's task: the runtime
polls a task that is woken and timers fire. It assumes nothing of clients,
operators or the cleanup. `AgentHandler` assumes weak fairness of the running
step and of each session: the LLM and the tools answer in the end, the
authorization request returns (which `RequestReturns` shows) and a connected
client reads its stream. That tools answer is an assumption and not a fact of
the code: MCP calls have no time-out (`core/tools/rmcp_client.rs:356`).
Arrivals, departures and operators are not fair.

`SseAuthorization` is as `ToolAuthorization`; each poll loop is fair, and starts
and stops are not. `Conversation` assumes that the client's loops go on and that
a request to a provider is answered or fails, nothing of the run around them.
`Terminal` assumes that its loop, its service and each worker go on while they
have something to do; a worker's run ends, which `EveryRunEnds` shows of the
server; nothing is assumed of the user. `Startup` assumes fairness only of a
program's own steps, and none of what it waits for (`Waiting`): the user, what is
fetched or run to install something, a server's handshake, what is read from a
URL, and documents that are fetched, split and embedded, since URLs have no
time-out (`core/agent_factory.rs:528-541`) and the splitter may not end. Where weak fairness is
written `[]<>~Busy \/ []<><<Step>>_vars`, `Busy` says when a step is enabled.

## What is proved

`ToolAuthorization_proofs` proves, for any requests, ids, clients and any
assignment of ids to requests, `TypeCorrect`, `NoLostWakeUp`, `NoRequestFails`,
`AnswerWins`, `ApprovalIsSpecific` and `Refinement` (the handler implements
`Consent`), from two assumptions on the constants: every request has an id, and
`NoRequest` is not a request. None of the invariants is inductive alone. That a
channel is empty exactly when the map holds its sender needs to know that
before registration there is no channel; that no request fails needs to know
that an awaited channel is closed only by another call of the same id. `IInv`
adds these: `Phase` says what each await point knows of the channel and the
result, `NeverClosed` what unique ids give. `TakeEntriesLemma` states once what
removing entries does, for the four actions that do it.

It also proves `SseRefinement`: the handler that announces its requests
implements `Consent` as well, though an answer may come before the entry it is
for. `SseInv` is `IInv` without `NeverClosed`, since such a request may fail for
want of a listener. And `FlagMeansPolling`, of the client: no start or stop
leaves the flag set with nobody polling, for any number of loops.

`LoopDetector_proofs` proves `CountsNeverDrift`, `ExactLoopsAreFound` and
`DetectorTypeCorrect` for any positive window, any thresholds and any calls.
The inductive invariant is the conjunction of the three; its core are three
lemmas about how often a call occurs in a window when a record is appended and
when the first is dropped. The second goes through a bijection, since
cardinalities of index sets must be compared.

`AgentHandler_proofs` proves, for any sessions, calls, tools, steps, window and
thresholds, `BreakerHolds`, `LoopsAreCut`, `ConsentComesFirst`, `LockAgrees`,
`SetupHolds`, `HandlerTypeCorrect` and `HandlerImplementsProtocol`. It rests on
the assumptions named beside the constants: kinds and tools are defined for the
calls, the steps are `0 .. MaxSteps - 1`, bounds are numbers, `Nobody` is not a
session. The inductive invariant `HInv` has two halves. `StepInv` is about the
agent: what `execute_tool` checked of a call (its kind, its breaker, that the
detector found no loop and has it as its last record) is still true at each
await after the check; it takes the detector's invariant from
`LoopDetector_proofs`. The other half is about the sessions: `LockIsConsistent`,
and `SessionOK`, which says what a session's place tells of its caller and, for
a stream past its setup, of the agent's mode. That mode is stable because no
session ever takes it out of Ask, which is why the two critical sections of a
stream need no common lock. Each action is proved through one of four lemmas:
a session joins the line, takes the mutex, ends, or stays where it is.

`Conversation_proofs` proves `RequestIsRepaired`, `NewestGetsThrough`,
`MemoryStaysRecent` and `ProvidersRuleKept` for any ids, limits, retries, lists
a caller may give and replies of any length; the runs check three messages over
two ids. Most of it is about lists. `ValidatorFixesAll` says that for *every*
list of messages what `validate_and_fix` returns has nothing left to fix: the
lemma `ValidatorRepairs` describes the result by a map `seat` from the places of
the old list to those of the new one, between which only synthetic responses
stand, and the rest is about places. `TruncationKeeps`, `RecoveryIsGood`,
`FallbackIsGood` and `ConvertedInOrder` say what the other operators of the
client keep. The inductive invariant is `IInv`: the memory is the end of the
conversation and holds no calls (`MemoryFits`); the list a call works on ends as
the caller's did, what an attempt sends first is that list repaired, and of an
agent's lists none has calls, and none that is sent has responses (`CallFits`).
That is why `ToolRuleKept` holds of the agent at all: its memory keeps results
without the calls, which the validator turns into system messages. The
assumptions: there are ids, and `NoId` is none; bounds are numbers; a list a
caller gives is a list of messages numbered by their places.

`Terminal_proofs` proves `SessionIsPrefix`, `AbortedIsForgotten`,
`ScreenStaysInOrder` and `ContextStaysShown` for any clients and bounds. Common
to them is `Base`: types, what the phase of the loop says of its channels
(`PhasesFit`) and of the last run (`RequestsFit`). Each needs its own
strengthening, since what is shown is what was sent and arrived: `SavedBegins`
relates the file to the screen, `ContextsRemember` speaks of the contexts still
in the channel, `ContextsAreShown` of the pieces ahead of each context in it, and
`InOrderInv` says that the pieces still in the channel continue those on the
screen. Each action belongs to one of a few kinds of step (`Quiet`, `Opens`,
`Hears`, `Sends`, `Runs`), and each property is proved once per kind.

`Startup_proofs` proves `FoundIsWhole` and `ServesAsConfigured` for any number of
programs, setups, environments, starts and clears, with the exceptions named
above. `SInv` adds to the first that no two programs handle an undisturbed
artifact and that one about to publish it has a whole one (`Undisturbed`). `CInv` adds to the second what a program has at each
step: the configuration as it was read, tools of the servers before the one at
which it stands, prompts that resolved (`RecordFits`).

It also proves `SuccessesAreWhole`, of the executor, for any number of calls. What a
success was, must stay true while the daemon stops and removes containers:
`EndsAreFinal` says that a program that ended with code 0 had printed all of its
output, that a call which reads logs knows how its container ended, and that no
container is started twice. And `EveryStrategyIsTried`, of the installers, for
any managers: `EachHasItsTurn` says that the strategies tried and those left make
up the order, which sorting by priority has made a permutation of the manager's.
The first needs no assumption on the constants, the second that a manager's
strategies are a list of the three there are.

And `ProfilesResolveRightly`, of the manager of profiles, for any finite set of
names. That a resolution is defined at all is a lemma: `ResolutionIs` shows that
calls as the source describes them exist, are unique, and end, because each adds
a name to the set visited (`FewerLeft`), though what is visited are the names in
profiles and not those of their files. `CallSucceeds` says when a call succeeds,
in terms of `Lineage`, the profiles it inherits from; `VisitedOnlyFails` that the
set visited never changes what a call that succeeds returns, so that a parent may
be looked at alone. `ResolvingKeeps` is why a cache filled half does no harm.

`Retrieval_proofs` proves `SplittingLosesNothing` and `ChunksAreSmall` for any
text of letters of one to four bytes, any chunk size and any overlap, and `EmbeddingIsOfText`,
`CacheStaysBounded` and `AlignmentIsKept` for any number of readers, any lists
of documents, any sizes of the cache and of a batch and each provider.

- The splitter. `CutsText` is what each of its functions promises of the chunks
  of a text, when it ends: none is longer than the size and what may be added to
  it, none ends within a letter, letters that rise in the text rise in each
  chunk, and every letter is in one. `ShortWayBack` says that a boundary is less
  than the widest letter away, so that with room for two of them each turn of
  `SplitByLength` gets on by a byte, and as many turns as the text has bytes use
  it up (`SplitByLengthCuts`, `RoomEnds`). The
  pieces between separators lie in the text one after another (`LaidOut`), and
  gathering them into chunks with an overlap keeps a state (`Gathered`) in which
  the chunk being filled is a part of the text that ends where the pieces so far
  do. `SplitFits` is the invariant: what the splitter alone made cuts its text.
- The cache. Its entries are `Own`: each has the embedding of its own text.
  `HalvesAddUp` (a list is as long as its items with a property and those
  without) gives the length of what a read reorders and an eviction leaves.
  `EmbeddingsArePart` is why the comparison of two lengths in `put_batch` is
  enough: the answers to all batches, joined, are as long as the question only
  if they are the question, though blank texts are left out of each batch.
- The system. `IInv` says that what is in memory and in files is of its kind
  (`DataFit`); that what a task has found is of its texts, and what it got is no
  more than it missed, and all of it only if it is that (`JobsFit`); that the
  writer embeds the chunks it is to store, and that a store is cleared only of no
  documents (`WorkFits`); and which document of a loaded system an embedding made
  again is of (`Again`). `ResultsAreOwn` then says that a call that ends with an
  embedding for every text has each text's own: one answer short, the last
  missing text has none. `CacheBounded` and the step property of
  `AlignmentIsKept` are inductive beside it.

The assumptions: the writer is none of the readers; texts are lists of numbers in
which no letter lacks a byte, and the letters of the splitter's samples rise, so
that each tells where it stood; chunk sizes are positive, and only a wrapped
generator's cache has a file; bounds are numbers.

Definitions that the proofs of a list need are recursive functions and not
operators of the community modules where those cannot be unfolded: `Sublist` in
`Lists` takes the items at some places, as a filter does, and `ConvertMessages`
folds over its list. What such a function computes is proved by `Induction`,
whose lemmas are about a set of numbers or a given sequence of steps and so need
no operator as a parameter.

Only model-checked:

- liveness (`RequestReturns`, `EveryRunEnds`, `EveryGenerateEnds`,
  `EveryPromptIsAnswered`, `EveryStartEnds`, and the second half of
  `HandlersKeepConsent` and of `PollingFollowsFlag`), which under fairness is
  outside what the prover does;
- what is refuted.

## Not modelled

- Text of prompts, answers and observations, the wording of summaries,
  serialisation and HTTP; similarity of strings and of vectors.
- Tracing (`core/tracing/`, `core/trace.rs`): it writes, and nothing reads.
- The calculator and the search tool: a pure function, and one request.
- The event types of `gola-ag-ui-types`: data; the order of events is modelled.
- Text deltas within a step and the endpoints that only read the agent.
- Scrolling, bubbles and the clipboard of the terminal; the embedded web page.
- The mode the authorization client keeps of its own: it decides nothing.
- What no program calls: `resolve_config_with_defaults`, the hard-coded and
  convention providers, `ConfigBuilder`, `SchemaValidator`, `installer.rs`,
  `response_parser.rs`, `HttpLLMClient`, `mcp_client.rs`. `Profiles` and
  `Binaries` have no caller either, but keep state on disk and are modelled as
  the libraries they are.

## Plan

Done: authorization with both handlers and the client's loops, the agent and its
runs, the client of the model and the memories, retrieval, the terminal, the
start of the programs with profiles, binaries and the executor of code.

Proved: the safety properties of authorization, detector, handler, conversation,
retrieval, terminal, start, profiles, executor and binaries.

Left to model: the tool registry and the endpoints that read the agent while a
run holds it, as further sessions of `AgentHandler`.
