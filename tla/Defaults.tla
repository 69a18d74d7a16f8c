------------------------------ MODULE Defaults ------------------------------
(***************************************************************************)
(* Which model provider an agent uses and with whose key: the detection    *)
(* and the choice of a provider from the environment variables             *)
(* (config/defaults/providers), the keys the loader fills in               *)
(* (config/loader.rs) and the clients' own (llm/providers).                *)
(*                                                                         *)
(* A key is named by the environment variable it comes from; "inline" is a *)
(* key written in the configuration and "none" no key.                     *)
(***************************************************************************)
EXTENDS Naturals, Sequences, SequencesExt

Providers == {"OpenAI", "Anthropic", "Gemini"}

(* The variables that speak for a provider, in the order the detector      *)
(* looks for them, with its confidence: 3 is High.                         *)
Pattern(provider, variable, confidence) ==
    [provider |-> provider, variable |-> variable, confidence |-> confidence]
Patterns ==
    << Pattern("OpenAI", "OPENAI_API_KEY", 3),
       Pattern("OpenAI", "OPENAI_TOKEN", 2),
       Pattern("Anthropic", "ANTHROPIC_API_KEY", 3),
       Pattern("Anthropic", "CLAUDE_API_KEY", 2),
       Pattern("Anthropic", "ANTHROPIC_TOKEN", 2),
       Pattern("Gemini", "GEMINI_API_KEY", 3),
       Pattern("Gemini", "GOOGLE_APPLICATION_CREDENTIALS", 2),
       Pattern("Gemini", "GOOGLE_API_KEY", 1) >>

(* Each provider with a variable that is set, with the pattern of highest  *)
(* confidence, the first of them.  The last pattern counts only without the*)
(* other two of its provider, whose confidence is higher in any case.      *)
DetectProviders(env) ==
  LET set == {i \in DOMAIN Patterns : Patterns[i].variable \in env}
      Own(provider) == {i \in set : Patterns[i].provider = provider}
      Better(i, j) == \/ Patterns[i].confidence > Patterns[j].confidence
                      \/ Patterns[i].confidence = Patterns[j].confidence /\ i <= j
      Best(own) == CHOOSE i \in own : \A j \in own : Better(i, j)
  IN [provider \in {Patterns[i].provider : i \in set} |-> Patterns[Best(Own(provider))]]

-----------------------------------------------------------------------------
(* The provider a project of this kind prefers. *)
Contextual(project) ==
  CASE project = "rust" -> "Anthropic"
    [] project \in {"node", "python", "none"} -> "OpenAI"
    [] project = "data science" -> "Gemini"

(* select_provider: the first of these that was detected. preferred is     *)
(* PREFERRED_LLM_PROVIDER, an unknown name being as good as none.          *)
SelectProvider(detected, preferred, project) ==
  LET order == <<preferred, Contextual(project), "Anthropic", "OpenAI", "Gemini">>
      first == CHOOSE i \in DOMAIN order :
                 /\ order[i] \in DOMAIN detected
                 /\ \A j \in DOMAIN order : order[j] \in DOMAIN detected => i <= j
  IN detected[order[first]]

(* EnvironmentLlmProvider::provide_defaults as configure_llm calls it, with*)
(* no project.  An auth names a variable (api_key_env) and a key.          *)
NoLlm == [provider |-> "none", keyEnv |-> "none", key |-> "none"]
ProvideDefaults(env, preferred) ==
  LET detected == DetectProviders(env)
      selected == SelectProvider(detected, preferred, "none")
  IN IF DOMAIN detected = {} THEN NoLlm
     ELSE [provider |-> selected.provider, keyEnv |-> selected.variable, key |-> "none"]

-----------------------------------------------------------------------------
LlmKeys       == <<"OPENAI_API_KEY", "GEMINI_API_KEY", "CUSTOM_API_KEY">>
EmbeddingKeys == <<"OPENAI_API_KEY", "COHERE_API_KEY", "HUGGINGFACE_API_KEY">>
SearchKeys    == <<"TAVILY_API_KEY", "SERPER_API_KEY">>

(* resolve_llm_auth, resolve_embedding_auth and resolve_web_search_auth:   *)
(* the variable named, else, if neither it nor a key is given, the first   *)
(* common one that is set, whoever the provider is.                        *)
FirstSet(common, env) ==
  LET set == {i \in DOMAIN common : common[i] \in env}
  IN IF set = {} THEN "none" ELSE common[CHOOSE i \in set : \A j \in set : i <= j]

ResolveAuth(auth, env, common) ==
  CASE auth.keyEnv \in env -> [auth EXCEPT !.key = auth.keyEnv]
    [] auth.keyEnv = "none" /\ auth.key = "none" -> [auth EXCEPT !.key = FirstSet(common, env)]
    [] OTHER -> auth

(* create_client: the key a client sends, or "none" when it refuses to be  *)
(* made.  Gemini alone has a variable of its own.                          *)
CreateClient(llm, env) ==
  CASE llm.key # "none" -> llm.key
    [] llm.key = "none" /\ llm.keyEnv \in env -> llm.keyEnv
    [] OTHER -> "none"

CreateGeminiClient(llm, env) ==
  IF llm.key = "none" /\ llm.keyEnv = "none"
  THEN IF "GEMINI_API_KEY" \in env THEN "GEMINI_API_KEY" ELSE "none"
  ELSE CreateClient(llm, env)

CreateLlmClient(llm, env) ==
  IF llm.provider = "Gemini" THEN CreateGeminiClient(llm, env) ELSE CreateClient(llm, env)
=============================================================================
