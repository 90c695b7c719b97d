----------------------------- MODULE ConfigFile ------------------------------
(***************************************************************************)
(* Who is asked with which key.  `isartor set-key`, `set-alias` and        *)
(* `setup` read isartor.toml, change it and write it back without a lock;  *)
(* `set-key --env-file` writes exports a shell sources.  The gateway loads *)
(* defaults, file and environment in this order and builds the Layer 3     *)
(* agent of the provider it finds.                                         *)
(*                                                                         *)
(* Providers stand for their kinds: "compat" for the OpenAI-compatible     *)
(* ones with a URL of their own (Cerebras and five others), "fixed" for    *)
(* those whose client knows its URL and which have no default one          *)
(* (Anthropic, Gemini, Cohere and Hugging Face), "copilot" for the one     *)
(* that has both.  Groq, xAI, Mistral and others have both too, and are    *)
(* asked at the configured URL only with tools: their key goes where the   *)
(* key of "compat" goes, or home.  A URL and a key are named after the     *)
(* provider they belong to.  A file that is absent or only comments is an  *)
(* empty document.                                                         *)
(***************************************************************************)
CONSTANTS
  Providers,    \* those the user may choose
  Commands,     \* commands that may run at the same time
  Secret        \* whose key ISARTOR__EXTERNAL_LLM_API_KEY_FILE holds, or ""

Kinds == {"openai", "compat", "azure", "ollama", "fixed", "copilot"}

ASSUME ProvidersAssumption == Providers \subseteq Kinds
ASSUME SecretAssumption == Secret \in Providers \cup {"", "openai"}

VARIABLES
  file,     \* isartor.toml, a document
  env,      \* what the shell exports: a document too
  byHand,   \* a history variable: its provider and key were exported by hand
  command   \* the commands that run

configVars == <<file, env, byHand, command>>

\* A document, as much of it as matters; "" is a setting that is absent, or an
\* empty key.
Empty == [provider |-> "", url |-> "", key |-> ""]

NoCommand == [pc |-> "idle", does |-> "none", provider |-> "", key |-> "", doc |-> Empty]

ConfigInit ==
  /\ file = Empty /\ env = Empty /\ byHand = FALSE
  /\ command = [c \in Commands |-> NoCommand]

-----------------------------------------------------------------------------
(* AppConfig::load_with_validation.                                        *)

\* Providers that have a default URL.
DefaultUrl(p) == IF p \in {"openai", "compat", "copilot"} THEN p ELSE ""

Or(first, second) == IF first # "" THEN first ELSE second

\* An exported key counts even if it is empty; it is exported with the provider.
Loaded(e, f) ==
  LET key == IF e.provider # "" THEN e.key ELSE f.key
  IN  [provider |-> Or(Or(e.provider, f.provider), "openai"),
       url      |-> Or(Or(e.url, f.url), "openai"),
       key      |-> Or(key, Secret)]

\* validate_provider_config: only Azure is particular about its URL.
Validated(c) ==
  /\ c.provider \in {"azure", "copilot"} => c.key # ""
  /\ c.provider = "azure" => c.url = "azure"

\* Where the agent that AppState::new and chat_with_model build sends a chat.
AgentEndpoint(c) ==
  IF c.provider \in {"azure", "openai", "compat", "ollama"} THEN c.url ELSE c.provider

\* The key it shows there.
AgentKey(c) == IF c.provider = "ollama" THEN "" ELSE c.key

\* What goes out: a key, and where it goes.
Shown(key, to) == [key |-> key, to |-> to]
Chat(c) == Shown(AgentKey(c), AgentEndpoint(c))

\* A request with tools goes past the agent: provider_chat_completions_url.  The
\* URL of OpenAI, the default, is not taken for another provider's, but for
\* Copilot's it is.
ToolUrl(c) ==
  IF c.provider = "compat" /\ c.url = "openai" THEN DefaultUrl(c.provider) ELSE c.url
Passed(c) ==
  IF c.provider \in {"azure", "openai", "compat", "copilot"} THEN {Shown(c.key, ToolUrl(c))}
  ELSE {}

\* Nothing is asked of a provider that needs a key and has none.
Pings(c, endpoint) ==
  IF c.provider # "ollama" /\ c.key = "" THEN {} ELSE {Shown(AgentKey(c), endpoint)}

\* `isartor check`, which asks nothing of the outside in offline mode.
CheckTarget(c) == IF c.provider \in {"azure", "ollama"} THEN c.url ELSE c.provider
CheckPings(c, offline) ==
  IF offline /\ c.provider # "ollama" THEN {} ELSE Pings(c, CheckTarget(c))

\* The end of setup, which has a copy of this of its own, and asks whatever the
\* mode and whether or not the configuration is valid.
SetupTarget(c) == IF c.provider \in {"azure", "ollama"} THEN c.url ELSE c.provider
SetupPings(c) == Pings(c, SetupTarget(c))

\* provider_status_endpoint.
StatusEndpoint(c) ==
  IF c.provider \in {"compat", "copilot"} THEN ToolUrl(c) ELSE AgentEndpoint(c)

-----------------------------------------------------------------------------
(* The changes.                                                            *)

\* Mutant: the URL of the old provider is left in place.
MutantApplyProviderConfig(doc, p, key) ==
  [doc EXCEPT !.provider = p, !.key = key]

ApplyProviderConfig(doc, p, key) ==
  [doc EXCEPT !.provider = p, !.key = key,
              !.url = Or(DefaultUrl(p), @)]

\* Setup asks Azure and Ollama users for the endpoint.
ApplySetupConfig(doc, p, key) ==
  [ApplyProviderConfig(doc, p, key) EXCEPT
     !.url = IF p \in {"azure", "ollama"} THEN p ELSE @]

\* An alias changes nothing else.
ApplyModelAlias(doc) == doc

Changed(c, doc) ==
  CASE command[c].does = "set-alias" -> ApplyModelAlias(doc)
    [] command[c].does = "set-key"   -> ApplyProviderConfig(doc, command[c].provider, command[c].key)
    [] command[c].does = "setup"     -> ApplySetupConfig(doc, command[c].provider, command[c].key)

\* What a user is asked for: a key of the provider, none for Ollama.
KeyFor(p) == IF p = "ollama" THEN "" ELSE p

-----------------------------------------------------------------------------
(* The commands.                                                           *)

ConfigStep(c, new) == command' = [command EXCEPT ![c] = new]

\* Unknown providers, empty keys, aliases and models are refused before
\* anything is read; a dry run ends without a change.
RunEdit(c) ==
  /\ command[c].pc = "idle"
  /\ \/ \E p \in Providers :
          ConfigStep(c, [NoCommand EXCEPT !.pc = "read", !.does = "set-key",
                                    !.provider = p, !.key = KeyFor(p)])
     \/ ConfigStep(c, [NoCommand EXCEPT !.pc = "read", !.does = "set-alias"])
  /\ UNCHANGED <<file, env, byHand>>

\* The wizard loads the configuration for its defaults: a user of the current
\* provider may keep the current key, wherever it came from.
RunSetup(c) ==
  /\ command[c].pc = "idle"
  /\ \E p \in Providers :
       LET current == Loaded(env, file)
       IN  \E key \in {KeyFor(p)} \cup
                      (IF p = current.provider /\ p # "ollama" THEN {current.key} \ {""} ELSE {}) :
             ConfigStep(c, [NoCommand EXCEPT !.pc = "read", !.does = "setup",
                                       !.provider = p, !.key = key])
  /\ UNCHANGED <<file, env, byHand>>

\* Setup indexes the URL of the document and panics if there is none, for a
\* provider without a default.
Panics(c, doc) ==
  command[c].does = "setup" /\ command[c].provider = "fixed" /\ doc.url = ""

\* Setup writes the commented scaffold first if there is no file.
ReadFile(c) ==
  /\ command[c].pc = "read"
  /\ IF Panics(c, file) THEN ConfigStep(c, NoCommand)
     ELSE ConfigStep(c, [command[c] EXCEPT !.pc = "open", !.doc = Changed(c, file)])
  /\ UNCHANGED <<file, env, byHand>>

\* fs::write: the file is emptied, then written.
OpenFile(c) ==
  /\ command[c].pc = "open"
  /\ file' = Empty
  /\ ConfigStep(c, [command[c] EXCEPT !.pc = "write"])
  /\ UNCHANGED <<env, byHand>>

WriteFile(c) ==
  /\ command[c].pc = "write"
  /\ file' = command[c].doc
  /\ ConfigStep(c, NoCommand)
  /\ UNCHANGED <<env, byHand>>

\* An error, ^C, or a crash.
EditEnds(c) ==
  /\ command[c].pc # "idle"
  /\ ConfigStep(c, NoCommand)
  /\ UNCHANGED <<file, env, byHand>>

\* set-key --env-file, and `source` of the file it writes: what it does not
\* export, earlier ones may have.
SourceEnvFile(p) ==
  /\ env' = ApplyProviderConfig(env, p, KeyFor(p)) /\ byHand' = FALSE
  /\ UNCHANGED <<file, command>>

\* Without the command: export ISARTOR__LLM_PROVIDER=... and the key, and for
\* Azure and Ollama the URL or not.
ExportByHand(p) ==
  /\ \E url \in {env.url} \cup ({p} \cap {"azure", "ollama"}) :
       env' = [provider |-> p, url |-> url, key |-> KeyFor(p)]
  /\ byHand' = TRUE
  /\ UNCHANGED <<file, command>>

NewShell ==
  /\ env # Empty
  /\ env' = Empty /\ byHand' = FALSE
  /\ UNCHANGED <<file, command>>

ConfigNext ==
  \/ \E c \in Commands :
       \/ RunEdit(c) \/ RunSetup(c) \/ ReadFile(c)
       \/ OpenFile(c) \/ WriteFile(c) \/ EditEnds(c)
  \/ \E p \in Providers : SourceEnvFile(p) \/ ExportByHand(p)
  \/ NewShell

ConfigSpec == ConfigInit /\ [][ConfigNext]_configVars
-----------------------------------------------------------------------------
(* Properties.                                                             *)

Owners == Providers \cup {"", "openai"}
Documents ==
  [provider : Providers \cup {""}, url : Owners, key : Owners]

\* Every variable holds a value of its type, and neither isartor.toml nor the shell
\* ever has a key or a URL without a provider that goes with it
\* (cli/set_key.rs, apply_provider_config and apply_model_alias).
ConfigTypeOK ==
  /\ {file, env} \subseteq Documents /\ byHand \in BOOLEAN
  /\ \A doc \in {file, env} : doc.provider = "" => doc = Empty
  /\ \A c \in Commands :
       /\ command[c].pc \in {"idle", "read", "open", "write"}
       /\ command[c].provider \in Providers \cup {""} /\ command[c].doc \in Documents
       /\ command[c].key \in Owners

\* A key is shown to nobody but its provider.  Whose key a secret file holds is
\* for the user to say; a gateway that is told nothing takes it for OpenAI's.
AtHome(shown) ==
  shown.key \in {"", shown.to} \/ (shown.key = Secret /\ Secret # "openai")

\* A gateway or a check that starts in this shell sends no provider's key to
\* another one, whatever commands overlapped, died half way or were repeated:
\* provider, URL and key are three settings from two places, and only Azure's
\* are checked against each other (config.rs:607).  `isartor providers` and
\* /debug/providers name the endpoint that is asked
\* (docs-site/src/configuration/reference.md:127).  With a provider and a key
\* exported by hand the URL may be anyone's: then it still holds of checks, and
\* of the chats of those that do not go by it or have theirs checked.  Nor does
\* setup, which checks nothing, send a key abroad with what it is about to
\* write, unless something else is exported.
KeyGoesHome ==
  LET c == Loaded(env, file)
  IN  /\ Validated(c) =>
           /\ \A shown \in CheckPings(c, FALSE) : AtHome(shown)
           /\ c.provider \notin {"openai", "compat"} => AtHome(Chat(c))
           /\ ~byHand =>
                /\ \A shown \in {Chat(c)} \cup Passed(c) : AtHome(shown)
                /\ StatusEndpoint(c) = AgentEndpoint(c)
      /\ \A e \in Commands :
           command[e].pc = "write" /\ command[e].does = "setup" /\ env = Empty =>
             \A shown \in SetupPings(Loaded(env, command[e].doc)) : AtHome(shown)

\* The reference has a user export a provider and its key, and says that the
\* providers "ship with built-in default endpoints now"
\* (docs-site/src/configuration/reference.md:119 and 208): with them no key goes
\* to another provider either.  Nothing but set-key and setup puts those defaults
\* in: the agent asks the configured URL, OpenAI's if there is none
\* (state.rs:806), and so do Copilot's requests with tools (handler.rs:144).
ExportedKeysGoHome ==
  LET c == Loaded(env, file)
  IN  Validated(c) => \A shown \in {Chat(c)} \cup Passed(c) : AtHome(shown)
=============================================================================
