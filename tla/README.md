# Isartor: models, checks and proofs

Isartor is an AI gateway. Clients send it chat requests in one of three formats; it
answers from a cache or a small local model where it can, and forwards the rest to a
cloud LLM. This directory holds TLA+ modules for the parts of it that keep state and
interleave, the TLC configurations that check them on small instances, and theorems
about them that TLAPS proves for every instance. Paths below are relative to the
repository; `DS` stands for `docs-site/src`.

## 1. The system

| Component | State it keeps | Operations | Where |
|---|---|---|---|
| Deflection stack, Layer 1 | none of its own; reads and writes both caches | lookup before, capture after the inner layers | `src/middleware/cache.rs`, `src/core/cache_scope.rs`, `src/core/prompt.rs` |
| Exact cache (L1a) | LRU list | `get` (promotes), `put` (evicts) | `src/layer1/layer1a_cache.rs` |
| Vector cache (L1b) | entries with embedding, scope, time | `search`, `insert` (expires, evicts) | `src/vector_cache.rs` |
| Layer 2 triage | none | classify, answer, quality guard | `src/middleware/slm_triage.rs` |
| Embedded model | weights with their key-value cache, behind a mutex | classify, generate | `src/services/local_inference.rs` |
| Layer 2.5 optimiser | last instructions per session | classify, deduplicate, minify | `src/middleware/context_optimizer.rs`, `src/compression/` |
| Layer 3 handlers, retry, health | provider health counters | offline refusal, retry loop, stale fallback | `src/handler.rs`, `src/core/retry.rs`, `src/state.rs` |
| Streaming | none; the form of what is cached | JSON to server-sent events | `src/middleware/cache.rs`, `src/openai_sse.rs`, `src/anthropic_sse.rs` |
| MCP cache handlers | the same caches | lookup, store | `src/handler.rs:847-1041` |
| MCP servers | session registry; JSON-RPC dispatch | initialize, call, delete; one line at a time on stdio | `src/mcp.rs`, `src/cli/mcp.rs`, `src/handler.rs:1044-1299` |
| Copilot provider | saved credential | device flow, token exchange, completion | `src/providers/copilot.rs` |
| Visibility | counters and a ring under one mutex | events, summaries, `/health` | `src/visibility.rs`, `src/health.rs` |
| Request log | `requests.log` and its rotations | append, rotate, follow | `src/core/request_logger.rs`, `src/cli/logs.rs` |
| Configuration | `isartor.toml`, environment | load, validate, set-key, set-alias, setup | `src/config.rs`, `src/cli/set_key.rs`, `src/cli/setup.rs` |
| Start-up and shutdown | PID file, port | up, stop, restart, demo | `src/main.rs`, `src/cli/stop.rs`, `src/demo.rs` |
| Update | the installed binary and its backup | find, download, replace | `src/cli/update.rs` |
| Client connectors | configuration files of twelve clients, backups, `connections.json` | connect, disconnect, dry run | `src/cli/connect/` |
| Concurrency limiter (L0) | two atomics, latency window | try_acquire, release, drop | `src/pipeline/concurrency.rs` |
| Pipeline orchestrator | vector store, limiter | `execute_pipeline` | `src/pipeline/orchestrator.rs` |
| CONNECT proxy | ring of decisions; shares both caches | intercept, deflect, forward, tunnel | `src/proxy/connect.rs` |
| Authentication, adapters, proxy CA, status reports | see section 6 | | |

Interaction. A request passes body buffering, authentication, monitoring, the cache
middleware, triage, the optimiser and a handler, each awaiting the next; the answer
passes back through them, and each layer leaves its events in the counters. Requests
share the two caches (one behind a mutex, one behind an RwLock), the instruction cache,
the embedded model and the health map; no lock is held across an await, so every
request sees what others did meanwhile, and a client that leaves ends its request at
whichever await it stands, though not the generation it has started. The MCP handlers
and the CONNECT proxy use the same caches with keys they compute in their own way; the
stdio MCP server reaches them over HTTP. The orchestrator is an older generic form of
the same stack, guarded by the limiter. Neither it nor the proxy is started by a command
of this commit (`UpArgs::startup_mode` at `src/cli/up.rs:39` always chooses the gateway
alone): they are public library code with tests of their own, and are modelled as such.
The commands (connectors, configuration, stop, update, logs) are processes of their own
that share files with the gateway, with each other and with the user, mostly without
locks.

What is hard, and what makes each part correct:

- **Deflection stack**: lookup and capture are far apart in time, the optimiser
  rewrites the body in between, a failed call may be hidden by a stale entry. Correct:
  every 200 is justified by key or by one similarity hop, sessions and formats do not
  mix, health counts what happened, repeats are deflected, every request ends.
- **Optimiser**: it remembers across turns, before it is known whether the turn
  reaches the model, and drops lines. Correct: a reference is only sent for what was
  delivered; no instruction is lost.
- **Embedded model**: generations outlive their requests and share weights that
  remember. Correct: each sees its own context; who waits is served.
- **Streaming**: the cache does not know in which form an answer was asked for.
  Correct: who does not stream gets JSON.
- **MCP**: sessions, batches, notifications and timeouts against a gateway that
  restarts. Correct: one reply per request, in order, and what is told is true.
- **Visibility and log**: several counters and files, updated at different moments by
  tasks that may be dropped. Correct: the reports agree with the traffic, one record per
  exchange, nothing shown twice.
- **Configuration**: provider, URL and key are three settings from two places, written
  by three commands. Correct: no key is sent to another provider.
- **Start and stop**: a number in a file stands for a process. Correct: the server that
  serves can be stopped; a command returns.
- **Update**: a file is replaced in several steps. Correct: one complete binary is left.
- **Limiter**: two atomics and a lock that are not one step, futures dropped at any
  await. Correct: exact counter, bounded admission, a limit in range that recovers and
  ignores an outlier.
- **Orchestrator**: eight early returns, each of which must give the permit back once.
- **Proxy**: three ways a connection can take, a client that is gone when its answer
  arrives. Correct: only what may be kept is kept, under the right key, whether or not
  the client waited; every connection leaves one decision.
- **Connectors**: commands repeated, interrupted, failing midway, files that do not
  parse. Correct: the user's settings can always be recovered, a disconnect leaves
  nothing behind, the record tells the truth.

PROJECT.json lists the hazards one by one at their lines.

## 2. Modules

| Module | Models | Read it with |
|---|---|---|
| `LruCache` | L1a as a sequence of entries, most recent first | `layer1a_cache.rs` |
| `SemanticStore` | L1b as a set of entries with insertion numbers; `Score` is any similarity | `vector_cache.rs`, `pipeline/implementations/vector_store.rs` |
| `CacheKeys` | keys and embedded texts as the tuples that are hashed or embedded | `cache_scope.rs`, `prompt.rs`, `middleware/cache.rs:101-125` |
| `Gateway` | the deflection stack and the MCP cache handlers; one request is one program counter, one action the code between two awaits | `middleware/*.rs`, `handler.rs`, `retry.rs` |
| `ConcurrencyLimiter` | one action per atomic operation or critical section; counters wrap at `U64` | `concurrency.rs` |
| `Pipeline` | `execute_pipeline` over `SemanticStore`, its steps taken together with those of an instance of `ConcurrencyLimiter` | `orchestrator.rs` |
| `ConnectProxy` | connections beside a gateway writer over `LruCache` and `SemanticStore` | `proxy/connect.rs` |
| `ClientConnect` | each connector as the sequence of its steps; one action per kind of step, two where a file is emptied and then written | `cli/connect/*.rs` |
| `McpSessions` | POST tasks over the session registry, and the stdio server against a gateway that restarts | `mcp.rs`, `cli/mcp.rs`, `handler.rs` |
| `Lifecycle` | processes, the port and the PID file; stop and restart step by step | `main.rs`, `cli/stop.rs` |
| `SelfUpdate` | the binary and its backup, one action per system call that matters | `cli/update.rs` |
| `ConfigFile` | three overlapping commands on `isartor.toml`; who is asked with which key | `config.rs`, `state.rs`, `set_key.rs`, `setup.rs` |
| `CopilotAuth` | device flow, validation, token exchange | `providers/copilot.rs`, `claude_copilot.rs` |
| `Visibility` | counters, recent list and `/health` beside requests of three surfaces | `visibility.rs`, `monitoring.rs` |
| `RequestLog` | exchanges, rotation and follower between system calls | `request_logger.rs`, `cli/logs.rs` |
| `Streaming` | form, text and tool calls of a body: answered, cached, translated | `middleware/cache.rs`, `*_sse.rs` |
| `Compression` | texts as sequences of kinds of lines through the three stages | `compression/` |
| `LocalInference` | generations, the model's mutex and what its weights hold | `local_inference.rs`, `slm_triage.rs` |
| `MCServices` | the modules above this row from `McpSessions` on, one at a time, see below | |
| `Deflection` | abstract: what any deflection stack promises, with its own theorems; `Gateway` and `ConnectProxy` implement it | section 4 |
| `CacheLemmas`, `GatewayProofs`, `ConcurrencyLimiterProofs`, `PipelineProofs`, `ConnectProxyProofs`, `ServiceProofs`, `CommandProofs` | theorems, see section 4 | |
| other `MC*` | instances for TLC | |

Correspondence worth knowing:

- `Gateway`: `pc` is the await a request stands at (`"exact"`, `"embed"`, `"search"` in
  the cache middleware on the way in; `"classify"`, `"slm"` in triage; `"optimize"`;
  `"dispatch"`, `"await"`, `"backoff"`, `"fallback"` in the handler and the retry loop;
  `"capture"`, `"insert"` on the way out; `"store"`, `"store_embed"` in the MCP store).
  `reply` is the response travelling back. `vec` is the embedding kept from the
  lookup; if the embedding failed the answer is not inserted. `sent` is what the
  optimiser made of the body, which is what the handlers and the stale fallback see.
  `seen` is `InstructionCache`. `delivered` is a history variable and no code reads it.
  `Cancel` drops a request's future at any await.
- `Deflection` knows requests, what each has been given (`given`) and whose answers are
  kept (`kept`), and no layers. A request that waits may be given its own new answer
  (`Produce`), one that is kept and that it may share (`Reuse`), or nothing (`Refuse`);
  what has been given may be kept (`Keep`). The mapping of `Gateway` and `ConnectProxy`
  reads `given` off the replies and `kept` off both caches at once. `MayShare` is what the
  code means by "the same or a similar request": equal keys, or one similarity hop.
- Texts are model values. A prompt, instructions, a model name or a session are
  distinguished, never spelled. `Score` is a constant function on embedded inputs, so
  every statement about semantic hits holds for every embedder; the instances use one
  with similar, dissimilar and transitively similar texts.
- `ConnectProxy`: `"chat"` requests go through the proxy's own layers, `"empty"` ones
  (no prompt) and `"pass"` ones (other paths) straight to the upstream, `"tunnel"` is a
  domain that is not intercepted, `"bad"` is not a CONNECT, and `"gateway"` stands for
  the gateway's capture into the shared caches.
- `ClientConnect`: a file's content is the version of the user's own settings in it
  (`text`, 0 for none), whether it parses (`ok`), and whose Isartor settings it holds
  (`keys`). `Empty` is a file without a byte in it: the backup that `backup_file` writes
  for a missing original, and what a file is between the two halves of
  `std::fs::write`, which empties it before it writes; `pending` is what follows, and is
  lost if the command is killed there. `BlankIsRead` are the files whose readers take no
  byte for no settings; the others do not parse then. A write that stops half way is
  taken for one that has not begun. The step names say what a handler does with each file: a backup made each
  time, once, or only of a file that exists; a write that starts anew, merges or owns
  the file; what a probe must answer; what a disconnect does without a backup.
- `McpSessions`: the cache handlers, which `Gateway` has in full, are a table from
  prompts to texts here; `stored` remembers every pair that ever entered it, so that
  evictions and restarts of the gateway do not make a late answer false. A call of the
  stdio server is asked, handled and answered in three steps, and may time out in
  between while the gateway goes on.
- `Lifecycle`: `proc` is the process table. A number whose process has ended may be
  given to somebody else's process (`"foreign"`, or `"protected"`, which kill(2) may not
  look at). `hidden` are the servers whose PID file could not be written or was removed
  by a stop meant for an earlier one: what the code does, and the two exceptions
  `ServerFindable` makes.
- `ConfigFile`: a URL and a key are named after the provider they belong to, so a key
  is at home when it is shown to the URL of its own name. Providers stand for kinds:
  `"compat"` for the OpenAI-compatible ones with a URL of their own, `"fixed"` for those
  whose client knows its URL, `"copilot"` for Copilot, which has both, `"azure"` for a
  deployment URL. `env` is the shell that a gateway or a check would be started from;
  `byHand` is a history variable that tells whether its provider and key were exported
  without `set-key --env-file`. A chat goes to `AgentEndpoint`, a request with tools to
  `ToolUrl`, each with a key.
- `Visibility`: an event is counted when the code records it and the summary when the
  response has passed the monitoring middleware. A failing call is counted as the code
  counts it, by the retry loop and again by the handler. The model takes the embedder to
  work: its failure is one more event of the same counter.
- `RequestLog`: a record is three pieces (the JSON in two writes, the newline), because
  `serde_json::to_writer` writes to the file directly. Names lead to files, and a writer
  holds the file, not the name.
- `Streaming`: what matters of a body is its form (`"json"` or `"events"`), text and
  tool calls. Requests with tools are passed through as they are.
- `Compression`: a line is a kind, by where text and the two ends of a comment are on it.
  The minifier (`MinifyLine`) goes by how a line begins and ends. What a text says
  (`Saying`) goes by HTML instead, where a comment reaches from `<!--` to the next `-->`
  wherever they are. The two disagree on the lines in `AtRisk`: those that have text
  behind or between comments, and those below a line that the minifier takes for the
  beginning of a comment. `CompressionKeeps` is about all other lines, and
  `text_lost` shows what becomes of these.
- `LocalInference`: the weights hold a sequence of tokens with positions; a prompt
  counts as one token.

`MCServices`. These ten modules share nothing at run time that another one of them
reads, so composing them freely would multiply their states to no purpose.
`MCServices` picks one of them (`service`) at the start of a behaviour and runs only it:
the states add up, and every property is checked over all reachable states of its part.
It is a run of ten specifications in one, and says nothing about parts that move at the
same time.

Operators named `Mutant...` are deviations of the operator that follows them. No
specification uses them; PROJECT.json pairs each property with one that breaks it.

## 3. Runs

| Run | Instance | Question |
|---|---|---|
| `gateway_both` | 3 requests, both caches of capacity 1, expiry, SLM, 1 attempt | do answers stay justified, sessions apart, caches well formed under eviction, expiry, stale fallback and disconnects? |
| `gateway_mcp` | 3 requests, MCP store and lookup beside chat, semantic mode, offline | is every answer first-hand or one that is kept, and no refusal ever kept: does the gateway implement `Deflection` where many requests are turned away? |
| `gateway_loops` | 2 requests of one session over the chat routes, optimiser on, 2 attempts, fairness | can one endpoint serve another's format? does health count each loop once? do calls follow the retry policy, are repeats deflected, does every request end? |
| `limiter` | two scenarios: 3 calls at limit 1 to 2; 2 calls and a window of 10, fast and slow latencies | is the counter exact and admission bounded in every interleaving? does the limit stay in range, ignore one outlier, recover? |
| `pipeline_hits` | 3 requests, prompts 1-2-3 similar to their neighbours, store of 1, limit 2 | do hits stay within one hop? does every return, refusal and cancellation give the place at the limiter back, once? |
| `proxy_shared` | 3 connections of all kinds, and the gateway, 3 keys, capacities 2 and 1, ring of 2 | are answers justified, stored for their owner, kept when the client is gone, and recorded once? does the proxy implement `Deflection`? |
| `clients` | each of 12 clients alone, and the two sharing a file; 2 edits, kills between any two steps | do backups stay clean, disconnects leave nothing, user settings survive a connect, and the record tell the truth? |
| `services` | the ten parts of `MCServices`, one at a time, each as below | see the next table |
| `gateway_dedup_delivery` | 2 turns of a session | finding, see section 5 |
| `limiter_double_release` | 2 calls, releases may be abandoned | finding, see section 5 |
| `key_abroad` | 3 kinds of providers, one command | finding, see section 5 |
| `text_lost` | texts of 2 lines, one turn | finding, see section 5 |

The parts of `services`:

| Part | Instance | Properties |
|---|---|---|
| mcp | 2 POSTs with batches of up to 3 messages (requests, notifications, malformed ones, handshakes), 1 session, 1 line on stdio, 1 restart | `BatchAnswered`, `ToldIsTrue`, `ServicesAnswer` |
| life | 2 process numbers, 3 starts, 1 poll, first run | `ServerFindable`, `CommandsReturn` |
| update | any number of updates, forced, dry, proxied, killed anywhere | `BinaryKept` |
| config | 2 overlapping commands, 2 kinds of providers, keys in the file, exported by `set-key` or by hand, or in a secret file | `KeyGoesHome` |
| copilot | a device code of 2 intervals, GitHub answering anything, tokens revoked | `CommandsReturn` |
| counters | 2 requests on 3 surfaces, 2 attempts, a ring of 2 | `CountsAgree` |
| log | 2 exchanges, rotation at 2 pieces, 2 rotations, a follower | `LoggedOnce`, `FollowNeverRepeats` |
| stream | 2 endpoints, with and without tools | `FormAsAsked` |
| compress | all texts of up to 3 lines of 10 kinds, with and without a session, 2 turns | `CompressionKeeps` |
| inference | 2 requests, 2 and 3 tokens | `OwnContext`, `ServicesAnswer` |

Why the bounds are enough. A wrong answer in the gateway needs a producer, something
between, and a consumer: three requests, and capacity 1 makes each of them evict the
others; two requests are a turn and its repeat. A limit of 2 with 3 calls lets two calls
be inside or releasing while the third is refused and the limit moves; the window of 10
is the least at which the limiter adapts. Three prompts in a row are the least on which
similarity could drift. Two edits let a user create a file and change it once between
any two commands; the number of commands is not bounded. Two process numbers and three
starts let a number be used again by a server and by a stranger while a stop waits. Two
commands are one more than any of them expects. Two exchanges and a full file let both
rotate at once. A text of three lines opens, fills and closes a comment. Of the kinds of providers
`services` takes the two whose keys could go astray; the theorem is about all. The proxy run
leaves out proxied requests that declare tools, and paraphrases, to stay small: the
gateway runs have such requests, and the theorems hold for every set of inputs. `MaxTime`, `MaxEdits`, `U64`, `MaxStarts`,
`MaxPolls`, `MaxLines`, `MaxSessions`, `MaxRestarts`, `MaxTurns`, `MaxTextLines`,
`ExpiresIn` and the sets of requests, calls and connections are the only artificial
bounds; time is only compared with `Ttl`, and the cache capacities, ring and window are
parameters of the code.

Deadlock is checked everywhere but in `services`, `key_abroad` and `text_lost`, where a part really stops: an MCP
server whose input has ended, requests that have all been answered. In the other runs
`Quiescent` stutters where everything has been answered; the limiter and the connectors
never stop. A request (and a connection) is used once, so a repeat is a second request
with the same input.

Two properties say less than one would wish, because the code does not do more.
`KeyGoesHome` promises nothing of chats and requests with tools of the providers whose
URL is configured (`"openai"`, `"compat"`) once provider and key have been exported by
hand, nothing of what `/debug/providers` then names, and nothing of Copilot's requests with
tools then: the URL may still be anyone's (`key_abroad`). It takes the user's word for
whose key a secret file holds. `UserTextKept` excuses a kill between the two halves of a
write (`src/cli/connect/mod.rs:485`), for every client but `claude`, which copies the
file each time before it writes: the others have at most the backup of an earlier
connect, and what the user has written since then is gone with the kill. A backup
that is torn in the same way reads as "there was no file", so that the next disconnect
removes the user's file; this happens in a disconnect, of which the property says
nothing.

Fairness. `Gateway!FairSpec` has weak fairness on the steps of each request: Tokio
polls every live request, the embedding runs on the blocking pool to its end, and both
HTTP clients have timeouts (`l3_timeout_secs`, the sidecar's), so an await ends. Arrivals and
disconnects are not fair. `Recovers` makes its assumptions in the formula (no slow call
from some time on, calls completing again and again) and needs none in the
specification. `LifeFairness` asks for the steps of `isartor stop` alone, and nothing of
the process it waits for; `CopilotFairness` for the steps of the sign-in, where every
HTTP call ends and nobody need ever enter the code; `McpFairness` for the stdio server,
whose calls have a timeout of three seconds, and not for the gateway;
`InferenceFairness` for the threads that hold or wait for the model together, and for
none of them in particular. The other modules are checked for safety alone; the proxy's
upstream client has no timeout, so nothing may be assumed there.

## 4. Proofs

TLAPS proves the following for all values of the constants, under the named assumptions
that the modules make on them (capacities, attempts, limits and sizes are what the
configuration admits) and those named below. `CacheLemmas` holds what get, put, search
and insert do to the entries, the keys and the capacity; the gateway and proxy proofs
cite them.

**The promise of a deflection stack** (`Deflection`, `GatewayProofs`,
`ConnectProxyProofs`).

- `AnswersAreFirstHand`, `AnswersAreFinal` are about the abstract specification: every
  answer was made for a request with which it may be shared and which was given it
  first, only what was given is kept, and nothing given changes. The invariant is its own
  strengthening: a reused answer is kept, and what is kept has been given.
- `GatewayKeepsThePromise` and `ProxyKeepsThePromise` are refinements: each action maps to
  one of the four abstract ones or to a stutter. Hits and the stale fallback map to
  `Reuse`, answers of the SLM and the upstream and MCP stores to `Produce`, refusals, 502s
  and MCP lookups that miss to `Refuse`, captures and inserts to `Keep`. They rest on the
  invariants below, which say whose answer a cache entry is, on `LoopOK` and `WaitOK` (who has not been answered has no reply yet, so a request is
  given something once) and on what get, put and insert do to the answers held
  (`PromoteValues`, `PutValues`, `InsertKeeps`): a lookup forgets none, and a write adds
  only the one it writes.
- `GatewayAnswersFirstHand` and `ProxyAnswersFirstHand` bring the abstract theorems back to
  the code. They say what `AnswersAreJustified` does not: the order. No interleaving of
  lookups, captures, evictions and disconnects serves an answer before it has been given to
  the request it was made for, or replaces one. The justification by layer stays with
  `AnswersAreJustified`, which is stricter on what each layer may serve.

**Gateway** (`GatewayProofs`), for any set of requests, an
infinite one included.

- `AnswersAreJustified`, `SessionsAreIsolated`, `TypeCorrect`. A reply is only as good as
  the cache entry it came from, so `AnswersJustified` is not inductive. `SoundInv` adds
  that every entry of the exact cache holds an answer to a request with its key, every
  entry of the vector cache one to the request that inserted it, with its text and
  session, and that a request about to store its reply carries an answer to itself.
  Lookups are then one hop from a justified entry, and a hit goes to `"done"` without
  passing `"capture"`, which is why hops do not add up. The stale fallback keeps the
  argument because its key is the request's own.
- `CallsAreDisciplined` (an action property; no run combines it with offline mode, so
  that part of it rests on the theorem). `LoopOK` ties the state of the retry loop to where
  the request stands: who has not been answered has no outcome, whoever waits for the
  upstream is not offline, and a 502 has failed.
- `HealthIsAccurate`. `AccountsInv` adds that the counters are the cardinalities of the
  sets of requests whose loop succeeded or failed, and that what the caches hold was
  fetched by a request whose loop succeeded or that had no loop.
- `CachesStayWellFormed`. `ShapeOK` gives each entry of the vector cache a number of its
  own below the next one, so the entry that is evicted is the one inserted first.
- `OtherLayersAnswerTheRequest`. A step that is not a semantic hit leaves the reply
  keyed (`KeyedStep`), whatever `Score` is. That a semantic hit keeps to the format of the
  asking endpoint too (`OwnFormat`) is no theorem: nothing in the code enforces it, since
  the namespace is only a prefix of the embedded text. It rests on the scores of the
  embedder, and the run shows it for those of `MCScore`.
- `RepeatsAreDeflected`, under `RoomForEveryKey`: the exact cache is in use and has room
  for the key of every request, whichever requests are sent (in `gateway_loops` two
  requests and a capacity of two). Then no step forgets a key (`NothingForgotten`), and
  `KeptOK` says that the exact cache keeps the question behind every entry of the vector
  cache and behind what anyone is about to insert or has been answered. A repeat that
  has not arrived yet is `Trapped` from then on. The property is about the request an
  answer was produced for: one that a similar request has answered is not stored under
  its own key, and its own repeat may go upstream when the similar answer has expired.

**Limiter** (`ConcurrencyLimiterProofs`).

- `LimitStaysInRange`, `CounterIsExact`, `CeilingHolds`. The counter is exact because
  every counted phase is entered by the increment and left by one decrement. The ceiling
  needs more: among the counted calls at most `n` hold a ticket below `n`
  (`TicketsSpread`), and whoever is inside found the limit above its ticket
  (`InsideEarly`). The last two are about `PatientSpec`, in which no release is
  abandoned; without that condition the counter is wrong (section 5).
- `OutliersAreTolerated`. The percentile is defined as the least duration that enough
  samples do not exceed; that there is one is the least-number principle
  (`PercentileExists`), taken from the well-foundedness of the naturals because the
  library's own theorem takes a predicate. If the limit falls, fewer samples than its
  rank are at most the target, and the rank in a window of ten or more leaves two above.

**Pipeline** (`PipelineProofs`).

- `PermitsAreGivenBack`: wherever a request stands, and on every way out, it holds a
  permit exactly while it works, and the counter counts the requests that work or ask,
  less one for every abandoned release (section 5). `PermitInv` ties each stage to a place in
  the limiter (`Place`), so that a return without its release leaves a request that is done
  and still inside. While no release is abandoned, each step is one of a patient caller
  of the limiter (`PatientlyCalled`), whose invariant bounds the work (`CeilingHolds`).
- `HitsStayOneHop`: every entry of the store holds an answer to its own prompt.

**Proxy** (`ConnectProxyProofs`).

- `ProxyTypeCorrect`, `ProxyAnswersJustified`, `ProxyStoresForOwner`. The invariant says
  which connection produced each entry of both caches, that its kind is one whose answers
  are kept, and that who is about to insert carries its own answer.
- `DecisionsAreOnce`, `AnswersAreKept`. `PathOK` says which kinds of connection can be at
  which step, and `RingOK` that a connection is in the ring at most once, only after its
  decision was due, and certainly then as long as the ring is not full.

**The services** (`ServiceProofs`).

- `ServicesAreSafe` and `ServicesAreTyped` collect the safety properties and the types
  that the run checks. They say no more than the theorems on the parts: one part moves in
  a behaviour, so it is one of each part. The types need what the invariants below leave
  open: the numbers of sessions (`SessionsMade`), who owns a port, which names lead to a
  file (`LogNamed`).
- `MinifiedSaysTheSame`, `CompressionIsFaithful`. The minifier is a fold over the lines,
  written as a recursive function (`LoopUnfolds`). What it has kept after each line is
  among the lines, in their order, and has all that say something and are not at risk
  (`LoopKeeps`); for this the proof carries along how the comment the loop is in relates
  to the one HTML has there (`LoopSeesComments`). What it makes is a fixed point
  (`MinifiedIsStable`). Each is an induction over the lines, from the least line at which
  the statement would fail (`UpTo`), as with the percentile above.
- `ClientsAreToldTheTruth`, `BatchesAreAnswered`. `McpInv`: whatever is in the table,
  held by a task, on its way to the stdio server or told was stored; the replies of a
  batch are to its messages before the next one that ask for one, in order.
- `FormsAreAsAsked`. `StreamInv`: what the cache holds is the provider's body, and that is in
  events only if a streaming request with tools has fetched it.
- `ContextsAreOwn`. Whoever computes holds the mutex; while it decodes, the weights hold
  its prompt at position 0 and its tokens behind it, because the pass at position 0
  starts afresh. Rests on `CallersAssumption` (the free mutex is no request).
- `KeysGoHome`, for any set of providers and commands.
  A document that names a provider has that provider's key (`Keyed`), exports by hand
  included; the ones on disk, those that commands are about to write and those exported by
  `set-key` also have its default URL, if it has one (`Fits`). What is loaded from both
  has the key of whom it asks (`LoadedKeyed`), and the URL as well unless the exports are
  by hand. Nothing is assumed of the user but whose key the secret file holds.
- `RecordsAreSingle`, `FollowingShowsOnce`. `LogInv` follows the pieces of an exchange
  through the step it stands at, the files and their rotations; what the follower has
  shown is in some file, and in the one it reads nothing beyond its offset has been shown.
- `ReportsAgree`. `CountInv`: each counter is the cardinality of a set of requests, told by where
  a request stands and which events it has still to record, and retries, with the failed
  calls that may still become some, are no more than errors.

- `ServersAreFindable`. The PID file is written only by the owner of the port, so the
  invariant adds that the port has one owner at a time; whoever removes the file under a
  serving owner makes it one of `hidden`.
- `LastBinaryIsKept`, `UpdateTypeCorrect`. Where the last complete binary is depends on
  the step: the invariant places it in the backup while the new one is copied and in the
  executed file otherwise.

**Client connectors** (`CommandProofs`).

- `BackupsStayClean`, `DisconnectsTakeTheirKeys`, `RecordsAreTrue`, `TextsAreKept`,
  `ClientTypes`. `ClientInv` says that a running command is at a suffix of the steps of
  its client (`JobOK`), that a client's settings are only in its own files (`KeysOwn`)
  and there only with a backup (`KeysBacked`), that what is about to be written to an emptied
  file is what the step at hand made of it (`PendingOK`), and that what the steps so far
  were to achieve has been achieved (`Progress`). It talks about the tables of steps
  (`Connects`, `Disconnects`) only where a step is looked up, so the cases are kinds of
  steps rather than clients.

The theorems about the parts of `MCServices` are theorems of their own
specifications (`LifeSpec`, `McpSpec`, `LogSpec` and so on).
Assumptions on constants that the proofs needed, and that the runs evaluate:
`BatchesAssumption` (a batch is a finite sequence of messages), `RotationsAssumption` and
`ExchangesAssumption` (a number of rotations, and exchanges with numbers of pieces),
`LinesAssumption` (the kinds of lines the code tells apart), `SecretAssumption` (the secret
is a key of somebody the configuration knows), `ProvidersAssumption` (the kinds of providers),
`ConfigAssumption` (the pipeline configures the limiter as that requires), and that bounds are numbers:
`CopilotAssumption`, `LifeAssumption`, `TokensAssumption`, `RecentAssumption`,
`MaxLinesAssumption`.

Model-checked only: liveness (`EveryRequestEnds`, `Recovers`, `CommandsReturn`,
`ServicesAnswer`), which is beyond the prover together with ENABLED, and `OwnFormat` (see
above). Every other invariant and safety property of an action that a passing run checks
is stated by a theorem.

## 5. Where code and documents disagree

Four runs end in a counterexample:

- `gateway_dedup_delivery`: the optimiser records a session's instructions before they
  are delivered. If that turn fails, is answered locally or its client leaves, the next
  turn carries "Follow the same instructions as before" to a model that never saw them.
- `limiter_double_release`: a `release` future dropped while it waits for the window's
  lock decrements twice, in spite of the comment that promises otherwise.
- `key_abroad`: the reference has a user export a provider and its key
  (`DS/configuration/reference.md:208`) and speaks of built-in endpoints (`:119`). Those of
  Cerebras, Nebius, SiliconFlow, Fireworks, NVIDIA and Chutes are only written by `set-key`
  and setup; with the exports alone the key goes to the default URL, OpenAI's
  (`src/state.rs:493` and `806`), while the status names the provider's own
  (`src/state.rs:159-218`). Copilot's requests with tools go there in the same way
  (`src/handler.rs:144`).
- `text_lost`: a line `<!-- x --> text` opens a comment block for the minifier
  (`src/compression/stages/log_crunch.rs:30`); its text and the lines below it, up to the
  next `-->`, never reach the model, against the "lossless" of its tests (`:169`).

Others met while modelling, which the modules reproduce as the code has them. In the
request path:

- Only the native handler has the stale fallback that `DS/concepts/deflection-stack.md:139`
  describes for Layer 3.
- A streaming request with tools is passed through and its events are stored in the exact
  cache, where clients that do not stream find them, against the comment at
  `src/middleware/cache.rs:324`. `FormAsAsked` says that this is the only way.
- A message with text and tool calls loses its calls when it is translated to events
  (`cached_to_sse_response` at `src/openai_sse.rs:140` looks for text first), where
  `DS/README.md:74` says that they are preserved.
- One failing call counts as two errors, by the retry loop and by the handler
  (`src/handler.rs:372`); a fatal error leaves the retries before it uncounted
  (`src/core/retry.rs:106`); a refusal in offline mode counts as cloud traffic.
- A decoding pass is given a position one too high (`src/services/local_inference.rs:529`),
  the first token is kept even if it is the end of the text, and a bound of 0 tokens
  yields one.
- The body of an upstream error is cached by the proxy like a success
  (`src/proxy/connect.rs:780`), and the orchestrator caches the text of a Layer 3 error
  (`src/pipeline/orchestrator.rs:432`) against its comment at 431.
- The proxy inserts Anthropic answers in the shared vector cache, where an OpenAI
  client can find them, against `CHANGELOG.md:178`. Offline mode does not stop tunnels,
  other paths and empty prompts in the proxy, against `DS/deployment/air-gapped.md:176`.
- An MCP session that is deleted between the check and the handling is answered all the
  same, and its GET stream stays open.

Keys and configuration:

- The status of Mira names the configured URL, although its client knows its own.
- `set-key ollama` leaves OpenAI's URL in place.
- setup's ping ignores `offline_mode` (`src/cli/setup.rs:720`, where `src/main.rs:988`
  looks at it) and the validation, panics for a provider without a default URL when the
  file has none (`setup.rs:438`), and writes keys of the environment or of secret files
  into `isartor.toml` for "keep current".
- isartor.toml is emptied before it is written, and read and written without a lock.

Commands:

- The connectors write with `std::fs::write`, which empties a file first
  (`src/cli/connect/mod.rs:485`): a kill in between leaves an empty file, and an empty
  backup is one of "no file" (section 3 says what `UserTextKept` makes of it).
- A client whose probe has failed is written to its files but not to `connections.json`
  (`src/cli/connect/mod.rs:437`).
- `self_replace` is called "atomic on Unix" (`src/cli/update.rs:351`); a kill between the
  rename and the end of the copy leaves no binary, or half of one, under its name. The
  backup is complete (`LastBinaryIsKept`), but nothing puts it back.
- `isartor stop` removes whatever PID file it finds when its own process has died; a
  server started meanwhile can then not be stopped by it (`src/cli/stop.rs:145`).
- The device flow treats `slow_down` like `authorization_pending`
  (`src/providers/copilot.rs:144`).
- The marker that the first run leaves is not what `is_first_run` looks for
  (`src/first_run.rs:10`).
- Two tasks that rotate at once shift the log twice, and the second loses a rotation;
  the follower misses what is written between its last poll and a rotation.
- `isartor connect claude` without a settings file, then `--disconnect`: nothing is
  restored, and the gateway's URL and token stay (`src/cli/connect/claude.rs:46` and
  `153`), against "restore original config" (`mod.rs:85`).
- Claude Code connected twice copies its own settings over the backup; Claude Desktop
  and OpenClaw do so when there was no file at the first connect
  (`src/cli/connect/claude_desktop.rs:333`, `openclaw.rs:639`). A disconnect then
  restores Isartor's settings.
- `--disconnect --dry-run` takes the client off `connections.json`
  (`src/cli/connect/mod.rs:431`), against "show what would change without writing
  files" (`mod.rs:89`); so does a disconnect that fails.
- `claude-copilot` backs a file up before it finds that the file does not parse
  (`claude_copilot.rs:445`); the backup stays and a later disconnect puts it back over what the
  user has repaired.
- Cursor and Copilot CLI replace an unparsable file without a backup; Copilot's entry
  in `allowed_urls` stays after a disconnect.
- `README.md:315` and `DS/configuration/reference.md:259` describe starting the proxy;
  `src/cli/up.rs` ignores it, and `CHANGELOG.md:278` says gateway only.

## 6. Not modelled

- Numeric kernels (embeddings, cosine similarity, loading and sampling of the embedded
  model): one step that succeeds or fails, or any token.
- Contents of prompts, classifier output, quality guard: nondeterministic outcomes.
- The layer implementations and stubs behind the orchestrator's traits: single HTTP
  calls or constants without state.
- `src/adapters`, `src/factory.rs`: Redis and vLLM adapters that nothing calls.
- The proxy's certificate authority: files written once at the start of a proxy that no
  command starts.
- Authentication: one comparison without state. Metrics and tracing: written, never read
  back. Reports (`stats`, `providers`, connection status): read and print.
- Formatting of TOML and JSON. In the connectors, comments lost by re-rendering JSON
  with comments are not counted as a loss of settings.
- I/O errors of the connectors (a full disk, missing permissions), their credential
  files, legacy clean-up and OpenClaw's agent registries; an edit by the client program
  during a command; two connectors at once.
- The GET stream of the MCP server, which carries keep-alives only.
- Panics on byte slices of keys and prompts (`src/state.rs:220-228`, `src/main.rs:977`,
  `src/demo.rs:460`, `src/cli/set_key.rs:119`): texts have no bytes here.

## 7. Plan

Done: the request path with its caches and keys, streaming, compression, the embedded
model and the counters; the limiter; the orchestrator; the proxy; the MCP servers; the
commands; the promise of a deflection stack and the proofs of section 4. What is left:

1. Two connectors at once on `connections.json`, which is loaded, changed and saved
   without a lock.
2. I/O errors of the connectors.
3. The tables by which commands print what others have written.
