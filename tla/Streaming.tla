------------------------------ MODULE Streaming ------------------------------
(***************************************************************************)
(* Answers in the form a client asked for.  Handlers answer in JSON, the   *)
(* exact cache keeps what they answer, and the cache middleware turns it   *)
(* into server-sent events on the way to a client that streams.  The cache *)
(* key knows whether a request carries tools but not whether it streams.   *)
(* Requests with tools are passed to the provider as they are.             *)
(***************************************************************************)
CONSTANTS Endpoints,  \* "openai", "anthropic", "native"
          Tooling,    \* whether requests carry tools, set of BOOLEAN
          Texts       \* the texts of answers; "" is one

VARIABLES
  provider,   \* what the provider last answered
  filler,     \* whether the request it answered was streaming
  cache,      \* the bodies the exact cache holds for one question
  reply       \* the latest reply

streamVars == <<provider, filler, cache, reply>>

Questions == {q \in Endpoints \X Tooling : q[2] => q[1] = "openai"}

\* A body: its form, the text of the message ("none" for null) and its calls.
NoText  == "none"
Bodies  == [form : {"json", "events"}, text : Texts \cup {NoText},
            calls : {"none", "tools", "function"}]
Body(form, text, calls) == [form |-> form, text |-> text, calls |-> calls]
NoBody  == Body("json", NoText, "none")

\* send_openai_passthrough_request sends "stream" along with the tools, and the
\* provider answers in kind, unless it does not stream.
PassedThrough(streaming) ==
  {b \in Bodies : b.form = "events" => streaming}

\* Other bodies are built here, from the text of the provider's answer.
BuiltHere == {Body("json", text, "none") : text \in Texts}

ProviderBodies(q, streaming) == IF q[2] THEN PassedThrough(streaming) ELSE BuiltHere

StreamInit ==
  /\ provider = [q \in Questions |-> NoBody]
  /\ filler = [q \in Questions |-> FALSE]
  /\ cache = [q \in Questions |-> NoBody]
  /\ reply = [to |-> <<"none", FALSE>>, streaming |-> FALSE, body |-> NoBody]

\* openai_sse and anthropic_sse.  A text, even an empty one, is all that is
\* sent; without one the calls are, as tool calls.  What is not JSON, or has
\* neither, goes out as it is.
CachedToSse(q, b) ==
  CASE b.form = "json" /\ b.text # NoText -> Body("events", b.text, "none")
    [] b.form = "json" /\ b.text = NoText /\ q[1] = "openai" /\ b.calls # "none" ->
         Body("events", NoText, "tools")
    [] OTHER -> b

FormFor(q, streaming, b) ==
  IF streaming /\ q[1] \in {"openai", "anthropic"} THEN CachedToSse(q, b) ELSE b

Reply(q, streaming, b) ==
  reply' = [to |-> q, streaming |-> streaming, body |-> b]

\* Mutant: what was sent is stored.
MutantStored(q, streaming, b) == FormFor(q, streaming, b)

Stored(q, streaming, b) == b

StreamMiss(q) ==
  /\ cache[q] = NoBody
  /\ \E streaming \in BOOLEAN : \E b \in ProviderBodies(q, streaming) :
       /\ provider' = [provider EXCEPT ![q] = b]
       /\ filler' = [filler EXCEPT ![q] = streaming]
       /\ cache' = [cache EXCEPT ![q] = Stored(q, streaming, b)]
       /\ Reply(q, streaming, FormFor(q, streaming, b))

\* Errors are passed on as they are and not stored.
StreamError(q) ==
  /\ cache[q] = NoBody
  /\ \E streaming \in BOOLEAN : Reply(q, streaming, NoBody)
  /\ UNCHANGED <<provider, filler, cache>>

StreamHit(q) ==
  /\ cache[q] # NoBody
  /\ \E streaming \in BOOLEAN : Reply(q, streaming, FormFor(q, streaming, cache[q]))
  /\ UNCHANGED <<provider, filler, cache>>

StreamEvicts(q) ==
  /\ cache[q] # NoBody
  /\ cache' = [cache EXCEPT ![q] = NoBody]
  /\ UNCHANGED <<provider, filler, reply>>

StreamNext ==
  \E q \in Questions : StreamMiss(q) \/ StreamError(q) \/ StreamHit(q) \/ StreamEvicts(q)

StreamSpec == StreamInit /\ [][StreamNext]_streamVars
-----------------------------------------------------------------------------
(* Properties.                                                             *)

\* Every variable holds a value of its type.
StreamTypeOK ==
  /\ \A q \in Questions : provider[q] \in Bodies /\ cache[q] \in Bodies
  /\ filler \in [Questions -> BOOLEAN]
  /\ reply.to \in Questions \cup {<<"none", FALSE>>} /\ reply.body \in Bodies

\* A client that does not stream gets the provider's body, whoever filled the
\* cache and in whatever form that client got it (middleware/cache.rs:324): the
\* body is JSON, as the comment there says of all, unless a streaming request with
\* tools fetched it.
FormAsAsked ==
  reply.to \in Questions /\ reply.body # NoBody /\ ~reply.streaming =>
    /\ reply.body = provider[reply.to]
    /\ reply.body.form = "events" => reply.to[2] /\ filler[reply.to]
=============================================================================
