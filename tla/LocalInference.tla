--------------------------- MODULE LocalInference ---------------------------
(***************************************************************************)
(* Layer 2 with the embedded engine: requests classify their prompts, and  *)
(* have simple ones answered, by one language model behind a mutex.  A     *)
(* generation runs on a thread of its own and keeps the model until it     *)
(* ends, also when the request that asked for it has been dropped.  The    *)
(* weights keep what they have been fed (the key-value cache of candle)    *)
(* from one generation to the next; a pass at position 0 starts afresh.    *)
(* A prompt counts as one token.                                           *)
(***************************************************************************)
EXTENDS Naturals, Sequences

CONSTANTS
  Callers,         \* requests that reach Layer 2; each does so once
  ClassifyTokens,  \* max_classify_tokens
  AnswerTokens     \* max_generate_tokens

VARIABLES
  ask,      \* the request: what it waits for, or how it ended
  gen,      \* its generation: stage, bound, tokens made, whether it went well
  holder,   \* who has the model's mutex, "nobody" if free
  kv        \* what the weights hold: tokens and their positions

inferenceVars == <<ask, gen, holder, kv>>

Nobody == "nobody"
ASSUME CallersAssumption == Nobody \notin Callers
ASSUME TokensAssumption == ClassifyTokens \in Nat /\ AnswerTokens \in Nat

NoGeneration == [pc |-> "none", bound |-> 0, made |-> 0, ok |-> FALSE]

InferenceInit ==
  /\ ask = [r \in Callers |-> "idle"]
  /\ gen = [r \in Callers |-> NoGeneration]
  /\ holder = Nobody /\ kv = <<>>

-----------------------------------------------------------------------------
(* What the classifier is taken to say.  A reply has the token behind      *)
(* "LABEL:", if any, and the keywords that occur anywhere in it.           *)

Labels  == {"SIMPLE", "COMPLEX", "RAG", "CODEGEN"}
Replies == [label : Labels \cup {"none", "other"}, says : SUBSET {"SIMPLE", "CODE", "RAG"}]

ParseClassifyResponse(reply) ==
  CASE reply.label \in Labels -> reply.label
    [] reply.label = "other" -> "COMPLEX"
    [] reply.label = "none" /\ "SIMPLE" \in reply.says -> "SIMPLE"
    [] reply.label = "none" /\ "SIMPLE" \notin reply.says /\ "CODE" \in reply.says -> "CODEGEN"
    [] reply.label = "none" /\ reply.says = {"RAG"} -> "RAG"
    [] OTHER -> "COMPLEX"

-----------------------------------------------------------------------------
(* generate and generate_tokens.                                           *)

\* The prompt is encoded, and a blocking task spawned.
Spawns(r, bound) ==
  gen' = [gen EXCEPT ![r] = [pc |-> "spawned", bound |-> bound, made |-> 0, ok |-> FALSE]]

LockModel(r) ==
  /\ gen[r].pc = "spawned" /\ holder = Nobody
  /\ holder' = r
  /\ gen' = [gen EXCEPT ![r].pc = "prefill"]
  /\ UNCHANGED <<ask, kv>>

Token(r, position) == [of |-> r, at |-> position]

\* Mutant: the prompt is fed at the position the weights have reached.
MutantPrefill(r) ==
  /\ gen[r].pc = "prefill"
  /\ kv' = Append(kv, Token(r, Len(kv)))
  /\ \E next \in {"decode", "done"} : gen' = [gen EXCEPT ![r].pc = next, ![r].made = 1]
  /\ UNCHANGED <<ask, holder>>

\* The first token is kept even if it is the end of the text.
Prefill(r) ==
  /\ gen[r].pc = "prefill"
  /\ kv' = <<Token(r, 0)>>
  /\ \E next \in {"decode", "done"} : gen' = [gen EXCEPT ![r].pc = next, ![r].made = 1]
  /\ UNCHANGED <<ask, holder>>

\* One position further than the length of prompt and answer so far.
Decode(r) ==
  /\ gen[r].pc = "decode" /\ gen[r].made < gen[r].bound
  /\ kv' = Append(kv, Token(r, gen[r].made + 1))
  /\ \/ gen' = [gen EXCEPT ![r].made = @ + 1]
     \/ gen' = [gen EXCEPT ![r].pc = "done"]
  /\ UNCHANGED <<ask, holder>>

DecodedAll(r) ==
  /\ gen[r].pc = "decode" /\ gen[r].made >= gen[r].bound
  /\ gen' = [gen EXCEPT ![r].pc = "done"]
  /\ UNCHANGED <<ask, holder, kv>>

\* The text, decoded; the guard is gone.
Unlock(r) ==
  /\ gen[r].pc = "done"
  /\ gen' = [gen EXCEPT ![r].pc = "ended", ![r].ok = TRUE]
  /\ holder' = Nobody
  /\ UNCHANGED <<ask, kv>>

\* A pass fails or panics half way through the layers; the guard is dropped and
\* a tokio mutex knows no poison.  The end of a pass at position 0 that failed
\* is a mixture that nobody reads.
PassFails(r) ==
  /\ gen[r].pc \in {"prefill", "decode"}
  /\ gen' = [gen EXCEPT ![r].pc = "ended"]
  /\ holder' = Nobody
  /\ kv' \in {kv, Append(kv, Token(r, gen[r].made + 1))}
  /\ UNCHANGED ask

-----------------------------------------------------------------------------
(* slm_triage_middleware.                                                  *)

Classifies(r) ==
  /\ ask[r] = "idle"
  /\ ask' = [ask EXCEPT ![r] = "classify"]
  /\ Spawns(r, ClassifyTokens)
  /\ UNCHANGED <<holder, kv>>

\* Any other label, or an error, leads to Layer 3.
Classified(r) ==
  /\ ask[r] = "classify" /\ gen[r].pc = "ended"
  /\ IF gen[r].ok
       THEN \E reply \in Replies :
              IF ParseClassifyResponse(reply) = "SIMPLE"
                THEN ask' = [ask EXCEPT ![r] = "answer"] /\ Spawns(r, AnswerTokens)
                ELSE ask' = [ask EXCEPT ![r] = "below"] /\ UNCHANGED gen
       ELSE ask' = [ask EXCEPT ![r] = "below"] /\ UNCHANGED gen
  /\ UNCHANGED <<holder, kv>>

\* The answer passes the quality guard, or it does not.
AnsweredLocally(r) ==
  /\ ask[r] = "answer" /\ gen[r].pc = "ended"
  /\ \E next \in (IF gen[r].ok THEN {"local", "below"} ELSE {"below"}) :
       ask' = [ask EXCEPT ![r] = next]
  /\ UNCHANGED <<gen, holder, kv>>

\* The client has gone; the blocking task has not.
CallerGone(r) ==
  /\ ask[r] \in {"classify", "answer"}
  /\ ask' = [ask EXCEPT ![r] = "gone"]
  /\ UNCHANGED <<gen, holder, kv>>

InferenceSteps(r) ==
  \/ LockModel(r) \/ Prefill(r) \/ Decode(r) \/ DecodedAll(r) \/ Unlock(r)
  \/ PassFails(r) \/ Classified(r) \/ AnsweredLocally(r)

InferenceNext ==
  \E r \in Callers : Classifies(r) \/ InferenceSteps(r) \/ CallerGone(r)

\* Threads run and futures are polled; nothing is asked of the model, and none of
\* the waiting threads is preferred.
InferenceFairness == WF_inferenceVars(\E r \in Callers : InferenceSteps(r))

InferenceSpec == InferenceInit /\ [][InferenceNext]_inferenceVars /\ InferenceFairness
-----------------------------------------------------------------------------
(* Properties.                                                             *)

\* Every variable holds a value of its type, and who computes has the model.
InferenceTypeOK ==
  /\ ask \in [Callers -> {"idle", "classify", "answer", "local", "below", "gone"}]
  /\ \A r \in Callers :
       /\ gen[r].pc \in {"none", "spawned", "prefill", "decode", "done", "ended"}
       /\ gen[r].made \in 0 .. 1 + AnswerTokens + ClassifyTokens
       /\ gen[r].pc \in {"prefill", "decode", "done"} <=> holder = r
  /\ \A i \in DOMAIN kv : kv[i].of \in Callers /\ kv[i].at \in Nat

\* The model continues the prompt it was asked about and nothing else
\* (services/local_inference.rs:448): whatever generations went before, were
\* abandoned by their clients or failed half way, what the weights hold while a
\* generation runs is its own prompt and the tokens it has made since, no two
\* at one position.
OwnContext ==
  \A r \in Callers : gen[r].pc = "decode" =>
    /\ Len(kv) = gen[r].made
    /\ \A i \in DOMAIN kv : kv[i].of = r
    /\ \A i, j \in DOMAIN kv : i < j => kv[i].at < kv[j].at

\* Nobody waits for the model for ever, although it may be busy for requests
\* that have gone and passes may fail (services/local_inference.rs:447).
InferenceEnds ==
  \A r \in Callers :
    ask[r] \in {"classify", "answer"} ~> ask[r] \in {"local", "below", "gone"}
=============================================================================
