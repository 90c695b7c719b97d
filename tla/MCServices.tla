----------------------------- MODULE MCServices -----------------------------
(***************************************************************************)
(* The parts of the program beside the request path: the MCP servers, the  *)
(* commands, Copilot, streaming, compression, the counters and the log.    *)
(* They share nothing at run time, so a behaviour runs one of them only,   *)
(* the one that service names, while the others rest: this is a run of     *)
(* ten specifications, not a composition of them.                          *)
(***************************************************************************)
EXTENDS McpSessions, Lifecycle, SelfUpdate, ConfigFile, CopilotAuth,
        Visibility, RequestLog, Streaming, Compression, LocalInference

VARIABLE service   \* the part that runs

Services == {"mcp", "life", "update", "config", "copilot", "counters", "log", "stream",
             "compress", "inference"}

\* MCP messages: calls with and without an id, one that is no request, an
\* argument that is missing, a handshake as a request and as a notification.
Msg(method, id, prompt, text) ==
  [method |-> method, id |-> id, prompt |-> prompt, text |-> text]
Look == Msg("isartor_chat", TRUE, "q1", "")
Keep == Msg("isartor_cache_store", TRUE, "q1", "a1")

MCBatches ==
  {<<Msg("initialize", TRUE, "", "")>>,
   <<Msg("initialize", FALSE, "", ""), Msg("notifications/initialized", FALSE, "", "")>>,
   <<Msg("none", TRUE, "", "")>>,
   <<Keep, Look>>,
   <<Msg("ping", FALSE, "", ""), Msg("isartor_cache_store", FALSE, "q1", "a2"),
     Msg("none", TRUE, "", "")>>}
MCLines == {Look, Keep, Msg("isartor_chat", TRUE, "", ""), Msg("shutdown", FALSE, "", "")}

ServicesInit ==
  /\ service \in Services
  /\ McpInit /\ LifeInit /\ UpdateInit /\ ConfigInit /\ CopilotInit
  /\ VisibilityInit /\ LogInit /\ StreamInit /\ CompressionInit /\ InferenceInit
  /\ service # "copilot" => saved = "none"   \* the other parts do not ask for it

\* Nothing but the part that runs changes.
Others(own) ==
  /\ own # "mcp"      => UNCHANGED mcpVars
  /\ own # "life"     => UNCHANGED lifeVars
  /\ own # "update"   => UNCHANGED updateVars
  /\ own # "config"   => UNCHANGED configVars
  /\ own # "copilot"  => UNCHANGED copilotVars
  /\ own # "counters" => UNCHANGED visibilityVars
  /\ own # "log"      => UNCHANGED logVars
  /\ own # "stream"   => UNCHANGED streamVars
  /\ own # "compress" => UNCHANGED compressionVars
  /\ own # "inference" => UNCHANGED inferenceVars
  /\ UNCHANGED service

ServicesNext ==
  \/ service = "mcp"      /\ McpNext         /\ Others("mcp")
  \/ service = "life"     /\ LifeNext        /\ Others("life")
  \/ service = "update"   /\ UpdateNext      /\ Others("update")
  \/ service = "config"   /\ ConfigNext      /\ Others("config")
  \/ service = "copilot"  /\ CopilotNext     /\ Others("copilot")
  \/ service = "counters" /\ VisibilityNext  /\ Others("counters")
  \/ service = "log"      /\ LogNext         /\ Others("log")
  \/ service = "stream"   /\ StreamNext      /\ Others("stream")
  \/ service = "compress" /\ CompressionNext /\ Others("compress")
  \/ service = "inference" /\ InferenceNext /\ Others("inference")

servicesVars ==
  <<service, mcpVars, lifeVars, updateVars, configVars, copilotVars,
    visibilityVars, logVars, streamVars, compressionVars, inferenceVars>>

ServicesSpec ==
  /\ ServicesInit /\ [][ServicesNext]_servicesVars
  /\ McpFairness /\ LifeFairness /\ CopilotFairness /\ InferenceFairness

\* Every variable of every part holds a value of its type.
ServicesTypeOK ==
  /\ McpTypeOK /\ LifeTypeOK /\ UpdateTypeOK /\ ConfigTypeOK /\ CopilotTypeOK
  /\ VisibilityTypeOK /\ LogTypeOK /\ StreamTypeOK /\ CompressionTypeOK
  /\ InferenceTypeOK

\* A command at the terminal gives its prompt back: `isartor stop` although the
\* server may take its signal late or not at all (cli/stop.rs:93), a sign-in with
\* GitHub although nobody may ever enter the code (providers/copilot.rs:120).
CommandsReturn == StopReturns /\ SignInEnds

\* Who asks is answered: an MCP client on standard input although the gateway
\* may fail under it (cli/mcp.rs:31), a request that waits for the embedded model
\* although the generations before it may be abandoned or fail
\* (services/local_inference.rs:447).
ServicesAnswer == LinesDealtWith /\ InferenceEnds
=============================================================================
