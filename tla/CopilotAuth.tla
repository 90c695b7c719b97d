---------------------------- MODULE CopilotAuth -----------------------------
(***************************************************************************)
(* Signing in to GitHub Copilot and using it as Layer 3.  The connector    *)
(* takes a token from the command line, from the saved credential or from  *)
(* GitHub's device flow, validates it and saves it; every chat of the      *)
(* gateway exchanges the token for a session token first.  GitHub may      *)
(* answer anything, and a token may be revoked at any time.  Time passes   *)
(* in polling intervals while the device flow sleeps.                      *)
(***************************************************************************)
EXTENDS Naturals

CONSTANTS
  ExpiresIn,      \* how long a device code lives, in polling intervals
  SkipValidation  \* --skip-validation, set of BOOLEAN

ASSUME CopilotAssumption == ExpiresIn \in Nat /\ SkipValidation \subseteq BOOLEAN

VARIABLES
  login,   \* the connector that signs in
  saved,   \* ~/.isartor/providers/copilot.json
  token,   \* what GitHub makes of the user's token: "none", "good" or "revoked"
  chat     \* a chat through the agent, with the token the gateway was given

copilotVars == <<login, saved, token, chat>>

NoLogin == [pc |-> "idle", waited |-> 0, skip |-> FALSE, via |-> "none", result |-> "none"]
NoChat  == [pc |-> "idle", result |-> "none"]

CopilotInit ==
  /\ login = NoLogin
  /\ saved \in {"none", "oauth", "pat", "garbage"}
  /\ token = IF saved \in {"oauth", "pat"} THEN "good" ELSE "none"
  /\ chat = NoChat

LoginGoes(pc) == login' = [login EXCEPT !.pc = pc]
LoginEnds(result) == login' = [login EXCEPT !.pc = "idle", !.result = result]

-----------------------------------------------------------------------------
(* resolve_github_credential.                                              *)

\* --github-token wins, good or not; a saved credential is tried if a browser login made it.
ShouldReuseSaved == saved = "oauth"

RunLogin ==
  /\ login.pc = "idle"
  /\ \E skip \in SkipValidation, given \in BOOLEAN :
    /\ login' = [pc |-> IF given THEN "validate"
                        ELSE IF saved = "garbage" THEN "idle"
                        ELSE IF ShouldReuseSaved THEN "reuse" ELSE "request",
                 waited |-> 0, skip |-> skip, via |-> IF given THEN "pat" ELSE "oauth",
                 result |-> IF ~given /\ saved = "garbage" THEN "failed" ELSE "none"]
    /\ token' \in IF given THEN {token, "good"} ELSE {token}
  /\ UNCHANGED <<saved, chat>>

\* exchange_copilot_session_token: it can fail for a good token, and succeeds
\* only for one (a plan that has lapsed counts as revoked).
ExchangeOutcomes == IF token = "good" THEN BOOLEAN ELSE {FALSE}

ReuseSaved ==
  /\ login.pc = "reuse"
  /\ IF login.skip THEN LoginGoes("save")
     ELSE \E ok \in ExchangeOutcomes : LoginGoes(IF ok THEN "validate" ELSE "request")
  /\ UNCHANGED <<saved, token, chat>>

(* device_flow_auth.                                                       *)

RequestCode ==
  /\ login.pc = "request"
  /\ LoginGoes("check") \/ LoginEnds("failed")
  /\ UNCHANGED <<saved, token, chat>>

\* The deadline is looked at before the sleep, so that the last poll comes when
\* the code has expired.
CheckDeadline ==
  /\ login.pc = "check"
  /\ IF login.waited > ExpiresIn THEN LoginEnds("expired") ELSE LoginGoes("sleep")
  /\ UNCHANGED <<saved, token, chat>>

\* "slow_down" does not make it longer.
SleepInterval ==
  /\ login.pc = "sleep"
  /\ login' = [login EXCEPT !.pc = "poll",
                 !.waited = IF @ > ExpiresIn THEN @ ELSE @ + 1]
  /\ UNCHANGED <<saved, token, chat>>

\* No answer within 15 s, an error status, "pending", "slow_down" and an answer
\* that says nothing lead to another round; other errors and an answer that is
\* not JSON end the login.
PollToken ==
  /\ login.pc = "poll"
  /\ \/ LoginGoes("check") /\ UNCHANGED token
     \/ LoginEnds("failed") /\ UNCHANGED token
     \/ LoginGoes("validate") /\ token' = "good"
  /\ UNCHANGED <<saved, chat>>

(* handle_claude_copilot_connect.                                          *)

Validate ==
  /\ login.pc = "validate"
  /\ IF login.skip THEN LoginGoes("save")
     ELSE \E ok \in ExchangeOutcomes : IF ok THEN LoginGoes("save") ELSE LoginEnds("failed")
  /\ UNCHANGED <<saved, token, chat>>

SaveCredential ==
  /\ login.pc = "save"
  /\ \/ saved' = login.via /\ LoginEnds("connected")
     \/ UNCHANGED saved /\ LoginEnds("failed")
  /\ UNCHANGED <<token, chat>>

-----------------------------------------------------------------------------
(* CopilotAgent::chat.                                                     *)

StartChat ==
  /\ chat.pc = "idle"
  /\ chat' = [pc |-> "exchange", result |-> "none"]
  /\ UNCHANGED <<login, saved, token>>

ExchangeSession ==
  /\ chat.pc = "exchange"
  /\ \E ok \in ExchangeOutcomes :
       chat' = IF ok THEN [chat EXCEPT !.pc = "complete"]
               ELSE [pc |-> "idle", result |-> "failed"]
  /\ UNCHANGED <<login, saved, token>>

\* No answer, one that is not JSON, an error status, or no text in it.
CompleteChat ==
  /\ chat.pc = "complete"
  /\ \E result \in {"text", "failed"} : chat' = [pc |-> "idle", result |-> result]
  /\ UNCHANGED <<login, saved, token>>

Revoke ==
  /\ token = "good"
  /\ token' = "revoked"
  /\ UNCHANGED <<login, saved, chat>>

LoginSteps ==
  \/ ReuseSaved \/ RequestCode \/ CheckDeadline \/ SleepInterval \/ PollToken
  \/ Validate \/ SaveCredential

CopilotNext ==
  \/ RunLogin \/ LoginSteps
  \/ StartChat \/ ExchangeSession \/ CompleteChat
  \/ Revoke

\* The sleep returns and every call has a timeout; nothing is asked of GitHub.
CopilotFairness == WF_copilotVars(LoginSteps)

CopilotSpec == CopilotInit /\ [][CopilotNext]_copilotVars /\ CopilotFairness
-----------------------------------------------------------------------------
(* Properties.                                                             *)

\* Every variable holds a value of its type, and a chat that gave a text had a
\* token.
CopilotTypeOK ==
  /\ login.pc \in {"idle", "reuse", "request", "check", "sleep", "poll", "validate", "save"}
  /\ login.waited \in 0 .. ExpiresIn + 1
  /\ login.result \in {"none", "failed", "expired", "connected"}
  /\ saved \in {"none", "oauth", "pat", "garbage"}
  /\ token \in {"none", "good", "revoked"}
  /\ chat.pc \in {"idle", "exchange", "complete"}
  /\ chat.result = "text" => token # "none"

\* A sign-in ends, although the user never enters the code and GitHub answers
\* nothing, or anything (copilot.rs:96).
SignInEnds == login.pc # "idle" ~> login.pc = "idle"
=============================================================================
