--------------------------- MODULE MCClientConnect ---------------------------
(***************************************************************************)
(* Instances of ClientConnect: every client alone, and the two that share  *)
(* Claude Code's settings.                                                 *)
(***************************************************************************)
EXTENDS ClientConnect

MCEveryClient == {{c} : c \in Clients} \cup {{"claude", "claude-copilot"}}
=============================================================================
