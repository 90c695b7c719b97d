----------------------------- MODULE SelfUpdate -----------------------------
(***************************************************************************)
(* `isartor update`: find the release, download it, and put it where the   *)
(* running binary is.  A binary is "old", "new", "partial" or "none"; the  *)
(* process can be killed between any two steps and the command run again   *)
(* from the binary that is installed, by one user at a time.               *)
(***************************************************************************)
CONSTANTS Forced,   \* --force, set of BOOLEAN
          DryRuns,  \* --dry-run, set of BOOLEAN
          Proxied   \* the environment points at Isartor's own proxy, set of BOOLEAN

VARIABLES
  exe,      \* the file that is executed
  bak,      \* the same name with the extension .bak
  update    \* the command that runs

updateVars == <<exe, bak, update>>

Complete == {"old", "new"}
NoUpdate == [pc |-> "idle", result |-> "none", forced |-> FALSE, dry |-> FALSE,
             bypass |-> FALSE, from |-> "old"]

UpdateInit == exe = "old" /\ bak = "none" /\ update = NoUpdate

UpdateStep(pc) == update' = [update EXCEPT !.pc = pc]
UpdateEnds(result) == update' = [update EXCEPT !.pc = "idle", !.result = result]

\* Only a binary that is complete can be run.  The client keeps clear of the
\* proxy of the gateway that is about to be replaced.
RunUpdate ==
  /\ update.pc = "idle" /\ exe \in Complete
  /\ \E forced \in Forced, dry \in DryRuns, proxied \in Proxied :
       update' = [pc |-> "tag", result |-> "none", forced |-> forced, dry |-> dry,
                  bypass |-> proxied, from |-> exe]
  /\ UNCHANGED <<exe, bak>>

\* The API, or the redirect of the public page when the API refuses.
FindTag ==
  /\ update.pc = "tag"
  /\ \E answer \in {"tag", "refused", "error"} :
       CASE answer = "tag" -> UpdateStep("compare")
         [] answer = "refused" -> UpdateStep("redirect")
         [] answer = "error" -> UpdateEnds("failed")
  /\ UNCHANGED <<exe, bak>>

FollowRedirect ==
  /\ update.pc = "redirect"
  /\ UpdateStep("compare") \/ UpdateEnds("failed")
  /\ UNCHANGED <<exe, bak>>

\* The release is "new"; an unknown platform has none.
CompareVersions ==
  /\ update.pc = "compare"
  /\ IF update.from = "new" /\ ~update.forced THEN UpdateEnds("current")
     ELSE \/ UpdateEnds("failed")
          \/ IF update.dry THEN UpdateEnds("dry run") ELSE UpdateStep("download")
  /\ UNCHANGED <<exe, bak>>

\* Download, unpack and look for the binary, all in a temporary directory.
FetchRelease ==
  /\ update.pc = "download"
  /\ UpdateStep("move") \/ UpdateEnds("failed")
  /\ UNCHANGED <<exe, bak>>

\* Mutant: the old binary is removed instead of moved aside.
MutantMoveAside ==
  /\ update.pc = "move"
  /\ exe' = "none" /\ UNCHANGED bak
  /\ UpdateStep("copy")

\* self_replace.  The rename takes the place of an earlier backup.
MoveAside ==
  /\ update.pc = "move"
  /\ \/ /\ bak' = exe /\ exe' = "none"
        /\ UpdateStep("copy")
     \/ UpdateEnds("failed") /\ UNCHANGED <<exe, bak>>

\* fs::copy is not atomic.
StartCopy ==
  /\ update.pc = "copy"
  /\ \/ exe' = "partial" /\ UpdateStep("copying")
     \/ UNCHANGED exe /\ UpdateStep("restore")
  /\ UNCHANGED bak

FinishCopy ==
  /\ update.pc = "copying"
  /\ \/ exe' = "new" /\ UpdateStep("clean")
     \/ UNCHANGED exe /\ UpdateStep("restore")
  /\ UNCHANGED bak

\* The error of the rename is ignored.
RestoreBackup ==
  /\ update.pc = "restore"
  /\ \/ exe' = bak /\ bak' = "none"
     \/ UNCHANGED <<exe, bak>>
  /\ UpdateEnds("failed")

\* So is the error of the removal.
RemoveBackup ==
  /\ update.pc = "clean"
  /\ bak' \in {"none", bak}
  /\ UpdateEnds("updated")
  /\ UNCHANGED exe

KillUpdate ==
  /\ update.pc # "idle"
  /\ UpdateEnds("killed")
  /\ UNCHANGED <<exe, bak>>

UpdateNext ==
  \/ RunUpdate \/ FindTag \/ FollowRedirect \/ CompareVersions \/ FetchRelease
  \/ MoveAside \/ StartCopy \/ FinishCopy \/ RestoreBackup \/ RemoveBackup
  \/ KillUpdate

UpdateSpec == UpdateInit /\ [][UpdateNext]_updateVars
-----------------------------------------------------------------------------
(* Properties.                                                             *)

\* Every variable holds a value of its type, and a reported result is true.
UpdateTypeOK ==
  /\ {exe, bak} \subseteq Complete \cup {"partial", "none"}
  /\ update.pc \in {"idle", "tag", "redirect", "compare", "download", "move",
                    "copy", "copying", "restore", "clean"}
  /\ update.result \in {"none", "failed", "current", "dry run", "updated", "killed"}
  /\ update.result \in {"updated", "current"} => exe = "new"
  /\ update.result = "dry run" => exe = update.from

\* Failures, ignored errors and kills of any number of updates leave a complete
\* binary, installed or beside it as the backup (update.rs:350): what is half
\* written never takes the place of the only good copy.
BinaryKept == exe \in Complete \/ bak \in Complete
=============================================================================
