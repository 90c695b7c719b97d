---------------------------- MODULE ClientConnect ----------------------------
(***************************************************************************)
(* `isartor connect <client>` and `isartor connect <client> --disconnect`: *)
(* edits of the configuration files of other programs, with backups, and a *)
(* record of the clients that are connected (connections.json).            *)
(*                                                                         *)
(* The handler of each client is the sequence of the steps it takes; one   *)
(* action executes one kind of step, but for a file that is written: it is *)
(* emptied first, and its new content follows.  The user runs one command  *)
(* at a time, edits the files between commands, and may kill a command.    *)
(***************************************************************************)
EXTENDS Naturals, Sequences, Functions

CONSTANTS
  Groups,    \* the sets of clients a user may have
  MaxEdits   \* bound on the edits of the user

VARIABLES
  group,     \* the clients of this user
  files,     \* the content of the configuration files that exist
  backups,   \* the content of the backups that exist, by client and file
  recorded,  \* the clients in connections.json
  job,       \* the command that is running
  pending,   \* what it is about to write to a file or backup that it has emptied
  edits      \* number of edits of the user so far

vars == <<group, files, backups, recorded, job, pending, edits>>

-----------------------------------------------------------------------------
(* The steps of the handlers.                                              *)

Step(op, file, how) == [op |-> op, file |-> file, how |-> how]

\* backup: "each" copies an existing file every time, "first" never replaces a
\*   backup and notes that there was no file, "existing" does neither.
\* read: an unreadable file ends the command.
\* write: "replace" starts anew when the file is unreadable, "merge" follows a
\*   read, "own" writes a file that is Isartor's alone.
\* probe: the answers of the gateway that count as success; "preflight" ends
\*   the command when there is none.
Backup(file, how) == Step("backup", file, how)
Read(file)        == Step("read", file, "stop")
Write(file, how)  == Step("write", file, how)
Probe(how)        == Step("probe", "none", how)

\* restore: without a backup nothing is done ("keep") or the client's settings
\*   are removed as by remove.
\* remove: an unreadable file is an error ("strict") or passed over ("quiet");
\*   with "tidy" a file that becomes empty is deleted.
Restore(file, how) == <<Step("restore", file, how), Step("drop", file, how)>>
Remove(file, how)  == Step("remove", file, how)
Delete(file)       == Step("delete", file, "own")

ClaudeConnect ==
  << Backup("claude/settings", "each"), Write("claude/settings", "replace"),
     Probe("answered") >>
ClaudeDisconnect == Restore("claude/settings", "keep")

\* Without a token the browser sign-in may fail; the gateway is restarted.
ClaudeCopilotConnect ==
  << Step("auth", "none", "stop"),
     Backup("isartor.toml", "first"), Read("isartor.toml"),
     Write("isartor.toml", "merge"),
     Backup("claude/settings", "first"), Read("claude/settings"),
     Write("claude/settings", "merge"), Probe("any") >>
ClaudeCopilotDisconnect ==
  Restore("claude/settings", "keep") \o Restore("isartor.toml", "keep")

ClaudeDesktopConnect ==
  << Backup("desktop", "existing"), Read("desktop"), Write("desktop", "merge"),
     Probe("reachable") >>
ClaudeDesktopDisconnect == Restore("desktop", "strict")

\* config.json must exist and be readable for the URL to be allowed.
CopilotConnect ==
  << Write("copilot/mcp", "replace"), Step("allow", "copilot/config", "quiet"),
     Write("copilot/instructions", "replace"), Probe("reachable") >>
CopilotDisconnect ==
  << Remove("copilot/mcp", "quiet"), Remove("copilot/instructions", "tidy") >>

\* Mutant: the settings are not read first.
MutantCopilotVscodeConnect ==
  << Probe("preflight"), Backup("vscode", "first"), Write("vscode", "replace") >>

CopilotVscodeConnect ==
  << Probe("preflight"), Read("vscode"), Backup("vscode", "first"),
     Write("vscode", "merge") >>
CopilotVscodeDisconnect == Restore("vscode", "tidy")

CursorConnect ==
  << Write("env/cursor", "own"), Write("cursor/mcp", "replace"), Probe("answered") >>

\* Mutant: only the script is removed.
MutantCursorDisconnect == << Delete("env/cursor") >>

CursorDisconnect == << Delete("env/cursor"), Remove("cursor/mcp", "quiet") >>

\* After the write the registries of its agents are deleted, to be rebuilt.
OpenclawConnect ==
  << Backup("openclaw", "existing"), Read("openclaw"), Write("openclaw", "merge"),
     Probe("reachable") >>
OpenclawDisconnect == Restore("openclaw", "strict")

OpencodeConnect ==
  << Backup("opencode/config", "first"), Backup("opencode/auth", "first"),
     Write("opencode/config", "replace"), Write("opencode/auth", "replace"),
     Probe("answered") >>
OpencodeDisconnect ==
  Restore("opencode/config", "quiet") \o Restore("opencode/auth", "quiet")

AntigravityConnect    == << Write("env/antigravity", "own"), Probe("answered") >>
AntigravityDisconnect == << Delete("env/antigravity") >>
CodexConnect          == << Write("env/codex", "own"), Probe("answered") >>
CodexDisconnect       == << Delete("env/codex") >>
GeminiConnect         == << Write("env/gemini", "own"), Probe("answered") >>
GeminiDisconnect      == << Delete("env/gemini") >>
GenericConnect        == << Write("env/generic", "own"), Probe("answered") >>
GenericDisconnect     == << Delete("env/generic") >>

Clients ==
  {"claude", "claude-copilot", "claude-desktop", "copilot", "copilot-vscode", "cursor",
   "openclaw", "opencode", "antigravity", "codex", "gemini", "generic"}

Connects ==
  [c \in Clients |->
     CASE c = "claude"         -> ClaudeConnect
       [] c = "claude-copilot" -> ClaudeCopilotConnect
       [] c = "claude-desktop" -> ClaudeDesktopConnect
       [] c = "copilot"        -> CopilotConnect
       [] c = "copilot-vscode" -> CopilotVscodeConnect
       [] c = "cursor"         -> CursorConnect
       [] c = "openclaw"       -> OpenclawConnect
       [] c = "opencode"       -> OpencodeConnect
       [] c = "antigravity"    -> AntigravityConnect
       [] c = "codex"          -> CodexConnect
       [] c = "gemini"         -> GeminiConnect
       [] c = "generic"        -> GenericConnect]

Disconnects ==
  [c \in Clients |->
     CASE c = "claude"         -> ClaudeDisconnect
       [] c = "claude-copilot" -> ClaudeCopilotDisconnect
       [] c = "claude-desktop" -> ClaudeDesktopDisconnect
       [] c = "copilot"        -> CopilotDisconnect
       [] c = "copilot-vscode" -> CopilotVscodeDisconnect
       [] c = "cursor"         -> CursorDisconnect
       [] c = "openclaw"       -> OpenclawDisconnect
       [] c = "opencode"       -> OpencodeDisconnect
       [] c = "antigravity"    -> AntigravityDisconnect
       [] c = "codex"          -> CodexDisconnect
       [] c = "gemini"         -> GeminiDisconnect
       [] c = "generic"        -> GenericDisconnect]

FilesOf(c) == {step.file : step \in {s \in Range(Connects[c]) : s.op = "write"}}

Files == (UNION {FilesOf(c) : c \in Clients}) \cup {"copilot/config"}

\* The scripts under ~/.isartor/env are nobody else's.
Scripts == {"env/cursor", "env/antigravity", "env/codex", "env/gemini", "env/generic"}

\* The instructions are not JSON: whatever the user writes can be read.
PlainText == {"copilot/instructions"}

\* A file without a byte in it is read as one without settings.
BlankIsRead ==
  PlainText \cup {"isartor.toml", "claude/settings", "desktop", "vscode", "openclaw"}

ASSUME GroupsAssumption == Groups # {} /\ \A g \in Groups : g \subseteq Clients
ASSUME MaxEditsAssumption == MaxEdits \in Nat

-----------------------------------------------------------------------------
(* A content is the version of the user's own settings in it (0: none),    *)
(* whether it parses, and the clients whose Isartor settings it holds.     *)

Content == [text : 0 .. MaxEdits, ok : BOOLEAN, keys : SUBSET Clients]

\* No byte: what an interrupted write leaves, and, as a backup, what says that there
\* was no file.
Empty == [text |-> 0, ok |-> FALSE, keys |-> {}]

NoJob == [client |-> "none", connect |-> FALSE, dry |-> FALSE, ok |-> FALSE, rest |-> <<>>]

Idle == job = NoJob

Unreadable(f) ==
  f \in DOMAIN files /\ ~files[f].ok /\ ~(files[f] = Empty /\ f \in BlankIsRead)

With(f, k, v) == [x \in DOMAIN f \cup {k} |-> IF x = k THEN v ELSE f[x]]

Without(f, k) == Restrict(f, DOMAIN f \ {k})

Slot(step) == <<job.client, step.file>>

Init ==
  /\ group \in Groups
  /\ files = [f \in {} |-> Empty]
  /\ backups = [k \in {} |-> Empty]
  /\ recorded = {}
  /\ job = NoJob
  /\ pending = {}
  /\ edits = 0

-----------------------------------------------------------------------------

\* isartor connect <client> [--disconnect] [--dry-run].
Begin(c, connect, dry) ==
  /\ Idle
  /\ job' = [client |-> c, connect |-> connect, dry |-> dry, ok |-> TRUE,
             rest |-> IF connect THEN Connects[c] ELSE Disconnects[c]]
  /\ UNCHANGED <<group, files, backups, recorded, pending, edits>>

Doing(op) == pending = {} /\ job.rest # <<>> /\ Head(job.rest).op = op

Advance == job' = [job EXCEPT !.rest = Tail(@)] /\ pending' = {}

Stop == job' = [job EXCEPT !.rest = <<>>, !.ok = FALSE] /\ pending' = {}

Same == UNCHANGED <<group, recorded, edits>>

\* std::fs::write and std::fs::copy empty the file before they write to it.
Open(f, doc) ==
  /\ files' = With(files, f, Empty)
  /\ pending' = {doc} /\ UNCHANGED job

Flush ==
  /\ \E doc \in pending :
       IF Head(job.rest).op = "backup"
       THEN backups' = With(backups, Slot(Head(job.rest)), doc) /\ UNCHANGED files
       ELSE files' = With(files, Head(job.rest).file, doc) /\ UNCHANGED backups
  /\ Advance /\ Same

\* Mutant: a later connect replaces the first backup.
MutantBacksUp(step) ==
  /\ ~job.dry
  /\ step.how = "first" \/ step.file \in DOMAIN files

\* Whether a backup is made now.
BacksUp(step) ==
  /\ ~job.dry
  /\ step.how = "first" \/ step.file \in DOMAIN files
  /\ step.how = "each" \/ Slot(step) \notin DOMAIN backups

BackedUp(f) == IF f \in DOMAIN files THEN files[f] ELSE Empty

DoBackup ==
  /\ Doing("backup")
  /\ \/ /\ BacksUp(Head(job.rest))
        /\ backups' = With(backups, Slot(Head(job.rest)), Empty)
        /\ pending' = {BackedUp(Head(job.rest).file)} /\ UNCHANGED job
     \/ ~BacksUp(Head(job.rest)) /\ Advance /\ UNCHANGED backups
  /\ Same /\ UNCHANGED files

DoRead ==
  /\ Doing("read")
  /\ IF Unreadable(Head(job.rest).file) THEN Stop ELSE Advance
  /\ Same /\ UNCHANGED <<files, backups>>

\* What is written: a new file, or the user's settings with the client's.
Written(step) ==
  IF \/ BackedUp(step.file) = Empty
     \/ step.how = "own"
     \/ step.how = "replace" /\ Unreadable(step.file)
  THEN [text |-> 0, ok |-> TRUE, keys |-> {job.client}]
  ELSE [files[step.file] EXCEPT !.keys = @ \cup {job.client}]

DoWrite ==
  /\ Doing("write")
  /\ IF job.dry THEN Advance /\ UNCHANGED files
     ELSE Open(Head(job.rest).file, Written(Head(job.rest)))
  /\ Same /\ UNCHANGED backups

\* The gateway's URL among Copilot's allowed ones, if the file can be read.
DoAllow ==
  /\ Doing("allow")
  /\ LET f == Head(job.rest).file
     IN  IF job.dry \/ f \notin DOMAIN files \/ Unreadable(f)
         THEN Advance /\ UNCHANGED files
         ELSE Open(f, [files[f] EXCEPT !.keys = @ \cup {job.client}])
  /\ Same /\ UNCHANGED backups

\* The GitHub credential: given, saved, or from the browser; it may be refused.
DoAuth ==
  /\ Doing("auth")
  /\ Advance \/ Stop
  /\ Same /\ UNCHANGED <<files, backups>>

\* Does an answer of the gateway make the command a success?
Satisfies(how, dry, answer) ==
  CASE how = "answered"  -> answer = "response" \/ dry
    [] how = "reachable" -> answer \in {"response", "timeout"} \/ dry
    [] how = "preflight" -> answer \in {"response", "timeout"}
    [] how = "any"       -> TRUE

DoProbe ==
  /\ Doing("probe")
  /\ \E answer \in {"response", "timeout", "none"} :
       IF Satisfies(Head(job.rest).how, job.dry, answer) THEN Advance ELSE Stop
  /\ Same /\ UNCHANGED <<files, backups>>

\* Taking the client's settings out of f; nothing to do when they are not there.
RemoveSettings(f, how) ==
  IF Unreadable(f)
  THEN /\ IF how = "quiet" THEN Advance ELSE Stop
       /\ UNCHANGED files
  ELSE IF job.dry \/ f \notin DOMAIN files \/ job.client \notin files[f].keys
  THEN Advance /\ UNCHANGED files
  ELSE IF how = "tidy" /\ files[f].text = 0 /\ files[f].keys = {job.client}
  THEN Advance /\ files' = Without(files, f)
  ELSE Open(f, [files[f] EXCEPT !.keys = @ \ {job.client}])

DoRemove ==
  /\ Doing("remove")
  /\ RemoveSettings(Head(job.rest).file, Head(job.rest).how)
  /\ Same /\ UNCHANGED backups

DoDelete ==
  /\ Doing("delete")
  /\ files' = IF job.dry THEN files ELSE Without(files, Head(job.rest).file)
  /\ Advance
  /\ Same /\ UNCHANGED backups

\* The file becomes its backup, or nothing if there was no file.
PutBack(f, doc) ==
  IF job.dry THEN Advance /\ UNCHANGED files
  ELSE IF doc = Empty THEN Advance /\ files' = Without(files, f)
  ELSE Open(f, doc)

DoRestore ==
  /\ Doing("restore")
  /\ LET step == Head(job.rest)
     IN  IF Slot(step) \in DOMAIN backups THEN PutBack(step.file, backups[Slot(step)])
         ELSE IF step.how = "keep" THEN Advance /\ UNCHANGED files
         ELSE RemoveSettings(step.file, step.how)
  /\ Same /\ UNCHANGED backups

\* The backup is removed once it is back in place.
DoDrop ==
  /\ Doing("drop")
  /\ backups' = IF job.dry THEN backups ELSE Without(backups, Slot(Head(job.rest)))
  /\ Advance
  /\ Same /\ UNCHANGED files

\* Mutant: a failed or a dry run is recorded as well.
MutantUpdateState ==
  recorded' = IF job.connect THEN recorded \cup {job.client} ELSE recorded \ {job.client}

\* A disconnect is always taken off the record; a connect goes on it only when
\* it wrote and succeeded.
UpdateState ==
  recorded' = IF ~job.connect THEN recorded \ {job.client}
              ELSE IF job.dry \/ ~job.ok THEN recorded
              ELSE recorded \cup {job.client}

Finish ==
  /\ ~Idle /\ job.rest = <<>>
  /\ UpdateState
  /\ job' = NoJob
  /\ UNCHANGED <<group, files, backups, pending, edits>>

\* The process is killed at any point, what it was about to write with it.
Interrupt ==
  /\ ~Idle
  /\ job' = NoJob /\ pending' = {}
  /\ UNCHANGED <<group, files, backups, recorded, edits>>

\* Between commands the user, or the client itself, writes a file, with or
\* without Isartor's settings in it, or deletes it.
Edit(f) ==
  /\ Idle /\ edits < MaxEdits
  /\ edits' = edits + 1
  /\ \/ \E ok \in IF f \in PlainText THEN {TRUE} ELSE BOOLEAN,
           keys \in {{}} \cup {files[x].keys : x \in DOMAIN files \cap {f}} :
             files' = With(files, f, [text |-> edits', ok |-> ok, keys |-> keys])
     \/ /\ f \in DOMAIN files
        /\ files' = Without(files, f)
  /\ UNCHANGED <<group, backups, recorded, job, pending>>

\* The files the clients of the group touch and the user may edit.
EditedFiles ==
  ((UNION {FilesOf(c) : c \in group}) \ Scripts)
  \cup (IF "copilot" \in group THEN {"copilot/config"} ELSE {})

Next ==
  \/ \E c \in group, connect, dry \in BOOLEAN : Begin(c, connect, dry)
  \/ DoBackup \/ DoRead \/ DoWrite \/ DoAllow \/ DoAuth \/ DoProbe
  \/ DoRestore \/ DoDrop \/ DoRemove \/ DoDelete \/ Flush
  \/ Finish \/ Interrupt
  \/ \E f \in EditedFiles : Edit(f)

Spec == Init /\ [][Next]_vars

-----------------------------------------------------------------------------

Slots == UNION {{<<c, f>> : f \in FilesOf(c)} : c \in Clients}

\* Type correctness: the clients that run are the user's, only files of clients
\* exist or have backups, and a command that failed does nothing more.
TypeOK ==
  /\ group \in Groups
  /\ \A f \in DOMAIN files : f \in Files /\ files[f] \in Content
  /\ \A k \in DOMAIN backups : k \in Slots /\ backups[k] \in Content
  /\ recorded \subseteq group
  /\ job.client \in group \cup {"none"}
  /\ job.ok \/ job.rest = <<>>
  /\ pending # {} => job.rest # <<>> /\ \E doc \in Content : pending = {doc}
  /\ edits \in 0 .. MaxEdits

\* The clients that never replace a backup and note a missing file.
BacksUpOnce == {"claude-copilot", "copilot-vscode", "opencode"}

\* The clients that make no backup and take out what they put in.
CleansUp == {"copilot", "cursor", "antigravity", "codex", "gemini", "generic"}

Alone(c) == \A d \in group \ {c} : FilesOf(c) \cap FilesOf(d) = {}

\* However often a client is connected, interrupted, disconnected and connected
\* again, and whatever the user edits in between, its backup is of a file
\* without its own settings (backup_file returns early when there is one).
BackupsClean ==
  \A k \in DOMAIN backups :
    k[1] \in BacksUpOnce /\ Alone(k[1]) => k[1] \notin backups[k].keys

\* A disconnect that succeeds leaves none of the client's settings in the files
\* it routes through, except in one that cannot be parsed.  The other clients may
\* keep theirs: a connect without a file makes no backup, a second one may copy the
\* first one's settings (claude.rs:46).
DisconnectLeavesNoKeys ==
  \A c \in BacksUpOnce \cup CleansUp :
    job.client = c /\ ~job.connect /\ ~job.dry /\ job.ok /\ job.rest = <<>> /\ Alone(c) =>
      \A f \in FilesOf(c) \cap DOMAIN files : ~Unreadable(f) => c \notin files[f].keys

\* What the user wrote in f: in the file, or in the hands of the command that has
\* emptied it.
Texts(f) ==
  {files[x].text : x \in DOMAIN files \cap {f}}
  \cup {doc.text : doc \in {d \in pending : /\ Head(job.rest).op # "backup"
                                           /\ Head(job.rest).file = f}}

\* Connecting a client takes the user's text out of a file only into a backup: these
\* clients stop at a file they cannot parse, or have just copied it.  A kill in the
\* middle of a write may lose what is newer than the backup, except for "claude",
\* which copies the file every time (cli/connect/mod.rs:485 empties it first).
UserTextKept ==
  [][/\ job.client \in {"claude", "claude-copilot", "claude-desktop", "copilot-vscode",
                        "openclaw"}
     /\ job.connect
     /\ pending # {} /\ job' = NoJob => job.client = "claude"
     => \A f \in DOMAIN files : \A t \in Texts(f) \ (Texts(f)' \cup {0}) :
          \E k \in DOMAIN backups' : k[2] = f /\ backups'[k].text = t]_vars

\* A client enters connections.json only with its settings in all of its files.
RecordedOnlyIfWritten ==
  [][\A c \in recorded' \ recorded, f \in Files :
       f \in FilesOf(c) => f \in DOMAIN files /\ c \in files[f].keys]_vars
=============================================================================
