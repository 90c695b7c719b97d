---------------------------- MODULE CommandProofs ----------------------------
(***************************************************************************)
(* Proofs about the commands that connect and disconnect client programs,  *)
(* for any clients of a user and any number of edits.                      *)
(***************************************************************************)
EXTENDS ClientConnect, TLAPS

-----------------------------------------------------------------------------
(* The configuration files of other programs.                              *)

Steps == UNION {Range(Connects[c]) \cup Range(Disconnects[c]) : c \in Clients}
ConnectOps == {"backup", "read", "write", "allow", "auth", "probe"}
DisconnectOps == {"restore", "drop", "remove", "delete"}
Jobs == [client : group, connect : BOOLEAN, dry : BOOLEAN, ok : BOOLEAN, rest : Seq(Steps)]

Plan(j) == IF j.connect THEN Connects[j.client] ELSE Disconnects[j.client]

\* The clients whose connect never drops what the user wrote.
Careful == {"claude", "claude-copilot", "claude-desktop", "copilot-vscode", "openclaw"}

\* How far a command is in its plan, and the steps it has taken.
Position(j) == Len(Plan(j)) - Len(j.rest)
Taken(j) == {Plan(j)[i] : i \in 1 .. Position(j)}

\* A command that runs has the rest of its plan before it, or has failed.
JobOK ==
  Idle \/ /\ job \in Jobs
          /\ job.ok => /\ Len(job.rest) <= Len(Plan(job))
                       /\ \A i \in 1 .. Len(job.rest) :
                            job.rest[i] = Plan(job)[Position(job) + i]
          /\ ~job.ok => job.rest = <<>>

TypesOK ==
  /\ group \in Groups /\ group \subseteq Clients
  /\ files \in [DOMAIN files -> Content] /\ DOMAIN files \subseteq Files
  /\ backups \in [DOMAIN backups -> Content] /\ DOMAIN backups \subseteq Slots
  /\ recorded \subseteq group
  /\ edits \in 0 .. MaxEdits

Touched(c) == FilesOf(c) \cup (IF c = "copilot" THEN {"copilot/config"} ELSE {})

\* The settings of a client are only in files it touches, and so are its backups.
KeysOwn ==
  /\ \A f \in DOMAIN files : \A c \in files[f].keys : c \in group /\ f \in Touched(c)
  /\ \A k \in DOMAIN backups : \A c \in backups[k].keys : c \in group /\ k[2] \in Touched(c)

\* A file with a client's settings has its backup.
KeysBacked ==
  \A c \in BacksUpOnce : Alone(c) =>
    \A f \in DOMAIN files : c \in files[f].keys => <<c, f>> \in DOMAIN backups

\* What a command has in hand for the file that it is about to write.
FileDoc(doc) ==
  LET h == Head(job.rest)
      c == job.client
  IN  /\ h.op \in {"write", "allow", "restore", "remove"}
      /\ \A d \in doc.keys : d \in group /\ h.file \in Touched(d)
      /\ c \in doc.keys /\ c \in BacksUpOnce /\ Alone(c) => <<c, h.file>> \in DOMAIN backups
      /\ job.connect => c \in doc.keys
      /\ ~job.connect => /\ c \in BacksUpOnce /\ Alone(c) => c \notin doc.keys
                         /\ c \in CleansUp => c \notin doc.keys
      /\ c = "claude" /\ job.connect /\ doc.text # 0 =>
           <<c, h.file>> \in DOMAIN backups /\ backups[<<c, h.file>>].text = doc.text

\* What it has in hand for the backup.
BackupDoc(doc) ==
  LET h == Head(job.rest)
      c == job.client
  IN  /\ h.op = "backup" /\ Slot(h) \in DOMAIN backups
      /\ doc = BackedUp(h.file)
      /\ c \in BacksUpOnce /\ Alone(c) => c \notin doc.keys

\* Something is in hand only between the emptying of a file and its writing.
PendingOK ==
  pending # {} =>
    /\ ~Idle /\ job.ok /\ ~job.dry /\ job.rest # <<>>
    /\ \E doc \in Content :
         /\ pending = {doc}
         /\ \/ BackupDoc(doc)
            \/ /\ FileDoc(doc)
               /\ Head(job.rest).file \in DOMAIN files
               /\ files[Head(job.rest).file] = Empty

Writing(f) == pending # {} /\ Head(job.rest).op # "backup" /\ Head(job.rest).file = f

\* What the steps taken have achieved, when the command is not a dry run.
Achieved(s) ==
  IF job.connect
  THEN /\ s.op = "backup" /\ job.client \in BacksUpOnce => Slot(s) \in DOMAIN backups
       /\ s.op = "write" => s.file \in DOMAIN files
                            /\ (job.client \in files[s.file].keys \/ Writing(s.file))
  ELSE /\ s.op = "restore" /\ job.client \in BacksUpOnce /\ Alone(job.client) =>
            (s.file \in DOMAIN files => job.client \notin files[s.file].keys)
       /\ s.op \in {"remove", "delete"} /\ job.client \in CleansUp =>
            (s.file \in DOMAIN files /\ files[s.file].ok => job.client \notin files[s.file].keys)

\* Claude Code's settings have just been copied when they are written.
JustCopied ==
  job.client = "claude" /\ job.connect /\ Len(job.rest) = 2 /\ pending = {} =>
    \A f \in DOMAIN files : f = "claude/settings" =>
      <<"claude", f>> \in DOMAIN backups /\ backups[<<"claude", f>>].text = files[f].text

Progress ==
  ~Idle /\ job.ok /\ ~job.dry => JustCopied /\ \A s \in Taken(job) : Achieved(s)

ClientInv ==
  TypesOK /\ JobOK /\ KeysOwn /\ KeysBacked /\ BackupsClean /\ Progress /\ PendingOK

-----------------------------------------------------------------------------
(* The plans of the commands.                                              *)

\* What holds of the plans of a client that writes the files W.
ConnectPlan(c, p, W) ==
  \A i \in 1 .. Len(p) :
    /\ p[i].op \in ConnectOps
    /\ p[i].op \in {"backup", "write"} => p[i].file \in W
    /\ p[i].op = "backup" /\ c \in BacksUpOnce => p[i].how = "first"
    /\ p[i].op = "write" /\ c \in BacksUpOnce =>
         \E j \in 1 .. i - 1 : p[j] = Backup(p[i].file, "first")
    /\ p[i].op = "allow" => c = "copilot" /\ p[i].file = "copilot/config"
    /\ p[i].op = "write" /\ c \in Careful => p[i].how = "merge" \/ c = "claude"

DisconnectPlan(c, p, W) ==
  /\ \A i \in 1 .. Len(p) :
       /\ p[i].op \in DisconnectOps /\ p[i].file \in W
       /\ c \in BacksUpOnce => p[i].op \in {"restore", "drop"}
       /\ c \in CleansUp => p[i].op \in {"remove", "delete"}
       /\ p[i].op = "drop" => i > 1 /\ p[i - 1].op = "restore" /\ p[i - 1].file = p[i].file
  /\ c \in BacksUpOnce \cup CleansUp =>
       \A f \in W : \E i \in 1 .. Len(p) :
         p[i].file = f /\ p[i].op \in {"restore", "remove", "delete"}

PlansOK(c, p, q, W) ==
  /\ p \in Seq(Range(p)) /\ q \in Seq(Range(q))
  /\ ConnectPlan(c, p, W) /\ DisconnectPlan(c, q, W)
  /\ \A f : f \in W <=> \E i \in 1 .. Len(p) : p[i].op = "write" /\ p[i].file = f
  /\ "copilot/config" \notin W
  /\ c = "claude" => /\ Len(p) = 3 /\ W = {"claude/settings"}
                     /\ p[1] = Backup("claude/settings", "each")
                     /\ p[2].op = "write" /\ p[3].op = "probe"

\* The plans of every client (the handlers under src/cli/connect/).
LEMMA Plans ==
  ASSUME NEW c \in Clients
  PROVE  \E W : PlansOK(c, Connects[c], Disconnects[c], W)
  <1> USE DEF ConnectOps, DisconnectOps, BacksUpOnce, CleansUp, Careful, Step
  <1>1. CASE c = "claude"
    <2> DEFINE p == ClaudeConnect
               q == ClaudeDisconnect
               W == {"claude/settings"}
    <2>1. p \in Seq(Range(p)) /\ Len(p) = 3
      BY DEF ClaudeConnect, Range
    <2>2. q \in Seq(Range(q)) /\ Len(q) = 2
      BY DEF ClaudeDisconnect, Restore, Range
    <2>3. /\ p[1] = Backup("claude/settings", "each")
          /\ p[2] = Write("claude/settings", "replace")
          /\ p[3] = Probe("answered")
      BY DEF ClaudeConnect
    <2>4. /\ q[1] = Step("restore", "claude/settings", "keep")
          /\ q[2] = Step("drop", "claude/settings", "keep")
      BY DEF ClaudeDisconnect, Restore
    <2>5. Connects[c] = p /\ Disconnects[c] = q
      BY <1>1 DEF Connects, Disconnects, Clients
    <2> HIDE DEF p, q
    <2>6. /\ \A i \in 1 .. Len(p) : i \in {1, 2, 3}
          /\ \A i \in 1 .. Len(q) : i \in {1, 2}
      BY <2>1, <2>2
    <2>7. ConnectPlan(c, p, W)
      BY <1>1, <2>1, <2>3, <2>6 DEF ConnectPlan, Backup, Probe, Write
    <2>8. DisconnectPlan(c, q, W)
      BY <1>1, <2>2, <2>4, <2>6 DEF DisconnectPlan
    <2>9. \A f : f \in W <=> \E i \in 1 .. Len(p) : p[i].op = "write" /\ p[i].file = f
      BY <2>1, <2>3, <2>6 DEF Backup, Probe, Write
    <2>10. c = "claude" => /\ Len(p) = 3 /\ W = {"claude/settings"}
                           /\ p[1] = Backup("claude/settings", "each")
                           /\ p[2].op = "write" /\ p[3].op = "probe"
      BY <2>1, <2>3 DEF Write, Probe
    <2>11. "copilot/config" \notin W
      OBVIOUS
    <2>12. PlansOK(c, p, q, W)
      BY <2>1, <2>2, <2>7, <2>8, <2>9, <2>10, <2>11 DEF PlansOK
    <2> QED BY <2>5, <2>12
  <1>2. CASE c = "claude-copilot"
    <2> DEFINE p == ClaudeCopilotConnect
               q == ClaudeCopilotDisconnect
               W == {"claude/settings", "isartor.toml"}
    <2>1. p \in Seq(Range(p)) /\ Len(p) = 8
      BY DEF ClaudeCopilotConnect, Range
    <2>2. q \in Seq(Range(q)) /\ Len(q) = 4
      BY DEF ClaudeCopilotDisconnect, Restore, Range
    <2>3. /\ p[1] = Step("auth", "none", "stop")
          /\ p[2] = Backup("isartor.toml", "first")
          /\ p[3] = Read("isartor.toml")
          /\ p[4] = Write("isartor.toml", "merge")
          /\ p[5] = Backup("claude/settings", "first")
          /\ p[6] = Read("claude/settings")
          /\ p[7] = Write("claude/settings", "merge")
          /\ p[8] = Probe("any")
      BY DEF ClaudeCopilotConnect
    <2>4. /\ q[1] = Step("restore", "claude/settings", "keep")
          /\ q[2] = Step("drop", "claude/settings", "keep")
          /\ q[3] = Step("restore", "isartor.toml", "keep")
          /\ q[4] = Step("drop", "isartor.toml", "keep")
      BY DEF ClaudeCopilotDisconnect, Restore
    <2>5. Connects[c] = p /\ Disconnects[c] = q
      BY <1>2 DEF Connects, Disconnects, Clients
    <2> HIDE DEF p, q
    <2>6. /\ \A i \in 1 .. Len(p) : i \in {1, 2, 3, 4, 5, 6, 7, 8}
          /\ \A i \in 1 .. Len(q) : i \in {1, 2, 3, 4}
      BY <2>1, <2>2
    <2>7. ConnectPlan(c, p, W)
      BY <1>2, <2>1, <2>3, <2>6 DEF ConnectPlan, Backup, Probe, Read, Write
    <2>8. DisconnectPlan(c, q, W)
      BY <1>2, <2>2, <2>4, <2>6 DEF DisconnectPlan
    <2>9. \A f : f \in W <=> \E i \in 1 .. Len(p) : p[i].op = "write" /\ p[i].file = f
      BY <2>1, <2>3, <2>6 DEF Backup, Probe, Read, Write
    <2>10. c = "claude" => /\ Len(p) = 3 /\ W = {"claude/settings"}
                           /\ p[1] = Backup("claude/settings", "each")
                           /\ p[2].op = "write" /\ p[3].op = "probe"
      BY <1>2
    <2>11. "copilot/config" \notin W
      OBVIOUS
    <2>12. PlansOK(c, p, q, W)
      BY <2>1, <2>2, <2>7, <2>8, <2>9, <2>10, <2>11 DEF PlansOK
    <2> QED BY <2>5, <2>12
  <1>3. CASE c = "claude-desktop"
    <2> DEFINE p == ClaudeDesktopConnect
               q == ClaudeDesktopDisconnect
               W == {"desktop"}
    <2>1. p \in Seq(Range(p)) /\ Len(p) = 4
      BY DEF ClaudeDesktopConnect, Range
    <2>2. q \in Seq(Range(q)) /\ Len(q) = 2
      BY DEF ClaudeDesktopDisconnect, Restore, Range
    <2>3. /\ p[1] = Backup("desktop", "existing")
          /\ p[2] = Read("desktop")
          /\ p[3] = Write("desktop", "merge")
          /\ p[4] = Probe("reachable")
      BY DEF ClaudeDesktopConnect
    <2>4. /\ q[1] = Step("restore", "desktop", "strict")
          /\ q[2] = Step("drop", "desktop", "strict")
      BY DEF ClaudeDesktopDisconnect, Restore
    <2>5. Connects[c] = p /\ Disconnects[c] = q
      BY <1>3 DEF Connects, Disconnects, Clients
    <2> HIDE DEF p, q
    <2>6. /\ \A i \in 1 .. Len(p) : i \in {1, 2, 3, 4}
          /\ \A i \in 1 .. Len(q) : i \in {1, 2}
      BY <2>1, <2>2
    <2>7. ConnectPlan(c, p, W)
      BY <1>3, <2>1, <2>3, <2>6 DEF ConnectPlan, Backup, Probe, Read, Write
    <2>8. DisconnectPlan(c, q, W)
      BY <1>3, <2>2, <2>4, <2>6 DEF DisconnectPlan
    <2>9. \A f : f \in W <=> \E i \in 1 .. Len(p) : p[i].op = "write" /\ p[i].file = f
      BY <2>1, <2>3, <2>6 DEF Backup, Probe, Read, Write
    <2>10. c = "claude" => /\ Len(p) = 3 /\ W = {"claude/settings"}
                           /\ p[1] = Backup("claude/settings", "each")
                           /\ p[2].op = "write" /\ p[3].op = "probe"
      BY <1>3
    <2>11. "copilot/config" \notin W
      OBVIOUS
    <2>12. PlansOK(c, p, q, W)
      BY <2>1, <2>2, <2>7, <2>8, <2>9, <2>10, <2>11 DEF PlansOK
    <2> QED BY <2>5, <2>12
  <1>4. CASE c = "copilot"
    <2> DEFINE p == CopilotConnect
               q == CopilotDisconnect
               W == {"copilot/instructions", "copilot/mcp"}
    <2>1. p \in Seq(Range(p)) /\ Len(p) = 4
      BY DEF CopilotConnect, Range
    <2>2. q \in Seq(Range(q)) /\ Len(q) = 2
      BY DEF CopilotDisconnect, Range
    <2>3. /\ p[1] = Write("copilot/mcp", "replace")
          /\ p[2] = Step("allow", "copilot/config", "quiet")
          /\ p[3] = Write("copilot/instructions", "replace")
          /\ p[4] = Probe("reachable")
      BY DEF CopilotConnect
    <2>4. /\ q[1] = Remove("copilot/mcp", "quiet")
          /\ q[2] = Remove("copilot/instructions", "tidy")
      BY DEF CopilotDisconnect
    <2>5. Connects[c] = p /\ Disconnects[c] = q
      BY <1>4 DEF Connects, Disconnects, Clients
    <2> HIDE DEF p, q
    <2>6. /\ \A i \in 1 .. Len(p) : i \in {1, 2, 3, 4}
          /\ \A i \in 1 .. Len(q) : i \in {1, 2}
      BY <2>1, <2>2
    <2>7. ConnectPlan(c, p, W)
      BY <1>4, <2>1, <2>3, <2>6 DEF ConnectPlan, Backup, Probe, Write
    <2>8. DisconnectPlan(c, q, W)
      BY <1>4, <2>2, <2>4, <2>6 DEF DisconnectPlan, Remove
    <2>9. \A f : f \in W <=> \E i \in 1 .. Len(p) : p[i].op = "write" /\ p[i].file = f
      BY <2>1, <2>3, <2>6 DEF Probe, Write
    <2>10. c = "claude" => /\ Len(p) = 3 /\ W = {"claude/settings"}
                           /\ p[1] = Backup("claude/settings", "each")
                           /\ p[2].op = "write" /\ p[3].op = "probe"
      BY <1>4
    <2>11. "copilot/config" \notin W
      OBVIOUS
    <2>12. PlansOK(c, p, q, W)
      BY <2>1, <2>2, <2>7, <2>8, <2>9, <2>10, <2>11 DEF PlansOK
    <2> QED BY <2>5, <2>12
  <1>5. CASE c = "copilot-vscode"
    <2> DEFINE p == CopilotVscodeConnect
               q == CopilotVscodeDisconnect
               W == {"vscode"}
    <2>1. p \in Seq(Range(p)) /\ Len(p) = 4
      BY DEF CopilotVscodeConnect, Range
    <2>2. q \in Seq(Range(q)) /\ Len(q) = 2
      BY DEF CopilotVscodeDisconnect, Restore, Range
    <2>3. /\ p[1] = Probe("preflight")
          /\ p[2] = Read("vscode")
          /\ p[3] = Backup("vscode", "first")
          /\ p[4] = Write("vscode", "merge")
      BY DEF CopilotVscodeConnect
    <2>4. /\ q[1] = Step("restore", "vscode", "tidy")
          /\ q[2] = Step("drop", "vscode", "tidy")
      BY DEF CopilotVscodeDisconnect, Restore
    <2>5. Connects[c] = p /\ Disconnects[c] = q
      BY <1>5 DEF Connects, Disconnects, Clients
    <2> HIDE DEF p, q
    <2>6. /\ \A i \in 1 .. Len(p) : i \in {1, 2, 3, 4}
          /\ \A i \in 1 .. Len(q) : i \in {1, 2}
      BY <2>1, <2>2
    <2>7. ConnectPlan(c, p, W)
      BY <1>5, <2>1, <2>3, <2>6 DEF ConnectPlan, Backup, Probe, Read, Write
    <2>8. DisconnectPlan(c, q, W)
      BY <1>5, <2>2, <2>4, <2>6 DEF DisconnectPlan
    <2>9. \A f : f \in W <=> \E i \in 1 .. Len(p) : p[i].op = "write" /\ p[i].file = f
      BY <2>1, <2>3, <2>6 DEF Backup, Probe, Read, Write
    <2>10. c = "claude" => /\ Len(p) = 3 /\ W = {"claude/settings"}
                           /\ p[1] = Backup("claude/settings", "each")
                           /\ p[2].op = "write" /\ p[3].op = "probe"
      BY <1>5
    <2>11. "copilot/config" \notin W
      OBVIOUS
    <2>12. PlansOK(c, p, q, W)
      BY <2>1, <2>2, <2>7, <2>8, <2>9, <2>10, <2>11 DEF PlansOK
    <2> QED BY <2>5, <2>12
  <1>6. CASE c = "cursor"
    <2> DEFINE p == CursorConnect
               q == CursorDisconnect
               W == {"cursor/mcp", "env/cursor"}
    <2>1. p \in Seq(Range(p)) /\ Len(p) = 3
      BY DEF CursorConnect, Range
    <2>2. q \in Seq(Range(q)) /\ Len(q) = 2
      BY DEF CursorDisconnect, Range
    <2>3. /\ p[1] = Write("env/cursor", "own")
          /\ p[2] = Write("cursor/mcp", "replace")
          /\ p[3] = Probe("answered")
      BY DEF CursorConnect
    <2>4. /\ q[1] = Delete("env/cursor")
          /\ q[2] = Remove("cursor/mcp", "quiet")
      BY DEF CursorDisconnect
    <2>5. Connects[c] = p /\ Disconnects[c] = q
      BY <1>6 DEF Connects, Disconnects, Clients
    <2> HIDE DEF p, q
    <2>6. /\ \A i \in 1 .. Len(p) : i \in {1, 2, 3}
          /\ \A i \in 1 .. Len(q) : i \in {1, 2}
      BY <2>1, <2>2
    <2>7. ConnectPlan(c, p, W)
      BY <1>6, <2>1, <2>3, <2>6 DEF ConnectPlan, Backup, Probe, Write
    <2>8. DisconnectPlan(c, q, W)
      BY <1>6, <2>2, <2>4, <2>6 DEF DisconnectPlan, Delete, Remove
    <2>9. \A f : f \in W <=> \E i \in 1 .. Len(p) : p[i].op = "write" /\ p[i].file = f
      BY <2>1, <2>3, <2>6 DEF Probe, Write
    <2>10. c = "claude" => /\ Len(p) = 3 /\ W = {"claude/settings"}
                           /\ p[1] = Backup("claude/settings", "each")
                           /\ p[2].op = "write" /\ p[3].op = "probe"
      BY <1>6
    <2>11. "copilot/config" \notin W
      OBVIOUS
    <2>12. PlansOK(c, p, q, W)
      BY <2>1, <2>2, <2>7, <2>8, <2>9, <2>10, <2>11 DEF PlansOK
    <2> QED BY <2>5, <2>12
  <1>7. CASE c = "openclaw"
    <2> DEFINE p == OpenclawConnect
               q == OpenclawDisconnect
               W == {"openclaw"}
    <2>1. p \in Seq(Range(p)) /\ Len(p) = 4
      BY DEF OpenclawConnect, Range
    <2>2. q \in Seq(Range(q)) /\ Len(q) = 2
      BY DEF OpenclawDisconnect, Restore, Range
    <2>3. /\ p[1] = Backup("openclaw", "existing")
          /\ p[2] = Read("openclaw")
          /\ p[3] = Write("openclaw", "merge")
          /\ p[4] = Probe("reachable")
      BY DEF OpenclawConnect
    <2>4. /\ q[1] = Step("restore", "openclaw", "strict")
          /\ q[2] = Step("drop", "openclaw", "strict")
      BY DEF OpenclawDisconnect, Restore
    <2>5. Connects[c] = p /\ Disconnects[c] = q
      BY <1>7 DEF Connects, Disconnects, Clients
    <2> HIDE DEF p, q
    <2>6. /\ \A i \in 1 .. Len(p) : i \in {1, 2, 3, 4}
          /\ \A i \in 1 .. Len(q) : i \in {1, 2}
      BY <2>1, <2>2
    <2>7. ConnectPlan(c, p, W)
      BY <1>7, <2>1, <2>3, <2>6 DEF ConnectPlan, Backup, Probe, Read, Write
    <2>8. DisconnectPlan(c, q, W)
      BY <1>7, <2>2, <2>4, <2>6 DEF DisconnectPlan
    <2>9. \A f : f \in W <=> \E i \in 1 .. Len(p) : p[i].op = "write" /\ p[i].file = f
      BY <2>1, <2>3, <2>6 DEF Backup, Probe, Read, Write
    <2>10. c = "claude" => /\ Len(p) = 3 /\ W = {"claude/settings"}
                           /\ p[1] = Backup("claude/settings", "each")
                           /\ p[2].op = "write" /\ p[3].op = "probe"
      BY <1>7
    <2>11. "copilot/config" \notin W
      OBVIOUS
    <2>12. PlansOK(c, p, q, W)
      BY <2>1, <2>2, <2>7, <2>8, <2>9, <2>10, <2>11 DEF PlansOK
    <2> QED BY <2>5, <2>12
  <1>8. CASE c = "opencode"
    <2> DEFINE p == OpencodeConnect
               q == OpencodeDisconnect
               W == {"opencode/auth", "opencode/config"}
    <2>1. p \in Seq(Range(p)) /\ Len(p) = 5
      BY DEF OpencodeConnect, Range
    <2>2. q \in Seq(Range(q)) /\ Len(q) = 4
      BY DEF OpencodeDisconnect, Restore, Range
    <2>3. /\ p[1] = Backup("opencode/config", "first")
          /\ p[2] = Backup("opencode/auth", "first")
          /\ p[3] = Write("opencode/config", "replace")
          /\ p[4] = Write("opencode/auth", "replace")
          /\ p[5] = Probe("answered")
      BY DEF OpencodeConnect
    <2>4. /\ q[1] = Step("restore", "opencode/config", "quiet")
          /\ q[2] = Step("drop", "opencode/config", "quiet")
          /\ q[3] = Step("restore", "opencode/auth", "quiet")
          /\ q[4] = Step("drop", "opencode/auth", "quiet")
      BY DEF OpencodeDisconnect, Restore
    <2>5. Connects[c] = p /\ Disconnects[c] = q
      BY <1>8 DEF Connects, Disconnects, Clients
    <2> HIDE DEF p, q
    <2>6. /\ \A i \in 1 .. Len(p) : i \in {1, 2, 3, 4, 5}
          /\ \A i \in 1 .. Len(q) : i \in {1, 2, 3, 4}
      BY <2>1, <2>2
    <2>7. ConnectPlan(c, p, W)
      BY <1>8, <2>1, <2>3, <2>6 DEF ConnectPlan, Backup, Probe, Write
    <2>8. DisconnectPlan(c, q, W)
      BY <1>8, <2>2, <2>4, <2>6 DEF DisconnectPlan
    <2>9. \A f : f \in W <=> \E i \in 1 .. Len(p) : p[i].op = "write" /\ p[i].file = f
      BY <2>1, <2>3, <2>6 DEF Backup, Probe, Write
    <2>10. c = "claude" => /\ Len(p) = 3 /\ W = {"claude/settings"}
                           /\ p[1] = Backup("claude/settings", "each")
                           /\ p[2].op = "write" /\ p[3].op = "probe"
      BY <1>8
    <2>11. "copilot/config" \notin W
      OBVIOUS
    <2>12. PlansOK(c, p, q, W)
      BY <2>1, <2>2, <2>7, <2>8, <2>9, <2>10, <2>11 DEF PlansOK
    <2> QED BY <2>5, <2>12
  <1>9. CASE c = "antigravity"
    <2> DEFINE p == AntigravityConnect
               q == AntigravityDisconnect
               W == {"env/antigravity"}
    <2>1. p \in Seq(Range(p)) /\ Len(p) = 2
      BY DEF AntigravityConnect, Range
    <2>2. q \in Seq(Range(q)) /\ Len(q) = 1
      BY DEF AntigravityDisconnect, Range
    <2>3. /\ p[1] = Write("env/antigravity", "own")
          /\ p[2] = Probe("answered")
      BY DEF AntigravityConnect
    <2>4. /\ q[1] = Delete("env/antigravity")
      BY DEF AntigravityDisconnect
    <2>5. Connects[c] = p /\ Disconnects[c] = q
      BY <1>9 DEF Connects, Disconnects, Clients
    <2> HIDE DEF p, q
    <2>6. /\ \A i \in 1 .. Len(p) : i \in {1, 2}
          /\ \A i \in 1 .. Len(q) : i \in {1}
      BY <2>1, <2>2
    <2>7. ConnectPlan(c, p, W)
      BY <1>9, <2>1, <2>3, <2>6 DEF ConnectPlan, Backup, Probe, Write
    <2>8. DisconnectPlan(c, q, W)
      BY <1>9, <2>2, <2>4, <2>6 DEF DisconnectPlan, Delete
    <2>9. \A f : f \in W <=> \E i \in 1 .. Len(p) : p[i].op = "write" /\ p[i].file = f
      BY <2>1, <2>3, <2>6 DEF Probe, Write
    <2>10. c = "claude" => /\ Len(p) = 3 /\ W = {"claude/settings"}
                           /\ p[1] = Backup("claude/settings", "each")
                           /\ p[2].op = "write" /\ p[3].op = "probe"
      BY <1>9
    <2>11. "copilot/config" \notin W
      OBVIOUS
    <2>12. PlansOK(c, p, q, W)
      BY <2>1, <2>2, <2>7, <2>8, <2>9, <2>10, <2>11 DEF PlansOK
    <2> QED BY <2>5, <2>12
  <1>10. CASE c = "codex"
    <2> DEFINE p == CodexConnect
               q == CodexDisconnect
               W == {"env/codex"}
    <2>1. p \in Seq(Range(p)) /\ Len(p) = 2
      BY DEF CodexConnect, Range
    <2>2. q \in Seq(Range(q)) /\ Len(q) = 1
      BY DEF CodexDisconnect, Range
    <2>3. /\ p[1] = Write("env/codex", "own")
          /\ p[2] = Probe("answered")
      BY DEF CodexConnect
    <2>4. /\ q[1] = Delete("env/codex")
      BY DEF CodexDisconnect
    <2>5. Connects[c] = p /\ Disconnects[c] = q
      BY <1>10 DEF Connects, Disconnects, Clients
    <2> HIDE DEF p, q
    <2>6. /\ \A i \in 1 .. Len(p) : i \in {1, 2}
          /\ \A i \in 1 .. Len(q) : i \in {1}
      BY <2>1, <2>2
    <2>7. ConnectPlan(c, p, W)
      BY <1>10, <2>1, <2>3, <2>6 DEF ConnectPlan, Backup, Probe, Write
    <2>8. DisconnectPlan(c, q, W)
      BY <1>10, <2>2, <2>4, <2>6 DEF DisconnectPlan, Delete
    <2>9. \A f : f \in W <=> \E i \in 1 .. Len(p) : p[i].op = "write" /\ p[i].file = f
      BY <2>1, <2>3, <2>6 DEF Probe, Write
    <2>10. c = "claude" => /\ Len(p) = 3 /\ W = {"claude/settings"}
                           /\ p[1] = Backup("claude/settings", "each")
                           /\ p[2].op = "write" /\ p[3].op = "probe"
      BY <1>10
    <2>11. "copilot/config" \notin W
      OBVIOUS
    <2>12. PlansOK(c, p, q, W)
      BY <2>1, <2>2, <2>7, <2>8, <2>9, <2>10, <2>11 DEF PlansOK
    <2> QED BY <2>5, <2>12
  <1>11. CASE c = "gemini"
    <2> DEFINE p == GeminiConnect
               q == GeminiDisconnect
               W == {"env/gemini"}
    <2>1. p \in Seq(Range(p)) /\ Len(p) = 2
      BY DEF GeminiConnect, Range
    <2>2. q \in Seq(Range(q)) /\ Len(q) = 1
      BY DEF GeminiDisconnect, Range
    <2>3. /\ p[1] = Write("env/gemini", "own")
          /\ p[2] = Probe("answered")
      BY DEF GeminiConnect
    <2>4. /\ q[1] = Delete("env/gemini")
      BY DEF GeminiDisconnect
    <2>5. Connects[c] = p /\ Disconnects[c] = q
      BY <1>11 DEF Connects, Disconnects, Clients
    <2> HIDE DEF p, q
    <2>6. /\ \A i \in 1 .. Len(p) : i \in {1, 2}
          /\ \A i \in 1 .. Len(q) : i \in {1}
      BY <2>1, <2>2
    <2>7. ConnectPlan(c, p, W)
      BY <1>11, <2>1, <2>3, <2>6 DEF ConnectPlan, Backup, Probe, Write
    <2>8. DisconnectPlan(c, q, W)
      BY <1>11, <2>2, <2>4, <2>6 DEF DisconnectPlan, Delete
    <2>9. \A f : f \in W <=> \E i \in 1 .. Len(p) : p[i].op = "write" /\ p[i].file = f
      BY <2>1, <2>3, <2>6 DEF Probe, Write
    <2>10. c = "claude" => /\ Len(p) = 3 /\ W = {"claude/settings"}
                           /\ p[1] = Backup("claude/settings", "each")
                           /\ p[2].op = "write" /\ p[3].op = "probe"
      BY <1>11
    <2>11. "copilot/config" \notin W
      OBVIOUS
    <2>12. PlansOK(c, p, q, W)
      BY <2>1, <2>2, <2>7, <2>8, <2>9, <2>10, <2>11 DEF PlansOK
    <2> QED BY <2>5, <2>12
  <1>12. CASE c = "generic"
    <2> DEFINE p == GenericConnect
               q == GenericDisconnect
               W == {"env/generic"}
    <2>1. p \in Seq(Range(p)) /\ Len(p) = 2
      BY DEF GenericConnect, Range
    <2>2. q \in Seq(Range(q)) /\ Len(q) = 1
      BY DEF GenericDisconnect, Range
    <2>3. /\ p[1] = Write("env/generic", "own")
          /\ p[2] = Probe("answered")
      BY DEF GenericConnect
    <2>4. /\ q[1] = Delete("env/generic")
      BY DEF GenericDisconnect
    <2>5. Connects[c] = p /\ Disconnects[c] = q
      BY <1>12 DEF Connects, Disconnects, Clients
    <2> HIDE DEF p, q
    <2>6. /\ \A i \in 1 .. Len(p) : i \in {1, 2}
          /\ \A i \in 1 .. Len(q) : i \in {1}
      BY <2>1, <2>2
    <2>7. ConnectPlan(c, p, W)
      BY <1>12, <2>1, <2>3, <2>6 DEF ConnectPlan, Backup, Probe, Write
    <2>8. DisconnectPlan(c, q, W)
      BY <1>12, <2>2, <2>4, <2>6 DEF DisconnectPlan, Delete
    <2>9. \A f : f \in W <=> \E i \in 1 .. Len(p) : p[i].op = "write" /\ p[i].file = f
      BY <2>1, <2>3, <2>6 DEF Probe, Write
    <2>10. c = "claude" => /\ Len(p) = 3 /\ W = {"claude/settings"}
                           /\ p[1] = Backup("claude/settings", "each")
                           /\ p[2].op = "write" /\ p[3].op = "probe"
      BY <1>12
    <2>11. "copilot/config" \notin W
      OBVIOUS
    <2>12. PlansOK(c, p, q, W)
      BY <2>1, <2>2, <2>7, <2>8, <2>9, <2>10, <2>11 DEF PlansOK
    <2> QED BY <2>5, <2>12
  <1> QED BY <1>1, <1>2, <1>3, <1>4, <1>5, <1>6, <1>7, <1>8, <1>9, <1>10, <1>11, <1>12 DEF Clients

\* The same of FilesOf, which takes the files from the write steps.
LEMMA PlanFacts ==
  ASSUME NEW c \in Clients
  PROVE  /\ PlansOK(c, Connects[c], Disconnects[c], FilesOf(c))
         /\ Connects[c] \in Seq(Steps) /\ Disconnects[c] \in Seq(Steps)
  <1>1. PICK W : PlansOK(c, Connects[c], Disconnects[c], W)
    BY Plans
  <1>2. Connects[c] \in Seq(Range(Connects[c])) /\ Disconnects[c] \in Seq(Range(Disconnects[c]))
    BY <1>1 DEF PlansOK
  <1>3. Range(Connects[c]) \subseteq Steps /\ Range(Disconnects[c]) \subseteq Steps
    BY DEF Steps
  <1>4. DOMAIN Connects[c] = 1 .. Len(Connects[c])
    BY <1>2
  <1>5. \A f : f \in FilesOf(c) <=>
          \E i \in 1 .. Len(Connects[c]) : Connects[c][i].op = "write" /\ Connects[c][i].file = f
    BY <1>4 DEF FilesOf, Range
  <1>6. \A f : f \in FilesOf(c) <=> f \in W
    BY <1>1, <1>5 DEF PlansOK
  <1>7. FilesOf(c) = W
    BY <1>6
  <1> QED BY <1>1, <1>2, <1>3, <1>7

-----------------------------------------------------------------------------
(* The command that runs.                                                  *)

\* The next step of a command is that of its plan.
LEMMA Heads ==
  ASSUME TypesOK, JobOK, job.rest # <<>>
  PROVE  /\ ~Idle /\ job \in Jobs /\ job.ok /\ job.client \in Clients
         /\ Plan(job) \in Seq(Steps) /\ Position(job) + 1 \in 1 .. Len(Plan(job))
         /\ Head(job.rest) = Plan(job)[Position(job) + 1]
         /\ Len(job.rest) = Len(Plan(job)) - Position(job) /\ Position(job) \in Nat
  <1>1. ~Idle /\ job \in Jobs /\ job.ok
    BY DEF Idle, NoJob, JobOK
  <1>2. job.client \in Clients /\ job.connect \in BOOLEAN /\ job.rest \in Seq(Steps)
    BY <1>1 DEF Jobs, TypesOK
  <1>3. Plan(job) \in Seq(Steps)
    BY <1>2, PlanFacts DEF Plan
  <1>4. /\ Len(job.rest) <= Len(Plan(job))
        /\ \A i \in 1 .. Len(job.rest) : job.rest[i] = Plan(job)[Position(job) + i]
    BY <1>1 DEF JobOK
  <1> DEFINE n == Len(Plan(job))
             m == Len(job.rest)
  <1>5. n \in Nat /\ m \in Nat /\ m > 0 /\ Position(job) = n - m /\ m <= n
    BY <1>2, <1>3, <1>4 DEF Position
  <1>6. Head(job.rest) = job.rest[1] /\ 1 \in 1 .. m
    BY <1>2, <1>5
  <1> HIDE DEF n, m
  <1>7. Position(job) + 1 \in 1 .. n /\ m = n - Position(job) /\ Position(job) \in Nat
    BY <1>5
  <1> QED BY <1>1, <1>2, <1>3, <1>4, <1>6, <1>7 DEF n, m

\* Going on takes the next step.
LEMMA Advanced ==
  ASSUME TypesOK, JobOK, job.rest # <<>>, Advance, group' = group
  PROVE  /\ JobOK' /\ ~Idle' /\ job'.ok
         /\ job'.client = job.client /\ job'.connect = job.connect /\ job'.dry = job.dry
         /\ Taken(job') = Taken(job) \cup {Head(job.rest)}
         /\ Len(job'.rest) = 2 => Len(job.rest) = 3
  <1>1. /\ ~Idle /\ job \in Jobs /\ job.ok
        /\ Plan(job) \in Seq(Steps) /\ Position(job) + 1 \in 1 .. Len(Plan(job))
        /\ Head(job.rest) = Plan(job)[Position(job) + 1]
        /\ Len(job.rest) = Len(Plan(job)) - Position(job) /\ Position(job) \in Nat
    BY Heads
  <1>2. job.rest \in Seq(Steps)
    BY <1>1 DEF Jobs
  <1>3. /\ job'.client = job.client /\ job'.connect = job.connect /\ job'.dry = job.dry
        /\ job'.ok = job.ok /\ job'.rest = Tail(job.rest)
    BY <1>1 DEF Advance, Jobs
  <1>4. /\ Tail(job.rest) \in Seq(Steps) /\ Len(Tail(job.rest)) = Len(job.rest) - 1
        /\ \A i \in 1 .. Len(job.rest) - 1 : Tail(job.rest)[i] = job.rest[i + 1]
    BY <1>2
  <1>5. job' \in Jobs'
    BY <1>1, <1>4 DEF Advance, Jobs
  <1>6. Plan(job') = Plan(job)
    BY <1>3 DEF Plan
  <1>7. Len(Plan(job)) \in Nat /\ Len(job.rest) \in Nat
    <2>1. Plan(job) \in Seq(Steps)
      BY <1>1
    <2> QED BY <1>2, <2>1
  <1>8. Position(job') = Position(job) + 1
    <2>1. Position(job') = Len(Plan(job)) - Len(Tail(job.rest))
      BY <1>3, <1>6 DEF Position
    <2>2. Position(job) = Len(Plan(job)) - Len(job.rest)
      BY DEF Position
    <2>3. Len(Tail(job.rest)) = Len(job.rest) - 1
      BY <1>4
    <2> DEFINE n == Len(Plan(job))
               m == Len(job.rest)
    <2>4. Position(job') = n - (m - 1) /\ Position(job) = n - m
      BY <2>1, <2>2, <2>3
    <2>5. n \in Int /\ m \in Int
      BY <1>7
    <2> HIDE DEF n, m
    <2>6. n - (m - 1) = n - m + 1
      BY <2>5
    <2> QED BY <2>4, <2>6
  <1>9. \A i \in 1 .. Len(job.rest) : job.rest[i] = Plan(job)[Position(job) + i]
    BY <1>1 DEF JobOK
  <1>10. ASSUME NEW i \in 1 .. Len(job'.rest) PROVE job'.rest[i] = Plan(job')[Position(job') + i]
    <2>1. i \in Int /\ i + 1 \in 1 .. Len(job.rest) /\ i \in 1 .. Len(job.rest) - 1
      BY <1>3, <1>4, <1>7
    <2>2. job'.rest[i] = job.rest[i + 1]
      BY <1>3, <1>4, <2>1
    <2>3. job.rest[i + 1] = Plan(job)[Position(job) + (i + 1)]
      BY <1>9, <2>1
    <2>4. Position(job) + (i + 1) = Position(job') + i
      BY <1>1, <1>8, <2>1
    <2> QED BY <1>6, <2>2, <2>3, <2>4
  <1>11. Len(job'.rest) <= Len(Plan(job'))
    BY <1>1, <1>3, <1>4, <1>6, <1>7
  <1>12. ~Idle'
    <2>1. job'.ok
      BY <1>1, <1>3
    <2> QED BY <2>1 DEF Idle, NoJob
  <1>13. JobOK'
    BY <1>1, <1>3, <1>5, <1>10, <1>11 DEF JobOK
  <1>14. Taken(job') = Taken(job) \cup {Head(job.rest)}
    <2>1. 1 .. Position(job) + 1 = (1 .. Position(job)) \cup {Position(job) + 1}
      BY <1>1
    <2> QED BY <1>1, <1>6, <1>8, <2>1 DEF Taken
  <1>15. Len(job'.rest) = 2 => Len(job.rest) = 3
    <2> DEFINE m == Len(job.rest)
               n == Len(job'.rest)
    <2>1. m \in Nat /\ n = m - 1
      BY <1>3, <1>4, <1>7
    <2> HIDE DEF m, n
    <2>2. n = 2 => m = 3
      BY <2>1
    <2> QED BY <2>2 DEF m, n
  <1> QED BY <1>1, <1>3, <1>12, <1>13, <1>14, <1>15

\* Stopping takes no step and fails.
LEMMA Stopped ==
  ASSUME TypesOK, JobOK, job.rest # <<>>, Stop, group' = group
  PROVE  JobOK' /\ ~job'.ok
  <1>1. job \in Jobs
    BY Heads
  <1>2. <<>> \in Seq(Steps)
    OBVIOUS
  <1>3. job' \in Jobs' /\ ~job'.ok /\ job'.rest = <<>>
    BY <1>1, <1>2 DEF Stop, Jobs
  <1> QED BY <1>3 DEF JobOK

-----------------------------------------------------------------------------
(* The keys of the clients.                                                *)

\* Two files with no client between them: a step of client c that changes one file
\* and its backup needs only say what becomes of these.
LEMMA LocalChange ==
  ASSUME TypesOK, KeysOwn, KeysBacked, BackupsClean, NEW c \in group, NEW f \in Touched(c),
         group' = group,
         \A g \in DOMAIN files' \ {f} : g \in DOMAIN files /\ files'[g] = files[g],
         \A k \in DOMAIN backups' \ {<<c, f>>} : k \in DOMAIN backups /\ backups'[k] = backups[k],
         \A k \in DOMAIN backups \ {<<c, f>>} : k \in DOMAIN backups',
         f \in DOMAIN files' => \A d \in files'[f].keys : d \in group /\ f \in Touched(d),
         <<c, f>> \in DOMAIN backups' =>
           \A d \in backups'[<<c, f>>].keys : d \in group /\ f \in Touched(d),
         c \in BacksUpOnce /\ Alone(c) =>
           /\ f \in DOMAIN files' /\ c \in files'[f].keys => <<c, f>> \in DOMAIN backups'
           /\ <<c, f>> \in DOMAIN backups' => c \notin backups'[<<c, f>>].keys
  PROVE  KeysOwn' /\ KeysBacked' /\ BackupsClean'
  <1>1. KeysOwn'
    <2>1. ASSUME NEW g \in DOMAIN files', NEW d \in files'[g].keys
          PROVE  d \in group /\ g \in Touched(d)
      BY <2>1 DEF KeysOwn
    <2>2. ASSUME NEW k \in DOMAIN backups', NEW d \in backups'[k].keys
          PROVE  d \in group /\ k[2] \in Touched(d)
      <3>1. CASE k = <<c, f>>
        BY <2>2, <3>1
      <3>2. CASE k # <<c, f>>
        BY <2>2, <3>2 DEF KeysOwn
      <3> QED BY <3>1, <3>2
    <2> QED BY <2>1, <2>2 DEF KeysOwn, Touched
  <1>2. ASSUME NEW d \in BacksUpOnce, Alone(d), d \in group, d # c, f \in Touched(d)
        PROVE  FALSE
    <2>1. Touched(d) = FilesOf(d)
      BY DEF Touched, BacksUpOnce
    <2>2. d \in Clients /\ "copilot/config" \notin FilesOf(d)
      <3>1. d \in Clients
        BY DEF BacksUpOnce, Clients
      <3> QED BY <3>1, PlanFacts DEF PlansOK, BacksUpOnce
    <2>3. f \in FilesOf(c)
      BY <1>2, <2>1, <2>2 DEF Touched
    <2> QED BY <1>2, <2>1, <2>3 DEF Alone
  <1>3. ASSUME NEW d \in BacksUpOnce, Alone(d), NEW g \in DOMAIN files', d \in files'[g].keys
        PROVE  <<d, g>> \in DOMAIN backups'
    <2>1. CASE g = f
      <3>1. d \in group /\ f \in Touched(d)
        BY <1>3, <2>1
      <3> QED BY <1>2, <1>3, <2>1, <3>1
    <2>2. CASE g # f
      <3>1. <<d, g>> \in DOMAIN backups
        BY <1>3, <2>2 DEF KeysBacked
      <3> QED BY <2>2, <3>1
    <2> QED BY <2>1, <2>2
  <1>4. ASSUME NEW k \in DOMAIN backups', k[1] \in BacksUpOnce, Alone(k[1])
        PROVE  k[1] \notin backups'[k].keys
    <2>1. CASE k = <<c, f>>
      BY <1>4, <2>1
    <2>2. CASE k # <<c, f>>
      BY <1>4, <2>2 DEF BackupsClean
    <2> QED BY <2>1, <2>2
  <1>5. KeysBacked'
    BY <1>3 DEF KeysBacked, Alone
  <1>6. BackupsClean'
    BY <1>4 DEF BackupsClean, Alone
  <1> QED BY <1>1, <1>5, <1>6

-----------------------------------------------------------------------------
(* The steps of a command.                                                 *)

\* What the next step of a command is.
LEMMA NextStep ==
  ASSUME TypesOK, JobOK, job.rest # <<>>
  PROVE  LET h == Head(job.rest)
             c == job.client
         IN  /\ ~Idle /\ job \in Jobs /\ job.ok /\ c \in group /\ c \in Clients
             /\ FilesOf(c) \subseteq Files /\ \A f \in FilesOf(c) : <<c, f>> \in Slots
             /\ job.connect =>
                  /\ h.op \in ConnectOps
                  /\ h.op \in {"backup", "write"} => h.file \in FilesOf(c)
                  /\ h.op = "backup" /\ c \in BacksUpOnce => h.how = "first"
                  /\ h.op = "write" /\ c \in BacksUpOnce =>
                       \E s \in Taken(job) : s.op = "backup" /\ s.file = h.file
                  /\ h.op = "allow" => c = "copilot" /\ h.file = "copilot/config"
                  /\ h.op = "write" /\ c \in Careful => h.how = "merge" \/ c = "claude"
                  /\ c = "claude" => /\ h.op = "backup" <=> Len(job.rest) = 3
                                     /\ h.op = "backup" => h.how = "each"
                                     /\ h.op = "write" <=> Len(job.rest) = 2
                                     /\ FilesOf(c) = {"claude/settings"}
             /\ ~job.connect =>
                  /\ h.op \in DisconnectOps /\ h.file \in FilesOf(c)
                  /\ c \in BacksUpOnce => h.op \in {"restore", "drop"}
                  /\ c \in CleansUp => h.op \in {"remove", "delete"}
                  /\ h.op = "drop" =>
                       \E s \in Taken(job) : s.op = "restore" /\ s.file = h.file
  <1> DEFINE h == Head(job.rest)
             c == job.client
             n == Position(job) + 1
  <1>1. /\ ~Idle /\ job \in Jobs /\ job.ok /\ c \in Clients
        /\ n \in 1 .. Len(Plan(job)) /\ h = Plan(job)[n] /\ Position(job) \in Nat
        /\ Len(job.rest) = Len(Plan(job)) - Position(job)
    BY Heads
  <1>2. c \in group
    BY <1>1 DEF Jobs
  <1>3. FilesOf(c) \subseteq Files /\ \A f \in FilesOf(c) : <<c, f>> \in Slots
    BY <1>1 DEF Files, Slots
  <1>4. PlansOK(c, Connects[c], Disconnects[c], FilesOf(c))
    BY <1>1, PlanFacts
  <1>5. \A j \in 1 .. n - 1 : Plan(job)[j] \in Taken(job)
    <2>1. 1 .. n - 1 = 1 .. Position(job)
      BY <1>1
    <2> QED BY <2>1 DEF Taken
  <1>6. ASSUME job.connect
        PROVE  /\ h.op \in ConnectOps
               /\ h.op \in {"backup", "write"} => h.file \in FilesOf(c)
               /\ h.op = "backup" /\ c \in BacksUpOnce => h.how = "first"
               /\ h.op = "write" /\ c \in BacksUpOnce =>
                    \E s \in Taken(job) : s.op = "backup" /\ s.file = h.file
               /\ h.op = "allow" => c = "copilot" /\ h.file = "copilot/config"
               /\ h.op = "write" /\ c \in Careful => h.how = "merge" \/ c = "claude"
               /\ c = "claude" => /\ h.op = "backup" <=> Len(job.rest) = 3
                                  /\ h.op = "backup" => h.how = "each"
                                  /\ h.op = "write" <=> Len(job.rest) = 2
                                  /\ FilesOf(c) = {"claude/settings"}
    <2>1. Plan(job) = Connects[c]
      BY <1>6 DEF Plan
    <2>2. ConnectPlan(c, Plan(job), FilesOf(c))
      BY <1>4, <2>1 DEF PlansOK
    <2> HIDE DEF h, c, n
    <2>3. h.op = "write" /\ c \in BacksUpOnce =>
            \E s \in Taken(job) : s.op = "backup" /\ s.file = h.file
      <3>1. \A g : Backup(g, "first").op = "backup" /\ Backup(g, "first").file = g
        BY DEF Backup, Step
      <3> QED BY <1>1, <1>5, <2>2, <3>1 DEF ConnectPlan
    <2>4. c = "claude" => /\ h.op = "backup" <=> Len(job.rest) = 3
                          /\ h.op = "backup" => h.how = "each"
                          /\ h.op = "write" <=> Len(job.rest) = 2
                          /\ FilesOf(c) = {"claude/settings"}
      <3> SUFFICES ASSUME c = "claude"
                   PROVE  /\ h.op = "backup" <=> Len(job.rest) = 3
                          /\ h.op = "backup" => h.how = "each"
                          /\ h.op = "write" <=> Len(job.rest) = 2
                          /\ FilesOf(c) = {"claude/settings"}
        OBVIOUS
      <3>1. /\ Len(Plan(job)) = 3 /\ FilesOf(c) = {"claude/settings"}
            /\ Plan(job)[1].op = "backup" /\ Plan(job)[1].how = "each"
            /\ Plan(job)[2].op = "write" /\ Plan(job)[3].op = "probe"
        BY <1>4, <2>1 DEF PlansOK, Backup, Step
      <3>2. n \in {1, 2, 3} /\ Len(job.rest) = 4 - n
        BY <1>1, <3>1 DEF n
      <3> QED BY <1>1, <3>1, <3>2
    <2> QED BY <1>1, <2>2, <2>3, <2>4 DEF ConnectPlan
  <1>7. ASSUME ~job.connect
        PROVE  /\ h.op \in DisconnectOps /\ h.file \in FilesOf(c)
               /\ c \in BacksUpOnce => h.op \in {"restore", "drop"}
               /\ c \in CleansUp => h.op \in {"remove", "delete"}
               /\ h.op = "drop" => \E s \in Taken(job) : s.op = "restore" /\ s.file = h.file
    <2>1. Plan(job) = Disconnects[c]
      BY <1>7 DEF Plan
    <2>2. DisconnectPlan(c, Plan(job), FilesOf(c))
      BY <1>4, <2>1 DEF PlansOK
    <2> HIDE DEF h, c, n
    <2>3. ASSUME h.op = "drop" PROVE \E s \in Taken(job) : s.op = "restore" /\ s.file = h.file
      <3>1. n > 1 /\ Plan(job)[n - 1].op = "restore" /\ Plan(job)[n - 1].file = h.file
        BY <1>1, <2>2, <2>3 DEF DisconnectPlan
      <3>2. n - 1 \in 1 .. n - 1
        BY <1>1, <3>1
      <3> QED BY <1>5, <3>1, <3>2
    <2> QED BY <1>1, <2>2, <2>3 DEF DisconnectPlan
  <1> HIDE DEF n
  <1> QED BY <1>1, <1>2, <1>3, <1>6, <1>7

\* What is left alone stays as it should be.
LEMMA Untouched ==
  ASSUME ClientInv, UNCHANGED <<group, files, backups>>
  PROVE  KeysOwn' /\ KeysBacked' /\ BackupsClean'
  <1>1. KeysOwn'
    BY DEF ClientInv, KeysOwn, Touched
  <1>2. KeysBacked'
    BY DEF ClientInv, KeysBacked, Alone
  <1>3. BackupsClean'
    BY DEF ClientInv, BackupsClean, Alone
  <1> QED BY <1>1, <1>2, <1>3

\* A command that goes on, having achieved what its step is for.
LEMMA Goes ==
  ASSUME ClientInv, job.rest # <<>>, Advance, Same,
         files' \in [DOMAIN files' -> Content], DOMAIN files' \subseteq Files,
         backups' \in [DOMAIN backups' -> Content], DOMAIN backups' \subseteq Slots,
         KeysOwn', KeysBacked', BackupsClean',
         ~job.dry => /\ JustCopied'
                     /\ \A s \in Taken(job) \cup {Head(job.rest)} : Achieved(s)'
  PROVE  ClientInv'
  <1>1. TypesOK /\ JobOK /\ group' = group /\ recorded' = recorded /\ edits' = edits
    BY DEF ClientInv, Same
  <1>2. /\ JobOK' /\ job'.dry = job.dry
        /\ Taken(job') = Taken(job) \cup {Head(job.rest)}
    BY <1>1, Advanced
  <1>3. TypesOK'
    BY <1>1 DEF TypesOK
  <1>4. Progress'
    BY <1>2 DEF Progress
  <1>5. PendingOK'
    BY DEF Advance, PendingOK
  <1> QED BY <1>2, <1>3, <1>4, <1>5 DEF ClientInv

\* A step that fails, one of a dry run and one that only looks change nothing.
LEMMA Passes ==
  ASSUME ClientInv, job.rest # <<>>, pending = {}, Same, UNCHANGED <<files, backups>>,
         \/ Stop
         \/ Advance /\ (job.dry \/ Head(job.rest).op \in {"read", "auth", "probe"})
  PROVE  ClientInv'
  <1>1. TypesOK /\ JobOK /\ Progress /\ group' = group /\ recorded' = recorded /\ edits' = edits
    BY DEF ClientInv, Same
  <1>2. KeysOwn' /\ KeysBacked' /\ BackupsClean'
    BY <1>1, Untouched
  <1>3. CASE Stop
    <2>1. JobOK' /\ ~job'.ok
      BY <1>1, <1>3, Stopped
    <2>2. TypesOK'
      BY <1>1 DEF TypesOK
    <2>3. Progress' /\ PendingOK'
      BY <1>3, <2>1 DEF Progress, Stop, PendingOK
    <2> QED BY <1>2, <2>1, <2>2, <2>3 DEF ClientInv
  <1>4. CASE Advance /\ (job.dry \/ Head(job.rest).op \in {"read", "auth", "probe"})
    <2>1. /\ files' \in [DOMAIN files' -> Content] /\ DOMAIN files' \subseteq Files
          /\ backups' \in [DOMAIN backups' -> Content] /\ DOMAIN backups' \subseteq Slots
      BY <1>1 DEF TypesOK
    <2>2. ASSUME ~job.dry, Head(job.rest).op \in {"read", "auth", "probe"}
          PROVE  JustCopied' /\ \A s \in Taken(job) \cup {Head(job.rest)} : Achieved(s)'
      <3>1. job'.client = job.client /\ job'.connect = job.connect
            /\ (Len(job'.rest) = 2 => Len(job.rest) = 3)
        BY <1>1, <1>4, Advanced
      <3>2. job.connect /\ ~Idle /\ job.ok
            /\ (job.client = "claude" => (Head(job.rest).op = "backup" <=> Len(job.rest) = 3))
        BY <1>1, <2>2, NextStep DEF DisconnectOps
      <3>3. Head(job.rest).op # "backup"
        BY <2>2
      <3>4. JustCopied'
        BY <3>1, <3>2, <3>3 DEF JustCopied
      <3>5. ASSUME NEW s \in Taken(job) \cup {Head(job.rest)} PROVE Achieved(s)'
        <4>1. CASE s = Head(job.rest)
          BY <2>2, <3>1, <3>2, <4>1 DEF Achieved
        <4>2. CASE s \in Taken(job)
          <5>1. Achieved(s)
            BY <1>1, <2>2, <3>2, <4>2 DEF Progress
          <5> QED BY <3>1, <3>2, <5>1 DEF Achieved, Slot, Writing
        <4> QED BY <4>1, <4>2
      <3> QED BY <3>4, <3>5
    <2> QED BY <1>2, <1>4, <2>1, <2>2, Goes
  <1> QED BY <1>3, <1>4

\* A file that was just emptied holds nothing of anyone.
LEMMA EmptyContent == Empty \in Content /\ Empty.keys = {} /\ Empty.text = 0
  BY MaxEditsAssumption DEF Empty, Content

\* A file that is emptied loses settings and gains none.
LEMMA Opens ==
  ASSUME ClientInv, pending = {}, job.rest # <<>>, ~job.dry, Same, backups' = backups,
         NEW doc \in Content, FileDoc(doc), Open(Head(job.rest).file, doc)
  PROVE  ClientInv'
  <1> DEFINE h == Head(job.rest)
             c == job.client
             f == h.file
  <1>1. /\ TypesOK /\ JobOK /\ KeysOwn /\ KeysBacked /\ BackupsClean /\ Progress
        /\ group' = group /\ recorded' = recorded /\ edits' = edits
        /\ files' = With(files, f, Empty) /\ pending' = {doc} /\ job' = job
        /\ h.op \in {"write", "allow", "restore", "remove"}
    BY DEF ClientInv, Same, Open, FileDoc
  <1>2. /\ ~Idle /\ job.ok /\ c \in group /\ c \in Clients /\ FilesOf(c) \subseteq Files
        /\ f \in FilesOf(c) \/ (c = "copilot" /\ f = "copilot/config")
    BY <1>1, NextStep DEF ConnectOps, DisconnectOps
  <1>3. f \in Touched(c) /\ f \in Files
    BY <1>2 DEF Touched, Files
  <1>4. /\ files \in [DOMAIN files -> Content] /\ DOMAIN files \subseteq Files
        /\ backups \in [DOMAIN backups -> Content] /\ DOMAIN backups \subseteq Slots
    BY <1>1 DEF TypesOK
  <1> HIDE DEF h, c, f
  <1>5. /\ files' \in [DOMAIN files' -> Content] /\ DOMAIN files' = DOMAIN files \cup {f}
        /\ files'[f] = Empty /\ \A x \in DOMAIN files \ {f} : files'[x] = files[x]
    BY <1>1, <1>4, EmptyContent DEF With
  <1>6. KeysOwn' /\ KeysBacked' /\ BackupsClean'
    <2>1. <<c, f>> \in DOMAIN backups =>
            \A d \in backups[<<c, f>>].keys : d \in group /\ f \in Touched(d)
      BY <1>1 DEF KeysOwn
    <2>2. c \in BacksUpOnce /\ Alone(c) /\ <<c, f>> \in DOMAIN backups =>
            c \notin backups[<<c, f>>].keys
      BY <1>1 DEF BackupsClean
    <2> QED BY <1>1, <1>2, <1>3, <1>5, <2>1, <2>2, EmptyContent, LocalChange
  <1>7. TypesOK'
    BY <1>1, <1>3, <1>4, <1>5 DEF TypesOK
  <1>8. JobOK'
    BY <1>1 DEF JobOK, Idle, Jobs
  <1>9. PendingOK'
    <2>1. FileDoc(doc)'
      BY <1>1 DEF FileDoc, Alone, Touched
    <2> QED BY <1>1, <1>2, <1>5, <2>1 DEF PendingOK, Idle, f, h
  <1>10. Progress'
    <2>1. JustCopied' /\ Taken(job') = Taken(job)
      BY <1>1 DEF JustCopied
    <2>2. ASSUME NEW s \in Taken(job) PROVE Achieved(s)'
      <3>1. Achieved(s)
        BY <1>1, <1>2, <2>2 DEF Progress
      <3>2. CASE s.file = f
        BY <1>1, <1>5, <3>1, <3>2, EmptyContent DEF Achieved, Slot, Alone, Writing, f, h
      <3>3. CASE s.file # f
        BY <1>1, <1>5, <3>1, <3>3 DEF Achieved, Slot, Alone, Writing
      <3> QED BY <3>2, <3>3
    <2> QED BY <1>1, <2>1, <2>2 DEF Progress
  <1> QED BY <1>6, <1>7, <1>8, <1>9, <1>10 DEF ClientInv

\* A backup that is emptied holds no settings.
LEMMA OpensBackup ==
  ASSUME ClientInv, pending = {}, job.rest # <<>>, ~job.dry, Same, files' = files, job' = job,
         Head(job.rest).op = "backup",
         backups' = With(backups, Slot(Head(job.rest)), Empty),
         pending' = {BackedUp(Head(job.rest).file)},
         job.client \in BacksUpOnce => Slot(Head(job.rest)) \notin DOMAIN backups
  PROVE  ClientInv'
  <1> DEFINE h == Head(job.rest)
             c == job.client
             f == h.file
             k == <<c, f>>
             doc == BackedUp(f)
  <1>1. /\ TypesOK /\ JobOK /\ KeysOwn /\ KeysBacked /\ BackupsClean /\ Progress
        /\ group' = group /\ recorded' = recorded /\ edits' = edits
        /\ Slot(h) = k /\ backups' = With(backups, k, Empty) /\ pending' = {doc}
    BY DEF ClientInv, Same, Slot
  <1>2. /\ job.connect /\ ~Idle /\ job.ok /\ c \in group /\ c \in Clients
        /\ f \in FilesOf(c) /\ k \in Slots
    BY <1>1, NextStep DEF DisconnectOps
  <1>3. f \in Touched(c)
    BY <1>2 DEF Touched
  <1>4. /\ files \in [DOMAIN files -> Content] /\ DOMAIN files \subseteq Files
        /\ backups \in [DOMAIN backups -> Content] /\ DOMAIN backups \subseteq Slots
    BY <1>1 DEF TypesOK
  <1>5. doc \in Content /\ \A d \in doc.keys : f \in DOMAIN files /\ d \in files[f].keys
    BY <1>4, EmptyContent DEF BackedUp
  <1>6. c \in BacksUpOnce /\ Alone(c) => c \notin doc.keys
    BY <1>1, <1>5 DEF KeysBacked
  <1>7. doc' = doc
    BY DEF BackedUp
  <1> HIDE DEF h, c, f, k, doc
  <1>8. /\ backups' \in [DOMAIN backups' -> Content] /\ DOMAIN backups' = DOMAIN backups \cup {k}
        /\ backups'[k] = Empty /\ \A x \in DOMAIN backups \ {k} : backups'[x] = backups[x]
    BY <1>1, <1>4, EmptyContent DEF With
  <1>9. KeysOwn' /\ KeysBacked' /\ BackupsClean'
    <2>1. f \in DOMAIN files => \A d \in files[f].keys : d \in group /\ f \in Touched(d)
      BY <1>1 DEF KeysOwn
    <2> USE DEF k
    <2> QED BY <1>1, <1>2, <1>3, <1>8, <2>1, EmptyContent, LocalChange
  <1>10. TypesOK'
    BY <1>1, <1>2, <1>4, <1>8 DEF TypesOK
  <1>11. JobOK'
    BY <1>1 DEF JobOK, Idle, Jobs
  <1>12. PendingOK'
    <2>1. PICK d \in Content : d = doc
      BY <1>5
    <2>2. BackupDoc(d)'
      BY <1>1, <1>6, <1>7, <1>8, <2>1 DEF BackupDoc, Alone, Slot, BackedUp, k, c, f, h, doc
    <2>3. ~Idle'
      BY <1>2 DEF Idle
    <2>4. pending' = {d}
      BY <1>1, <2>1
    <2> QED BY <1>2, <2>2, <2>3, <2>4 DEF PendingOK
  <1>13. Progress'
    <2>1. JustCopied' /\ Taken(job') = Taken(job)
      BY <1>1 DEF JustCopied
    <2>2. ASSUME NEW s \in Taken(job) PROVE Achieved(s)'
      <3>1. Achieved(s)
        BY <1>1, <1>2, <2>2 DEF Progress
      <3> QED BY <1>1, <1>8, <3>1 DEF Achieved, Slot, Alone, Writing
    <2> QED BY <1>1, <2>1, <2>2 DEF Progress
  <1> QED BY <1>9, <1>10, <1>11, <1>12, <1>13 DEF ClientInv

\* What is written to a file is what the command has in hand for it.
LEMMA FlushesFile ==
  ASSUME ClientInv, job.rest # <<>>, Advance, Same, backups' = backups, ~job.dry, ~Idle, job.ok,
         NEW doc \in Content, FileDoc(doc), files' = With(files, Head(job.rest).file, doc)
  PROVE  ClientInv'
  <1> DEFINE h == Head(job.rest)
             c == job.client
             f == h.file
  <1>1. /\ TypesOK /\ JobOK /\ KeysOwn /\ KeysBacked /\ BackupsClean /\ Progress
        /\ group' = group /\ files' = With(files, f, doc) /\ pending' = {}
        /\ h.op \in {"write", "allow", "restore", "remove"}
    BY DEF ClientInv, Same, Advance, FileDoc
  <1>2. /\ c \in group /\ c \in Clients /\ FilesOf(c) \subseteq Files
        /\ f \in FilesOf(c) \/ (c = "copilot" /\ f = "copilot/config")
        /\ job.connect => h.op \in {"write", "allow"}
        /\ ~job.connect => h.op \in {"restore", "remove"}
        /\ c = "claude" /\ job.connect => (h.op = "backup" <=> Len(job.rest) = 3)
    BY <1>1, NextStep DEF ConnectOps, DisconnectOps
  <1>3. f \in Touched(c) /\ f \in Files
    BY <1>2 DEF Touched, Files
  <1>4. /\ files \in [DOMAIN files -> Content] /\ DOMAIN files \subseteq Files
        /\ backups \in [DOMAIN backups -> Content] /\ DOMAIN backups \subseteq Slots
    BY <1>1 DEF TypesOK
  <1>5. job'.client = c /\ job'.connect = job.connect
        /\ (Len(job'.rest) = 2 => Len(job.rest) = 3)
    BY <1>1, Advanced
  <1>6. /\ \A d \in doc.keys : d \in group /\ f \in Touched(d)
        /\ c \in doc.keys /\ c \in BacksUpOnce /\ Alone(c) => <<c, f>> \in DOMAIN backups
        /\ job.connect => c \in doc.keys
        /\ ~job.connect => /\ c \in BacksUpOnce /\ Alone(c) => c \notin doc.keys
                           /\ c \in CleansUp => c \notin doc.keys
    BY DEF FileDoc
  <1> HIDE DEF h, c, f
  <1>7. /\ files' \in [DOMAIN files' -> Content] /\ DOMAIN files' = DOMAIN files \cup {f}
        /\ files'[f] = doc /\ \A x \in DOMAIN files \ {f} : files'[x] = files[x]
    BY <1>1, <1>4 DEF With
  <1>8. DOMAIN files' \subseteq Files
    BY <1>3, <1>4, <1>7
  <1>9. KeysOwn' /\ KeysBacked' /\ BackupsClean'
    <2>1. <<c, f>> \in DOMAIN backups =>
            \A d \in backups[<<c, f>>].keys : d \in group /\ f \in Touched(d)
      BY <1>1 DEF KeysOwn
    <2>2. c \in BacksUpOnce /\ Alone(c) /\ <<c, f>> \in DOMAIN backups =>
            c \notin backups[<<c, f>>].keys
      BY <1>1 DEF BackupsClean
    <2> QED BY <1>1, <1>2, <1>3, <1>6, <1>7, <2>1, <2>2, LocalChange
  <1>10. JustCopied'
    BY <1>1, <1>2, <1>5 DEF JustCopied
  <1>11. ASSUME NEW s \in Taken(job) \cup {h} PROVE Achieved(s)'
    <2>1. CASE s.file = f /\ ~job.connect
      BY <1>1, <1>5, <1>6, <1>7, <2>1 DEF Achieved, Alone, c
    <2>2. CASE s.file = f /\ job.connect /\ s = h
      BY <1>1, <1>2, <1>5, <1>6, <1>7, <2>2 DEF Achieved, c
    <2>3. CASE s \in Taken(job)
      <3>1. Achieved(s)
        BY <1>1, <2>3 DEF Progress
      <3>2. CASE s.file = f /\ job.connect
        BY <1>1, <1>5, <1>6, <1>7, <3>1, <3>2 DEF Achieved, Slot, c
      <3>3. CASE s.file # f
        BY <1>1, <1>5, <1>7, <3>1, <3>3 DEF Achieved, Slot, Alone, Writing, c, f, h
      <3> QED BY <2>1, <3>2, <3>3
    <2> QED BY <1>11, <2>1, <2>2, <2>3 DEF f
  <1> QED BY <1>1, <1>4, <1>7, <1>8, <1>9, <1>10, <1>11, Goes DEF h

\* A backup becomes the file it is of.
LEMMA FlushesBackup ==
  ASSUME ClientInv, job.rest # <<>>, Advance, Same, files' = files, ~job.dry, ~Idle, job.ok,
         NEW doc \in Content, BackupDoc(doc), backups' = With(backups, Slot(Head(job.rest)), doc)
  PROVE  ClientInv'
  <1> DEFINE h == Head(job.rest)
             c == job.client
             f == h.file
             k == <<c, f>>
  <1>1. /\ TypesOK /\ JobOK /\ KeysOwn /\ KeysBacked /\ BackupsClean /\ Progress
        /\ group' = group /\ backups' = With(backups, k, doc) /\ pending' = {}
        /\ h.op = "backup" /\ Slot(h) = k
    BY DEF ClientInv, Same, Advance, BackupDoc, Slot
  <1>2. /\ job.connect /\ c \in group /\ c \in Clients /\ FilesOf(c) \subseteq Files
        /\ f \in FilesOf(c) /\ k \in Slots
        /\ c = "claude" => FilesOf(c) = {"claude/settings"}
    BY <1>1, NextStep DEF DisconnectOps
  <1>3. f \in Touched(c)
    BY <1>2 DEF Touched
  <1>4. /\ files \in [DOMAIN files -> Content] /\ DOMAIN files \subseteq Files
        /\ backups \in [DOMAIN backups -> Content] /\ DOMAIN backups \subseteq Slots
    BY <1>1 DEF TypesOK
  <1>5. job'.client = c /\ job'.connect = job.connect
    BY <1>1, Advanced
  <1>6. doc = BackedUp(f) /\ (c \in BacksUpOnce /\ Alone(c) => c \notin doc.keys)
    BY DEF BackupDoc
  <1>7. \A d \in doc.keys : d \in group /\ f \in Touched(d)
    BY <1>1, <1>6, EmptyContent DEF KeysOwn, BackedUp
  <1> HIDE DEF h, c, f, k
  <1>8. /\ backups' \in [DOMAIN backups' -> Content] /\ DOMAIN backups' = DOMAIN backups \cup {k}
        /\ backups'[k] = doc /\ \A x \in DOMAIN backups \ {k} : backups'[x] = backups[x]
    BY <1>1, <1>4 DEF With
  <1>9. DOMAIN backups' \subseteq Slots
    BY <1>2, <1>4, <1>8
  <1>10. KeysOwn' /\ KeysBacked' /\ BackupsClean'
    <2>1. f \in DOMAIN files => \A d \in files[f].keys : d \in group /\ f \in Touched(d)
      BY <1>1 DEF KeysOwn
    <2> USE DEF k
    <2> QED BY <1>1, <1>2, <1>3, <1>6, <1>7, <1>8, <2>1, LocalChange
  <1>11. JustCopied'
    <2>1. f \in DOMAIN files => backups'[k].text = files[f].text
      BY <1>6, <1>8 DEF BackedUp
    <2>2. c = "claude" => f = "claude/settings"
      BY <1>2
    <2> QED BY <1>1, <1>5, <1>8, <2>1, <2>2 DEF JustCopied, k
  <1>12. ASSUME NEW s \in Taken(job) \cup {h} PROVE Achieved(s)'
    <2>1. CASE s = h
      BY <1>1, <1>2, <1>5, <1>8, <2>1 DEF Achieved, Slot, k, c, f
    <2>2. CASE s \in Taken(job)
      <3>1. Achieved(s)
        BY <1>1, <2>2 DEF Progress
      <3> QED BY <1>1, <1>2, <1>5, <1>8, <3>1 DEF Achieved, Slot, Writing, c, h
    <2> QED BY <1>12, <2>1, <2>2
  <1> QED BY <1>1, <1>4, <1>8, <1>9, <1>10, <1>11, <1>12, Goes DEF h

\* What is in hand is written.
LEMMA Flushes ==
  ASSUME ClientInv, Flush
  PROVE  ClientInv'
  <1>1. PendingOK /\ pending # {}
    BY DEF ClientInv, Flush
  <1>2. PICK doc \in Content :
          /\ pending = {doc}
          /\ \/ BackupDoc(doc)
             \/ /\ FileDoc(doc)
                /\ Head(job.rest).file \in DOMAIN files
                /\ files[Head(job.rest).file] = Empty
    BY <1>1 DEF PendingOK
  <1>3. ~Idle /\ job.ok /\ ~job.dry /\ job.rest # <<>>
    BY <1>1 DEF PendingOK
  <1>4. CASE BackupDoc(doc)
    <2>1. backups' = With(backups, Slot(Head(job.rest)), doc) /\ files' = files /\ Advance /\ Same
      BY <1>2, <1>4 DEF Flush, BackupDoc
    <2> QED BY <1>3, <1>4, <2>1, FlushesBackup
  <1>5. CASE FileDoc(doc)
    <2>1. files' = With(files, Head(job.rest).file, doc) /\ backups' = backups /\ Advance /\ Same
      BY <1>2, <1>5 DEF Flush, FileDoc
    <2> QED BY <1>3, <1>5, <2>1, FlushesFile
  <1> QED BY <1>2, <1>4, <1>5

\* Every client's backup is made before its settings are in the file.
LEMMA BacksUpFirst ==
  ASSUME ClientInv, DoBackup
  PROVE  ClientInv'
  <1> DEFINE h == Head(job.rest)
             c == job.client
             f == h.file
             k == <<c, f>>
  <1>1. /\ TypesOK /\ JobOK /\ KeysOwn /\ KeysBacked /\ BackupsClean /\ Progress
        /\ job.rest # <<>> /\ h.op = "backup" /\ Same /\ files' = files /\ pending = {}
        /\ Slot(h) = k /\ group' = group
        /\ \/ /\ BacksUp(h) /\ backups' = With(backups, k, Empty)
              /\ pending' = {BackedUp(f)} /\ job' = job
           \/ ~BacksUp(h) /\ Advance /\ backups' = backups
    BY DEF ClientInv, DoBackup, Doing, Slot, Same
  <1>2. /\ job.connect /\ job.ok /\ ~Idle /\ c \in group /\ c \in Clients
        /\ f \in FilesOf(c) /\ FilesOf(c) \subseteq Files /\ k \in Slots
        /\ c \in BacksUpOnce => h.how = "first"
        /\ c = "claude" => h.how = "each" /\ FilesOf(c) = {"claude/settings"}
    BY <1>1, NextStep DEF DisconnectOps
  <1>4. /\ files \in [DOMAIN files -> Content] /\ DOMAIN files \subseteq Files
        /\ backups \in [DOMAIN backups -> Content] /\ DOMAIN backups \subseteq Slots
    BY <1>1 DEF TypesOK
  <1> HIDE DEF h, c, f, k
  <1>5. CASE job.dry
    <2>1. Advance /\ backups' = backups
      BY <1>1, <1>5 DEF BacksUp
    <2> QED BY <1>1, <1>5, <2>1, Passes
  <1>6. CASE ~job.dry /\ ~BacksUp(h)
    <2>1. Advance /\ backups' = backups
      BY <1>1, <1>6
    <2>7. job'.client = c /\ job'.connect = job.connect /\ pending' = {}
      BY <1>1, <2>1, Advanced DEF Advance, c
    <2>2. KeysOwn' /\ KeysBacked' /\ BackupsClean'
      BY <1>1, <2>1, Untouched
    <2>3. c \in BacksUpOnce => k \in DOMAIN backups
      BY <1>1, <1>2, <1>6 DEF BacksUp, f
    <2>4. c = "claude" => f \notin DOMAIN files /\ f = "claude/settings"
      BY <1>1, <1>2, <1>6 DEF BacksUp, f
    <2>5. JustCopied'
      BY <1>1, <2>7, <2>4 DEF JustCopied, c
    <2>6. ASSUME NEW s \in Taken(job) \cup {h} PROVE Achieved(s)'
      <3>1. CASE s = h
        BY <1>1, <1>2, <2>7, <2>1, <2>3, <3>1 DEF Achieved, Slot, k, c, f
      <3>2. CASE s \in Taken(job)
        <4>1. Achieved(s)
          BY <1>1, <1>2, <1>6, <3>2 DEF Progress
        <4> QED BY <1>1, <1>2, <2>7, <2>1, <4>1 DEF Achieved, Slot, Writing, c
      <3> QED BY <2>6, <3>1, <3>2
    <2> QED BY <1>1, <1>4, <2>1, <2>2, <2>5, <2>6, Goes DEF h
  <1>7. CASE ~job.dry /\ BacksUp(h)
    <2>1. c \in BacksUpOnce => k \notin DOMAIN backups
      BY <1>1, <1>2, <1>7 DEF BacksUp
    <2> QED BY <1>1, <1>7, <2>1, OpensBackup DEF h, c, f, k
  <1> QED BY <1>5, <1>6, <1>7

\* What is written has the client's settings and, but for a file that starts anew,
\* everything that was there.
LEMMA WrittenFacts ==
  ASSUME TypesOK, job.client \in Clients, NEW h
  PROVE  /\ Written(h) \in Content /\ job.client \in Written(h).keys
         /\ \A d \in Written(h).keys :
              d = job.client \/ (h.file \in DOMAIN files /\ d \in files[h.file].keys)
         /\ h.file \in DOMAIN files /\ h.how = "merge" => Written(h).text = files[h.file].text
         /\ Written(h).text # 0 => h.file \in DOMAIN files /\ Written(h).text = files[h.file].text
  <1>1. CASE \/ BackedUp(h.file) = Empty
             \/ h.how = "own"
             \/ h.how = "replace" /\ Unreadable(h.file)
    <2>1. Written(h) = [text |-> 0, ok |-> TRUE, keys |-> {job.client}]
      BY <1>1 DEF Written
    <2>2. h.file \in DOMAIN files /\ h.how = "merge" => files[h.file].text = 0
      BY <1>1 DEF BackedUp, Empty
    <2> QED BY <2>1, <2>2, MaxEditsAssumption DEF Content
  <1>2. CASE ~(\/ BackedUp(h.file) = Empty
               \/ h.how = "own"
               \/ h.how = "replace" /\ Unreadable(h.file))
    <2>1. Written(h) = [files[h.file] EXCEPT !.keys = @ \cup {job.client}]
      BY <1>2 DEF Written
    <2>2. h.file \in DOMAIN files /\ files[h.file] \in Content
      BY <1>2 DEF TypesOK, BackedUp
    <2> QED BY <1>2, <2>1, <2>2 DEF Content
  <1> QED BY <1>1, <1>2

\* A file is written with the client's settings, over a backup when one is due.
LEMMA Writes ==
  ASSUME ClientInv, DoWrite
  PROVE  ClientInv'
  <1> DEFINE h == Head(job.rest)
             c == job.client
             f == h.file
             w == Written(h)
  <1>1. /\ TypesOK /\ JobOK /\ KeysOwn /\ Progress
        /\ job.rest # <<>> /\ h.op = "write" /\ Same /\ backups' = backups /\ pending = {}
        /\ IF job.dry THEN Advance /\ files' = files ELSE Open(f, w)
    BY DEF ClientInv, DoWrite, Doing
  <1>2. /\ job.connect /\ job.ok /\ ~Idle /\ c \in group /\ c \in Clients
        /\ f \in FilesOf(c)
        /\ c \in BacksUpOnce => \E s \in Taken(job) : s.op = "backup" /\ s.file = f
        /\ c = "claude" => Len(job.rest) = 2 /\ f = "claude/settings"
    BY <1>1, NextStep DEF DisconnectOps
  <1>3. /\ w \in Content /\ c \in w.keys
        /\ \A d \in w.keys : d = c \/ (f \in DOMAIN files /\ d \in files[f].keys)
        /\ w.text # 0 => f \in DOMAIN files /\ w.text = files[f].text
    BY <1>1, <1>2, WrittenFacts
  <1>4. CASE job.dry
    BY <1>1, <1>4, Passes
  <1>5. CASE ~job.dry
    <2>1. \A d \in w.keys : d \in group /\ f \in Touched(d)
      BY <1>1, <1>2, <1>3 DEF KeysOwn, Touched
    <2>2. JustCopied /\ \A s \in Taken(job) : Achieved(s)
      BY <1>1, <1>2, <1>5 DEF Progress
    <2>3. c \in BacksUpOnce => <<c, f>> \in DOMAIN backups
      BY <1>2, <2>2 DEF Achieved, Slot
    <2>4. c = "claude" /\ w.text # 0 =>
            <<c, f>> \in DOMAIN backups /\ backups[<<c, f>>].text = w.text
      BY <1>1, <1>2, <1>3, <2>2 DEF JustCopied
    <2> HIDE DEF w
    <2>5. FileDoc(w)
      BY <1>1, <1>2, <1>3, <2>1, <2>3, <2>4 DEF FileDoc
    <2> QED BY <1>1, <1>3, <1>5, <2>5, Opens
  <1> QED BY <1>4, <1>5

\* Copilot's allowed addresses are no file it writes.
LEMMA Allows ==
  ASSUME ClientInv, DoAllow
  PROVE  ClientInv'
  <1> DEFINE h == Head(job.rest)
             c == job.client
             f == h.file
             w == [files[f] EXCEPT !.keys = @ \cup {c}]
  <1>1. /\ TypesOK /\ JobOK /\ KeysOwn /\ Progress
        /\ job.rest # <<>> /\ h.op = "allow" /\ Same /\ backups' = backups /\ pending = {}
        /\ group' = group
        /\ IF job.dry \/ f \notin DOMAIN files \/ Unreadable(f) THEN Advance /\ files' = files
           ELSE Open(f, w)
    BY DEF ClientInv, DoAllow, Doing, Same
  <1>2. /\ job.connect /\ job.ok /\ ~Idle /\ c \in group /\ c \in Clients
        /\ c = "copilot" /\ f = "copilot/config"
    BY <1>1, NextStep DEF DisconnectOps
  <1>3. /\ files \in [DOMAIN files -> Content] /\ DOMAIN files \subseteq Files
        /\ backups \in [DOMAIN backups -> Content] /\ DOMAIN backups \subseteq Slots
    BY <1>1 DEF TypesOK
  <1>4. CASE job.dry
    BY <1>1, <1>4, Passes
  <1>5. CASE ~job.dry /\ (f \notin DOMAIN files \/ Unreadable(f))
    <2>1. Advance /\ files' = files
      BY <1>1, <1>5
    <2>2. KeysOwn' /\ KeysBacked' /\ BackupsClean'
      BY <1>1, <2>1, Untouched
    <2>3. job'.client = c /\ job'.connect = job.connect
      BY <1>1, <2>1, Advanced
    <2>4. JustCopied'
      BY <1>2, <2>3 DEF JustCopied
    <2> HIDE DEF h, c, f
    <2>5. ASSUME NEW s \in Taken(job) \cup {h} PROVE Achieved(s)'
      <3>1. CASE s = h
        BY <1>1, <1>2, <2>3, <3>1 DEF Achieved
      <3>2. CASE s \in Taken(job)
        <4>1. Achieved(s)
          BY <1>1, <1>2, <1>5, <3>2 DEF Progress
        <4> QED BY <1>1, <1>2, <2>1, <2>3, <4>1 DEF Achieved, Slot, Writing, c
      <3> QED BY <2>5, <3>1, <3>2
    <2> QED BY <1>1, <1>3, <2>1, <2>2, <2>4, <2>5, Goes DEF h
  <1>6. CASE ~job.dry /\ f \in DOMAIN files /\ ~Unreadable(f)
    <2>1. files[f] \in Content
      BY <1>3, <1>6
    <2>2. w \in Content /\ w.keys = files[f].keys \cup {c}
      BY <1>2, <2>1 DEF Content
    <2>3. \A d \in w.keys : d \in group /\ f \in Touched(d)
      BY <1>1, <1>2, <1>6, <2>2 DEF KeysOwn, Touched
    <2> HIDE DEF w
    <2>4. FileDoc(w)
      BY <1>1, <1>2, <2>2, <2>3 DEF FileDoc, BacksUpOnce
    <2> QED BY <1>1, <1>6, <2>2, <2>4, Opens
  <1> QED BY <1>4, <1>5, <1>6

\* Reading, signing in and asking the gateway change no file.
LEMMA Looks ==
  ASSUME ClientInv, DoRead \/ DoAuth \/ DoProbe
  PROVE  ClientInv'
  <1>1. /\ job.rest # <<>> /\ Head(job.rest).op \in {"read", "auth", "probe"}
        /\ Same /\ UNCHANGED <<files, backups>> /\ (Stop \/ Advance) /\ pending = {}
    BY DEF DoRead, DoAuth, DoProbe, Doing
  <1> QED BY <1>1, Passes

\* A disconnect that goes on after taking the client's settings out of a file.
LEMMA TakesOut ==
  ASSUME ClientInv, job.rest # <<>>, pending = {}, Advance, Same, backups' = backups,
         ~job.connect, ~job.dry, Head(job.rest).op # "drop",
         NEW f, f = Head(job.rest).file,
         files' \in [DOMAIN files' -> Content], DOMAIN files' \subseteq Files,
         \A x \in DOMAIN files' \ {f} : x \in DOMAIN files /\ files'[x] = files[x],
         f \in DOMAIN files' => \A d \in files'[f].keys : d \in group /\ f \in Touched(d),
         f \in DOMAIN files' =>
           /\ job.client \in BacksUpOnce /\ Alone(job.client) => job.client \notin files'[f].keys
           /\ job.client \in CleansUp /\ files'[f].ok => job.client \notin files'[f].keys
  PROVE  ClientInv'
  <1> DEFINE h == Head(job.rest)
             c == job.client
  <1>1. /\ TypesOK /\ JobOK /\ KeysOwn /\ KeysBacked /\ BackupsClean /\ Progress
        /\ group' = group
    BY DEF ClientInv, Same
  <1>2. job.ok /\ ~Idle /\ c \in group /\ c \in Clients /\ f \in FilesOf(c)
    BY <1>1, NextStep
  <1>3. job'.client = c /\ job'.connect = job.connect
    BY <1>1, Advanced
  <1>4. backups \in [DOMAIN backups -> Content] /\ DOMAIN backups \subseteq Slots
    BY <1>1 DEF TypesOK
  <1>5. f \in Touched(c)
    BY <1>2 DEF Touched
  <1>6. \A s \in Taken(job) : Achieved(s)
    BY <1>1, <1>2 DEF Progress
  <1> HIDE DEF h, c
  <1>7. KeysOwn' /\ KeysBacked' /\ BackupsClean'
    <2>1. <<c, f>> \in DOMAIN backups =>
            \A d \in backups[<<c, f>>].keys : d \in group /\ f \in Touched(d)
      BY <1>1 DEF KeysOwn
    <2>2. c \in BacksUpOnce /\ Alone(c) /\ <<c, f>> \in DOMAIN backups =>
            c \notin backups[<<c, f>>].keys
      BY <1>1 DEF BackupsClean
    <2>3. c \in BacksUpOnce /\ Alone(c) /\ f \in DOMAIN files' => c \notin files'[f].keys
      BY DEF c
    <2> QED BY <1>1, <1>2, <1>5, <2>1, <2>2, <2>3, LocalChange
  <1>8. JustCopied'
    BY <1>3 DEF JustCopied
  <1>9. ASSUME NEW s \in Taken(job) \cup {h} PROVE Achieved(s)'
    <2>1. CASE s.file = f
      BY <1>1, <1>3, <2>1 DEF Achieved, Alone, c
    <2>2. CASE s.file # f
      <3>1. s \in Taken(job)
        BY <1>9, <2>2 DEF h
      <3>2. Achieved(s)
        BY <1>6, <3>1
      <3>3. s.file \in DOMAIN files' => s.file \in DOMAIN files /\ files'[s.file] = files[s.file]
        BY <2>2
      <3> QED BY <1>1, <1>3, <3>2, <3>3 DEF Achieved, Alone, c
    <2> QED BY <2>1, <2>2
  <1> QED BY <1>1, <1>4, <1>7, <1>8, <1>9, Goes DEF h

\* Taking the client's settings out of a file: nothing, a file less, or a file emptied
\* that is written without them.
LEMMA RemovedFacts ==
  ASSUME TypesOK, NEW f, NEW how, RemoveSettings(f, how)
  PROVE  \/ Stop /\ files' = files
         \/ /\ Advance /\ files' = files
            /\ \/ job.dry
               \/ f \in DOMAIN files => ~files[f].ok \/ job.client \notin files[f].keys
         \/ Advance /\ ~job.dry /\ files' = Without(files, f)
         \/ /\ ~job.dry /\ f \in DOMAIN files
            /\ \E doc \in Content : /\ Open(f, doc) /\ doc.text = files[f].text
                                    /\ doc.keys = files[f].keys \ {job.client}
  <1> DEFINE c == job.client
             w == [files[f] EXCEPT !.keys = @ \ {c}]
  <1>1. CASE Unreadable(f)
    BY <1>1 DEF RemoveSettings, Unreadable
  <1>2. CASE ~Unreadable(f) /\ (job.dry \/ f \notin DOMAIN files \/ c \notin files[f].keys)
    BY <1>2 DEF RemoveSettings
  <1>3. CASE ~Unreadable(f) /\ ~job.dry /\ f \in DOMAIN files /\ c \in files[f].keys
    <2>1. files[f] \in Content
      BY <1>3 DEF TypesOK
    <2>2. w \in Content /\ w.text = files[f].text /\ w.keys = files[f].keys \ {c}
      BY <2>1 DEF Content
    <2>3. (Advance /\ files' = Without(files, f)) \/ Open(f, w)
      BY <1>3 DEF RemoveSettings
    <2> HIDE DEF w
    <2> QED BY <1>3, <2>2, <2>3
  <1> QED BY <1>1, <1>2, <1>3

\* A disconnect that takes the client's settings out of a file it has not restored.
LEMMA Takes ==
  ASSUME ClientInv, job.rest # <<>>, pending = {}, Same, backups' = backups, ~job.connect,
         Head(job.rest).op \in {"restore", "remove"},
         RemoveSettings(Head(job.rest).file, Head(job.rest).how),
         LET f == Head(job.rest).file
         IN  /\ job.client \in BacksUpOnce /\ Alone(job.client) /\ f \in DOMAIN files =>
                  job.client \notin files[f].keys
             /\ job.client \in CleansUp => Head(job.rest).op = "remove"
  PROVE  ClientInv'
  <1> DEFINE h == Head(job.rest)
             c == job.client
             f == h.file
  <1>1. TypesOK /\ JobOK /\ KeysOwn
    BY DEF ClientInv
  <1>2. files \in [DOMAIN files -> Content] /\ DOMAIN files \subseteq Files
    BY <1>1 DEF TypesOK
  <1>3. f \in DOMAIN files => \A d \in files[f].keys : d \in group /\ f \in Touched(d)
    BY <1>1 DEF KeysOwn
  <1>4. \/ Stop /\ files' = files
        \/ /\ Advance /\ files' = files
           /\ \/ job.dry
              \/ f \in DOMAIN files => ~files[f].ok \/ job.client \notin files[f].keys
        \/ Advance /\ ~job.dry /\ files' = Without(files, f)
        \/ /\ ~job.dry /\ f \in DOMAIN files
           /\ \E doc \in Content : /\ Open(f, doc) /\ doc.text = files[f].text
                                   /\ doc.keys = files[f].keys \ {job.client}
    BY <1>1, RemovedFacts
  <1>5. CASE Stop /\ files' = files
    BY <1>5, Passes
  <1>6. CASE Advance /\ files' = files /\ job.dry
    BY <1>6, Passes
  <1>7. CASE /\ Advance /\ files' = files /\ ~job.dry
             /\ f \in DOMAIN files => ~files[f].ok \/ job.client \notin files[f].keys
    BY <1>2, <1>3, <1>7, TakesOut
  <1>8. CASE Advance /\ ~job.dry /\ files' = Without(files, f)
    <2>1. /\ files' \in [DOMAIN files' -> Content] /\ DOMAIN files' \subseteq Files
          /\ \A x \in DOMAIN files' \ {f} : x \in DOMAIN files /\ files'[x] = files[x]
          /\ f \notin DOMAIN files'
      BY <1>2, <1>8 DEF Without, Restrict
    <2> QED BY <1>8, <2>1, TakesOut
  <1>9. ASSUME ~job.dry, f \in DOMAIN files, NEW doc \in Content, Open(f, doc),
               doc.keys = files[f].keys \ {job.client}
        PROVE  ClientInv'
    <2>1. FileDoc(doc)
      BY <1>3, <1>9 DEF FileDoc
    <2> QED BY <1>9, <2>1, Opens
  <1> QED BY <1>4, <1>5, <1>6, <1>7, <1>8, <1>9

\* Taking settings out of a file leaves none of the client's in one that parses.
LEMMA Removes ==
  ASSUME ClientInv, DoRemove
  PROVE  ClientInv'
  <1> DEFINE h == Head(job.rest)
             f == h.file
  <1>1. /\ TypesOK /\ JobOK /\ pending = {}
        /\ job.rest # <<>> /\ h.op = "remove" /\ Same /\ backups' = backups
        /\ RemoveSettings(f, h.how)
    BY DEF ClientInv, DoRemove, Doing
  <1>2. ~job.connect /\ job.client \notin BacksUpOnce
    BY <1>1, NextStep DEF ConnectOps, BacksUpOnce
  <1> QED BY <1>1, <1>2, Takes

\* A script that is deleted holds nothing any more.
LEMMA Deletes ==
  ASSUME ClientInv, DoDelete
  PROVE  ClientInv'
  <1> DEFINE h == Head(job.rest)
             f == h.file
  <1>1. /\ TypesOK /\ JobOK
        /\ job.rest # <<>> /\ h.op = "delete" /\ Same /\ backups' = backups /\ Advance
        /\ pending = {}
        /\ files' = IF job.dry THEN files ELSE Without(files, f)
    BY DEF ClientInv, DoDelete, Doing
  <1>2. ~job.connect
    BY <1>1, NextStep DEF ConnectOps
  <1>3. CASE job.dry
    BY <1>1, <1>3, Passes
  <1>4. CASE ~job.dry
    <2>1. files \in [DOMAIN files -> Content] /\ DOMAIN files \subseteq Files
      BY <1>1 DEF TypesOK
    <2>2. /\ files' \in [DOMAIN files' -> Content] /\ DOMAIN files' \subseteq Files
          /\ \A x \in DOMAIN files' \ {f} : x \in DOMAIN files /\ files'[x] = files[x]
          /\ f \notin DOMAIN files'
      BY <1>1, <1>4, <2>1 DEF Without, Restrict
    <2> QED BY <1>1, <1>2, <1>4, <2>2, TakesOut
  <1> QED BY <1>3, <1>4

\* Without a backup, nothing is done or the settings are taken out; with one, what
\* was there before the client comes back.
LEMMA Restores ==
  ASSUME ClientInv, DoRestore
  PROVE  ClientInv'
  <1> DEFINE h == Head(job.rest)
             c == job.client
             f == h.file
             k == <<c, f>>
  <1>1. /\ TypesOK /\ JobOK /\ KeysOwn /\ KeysBacked /\ BackupsClean
        /\ job.rest # <<>> /\ h.op = "restore" /\ Same /\ backups' = backups
        /\ Slot(h) = k /\ pending = {}
    BY DEF ClientInv, DoRestore, Doing, Slot
  <1>2. ~job.connect /\ c \in Clients /\ c \in group /\ f \in FilesOf(c)
        /\ FilesOf(c) \subseteq Files /\ c \notin CleansUp
    BY <1>1, NextStep DEF ConnectOps, CleansUp
  <1>3. /\ files \in [DOMAIN files -> Content] /\ DOMAIN files \subseteq Files
        /\ backups \in [DOMAIN backups -> Content] /\ DOMAIN backups \subseteq Slots
    BY <1>1 DEF TypesOK
  <1>4. /\ f \in DOMAIN files => \A d \in files[f].keys : d \in group /\ f \in Touched(d)
        /\ k \in DOMAIN backups => \A d \in backups[k].keys : d \in group /\ f \in Touched(d)
    BY <1>1 DEF KeysOwn
  <1> HIDE DEF h, f
  <1>5. CASE k \in DOMAIN backups /\ ~job.dry
    <2> DEFINE v == backups[k]
    <2>1. PutBack(f, v)
      BY <1>1, <1>5 DEF DoRestore, h, f
    <2>2. v \in Content
      BY <1>3, <1>5
    <2>3. c \in BacksUpOnce /\ Alone(c) => c \notin v.keys
      BY <1>1, <1>5 DEF BackupsClean
    <2>4. \A d \in v.keys : d \in group /\ f \in Touched(d)
      BY <1>4, <1>5
    <2> HIDE DEF v
    <2>5. CASE Advance /\ files' = Without(files, f)
      <3>1. /\ files' \in [DOMAIN files' -> Content] /\ DOMAIN files' \subseteq Files
            /\ \A x \in DOMAIN files' \ {f} : x \in DOMAIN files /\ files'[x] = files[x]
            /\ f \notin DOMAIN files'
        BY <1>3, <2>5 DEF Without, Restrict
      <3> QED BY <1>1, <1>2, <1>5, <2>5, <3>1, TakesOut DEF h, f
    <2>6. CASE Open(f, v)
      <3>1. FileDoc(v)
        BY <1>1, <1>2, <2>3, <2>4 DEF FileDoc, h, f
      <3> QED BY <1>1, <1>5, <2>2, <2>6, <3>1, Opens DEF h, f
    <2> QED BY <1>5, <2>1, <2>5, <2>6 DEF PutBack
  <1>6. CASE k \in DOMAIN backups /\ job.dry
    <2>1. Advance /\ files' = files
      BY <1>1, <1>6 DEF DoRestore, PutBack, h
    <2> QED BY <1>1, <1>6, <2>1, Passes
  <1>7. CASE k \notin DOMAIN backups
    <2>1. c \in BacksUpOnce /\ Alone(c) /\ f \in DOMAIN files => c \notin files[f].keys
      BY <1>1, <1>7 DEF KeysBacked
    <2>2. CASE Advance /\ files' = files
      <3>1. CASE job.dry
        BY <1>1, <2>2, <3>1, Passes
      <3>2. CASE ~job.dry
        BY <1>1, <1>2, <1>3, <1>4, <2>1, <2>2, <3>2, TakesOut DEF h, f
      <3> QED BY <3>1, <3>2
    <2>3. CASE RemoveSettings(f, h.how)
      BY <1>1, <1>2, <2>1, <2>3, Takes DEF h, f
    <2>4. (Advance /\ files' = files) \/ RemoveSettings(f, h.how)
      BY <1>1, <1>7 DEF DoRestore, h, f
    <2> QED BY <2>2, <2>3, <2>4
  <1> QED BY <1>5, <1>6, <1>7

\* A backup is dropped only when the file is without the client's settings.
LEMMA Drops ==
  ASSUME ClientInv, DoDrop
  PROVE  ClientInv'
  <1> DEFINE h == Head(job.rest)
             c == job.client
             f == h.file
             k == <<c, f>>
  <1>1. /\ TypesOK /\ JobOK /\ KeysOwn /\ KeysBacked /\ BackupsClean /\ Progress
        /\ job.rest # <<>> /\ h.op = "drop" /\ Same /\ files' = files /\ Advance
        /\ Slot(h) = k /\ group' = group /\ pending = {}
        /\ backups' = IF job.dry THEN backups ELSE Without(backups, k)
    BY DEF ClientInv, DoDrop, Doing, Slot, Same
  <1>2. /\ ~job.connect /\ job.ok /\ ~Idle /\ c \in Clients /\ c \in group /\ f \in FilesOf(c)
        /\ \E s \in Taken(job) : s.op = "restore" /\ s.file = f
    BY <1>1, NextStep DEF ConnectOps
  <1>3. job'.client = c /\ job'.connect = job.connect
    BY <1>1, Advanced
  <1>4. /\ files \in [DOMAIN files -> Content] /\ DOMAIN files \subseteq Files
        /\ backups \in [DOMAIN backups -> Content] /\ DOMAIN backups \subseteq Slots
    BY <1>1 DEF TypesOK
  <1> HIDE DEF h, c, f, k
  <1>5. CASE job.dry
    BY <1>1, <1>5, Passes
  <1>6. CASE ~job.dry
    <2>1. /\ backups' \in [DOMAIN backups' -> Content] /\ DOMAIN backups' = DOMAIN backups \ {k}
          /\ \A x \in DOMAIN backups \ {k} : backups'[x] = backups[x]
      BY <1>1, <1>4, <1>6 DEF Without, Restrict
    <2>2. \A s \in Taken(job) : Achieved(s)
      BY <1>1, <1>2, <1>6 DEF Progress
    <2>3. c \in BacksUpOnce /\ Alone(c) /\ f \in DOMAIN files => c \notin files[f].keys
      BY <1>2, <2>2 DEF Achieved, c
    <2>4. f \in Touched(c)
      BY <1>2 DEF Touched
    <2>5. KeysOwn' /\ KeysBacked' /\ BackupsClean'
      <3>1. f \in DOMAIN files => \A d \in files[f].keys : d \in group /\ f \in Touched(d)
        BY <1>1 DEF KeysOwn
      <3> USE DEF k
      <3> QED BY <1>1, <1>2, <2>1, <2>3, <2>4, <3>1, LocalChange
    <2>6. JustCopied'
      BY <1>2, <1>3 DEF JustCopied
    <2>7. ASSUME NEW s \in Taken(job) \cup {h} PROVE Achieved(s)'
      <3>1. CASE s = h
        BY <1>1, <1>2, <1>3, <3>1 DEF Achieved
      <3>2. CASE s \in Taken(job)
        <4>1. Achieved(s)
          BY <2>2, <3>2
        <4> QED BY <1>1, <1>2, <1>3, <4>1 DEF Achieved, Alone, c
      <3> QED BY <2>7, <3>1, <3>2
    <2> QED BY <1>1, <1>4, <2>1, <2>5, <2>6, <2>7, Goes DEF h
  <1> QED BY <1>5, <1>6

\* A command starts with its whole plan before it.
LEMMA Begins ==
  ASSUME ClientInv, NEW c \in group, NEW connect \in BOOLEAN, NEW dry \in BOOLEAN,
         Begin(c, connect, dry)
  PROVE  ClientInv'
  <1> DEFINE p == IF connect THEN Connects[c] ELSE Disconnects[c]
             n == Len(p)
  <1>1. TypesOK /\ c \in Clients
    BY DEF ClientInv, TypesOK
  <1>2. job' = [client |-> c, connect |-> connect, dry |-> dry, ok |-> TRUE, rest |-> p]
        /\ UNCHANGED <<group, files, backups, recorded, pending, edits>> /\ Idle
    BY DEF Begin
  <1>3. p \in Seq(Steps) /\ n \in Nat
    <2>1. Connects[c] \in Seq(Steps) /\ Disconnects[c] \in Seq(Steps)
      BY <1>1, PlanFacts
    <2> QED BY <2>1
  <1>4. c = "claude" /\ connect => n = 3
    <2>1. PlansOK(c, Connects[c], Disconnects[c], FilesOf(c))
      BY <1>1, PlanFacts
    <2> QED BY <2>1 DEF PlansOK
  <1> HIDE DEF p
  <1>5. /\ job'.client = c /\ job'.connect = connect /\ job'.dry = dry /\ job'.ok
        /\ job'.rest = p /\ job' \in Jobs'
    BY <1>2, <1>3 DEF Jobs
  <1>6. Plan(job') = p
    BY <1>5 DEF Plan, p
  <1> HIDE DEF n
  <1>7. Position(job') = 0
    <2>1. Position(job') = n - n
      BY <1>5, <1>6 DEF Position, n
    <2> QED BY <1>3, <2>1
  <1>8. JobOK'
    <2>1. Len(job'.rest) <= Len(Plan(job'))
      BY <1>3, <1>5, <1>6 DEF n
    <2>2. ASSUME NEW i \in 1 .. Len(job'.rest)
          PROVE  job'.rest[i] = Plan(job')[Position(job') + i]
      <3>1. i \in Nat
        BY <1>3, <1>5 DEF n
      <3>2. Position(job') + i = i
        BY <1>7, <3>1
      <3> QED BY <1>5, <1>6, <3>2
    <2> QED BY <1>5, <2>1, <2>2 DEF JobOK
  <1>9. Progress'
    <2>1. Taken(job') = {}
      <3>1. 1 .. Position(job') = {}
        BY <1>7
      <3> QED BY <3>1 DEF Taken
    <2>2. JustCopied'
      BY <1>4, <1>5 DEF JustCopied, n
    <2> QED BY <2>1, <2>2 DEF Progress
  <1>10. KeysOwn' /\ KeysBacked' /\ BackupsClean'
    BY <1>2, Untouched
  <1>11. TypesOK'
    BY <1>1, <1>2 DEF TypesOK
  <1>12. PendingOK'
    BY <1>2 DEF ClientInv, PendingOK
  <1> QED BY <1>8, <1>9, <1>10, <1>11, <1>12 DEF ClientInv

\* A command that ends, or is killed, leaves the files and the backups as they are.
LEMMA Ends ==
  ASSUME ClientInv, Finish \/ Interrupt
  PROVE  ClientInv'
  <1>1. TypesOK /\ JobOK /\ ~Idle /\ job' = NoJob /\ UNCHANGED <<group, files, backups, edits>>
    BY DEF ClientInv, Finish, Interrupt
  <1>2. recorded' \subseteq group
    <2>1. job.client \in group
      BY <1>1 DEF JobOK, Jobs
    <2> QED BY <1>1, <2>1 DEF Finish, Interrupt, UpdateState, TypesOK
  <1>3. TypesOK'
    BY <1>1, <1>2 DEF TypesOK
  <1>4. JobOK' /\ Progress'
    BY <1>1 DEF JobOK, Progress, Idle
  <1>5. KeysOwn' /\ KeysBacked' /\ BackupsClean'
    BY <1>1, Untouched
  <1>6. PendingOK'
    BY DEF ClientInv, PendingOK, Finish, Interrupt
  <1> QED BY <1>3, <1>4, <1>5, <1>6 DEF ClientInv

\* The user's edits never bring a client's settings into another file.
LEMMA Edits ==
  ASSUME ClientInv, NEW f \in EditedFiles, Edit(f)
  PROVE  ClientInv'
  <1>1. /\ TypesOK /\ KeysOwn /\ KeysBacked /\ BackupsClean
        /\ job = NoJob /\ edits < MaxEdits /\ edits' = edits + 1
        /\ UNCHANGED <<group, backups, recorded, job, pending>>
    BY DEF ClientInv, Edit, Idle
  <1>2. edits \in 0 .. MaxEdits /\ edits' \in 0 .. MaxEdits
    BY <1>1, MaxEditsAssumption DEF TypesOK
  <1>3. f \in Files
    <2>1. CASE f = "copilot/config"
      BY <2>1 DEF Files
    <2>2. CASE f # "copilot/config"
      <3>1. f \in UNION {FilesOf(c) : c \in group}
        BY <2>2 DEF EditedFiles
      <3>2. group \subseteq Clients
        BY <1>1 DEF TypesOK
      <3>3. PICK c \in group : f \in FilesOf(c)
        BY <3>1
      <3> QED BY <3>2, <3>3 DEF Files
    <2> QED BY <2>1, <2>2
  <1>4. files \in [DOMAIN files -> Content] /\ DOMAIN files \subseteq Files
    BY <1>1 DEF TypesOK
  <1>5. /\ files' \in [DOMAIN files' -> Content] /\ DOMAIN files' \subseteq Files
        /\ \A x \in DOMAIN files' : \A d \in files'[x].keys :
             x \in DOMAIN files /\ d \in files[x].keys
    <2>1. CASE f \in DOMAIN files /\ files' = Without(files, f)
      BY <1>4, <2>1 DEF Without, Restrict
    <2>2. ASSUME NEW ok \in BOOLEAN,
                 NEW keys \in {{}} \cup {files[x].keys : x \in DOMAIN files \cap {f}},
                 files' = With(files, f, [text |-> edits', ok |-> ok, keys |-> keys])
          PROVE  /\ files' \in [DOMAIN files' -> Content] /\ DOMAIN files' \subseteq Files
                 /\ \A x \in DOMAIN files' : \A d \in files'[x].keys :
                      x \in DOMAIN files /\ d \in files[x].keys
      <3> DEFINE v == [text |-> edits', ok |-> ok, keys |-> keys]
      <3>1. \A d \in keys : f \in DOMAIN files /\ d \in files[f].keys
        OBVIOUS
      <3>2. keys \subseteq Clients
        BY <1>4 DEF Content
      <3>3. v \in Content /\ v.keys = keys
        BY <1>2, <3>2 DEF Content
      <3> HIDE DEF v
      <3>4. /\ With(files, f, v) \in [DOMAIN files \cup {f} -> Content]
            /\ DOMAIN With(files, f, v) = DOMAIN files \cup {f}
            /\ With(files, f, v)[f] = v
            /\ \A x \in DOMAIN files \ {f} : With(files, f, v)[x] = files[x]
        BY <1>4, <3>3 DEF With
      <3>5. files' = With(files, f, v)
        BY <2>2 DEF v
      <3> QED BY <1>3, <1>4, <3>1, <3>3, <3>4, <3>5
    <2>3. (IF f \in PlainText THEN {TRUE} ELSE BOOLEAN) \subseteq BOOLEAN
      OBVIOUS
    <2> QED BY <2>1, <2>2, <2>3 DEF Edit
  <1>6. TypesOK'
    BY <1>1, <1>2, <1>5 DEF TypesOK
  <1>7. JobOK' /\ Progress'
    BY <1>1 DEF JobOK, Progress, Idle
  <1>8. KeysOwn'
    BY <1>1, <1>5 DEF KeysOwn, Touched
  <1>9. KeysBacked'
    BY <1>1, <1>5 DEF KeysBacked, Alone
  <1>10. BackupsClean'
    BY <1>1 DEF BackupsClean, Alone
  <1>11. PendingOK'
    BY <1>1 DEF ClientInv, PendingOK, Idle
  <1> QED BY <1>6, <1>7, <1>8, <1>9, <1>10, <1>11 DEF ClientInv

\* Every step of a command, and what happens between commands, keeps the invariant.
LEMMA ClientKeeps ==
  ASSUME ClientInv, [Next]_vars
  PROVE  ClientInv'
  <1>1. ASSUME NEW c \in group, NEW connect \in BOOLEAN, NEW dry \in BOOLEAN,
               Begin(c, connect, dry)
        PROVE  ClientInv'
    BY <1>1, Begins
  <1>2. ASSUME NEW f \in EditedFiles, Edit(f)
        PROVE  ClientInv'
    BY <1>2, Edits
  <1>3. CASE DoRead \/ DoAuth \/ DoProbe
    BY <1>3, Looks
  <1>4. CASE DoBackup
    BY <1>4, BacksUpFirst
  <1>5. CASE DoWrite
    BY <1>5, Writes
  <1>6. CASE DoAllow
    BY <1>6, Allows
  <1>7. CASE DoRestore
    BY <1>7, Restores
  <1>8. CASE DoDrop
    BY <1>8, Drops
  <1>9. CASE DoRemove
    BY <1>9, Removes
  <1>10. CASE DoDelete
    BY <1>10, Deletes
  <1>11. CASE Finish \/ Interrupt
    BY <1>11, Ends
  <1>13. CASE Flush
    BY <1>13, Flushes
  <1>12. CASE UNCHANGED vars
    <2>1. UNCHANGED <<group, files, backups, recorded, job, pending, edits>>
      BY <1>12 DEF vars
    <2>2. TypesOK' /\ JobOK' /\ Progress'
      <3>1. TypesOK /\ JobOK /\ Progress
        BY DEF ClientInv
      <3>2. TypesOK'
        BY <2>1, <3>1 DEF TypesOK
      <3>3. JobOK'
        BY <2>1, <3>1 DEF JobOK, Idle, Jobs
      <3>4. JustCopied' <=> JustCopied
        BY <2>1 DEF JustCopied
      <3>5. \A s : Achieved(s)' <=> Achieved(s)
        BY <2>1 DEF Achieved, Slot, Alone, Writing
      <3>6. Progress'
        BY <2>1, <3>1, <3>4, <3>5 DEF Progress, Idle
      <3> QED BY <3>2, <3>3, <3>6
    <2>3. PendingOK'
      <3>1. \A doc : (FileDoc(doc)' <=> FileDoc(doc)) /\ (BackupDoc(doc)' <=> BackupDoc(doc))
        BY <2>1 DEF FileDoc, BackupDoc, Alone, Touched, Slot, BackedUp
      <3> QED BY <2>1, <3>1 DEF ClientInv, PendingOK, Idle
    <2> QED BY <2>1, <2>2, <2>3, Untouched DEF ClientInv
  <1> QED BY <1>1, <1>2, <1>3, <1>4, <1>5, <1>6, <1>7, <1>8, <1>9, <1>10, <1>11, <1>12, <1>13 DEF Next

\* The invariant holds at first: no file, no backup and no command.
LEMMA ClientInit ==
  ASSUME Init
  PROVE  ClientInv
  <1>1. group \in Groups /\ group \subseteq Clients
    BY GroupsAssumption DEF Init
  <1>2. /\ files = [f \in {} |-> Empty] /\ backups = [k \in {} |-> Empty]
        /\ recorded = {} /\ job = NoJob /\ pending = {} /\ edits = 0
    BY DEF Init
  <1>3. TypesOK
    BY <1>1, <1>2, MaxEditsAssumption DEF TypesOK
  <1>4. JobOK /\ Progress /\ PendingOK
    BY <1>2 DEF JobOK, Progress, Idle, PendingOK
  <1>5. KeysOwn /\ KeysBacked /\ BackupsClean
    BY <1>2 DEF KeysOwn, KeysBacked, BackupsClean
  <1> QED BY <1>3, <1>4, <1>5 DEF ClientInv

\* The inductive invariant of the commands.
THEOREM ClientInvariant == Spec => []ClientInv
  <1>1. Init => ClientInv
    BY ClientInit
  <1>2. ClientInv /\ [Next]_vars => ClientInv'
    BY ClientKeeps
  <1> QED BY <1>1, <1>2, PTL DEF Spec

\* However often a client is connected, interrupted and disconnected, and whatever
\* the user edits in between, its backup is of a file without its own settings.
THEOREM BackupsStayClean == Spec => []BackupsClean
  <1>1. ClientInv => BackupsClean
    BY DEF ClientInv
  <1> QED BY <1>1, ClientInvariant, PTL

-----------------------------------------------------------------------------
(* What a command that is done has done.                                   *)

\* A command without a step left has taken the whole of its plan.
LEMMA AllTaken ==
  ASSUME TypesOK, JobOK, ~Idle, job.ok, job.rest = <<>>
  PROVE  /\ job.client \in group /\ job.client \in Clients
         /\ \A i \in 1 .. Len(Plan(job)) : Plan(job)[i] \in Taken(job)
  <1>1. job.client \in group /\ job.client \in Clients /\ job.connect \in BOOLEAN
    BY DEF JobOK, Jobs, TypesOK
  <1>2. Plan(job) \in Seq(Steps)
    BY <1>1, PlanFacts DEF Plan
  <1> DEFINE n == Len(Plan(job))
  <1>3. n \in Nat /\ Position(job) = n - 0
    BY <1>2 DEF Position
  <1> HIDE DEF n
  <1>4. Position(job) = n
    BY <1>3
  <1> QED BY <1>1, <1>4 DEF Taken, n

\* A disconnect that succeeds leaves none of the client's settings in the files it
\* routes through, but for one that cannot be parsed.
THEOREM DisconnectsTakeTheirKeys == Spec => []DisconnectLeavesNoKeys
  <1>1. ASSUME ClientInv PROVE DisconnectLeavesNoKeys
    <2> SUFFICES ASSUME NEW c \in BacksUpOnce \cup CleansUp,
                        job.client = c, ~job.connect, ~job.dry, job.ok, job.rest = <<>>, Alone(c),
                        NEW f \in FilesOf(c) \cap DOMAIN files, ~Unreadable(f)
                 PROVE  c \notin files[f].keys
      BY DEF DisconnectLeavesNoKeys
    <2>1. TypesOK /\ JobOK /\ Progress /\ ~Idle
      BY <1>1 DEF ClientInv, Idle, NoJob
    <2>2. c \in Clients /\ \A i \in 1 .. Len(Plan(job)) : Plan(job)[i] \in Taken(job)
      BY <2>1, AllTaken
    <2>3. Plan(job) = Disconnects[c]
      BY DEF Plan
    <2>4. DisconnectPlan(c, Disconnects[c], FilesOf(c))
      BY <2>2, PlanFacts DEF PlansOK
    <2>5. PICK i \in 1 .. Len(Plan(job)) :
                 Plan(job)[i].file = f /\ Plan(job)[i].op \in {"restore", "remove", "delete"}
      BY <2>3, <2>4 DEF DisconnectPlan
    <2>6. /\ c \in BacksUpOnce => Plan(job)[i].op \in {"restore", "drop"}
          /\ c \in CleansUp => Plan(job)[i].op \in {"remove", "delete"}
      BY <2>3, <2>4 DEF DisconnectPlan
    <2>7. Achieved(Plan(job)[i])
      BY <2>1, <2>2 DEF Progress
    <2>8. files[f].ok \/ files[f].keys = {}
      BY EmptyContent DEF Unreadable
    <2> DEFINE s == Plan(job)[i]
    <2> HIDE DEF s
    <2>9. /\ s.file = f /\ Achieved(s) /\ s.op \in {"restore", "remove", "delete"}
          /\ c \in BacksUpOnce => s.op \in {"restore", "drop"}
          /\ c \in CleansUp => s.op \in {"remove", "delete"}
      BY <2>5, <2>6, <2>7 DEF s
    <2> QED BY <2>8, <2>9 DEF Achieved
  <1> QED BY <1>1, ClientInvariant, PTL

\* A client enters connections.json only with its settings in all of its files.
THEOREM RecordsAreTrue == Spec => RecordedOnlyIfWritten
  <1>1. ASSUME ClientInv, [Next]_vars, NEW c \in recorded' \ recorded, NEW f \in Files,
               f \in FilesOf(c)
        PROVE  f \in DOMAIN files /\ c \in files[f].keys
    <2>1. Finish
      <3>1. recorded' # recorded
        BY <1>1
      <3> QED BY <1>1, <3>1 DEF Next, vars, Same, Begin, DoBackup, DoRead, DoWrite, DoAllow,
                 DoAuth, DoProbe, DoRestore, DoDrop, DoRemove, DoDelete, Flush, Interrupt, Edit
    <2>2. job.connect /\ ~job.dry /\ job.ok /\ c = job.client /\ ~Idle /\ job.rest = <<>>
      BY <1>1, <2>1 DEF Finish, UpdateState
    <2>3. TypesOK /\ JobOK /\ Progress
      BY <1>1 DEF ClientInv
    <2>4. c \in Clients /\ \A i \in 1 .. Len(Plan(job)) : Plan(job)[i] \in Taken(job)
      BY <2>2, <2>3, AllTaken
    <2>5. Plan(job) = Connects[c]
      BY <2>2 DEF Plan
    <2>6. PICK i \in 1 .. Len(Plan(job)) : Plan(job)[i].op = "write" /\ Plan(job)[i].file = f
      BY <1>1, <2>4, <2>5, PlanFacts DEF PlansOK
    <2>7. Achieved(Plan(job)[i]) /\ pending = {}
      BY <1>1, <2>2, <2>3, <2>4 DEF Progress, ClientInv, PendingOK
    <2> QED BY <2>2, <2>6, <2>7 DEF Achieved, Writing
  <1>2. ClientInv /\ [Next]_vars =>
          [\A c \in recorded' \ recorded, f \in Files :
             f \in FilesOf(c) => f \in DOMAIN files /\ c \in files[f].keys]_vars
    BY <1>1
  <1> QED BY <1>2, ClientInvariant, PTL DEF Spec, RecordedOnlyIfWritten

\* Connecting takes what the user wrote out of a file only into a backup, but for what
\* a kill in the middle of a write may lose (cli/connect/mod.rs, write_file).
THEOREM TextsAreKept == Spec => UserTextKept
  <1> DEFINE Kept(f, t) == \E k \in DOMAIN backups' : k[2] = f /\ backups'[k].text = t
  <1>1. ASSUME ClientInv, [Next]_vars, NEW f \in DOMAIN files, job.client \in Careful, job.connect,
               pending # {} /\ job' = NoJob => job.client = "claude",
               NEW t \in Texts(f), t # 0, t \notin Texts(f)'
        PROVE  Kept(f, t)
    <2> DEFINE h == Head(job.rest)
    <2>1. TypesOK /\ JobOK /\ Progress /\ PendingOK /\ ~Idle
      BY <1>1 DEF ClientInv, Idle, NoJob
    <2>2. CASE pending # {}
      <3>1. PICK doc \in Content :
              /\ pending = {doc}
              /\ \/ BackupDoc(doc)
                 \/ FileDoc(doc) /\ h.file \in DOMAIN files /\ files[h.file] = Empty
        BY <2>1, <2>2 DEF PendingOK
      <3>2. job.rest # <<>>
        BY <2>1, <2>2 DEF PendingOK
      <3>3. Flush \/ Interrupt
        BY <1>1, <2>1, <2>2, <3>2 DEF Next, vars, Texts, Begin, Doing, DoBackup, DoRead, DoWrite,
           DoAllow, DoAuth, DoProbe, DoRestore, DoDrop, DoRemove, DoDelete, Finish, Edit
      <3>4. CASE BackupDoc(doc)
        <4>1. files' = files
          BY <3>1, <3>3, <3>4 DEF Flush, Interrupt, BackupDoc
        <4> QED BY <1>1, <3>1, <3>4, <4>1 DEF Texts, BackupDoc
      <3>5. CASE FileDoc(doc) /\ h.file \in DOMAIN files /\ files[h.file] = Empty
        <4>1. h.op # "backup"
          BY <3>5 DEF FileDoc
        <4>2. CASE f # h.file
          <5>1. f \in DOMAIN files' /\ files'[f] = files[f]
            BY <3>1, <3>3, <4>1, <4>2 DEF Flush, Interrupt, With
          <5> QED BY <1>1, <3>1, <4>2, <5>1 DEF Texts
        <4>3. CASE f = h.file
          <5>1. t = doc.text
            BY <1>1, <3>1, <3>5, <4>3, EmptyContent DEF Texts
          <5>2. CASE Flush
            <6>1. f \in DOMAIN files' /\ files'[f] = doc
              BY <3>1, <4>1, <4>3, <5>2 DEF Flush, With
            <6> QED BY <1>1, <5>1, <6>1 DEF Texts
          <5>3. CASE Interrupt
            <6>1. job.client = "claude" /\ backups' = backups
              BY <1>1, <2>2, <5>3 DEF Interrupt
            <6>2. <<job.client, f>> \in DOMAIN backups /\ backups[<<job.client, f>>].text = t
              BY <1>1, <3>5, <4>3, <5>1, <6>1 DEF FileDoc
            <6> QED BY <6>1, <6>2
          <5> QED BY <3>3, <5>2, <5>3
        <4> QED BY <4>2, <4>3
      <3> QED BY <3>1, <3>4, <3>5
    <2>3. CASE pending = {}
      <3>1. t = files[f].text
        BY <1>1, <2>3 DEF Texts
      <3>2. files' # files
        BY <1>1, <3>1 DEF Texts
      <3>3. DoWrite \/ DoAllow \/ DoRestore \/ DoRemove \/ DoDelete
        BY <1>1, <2>1, <2>3, <3>2 DEF Next, vars, Begin, DoBackup, DoRead, DoAuth, DoProbe, DoDrop,
           Finish, Interrupt, Flush, Edit
      <3>4. job.rest # <<>> /\ h.op \in {"write", "allow", "restore", "remove", "delete"}
        BY <3>3 DEF Doing, DoWrite, DoAllow, DoRestore, DoRemove, DoDelete
      <3>5. /\ job.ok /\ job.client \in Clients /\ h.op \in ConnectOps
            /\ h.op \in {"backup", "write"} => h.file \in FilesOf(job.client)
            /\ h.op = "allow" => job.client = "copilot"
            /\ h.op = "write" => h.how = "merge" \/ job.client = "claude"
            /\ job.client = "claude" /\ h.op = "write" =>
                 Len(job.rest) = 2 /\ FilesOf(job.client) = {"claude/settings"}
        BY <1>1, <2>1, <3>4, NextStep
      <3>6. h.op = "write" /\ DoWrite
        <4>1. h.op = "write"
          BY <1>1, <3>4, <3>5 DEF ConnectOps, Careful
        <4> QED BY <3>3, <4>1 DEF Doing, DoWrite, DoAllow, DoRestore, DoRemove, DoDelete
      <3>7. /\ ~job.dry /\ files' = With(files, h.file, Empty) /\ backups' = backups
            /\ pending' = {Written(h)} /\ job' = job
        BY <3>2, <3>6 DEF DoWrite, Open
      <3>8. f = h.file
        BY <1>1, <3>1, <3>7 DEF With, Texts
      <3>9. Written(h).text # t
        BY <1>1, <3>6, <3>7, <3>8 DEF Texts
      <3>10. h.how # "merge"
        BY <1>1, <2>1, <3>1, <3>5, <3>8, <3>9, WrittenFacts
      <3>11. job.client = "claude" /\ Len(job.rest) = 2 /\ f = "claude/settings"
        BY <3>5, <3>6, <3>8, <3>10
      <3>12. JustCopied
        BY <2>1, <3>5, <3>7 DEF Progress
      <3>13. <<"claude", f>> \in DOMAIN backups /\ backups[<<"claude", f>>].text = files[f].text
        BY <1>1, <2>3, <3>11, <3>12 DEF JustCopied
      <3> QED BY <3>1, <3>7, <3>13
    <2> QED BY <2>2, <2>3
  <1>2. ClientInv /\ [Next]_vars =>
          [/\ job.client \in {"claude", "claude-copilot", "claude-desktop", "copilot-vscode",
                              "openclaw"}
           /\ job.connect
           /\ pending # {} /\ job' = NoJob => job.client = "claude"
           => \A f \in DOMAIN files : \A t \in Texts(f) \ (Texts(f)' \cup {0}) :
                \E k \in DOMAIN backups' : k[2] = f /\ backups'[k].text = t]_vars
    BY <1>1 DEF Careful
  <1> QED BY <1>2, ClientInvariant, PTL DEF Spec, UserTextKept

\* Type correctness: the clients that run are the user's, only files of clients are
\* written and only their slots hold backups.
THEOREM ClientTypes == Spec => []TypeOK
  <1>1. ClientInv => TypeOK
    <2> SUFFICES ASSUME ClientInv PROVE TypeOK
      OBVIOUS
    <2>1. TypesOK /\ JobOK
      BY DEF ClientInv
    <2>2. job.client \in group \cup {"none"} /\ (job.ok \/ job.rest = <<>>)
      <3>1. CASE Idle
        BY <3>1 DEF Idle, NoJob
      <3>2. CASE ~Idle
        BY <2>1, <3>2 DEF JobOK, Jobs
      <3> QED BY <3>1, <3>2
    <2>3. pending # {} => job.rest # <<>> /\ \E doc \in Content : pending = {doc}
      BY DEF ClientInv, PendingOK
    <2> QED BY <2>1, <2>2, <2>3 DEF TypesOK, TypeOK
  <1> QED BY <1>1, ClientInvariant, PTL
=============================================================================
