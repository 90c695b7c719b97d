----------------------------- MODULE RequestLog ------------------------------
(***************************************************************************)
(* The request log: LoggingBody writes one record per exchange when the    *)
(* body has been sent, failed or been dropped, append_request_log rotates  *)
(* the file first if it is full, and `isartor logs --follow` polls it.     *)
(* Nothing is locked: tasks of one gateway and the follower interleave     *)
(* between any two system calls.  A name (0 is requests.log, k is .log.k)  *)
(* leads to a file, a file holds pieces of records.                        *)
(***************************************************************************)
EXTENDS Naturals, Sequences

CONSTANTS
  Exchanges,    \* exchanges; each is made once
  FullAt,       \* REQUEST_LOG_MAX_FILE_BYTES, in pieces, at most 2
  Rotations     \* REQUEST_LOG_ROTATIONS

ASSUME RotationsAssumption == Rotations \in Nat \ {0}
ASSUME ExchangesAssumption == "old" \notin Exchanges   \* what was there before

VARIABLES
  body,       \* the LoggingBody of each exchange, and the task that drives it
  names,      \* name -> file, 0 if there is none
  files,      \* the pieces of each file, oldest first
  follower    \* `isartor logs --requests --follow`

logVars == <<body, names, files, follower>>

Names == 0 .. Rotations

\* A gateway that has just come up finds a log that is full.
OldPieces == <<<<"old", "write">>, <<"old", "newline">>>>

LogInit ==
  /\ body = [e \in Exchanges |-> [pc |-> "stream", name |-> 0, file |-> 0]]
  /\ names = [n \in Names |-> IF n = 0 THEN 1 ELSE 0]
  /\ files = <<OldPieces>>
  /\ follower = [pc |-> "off", offset |-> 0, length |-> 0, shown |-> <<>>]

BodyGoes(e, pc) == body' = [body EXCEPT ![e].pc = pc]

-----------------------------------------------------------------------------
(* LoggingBody.                                                            *)

\* The last frame, an error, or a drop before either: finish.
BodyEnds(e) ==
  /\ body[e].pc = "stream"
  /\ BodyGoes(e, "stat")
  /\ UNCHANGED <<names, files, follower>>

\* Mutant: Drop does not ask whether the record has been written.
MutantBodyDropped(e) ==
  /\ body[e].pc = "emitted"
  /\ BodyGoes(e, "stat")
  /\ UNCHANGED <<names, files, follower>>

\* emitted is set, even when the record was not written.
BodyDropped(e) ==
  /\ body[e].pc = "emitted"
  /\ BodyGoes(e, "gone")
  /\ UNCHANGED <<names, files, follower>>

(* append_request_log.                                                     *)

\* Any system call may fail; a warning is all that is left of the record.
LogFails(e) ==
  /\ body[e].pc \in {"stat", "remove", "shift", "open", "write", "newline"}
  /\ BodyGoes(e, "emitted")
  /\ UNCHANGED <<names, files, follower>>

StatLog(e) ==
  /\ body[e].pc = "stat"
  /\ BodyGoes(e, IF names[0] # 0 /\ Len(files[names[0]]) >= FullAt
                   THEN "remove" ELSE "open")
  /\ UNCHANGED <<names, files, follower>>

RemoveOldest(e) ==
  /\ body[e].pc = "remove"
  /\ names' = [names EXCEPT ![Rotations] = 0]
  /\ body' = [body EXCEPT ![e].pc = "shift", ![e].name = Rotations - 1]
  /\ UNCHANGED <<files, follower>>

\* From the oldest name to requests.log: a name that is there takes the place of
\* the next one, whatever is there by now.
ShiftName(e) ==
  /\ body[e].pc = "shift"
  /\ LET n == body[e].name
     IN /\ names' = IF names[n] = 0 THEN names
                    ELSE [names EXCEPT ![n + 1] = names[n], ![n] = 0]
        /\ body' = IF n = 0 THEN [body EXCEPT ![e].pc = "open"]
                            ELSE [body EXCEPT ![e].name = n - 1]
  /\ UNCHANGED <<files, follower>>

OpenLog(e) ==
  /\ body[e].pc = "open"
  /\ IF names[0] = 0
       THEN /\ files' = Append(files, <<>>)
            /\ names' = [names EXCEPT ![0] = Len(files) + 1]
            /\ body' = [body EXCEPT ![e].pc = "write", ![e].file = Len(files) + 1]
       ELSE /\ body' = [body EXCEPT ![e].pc = "write", ![e].file = names[0]]
            /\ UNCHANGED <<names, files>>
  /\ UNCHANGED follower

\* serde_json writes in several pieces, of which two are enough to interleave,
\* to the file that was opened, whatever its name is by now.
WritePiece(e) ==
  /\ body[e].pc \in {"write", "newline"}
  /\ files' = [files EXCEPT ![body[e].file] = Append(@, <<e, body[e].pc>>)]
  /\ BodyGoes(e, IF body[e].pc = "write" THEN "newline" ELSE "emitted")
  /\ UNCHANGED <<names, follower>>

-----------------------------------------------------------------------------
(* isartor logs.                                                           *)

Ends == [follower EXCEPT !.pc = "ended"]

\* read_last_lines.
ShowTail ==
  /\ follower.pc = "off"
  /\ follower' = IF names[0] = 0 THEN Ends
                 ELSE [follower EXCEPT !.pc = "shown", !.shown = files[names[0]]]
  /\ UNCHANGED <<body, names, files>>

\* The offset is taken afterwards: what was written in between is not shown.
StartFollow ==
  /\ follower.pc = "shown"
  /\ follower' = IF names[0] = 0 THEN Ends
                 ELSE [follower EXCEPT !.pc = "poll", !.offset = Len(files[names[0]])]
  /\ UNCHANGED <<body, names, files>>

\* A file that is shorter than what was read is another file.
PollLength ==
  /\ follower.pc = "poll"
  /\ follower' = IF names[0] = 0 THEN Ends
                 ELSE LET n == Len(files[names[0]])
                      IN  [follower EXCEPT !.pc = "read", !.length = n,
                             !.offset = IF n < @ THEN 0 ELSE @]
  /\ UNCHANGED <<body, names, files>>

Unread == SubSeq(files[names[0]], follower.offset + 1, Len(files[names[0]]))

\* Mutant: the offset becomes the length that was asked before the read.
MutantEmitNew ==
  /\ follower.pc = "read"
  /\ follower' = IF names[0] = 0 THEN Ends
                 ELSE [follower EXCEPT !.pc = "poll", !.shown = @ \o Unread,
                                       !.offset = follower.length]
  /\ UNCHANGED <<body, names, files>>

EmitNew ==
  /\ follower.pc = "read"
  /\ follower' = IF names[0] = 0 THEN Ends
                 ELSE [follower EXCEPT !.pc = "poll", !.shown = @ \o Unread,
                                       !.offset = @ + Len(Unread)]
  /\ UNCHANGED <<body, names, files>>

LogNext ==
  \/ \E e \in Exchanges :
       \/ BodyEnds(e) \/ BodyDropped(e) \/ LogFails(e) \/ StatLog(e)
       \/ RemoveOldest(e) \/ ShiftName(e) \/ OpenLog(e) \/ WritePiece(e)
  \/ ShowTail \/ StartFollow \/ PollLength \/ EmitNew

LogSpec == LogInit /\ [][LogNext]_logVars
-----------------------------------------------------------------------------
(* Properties.                                                             *)

\* Every variable holds a value of its type; a file has one name at most.
LogTypeOK ==
  /\ \A e \in Exchanges :
       /\ body[e].pc \in {"stream", "stat", "remove", "shift", "open", "write",
                          "newline", "emitted", "gone"}
       /\ body[e].name \in Names /\ body[e].file \in 0 .. Len(files)
  /\ names \in [Names -> 0 .. Len(files)]
  /\ \A m, n \in Names : names[m] # 0 /\ names[m] = names[n] => m = n
  /\ follower.pc \in {"off", "shown", "poll", "read", "ended"}

\* One record per exchange (docs/architecture-decisions.md:410): the end of the
\* stream, its error and the drop of the body are three ways to the same record,
\* and rotations by other tasks in the middle of it never double it.
LoggedOnce ==
  \A f, g \in DOMAIN files : \A i \in DOMAIN files[f], j \in DOMAIN files[g] :
    files[f][i] = files[g][j] => f = g /\ i = j

\* What follows the log never shows a piece twice, although the file may grow
\* between its length and its contents being read, or be rotated away
\* (cli/logs.rs:113).
FollowNeverRepeats ==
  \A i, j \in DOMAIN follower.shown :
    follower.shown[i] = follower.shown[j] => i = j
=============================================================================
