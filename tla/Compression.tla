----------------------------- MODULE Compression -----------------------------
(***************************************************************************)
(* What the context optimiser makes of a request: the instruction texts of *)
(* a body run through the compression pipeline, against a cache of what    *)
(* each session has sent before.  A text is a sequence of lines, a line is *)
(* what the minifier can tell of it:                                       *)
(*   "text"     any other line            "blank"   an empty one           *)
(*   "rule"     --- or a row of = and -   "comment" <!-- ... -->           *)
(*   "open"     <!-- ...                  "close"   ... -->                *)
(*   "opening"  text, then <!-- ...       "closing" ... -->, then text     *)
(*   "trailed"  <!-- ... -->, then text                                    *)
(*   "framed"   text between two comments                                  *)
(***************************************************************************)
EXTENDS Naturals, Sequences, SequencesExt

CONSTANTS
  LineKinds,     \* the lines of texts, subset of AllKinds
  MaxTextLines,      \* bound on the lines of a text
  Marked,        \* whether texts bear a mark of instructions, set of BOOLEAN
  Sessions,      \* sessions, of which "none" is no session
  MaxTurns,      \* bound on the turns counted of one text
  Dedup, Minify  \* context_optimizer_dedup, context_optimizer_minify

AllKinds == {"text", "blank", "rule", "comment", "open", "close", "opening", "closing",
             "trailed", "framed"}

ASSUME LinesAssumption ==
  /\ LineKinds \subseteq AllKinds
  /\ MaxTextLines \in Nat /\ MaxTurns \in Nat

VARIABLES
  draft,     \* the text that is being put together
  seenBy,    \* InstructionCache: session -> the last text and its turn
  sent       \* the last text that was optimised, and what became of it

compressionVars == <<draft, seenBy, sent>>

Unseen == [lines |-> <<>>, turn |-> 0]

-----------------------------------------------------------------------------
(* LogCrunchStage::minify: the state of the loop is what has been kept and *)
(* whether a comment is open.                                              *)

\* The lines that have a --> somewhere.
Closers == {"comment", "close", "closing", "trailed", "framed"}

KeepLine(loop, line) ==
  IF line = "blank" /\ loop.kept # <<>> /\ Last(loop.kept) = "blank" THEN loop
  ELSE [loop EXCEPT !.kept = Append(@, line)]

\* Mutant: a comment that is open is closed by a line that ends with --> only.
MutantMinifyLine(loop, line) ==
  CASE loop.block -> [loop EXCEPT !.block = line \notin Closers \ {"closing", "trailed"}]
    [] ~loop.block /\ line \in {"open", "trailed"} -> [loop EXCEPT !.block = TRUE]
    [] ~loop.block /\ line \in {"comment", "framed", "rule"} -> loop
    [] OTHER -> KeepLine(loop, line)

\* A line that begins with a comment stands for it: if it does not end with one, it
\* is taken for one that stays open, and what follows the end of one is dropped.
MinifyLine(loop, line) ==
  CASE loop.block -> [loop EXCEPT !.block = line \notin Closers]
    [] ~loop.block /\ line \in {"open", "trailed"} -> [loop EXCEPT !.block = TRUE]
    [] ~loop.block /\ line \in {"comment", "framed", "rule"} -> loop
    [] OTHER -> KeepLine(loop, line)

LoopStart == [block |-> FALSE, kept |-> <<>>]

\* The loop, after so many lines.
MinifyLoop(lines) ==
  LET loop[i \in 0 .. Len(lines)] ==
        IF i = 0 THEN LoopStart ELSE MinifyLine(loop[i - 1], lines[i])
  IN  loop

Minified(lines) == MinifyLoop(lines)[Len(lines)].kept

-----------------------------------------------------------------------------
(* The pipeline: classifier, dedup, log_crunch.  Long texts without a mark *)
(* and short ones go no further than the classifier.                       *)

\* ContentClassifier.
IsInstruction(long, marked) == long /\ marked

Outcome(lines, strategy) == [lines |-> lines, strategy |-> strategy]

Repeated(session, lines) ==
  session # "none" /\ seenBy[session].turn > 0 /\ seenBy[session].lines = lines

Execute(session, lines, instruction) ==
  CASE ~instruction -> Outcome(lines, "none")
    [] instruction /\ Dedup /\ Repeated(session, lines) -> Outcome(<<"reference">>, "dedup")
    [] instruction /\ ~(Dedup /\ Repeated(session, lines)) /\ Minify /\ Minified(lines) # lines ->
         Outcome(Minified(lines), "log_crunch")
    [] OTHER -> Outcome(lines, "none")

\* check_and_update: under one lock, whatever the other stages do.
CheckAndUpdate(session, lines) ==
  seenBy' = IF session = "none" \/ ~Dedup THEN seenBy
            ELSE [seenBy EXCEPT ![session] =
                    [lines |-> lines,
                     turn |-> IF Repeated(session, lines) THEN @.turn + 1 ELSE 1]]

NotSent == [was |-> <<>>, is |-> <<>>, strategy |-> "none"]

CompressionInit ==
  /\ draft = <<>>
  /\ seenBy = [s \in Sessions |-> Unseen]
  /\ sent = NotSent

\* The user goes on with the instructions, and sends them in the next turn.
Draft ==
  /\ Len(draft) < MaxTextLines
  /\ \E line \in LineKinds : draft' = Append(draft, line)
  /\ sent' = NotSent
  /\ UNCHANGED seenBy

\* One instruction text of a request: the "system" field or a system message.
OptimizeText ==
  /\ draft # <<>>
  /\ \E s \in Sessions, long \in BOOLEAN, marked \in Marked :
       LET instruction == IsInstruction(long, marked)
           o == Execute(s, draft, instruction)
       IN  /\ s # "none" => seenBy[s].turn < MaxTurns
           /\ sent' = [was |-> draft, is |-> o.lines, strategy |-> o.strategy]
           /\ IF instruction THEN CheckAndUpdate(s, draft) ELSE UNCHANGED seenBy
  /\ UNCHANGED draft

CompressionNext == Draft \/ OptimizeText

CompressionSpec == CompressionInit /\ [][CompressionNext]_compressionVars
-----------------------------------------------------------------------------
(* Properties.                                                             *)

\* Every variable holds a value of its type.
CompressionTypeOK ==
  /\ Len(draft) <= MaxTextLines /\ \A i \in DOMAIN draft : draft[i] \in LineKinds
  /\ \A s \in Sessions : seenBy[s].turn \in 0 .. MaxTurns
  /\ sent.strategy \in {"none", "dedup", "log_crunch"}

\* The lines whose numbers are wanted, of so many lines, in their order.
AppendIf(wanted, kept, line) == IF wanted THEN Append(kept, line) ELSE kept
Kept(lines, wanted) ==
  LET kept[i \in 0 .. Len(lines)] ==
        IF i = 0 THEN <<>> ELSE AppendIf(i \in wanted, kept[i - 1], lines[i])
  IN  kept

InkOf(lines) == {i \in 1 .. Len(lines) : lines[i] # "blank"}
NotBlank(lines) == Kept(lines, InkOf(lines))[Len(lines)]

\* Whether line i is below a line of these kinds and no comment has ended since.
Below(kinds, lines, i) ==
  \E j \in 1 .. i - 1 :
    lines[j] \in kinds /\ \A k \in j + 1 .. i - 1 : lines[k] \notin Closers

\* The lines that have something to say outside comments, as HTML has it: a comment
\* goes from <!-- to the next -->, wherever they are.
InComment(lines, i) == Below({"open", "opening"}, lines, i)
Saying(lines) ==
  {i \in 1 .. Len(lines) :
     \/ lines[i] \in {"closing", "trailed", "framed"}
     \/ lines[i] \in {"text", "close", "opening"} /\ ~InComment(lines, i)}

\* The lines that may be lost: those that have text and a comment that begins the
\* line or ends in it, and those below one with text behind its comment.
AtRisk(lines) ==
  {i \in 1 .. Len(lines) :
     \/ lines[i] \in {"trailed", "framed"}
     \/ lines[i] = "closing" /\ InComment(lines, i)
     \/ Below({"trailed"}, lines, i)}

\* What is made of a text says no more and, but for some lines, no less: the lines
\* that are kept, in their order, and blank ones.
SaysOf(is, was, lost) ==
  \E kept \in SUBSET InkOf(was) :
    /\ NotBlank(is) = Kept(was, kept)[Len(was)]
    /\ Saying(was) \ lost \subseteq kept
    /\ \A i \in kept \ Saying(was) : Below({"opening"}, was, i)

\* What is sent instead of an instruction text says the same
\* (compression/stages/log_crunch.rs:23), but for lines that have text on them
\* beside a comment and what is below such a line: every other line that says
\* something is there, in its order, and no comment that begins a line; no two
\* blank lines follow each other, minifying it again changes nothing, and a
\* reference is only sent to a session whose last text this was.
CompressionKeeps ==
  /\ sent.strategy = "log_crunch" =>
       /\ SaysOf(sent.is, sent.was, AtRisk(sent.was))
       /\ \A i \in 1 .. Len(sent.is) - 1 : ~(sent.is[i] = "blank" /\ sent.is[i + 1] = "blank")
       /\ Minified(sent.is) = sent.is
  /\ sent.strategy = "dedup" =>
       \E s \in Sessions \ {"none"} : seenBy[s].lines = sent.was /\ seenBy[s].turn > 1
  /\ sent.strategy = "none" => sent.is = sent.was

\* "Lossless: meaningful content must survive", say the tests of the minifier
\* (compression/stages/log_crunch.rs:169), which strips comments, rules and blank
\* lines (docs-site/src/concepts/deflection-stack.md:103): no line that says
\* something is lost, none at risk either.
NothingSaidIsLost ==
  sent.strategy = "log_crunch" => SaysOf(sent.is, sent.was, {})
=============================================================================
