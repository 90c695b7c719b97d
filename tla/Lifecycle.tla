----------------------------- MODULE Lifecycle ------------------------------
(***************************************************************************)
(* Starting, stopping and restarting the gateway on one machine.  The only *)
(* thing `isartor stop` knows of a server is the number in the PID file,   *)
(* and the operating system gives a number to another process as soon as   *)
(* its owner is gone.  No signal is handled, so a server that is stopped   *)
(* never removes its own file.                                             *)
(***************************************************************************)
EXTENDS Naturals

CONSTANTS
  Pids,       \* process numbers, without 0
  MaxStarts,  \* bound on servers started
  MaxPolls,   \* how often stop looks for the process (20 in the code)
  FirstRun    \* no isartor.toml and no ISARTOR__FIRST_RUN_COMPLETE

ASSUME LifeAssumption == MaxStarts \in Nat /\ MaxPolls \in Nat

VARIABLES
  proc,      \* what has each number
  pidFile,   \* isartor.pid: NoFile, NoNumber (created, not written) or a number
  stop,      \* the `isartor stop` that runs
  restart,   \* restart_isartor_if_running of the Claude Code connector
  demo,      \* the first-run demo of each server
  starts,    \* servers started so far
  hidden     \* history: servers whose file was never written, or was removed

lifeVars == <<proc, pidFile, stop, restart, demo, starts, hidden>>

\* What the PID file is when it names nobody.
NoFile   == 0
NoNumber == 1000000

\* Other people's processes, which kill(2) may not even look at, and our own.
Bystanders == {"foreign", "protected"}
PortHolders == {"bound", "writing", "serving", "dying"}
Servers    == {"loading", "ending"} \cup PortHolders

PortTaken == \E p \in Pids : proc[p] \in PortHolders

LifeInit ==
  /\ proc = [p \in Pids |-> "none"]
  /\ pidFile = NoFile
  /\ stop = [pc |-> "idle", pid |-> NoFile, polls |-> 0, failed |-> FALSE]
  /\ restart = "idle"
  /\ demo = [p \in Pids |-> "off"]
  /\ starts = 0 /\ hidden = {}

Become(p, what) == proc' = [proc EXCEPT ![p] = what]

\* The number is free again.
Gone(p) ==
  /\ Become(p, "none")
  /\ demo' = [demo EXCEPT ![p] = "off"]
  /\ hidden' = hidden \ {p}

-----------------------------------------------------------------------------
(* A server, started in the foreground or as a detached child.             *)

Launch(p) ==
  /\ proc[p] = "none" /\ starts < MaxStarts
  /\ Become(p, "loading") /\ starts' = starts + 1

StartServer(p) ==
  /\ restart # "start"
  /\ Launch(p)
  /\ UNCHANGED <<pidFile, stop, restart, demo, hidden>>

\* A bad configuration, an embedder that does not load, a port that is taken.
StartFails(p) ==
  /\ proc[p] = "loading"
  /\ Gone(p)
  /\ UNCHANGED <<pidFile, stop, restart, starts>>

\* Mutant: the port is taken, and nobody notices until requests are served.
MutantBind(p) ==
  /\ proc[p] = "loading"
  /\ Become(p, "bound")
  /\ UNCHANGED <<pidFile, stop, restart, demo, starts, hidden>>

\* TcpListener::bind, before the PID file is touched.
Bind(p) ==
  /\ proc[p] = "loading" /\ ~PortTaken
  /\ Become(p, "bound")
  /\ UNCHANGED <<pidFile, stop, restart, demo, starts, hidden>>

\* fs::write creates or empties the file, then writes it.
CreatePidFile(p) ==
  /\ proc[p] = "bound"
  /\ Become(p, "writing") /\ pidFile' = NoNumber
  /\ UNCHANGED <<stop, restart, demo, starts, hidden>>

Serve(p) ==
  /\ Become(p, "serving")
  /\ demo' = [demo EXCEPT ![p] = IF FirstRun THEN "due" ELSE "off"]
  /\ UNCHANGED <<stop, restart, starts>>

\* The open file is written even if its name has been removed meanwhile.
WritePidFile(p) ==
  /\ proc[p] = "writing"
  /\ IF pidFile = NoNumber THEN pidFile' = p /\ hidden' = hidden \ {p}
     ELSE hidden' = hidden \cup {p} /\ UNCHANGED pidFile
  /\ Serve(p)

\* A warning; the server goes on.
WritePidFileFails(p) ==
  /\ proc[p] \in {"bound", "writing"}
  /\ hidden' = hidden \cup {p} /\ UNCHANGED pidFile
  /\ Serve(p)

\* Three seconds after the start: one live call, seeds in both caches, the
\* replay; then the marker that is_first_run does not look for.
RunDemo(p) ==
  /\ proc[p] = "serving" /\ demo[p] = "due"
  /\ \E result \in {"done", "failed"} : demo' = [demo EXCEPT ![p] = result]
  /\ UNCHANGED <<proc, pidFile, stop, restart, starts, hidden>>

\* Killed, or out of memory.
Crash(p) ==
  /\ proc[p] \in Servers
  /\ Gone(p)
  /\ UNCHANGED <<pidFile, stop, restart, starts>>

\* The number goes to, and is left by, a process that is not ours.
Reuse(p) ==
  /\ proc[p] = "none"
  /\ \E what \in Bystanders : Become(p, what)
  /\ UNCHANGED <<pidFile, stop, restart, demo, starts, hidden>>

BystanderEnds(p) ==
  /\ proc[p] \in Bystanders
  /\ Gone(p)
  /\ UNCHANGED <<pidFile, stop, restart, starts>>

-----------------------------------------------------------------------------
(* isartor stop.                                                           *)

\* kill(pid, 0) succeeds.
IsProcessAlive(p) == proc[p] \notin {"none", "protected"}

StopEnds(failed) ==
  stop' = [pc |-> "idle", pid |-> NoFile, polls |-> 0, failed |-> failed]

\* No file, or no number in it: an error.
BeginStop ==
  IF pidFile \in Pids
    THEN stop' = [stop EXCEPT !.pc = "check", !.pid = pidFile]
    ELSE StopEnds(TRUE)

RunStop ==
  /\ stop.pc = "idle" /\ restart = "idle"
  /\ BeginStop
  /\ UNCHANGED <<proc, pidFile, restart, demo, starts, hidden>>

StopChecks ==
  /\ stop.pc = "check"
  /\ stop' = [stop EXCEPT !.pc = IF IsProcessAlive(stop.pid) THEN "signal" ELSE "remove",
                          !.failed = ~IsProcessAlive(stop.pid)]
  /\ UNCHANGED <<proc, pidFile, restart, demo, starts, hidden>>

\* A server dies of it, now or later; another process may not.
StopSignals ==
  /\ stop.pc = "signal"
  /\ IF IsProcessAlive(stop.pid)
       THEN /\ stop' = [stop EXCEPT !.pc = "wait"]
            /\ IF proc[stop.pid] \in Servers
                 THEN /\ Become(stop.pid, IF proc[stop.pid] \in PortHolders
                                              THEN "dying" ELSE "ending")
                      /\ demo' = [demo EXCEPT ![stop.pid] = "off"]
                 ELSE UNCHANGED <<proc, demo>>
       ELSE StopEnds(TRUE) /\ UNCHANGED <<proc, demo>>
  /\ UNCHANGED <<pidFile, restart, starts, hidden>>

Dies(p) ==
  /\ proc[p] \in {"dying", "ending"}
  /\ Gone(p)
  /\ UNCHANGED <<pidFile, stop, restart, starts>>

\* Mutant: polls as long as the process is there.
MutantStopPolls ==
  /\ stop.pc = "wait"
  /\ IF ~IsProcessAlive(stop.pid) THEN stop' = [stop EXCEPT !.pc = "remove"]
     ELSE UNCHANGED stop
  /\ UNCHANGED <<proc, pidFile, restart, demo, starts, hidden>>

StopPolls ==
  /\ stop.pc = "wait"
  /\ IF stop.polls = MaxPolls THEN StopEnds(FALSE)
     ELSE IF ~IsProcessAlive(stop.pid) THEN stop' = [stop EXCEPT !.pc = "remove"]
     ELSE stop' = [stop EXCEPT !.polls = @ + 1]
  /\ UNCHANGED <<proc, pidFile, restart, demo, starts, hidden>>

\* Whatever the file says by now.
StopRemoves ==
  /\ stop.pc = "remove"
  /\ pidFile' = NoFile
  /\ hidden' = IF pidFile \in Pids THEN hidden \cup {pidFile} ELSE hidden
  /\ StopEnds(stop.failed)
  /\ UNCHANGED <<proc, restart, demo, starts>>

-----------------------------------------------------------------------------
(* The connector that writes a new provider into the configuration.        *)

RestartStops ==
  /\ restart = "idle" /\ stop.pc = "idle" /\ pidFile # NoFile
  /\ restart' = "stop" /\ BeginStop
  /\ UNCHANGED <<proc, pidFile, demo, starts, hidden>>

\* It starts a server if stop succeeded, which it also does when the old
\* server outlives its two seconds.
RestartGoesOn ==
  /\ restart = "stop" /\ stop.pc = "idle"
  /\ restart' = IF stop.failed THEN "idle" ELSE "start"
  /\ UNCHANGED <<proc, pidFile, stop, demo, starts, hidden>>

RestartStarts(p) ==
  /\ restart = "start"
  /\ restart' = "idle"
  /\ Launch(p)
  /\ UNCHANGED <<pidFile, stop, demo, hidden>>

StopSteps == StopChecks \/ StopSignals \/ StopPolls \/ StopRemoves

LifeNext ==
  \/ \E p \in Pids :
       \/ StartServer(p) \/ StartFails(p) \/ Bind(p) \/ CreatePidFile(p)
       \/ WritePidFile(p) \/ WritePidFileFails(p) \/ RunDemo(p) \/ Crash(p)
       \/ Reuse(p) \/ BystanderEnds(p) \/ Dies(p) \/ RestartStarts(p)
  \/ RunStop \/ StopSteps
  \/ RestartStops \/ RestartGoesOn

\* The command itself runs on; nothing is asked of the process it waits for.
LifeFairness == WF_lifeVars(StopSteps)

LifeSpec == LifeInit /\ [][LifeNext]_lifeVars /\ LifeFairness
-----------------------------------------------------------------------------
(* Properties.                                                             *)

\* Every variable holds a value of its type, and two servers never share the port.
LifeTypeOK ==
  /\ proc \in [Pids -> {"none"} \cup Servers \cup Bystanders]
  /\ \A p, q \in Pids : {proc[p], proc[q]} \subseteq PortHolders => p = q
  /\ pidFile \in Pids \cup {NoFile, NoNumber}
  /\ stop.pc \in {"idle", "check", "signal", "wait", "remove"}
  /\ stop.pid \in Pids \cup {NoFile} /\ stop.polls \in 0 .. MaxPolls
  /\ restart \in {"idle", "stop", "start"}
  /\ demo \in [Pids -> {"off", "due", "done", "failed"}]
  /\ starts \in 0 .. MaxStarts /\ hidden \subseteq Pids

\* A server that serves is the one the PID file names ("so `isartor stop` can
\* find us", main.rs:439), whatever other starts fail, numbers are reused and
\* processes crash around it.  The exceptions are a file that could not be
\* written and one that a stop for an earlier server removes.
ServerFindable ==
  \A p \in Pids : proc[p] = "serving" => pidFile = p \/ p \in hidden

\* A stop ends although the process it signalled does not (stop.rs:142).
StopReturns == stop.pc # "idle" ~> stop.pc = "idle"
=============================================================================
