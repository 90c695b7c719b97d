------------------------ MODULE MCConcurrencyLimiter ------------------------
(***************************************************************************)
(* Instances of ConcurrencyLimiter for TLC.  The window is ten samples     *)
(* long, the shortest that moves the limit, and its contents are what      *)
(* makes the state space large: two calls meet all of them, three calls    *)
(* meet a load that rises once and falls once.                             *)
(***************************************************************************)
EXTENDS ConcurrencyLimiter, TLC

CONSTANTS c1, c2, c3

VARIABLE scenario

Newest(w) == w[Len(w)]

\* Once a call has been fast, the calls after it are.
LoadFalls ==
  window' # window /\ window # <<>> =>
    (Newest(window) <= TargetLatency => Newest(window') <= TargetLatency)

ScenarioInit == Init /\ scenario \in {"pair", "crowd"}

ScenarioNext ==
  /\ PatientNext
  /\ scenario = "pair"  => phase'[c3] = phase[c3]
  /\ scenario = "crowd" => LoadFalls
  /\ UNCHANGED scenario

ScenarioSpec == ScenarioInit /\ [][ScenarioNext]_<<limiterVars, scenario>>
=============================================================================
