------------------------ MODULE BouncerWatchdogProofs ------------------------
(***************************************************************************)
(* What is proved about the watchdog for every threshold and interval, and *)
(* any number of kills and deploy runs.  Three relations between ages make *)
(* the action properties inductive:                                        *)
(*  - a running container was started after the last restart began;        *)
(*  - a verdict of inspect stays good while the script acts on it;         *)
(*  - the marker is never older than the last healthy probe, except        *)
(*    between that probe and the rm that follows it.                       *)
(***************************************************************************)
EXTENDS BouncerWatchdog, TLAPS

StartedSinceRestart == status = "running" => upAge <= sinceRestart

VerdictHolds ==
  wd = "restart" /\ seen = "running" => sinceRestart >= Threshold

MarkerIsHonest ==
  kills = 0 =>
    /\ mark /\ wd # "recover" => markAge <= sinceHealthy
    /\ wd \in {"inspect", "restart"} => sinceHealthy >= Threshold

Inv == TypeOK /\ StartedSinceRestart /\ VerdictHolds /\ MarkerIsHonest

USE WatchdogAssumption

LEMMA AgeBounds == 0 \in Age /\ Threshold \in Age
  BY DEF Age

\* Ages only grow up to Threshold.
LEMMA OlderAge ==
  \A a \in Age : /\ Older(a) \in Age /\ a <= Older(a)
                 /\ \A b \in Age : a <= b => Older(a) <= Older(b)
  BY DEF Age, Older

\* Every step keeps the type invariant.
LEMMA TypeStep == ASSUME TypeOK, [Next]_vars PROVE TypeOK'
<1> USE DEF TypeOK, Goto, traefik, marker, past, budget
<1>1. CASE TimePasses
  BY <1>1, OlderAge DEF TimePasses
<1>2. CASE Hang \/ Crash
  BY <1>2 DEF Hang, Crash
<1>9. CASE PolicyRestart \/ DeployStarts
  BY <1>9, AgeBounds DEF PolicyRestart, DeployStarts, Started
<1>3. CASE DeployCreates
  BY <1>3 DEF DeployCreates
<1>4. CASE Tick \/ ProbeSucceeds \/ ProbeFails
  BY <1>4, AgeBounds DEF Tick, ProbeSucceeds, ProbeFails
<1>5. CASE SetMarker \/ Judge \/ Inspect \/ DropMarker
  <2>1. wd' \in {"idle", "inspect", "drop", "restart"}
    BY <1>5 DEF SetMarker, Judge, Inspect, DropMarker
  <2> QED BY <2>1, <1>5, AgeBounds DEF SetMarker, Judge, Inspect, DropMarker
<1>6. CASE Restart
  BY <1>6, AgeBounds DEF Restart, RestartBegins, RestartEnds, RestartFails, Started
<1>7. CASE Kill \/ KillTearsMarker
  <2>1. kills' \in 0 .. MaxKills
    BY <1>7 DEF Kill, KillTearsMarker
  <2> QED BY <2>1, <1>7, AgeBounds DEF Kill, KillTearsMarker
<1>8. CASE UNCHANGED vars
  BY <1>8 DEF vars
<1> QED BY <1>1, <1>2, <1>3, <1>4, <1>5, <1>6, <1>7, <1>8, <1>9 DEF Next, Script, Host

\* Starting a container sets its age to zero, and a restart that begins stops
\* it: the age of a running one never passes the time since that restart.
LEMMA StartedStep ==
  ASSUME TypeOK, StartedSinceRestart, [Next]_vars PROVE StartedSinceRestart'
<1> USE DEF TypeOK, StartedSinceRestart, Goto, traefik, marker, past, budget
<1>1. CASE TimePasses
  BY <1>1, OlderAge DEF TimePasses
<1>2. CASE Hang \/ Crash \/ DeployCreates
  BY <1>2 DEF Hang, Crash, DeployCreates
<1>3. CASE PolicyRestart \/ DeployStarts \/ RestartEnds
  BY <1>3 DEF PolicyRestart, DeployStarts, RestartEnds, Started, Age
<1>4. CASE RestartBegins
  BY <1>4 DEF RestartBegins
<1>5. CASE \/ Tick \/ ProbeSucceeds \/ ProbeFails \/ SetMarker \/ Judge
           \/ Inspect \/ DropMarker \/ RestartFails \/ Kill \/ KillTearsMarker
  BY <1>5 DEF Tick, ProbeSucceeds, ProbeFails, SetMarker, Judge, Inspect,
              DropMarker, RestartFails, Kill, KillTearsMarker
<1>6. CASE UNCHANGED vars
  BY <1>6 DEF vars
<1> QED BY <1>1, <1>2, <1>3, <1>4, <1>5, <1>6 DEF Next, Script, Host, Restart

\* Only Inspect leads to "restart": there a container that runs outside its
\* warm-up is at least Threshold old, so the last restart is too.
LEMMA VerdictStep ==
  ASSUME TypeOK, StartedSinceRestart, VerdictHolds, [Next]_vars
  PROVE  VerdictHolds'
<1> USE DEF TypeOK, VerdictHolds, Goto, traefik, marker, past, budget
<1>1. CASE TimePasses
  <2>1. sinceRestart' \in Age /\ sinceRestart <= sinceRestart'
    BY <1>1, OlderAge DEF TimePasses
  <2>2. UNCHANGED <<wd, seen>>
    BY <1>1 DEF TimePasses
  <2> QED BY <2>1, <2>2 DEF Age
<1>2. CASE Inspect
  <2>1. wd' = "restart" => ~Warm
    BY <1>2 DEF Inspect
  <2>2. seen' = status /\ sinceRestart' = sinceRestart
    BY <1>2 DEF Inspect
  <2>3. status = "running" /\ ~Warm => sinceRestart >= Threshold
    BY DEF Warm, StartedSinceRestart, Age
  <2> QED BY <2>1, <2>2, <2>3
<1>3. CASE Hang \/ Crash \/ PolicyRestart \/ DeployCreates \/ DeployStarts
  BY <1>3 DEF Hang, Crash, PolicyRestart, DeployCreates, DeployStarts
<1>4. CASE \/ Tick \/ ProbeSucceeds \/ ProbeFails \/ SetMarker \/ Judge
           \/ DropMarker \/ Restart \/ Kill \/ KillTearsMarker
  <2>1. wd' # "restart"
    BY <1>4 DEF Tick, ProbeSucceeds, ProbeFails, SetMarker, Judge, DropMarker,
                Restart, RestartBegins, RestartEnds, RestartFails, Kill,
                KillTearsMarker
  <2> QED BY <2>1
<1>5. CASE UNCHANGED vars
  BY <1>5 DEF vars
<1> QED BY <1>1, <1>2, <1>3, <1>4, <1>5 DEF Next, Script, Host

\* As long as nobody kills the script, a marker is set at or after the last
\* healthy probe, or the script is about to remove it.
LEMMA HonestStep ==
  ASSUME TypeOK, MarkerIsHonest, [Next]_vars PROVE MarkerIsHonest'
<1> USE DEF TypeOK, MarkerIsHonest, Goto, traefik, marker, past, budget
<1>1. CASE TimePasses
  <2>1. /\ sinceHealthy' \in Age /\ sinceHealthy <= sinceHealthy'
        /\ markAge <= sinceHealthy => markAge' <= sinceHealthy'
    BY <1>1, OlderAge DEF TimePasses
  <2>2. UNCHANGED <<wd, mark, kills>>
    BY <1>1 DEF TimePasses, budget
  <2> QED BY <2>1, <2>2 DEF Age
<1>2. CASE Hang \/ Crash \/ PolicyRestart \/ DeployCreates \/ DeployStarts
  BY <1>2 DEF Hang, Crash, PolicyRestart, DeployCreates, DeployStarts
<1>3. CASE Tick \/ ProbeSucceeds \/ ProbeFails
  BY <1>3 DEF Tick, ProbeSucceeds, ProbeFails
<1>4. CASE SetMarker
  BY <1>4 DEF SetMarker, Age
<1>5. CASE Judge
  BY <1>5 DEF Judge, Overdue, Age
<1>6. CASE Inspect
  BY <1>6 DEF Inspect
<1>7. CASE DropMarker
  BY <1>7 DEF DropMarker
<1>8. CASE Restart
  BY <1>8 DEF Restart, RestartBegins, RestartEnds, RestartFails
<1>9. CASE Kill \/ KillTearsMarker
  BY <1>9 DEF Kill, KillTearsMarker
<1>10. CASE UNCHANGED vars
  BY <1>10 DEF vars
<1> QED BY <1>1, <1>2, <1>3, <1>4, <1>5, <1>6, <1>7, <1>8, <1>9, <1>10
        DEF Next, Script, Host

\* The invariant holds initially and is kept by every step.
LEMMA InvAlways == Spec => []Inv
<1>1. Init => Inv
  <2> SUFFICES ASSUME Init PROVE Inv
    OBVIOUS
  <2>1. TypeOK
    <3>1. kills \in 0 .. MaxKills /\ deploys \in 0 .. MaxDeploys
      BY DEF Init
    <3>2. status \in {"none", "created", "running", "restarting", "exited"}
      BY DEF Init
    <3> QED BY <3>1, <3>2, AgeBounds DEF Init, TypeOK
  <2>2. StartedSinceRestart /\ VerdictHolds /\ MarkerIsHonest
    BY DEF Init, StartedSinceRestart, VerdictHolds, MarkerIsHonest
  <2> QED BY <2>1, <2>2 DEF Inv
<1>2. Inv /\ [Next]_vars => Inv'
  BY TypeStep, StartedStep, VerdictStep, HonestStep DEF Inv
<1> QED BY <1>1, <1>2, PTL DEF Spec

\* The variables of the watchdog always have the values their comments name.
THEOREM TypeCorrect == Spec => []TypeOK
  BY InvAlways, PTL DEF Inv

\* However often the script is killed and deploy runs recreate Traefik, a
\* Traefik seen running is not restarted twice within Threshold.
THEOREM RestartsSpaced == Spec => RestartsAreSpaced
<1>1. Inv /\ [Next]_vars
        => [RestartBegins /\ seen = "running" => sinceRestart >= Threshold]_vars
  BY DEF Inv, VerdictHolds, RestartBegins
<1> QED BY <1>1, InvAlways, PTL DEF Spec, RestartsAreSpaced

\* Without kills, every restart answers a failure of at least Threshold.
THEOREM RestartsJustified == Spec => RestartNeedsLongFailure
<1>1. Inv /\ [Next]_vars
        => [RestartBegins /\ kills = 0 => sinceHealthy >= Threshold]_vars
  BY DEF Inv, MarkerIsHonest, RestartBegins
<1> QED BY <1>1, InvAlways, PTL DEF Spec, RestartNeedsLongFailure

=============================================================================
