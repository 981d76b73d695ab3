--------------------------- MODULE BouncerWatchdog ---------------------------
(***************************************************************************)
(* The watchdog of the CrowdSec bouncer plugin                             *)
(* (roles/traefik/files/drayve-bouncer-watchdog.sh): a systemd timer       *)
(* probes Traefik; a failure that outlasts a threshold makes the script    *)
(* restart the container.  Between its commands deploy runs recreate the   *)
(* same container, Traefik hangs or crashes, and the script may be killed  *)
(* (its unit Requires docker.service).                                     *)
(*                                                                         *)
(* Time is discrete.  Only ages matter, and none matters beyond Threshold, *)
(* so every age stops there.                                               *)
(***************************************************************************)
EXTENDS Naturals

CONSTANTS
  Threshold,  \* THRESHOLD: failure length that triggers a restart
  Interval,   \* bouncer_watchdog_interval_seconds: timer period
  MaxKills,   \* bound: how often the script is killed
  MaxDeploys  \* bound: how often a deploy run recreates Traefik

ASSUME WatchdogAssumption ==
  /\ Threshold \in Nat \ {0} /\ Interval \in 0 .. Threshold
  /\ MaxKills \in Nat /\ MaxDeploys \in Nat

VARIABLES
  status,     \* Docker's state of the container
  defect,     \* "none", "hang" (cured by a restart), "nonet" (by a recreate)
  upAge,      \* time since the container was last started
  mark,       \* does FAIL_FILE exist?
  markAge,    \* time since the instant written to FAIL_FILE
  wd,         \* next command of the script, "idle" between ticks
  seen,       \* the state `docker inspect` reported
  tickAge,    \* time since the timer fired
  sinceRestart, sinceHealthy,  \* history: last restart, last healthy probe
  deploying, kills, deploys

traefik == <<status, defect, upAge>>
marker  == <<mark, markAge>>
past    == <<sinceRestart, sinceHealthy>>
budget  == <<kills, deploys>>
vars == <<traefik, marker, wd, seen, tickAge, past, deploying, budget>>

Age == 0 .. Threshold
Older(a) == IF a < Threshold THEN a + 1 ELSE a

Healthy == status = "running" /\ defect = "none"

-----------------------------------------------------------------------------
(* Traefik, Docker and deploy runs                                         *)

TimePasses ==
  /\ upAge' = Older(upAge) /\ markAge' = Older(markAge) /\ tickAge' = Older(tickAge)
  /\ sinceRestart' = Older(sinceRestart) /\ sinceHealthy' = Older(sinceHealthy)
  /\ UNCHANGED <<status, defect, mark, wd, seen, deploying, budget>>

\* The plugin stops answering (hold mode, or fail-closed).
Hang ==
  /\ Healthy
  /\ defect' = "hang"
  /\ UNCHANGED <<status, upAge, marker, wd, seen, tickAge, past, deploying, budget>>

\* The process dies; the restart policy brings it back.
Crash ==
  /\ status = "running"
  /\ status' = "restarting"
  /\ UNCHANGED <<defect, upAge, marker, wd, seen, tickAge, past, deploying, budget>>

\* A started container has the process anew; a missing network stays missing.
Started ==
  /\ status' = "running"
  /\ upAge' = 0
  /\ defect' = IF defect = "hang" THEN "none" ELSE defect

PolicyRestart ==
  /\ status = "restarting" /\ wd # "starting"
  /\ Started
  /\ UNCHANGED <<marker, wd, seen, tickAge, past, deploying, budget>>

\* docker compose up -d --force-recreate traefik: a new container is created,
DeployCreates ==
  /\ ~deploying /\ deploys < MaxDeploys
  /\ deploying' = TRUE
  /\ deploys' = deploys + 1
  /\ status' = "created" /\ defect' = "none"
  /\ UNCHANGED <<upAge, marker, wd, seen, tickAge, past, kills>>

\* and started.
DeployStarts ==
  /\ deploying
  /\ deploying' = FALSE
  /\ Started
  /\ UNCHANGED <<marker, wd, seen, tickAge, past, budget>>

-----------------------------------------------------------------------------
(* The script                                                              *)

Goto(w) == wd' = w /\ UNCHANGED <<tickAge, deploying, budget>>

\* OnUnitActiveSec; systemd never runs the service twice at a time.
Tick ==
  /\ wd = "idle" /\ tickAge >= Interval
  /\ wd' = "probe" /\ tickAge' = 0
  /\ UNCHANGED <<traefik, marker, seen, past, deploying, budget>>

ProbeSucceeds ==
  /\ wd = "probe" /\ Healthy
  /\ sinceHealthy' = 0
  /\ Goto(IF mark THEN "recover" ELSE "idle")
  /\ UNCHANGED <<traefik, marker, seen, sinceRestart>>

\* curl can fail for other reasons than a defect of Traefik.
ProbeFails ==
  /\ wd = "probe"
  /\ Goto("judge")
  /\ UNCHANGED <<traefik, marker, seen, past>>

\* Mutant: the marker is written on every failure.
SetMarkerAlways ==
  /\ wd = "judge"
  /\ mark' = TRUE /\ markAge' = 0
  /\ Goto("idle")
  /\ UNCHANGED <<traefik, seen, past>>

\* "first fail": the marker gets the current time.
SetMarker ==
  /\ wd = "judge" /\ ~mark
  /\ mark' = TRUE /\ markAge' = 0
  /\ Goto("idle")
  /\ UNCHANGED <<traefik, seen, past>>

\* Mutant: elapsed > 0 instead of elapsed >= THRESHOLD.
OverdueEarly == markAge > 0

\* elapsed >= THRESHOLD
Overdue == markAge >= Threshold

Judge ==
  /\ wd = "judge" /\ mark
  /\ Goto(IF Overdue THEN "inspect" ELSE "idle")
  /\ UNCHANGED <<traefik, marker, seen, past>>

\* Mutant: without the guard of version 0.9.2.
NeverWarm == FALSE

\* traefik_in_warmup
Warm == \/ status \in {"created", "restarting"}
        \/ status = "running" /\ upAge < Threshold

Inspect ==
  /\ wd = "inspect"
  /\ seen' = status
  /\ Goto(IF Warm THEN "drop" ELSE "restart")
  /\ UNCHANGED <<traefik, marker, past>>

\* rm -f FAIL_FILE: after a success, in warm-up, after a restart.
DropMarker ==
  /\ wd \in {"recover", "drop", "clear"}
  /\ mark' = FALSE
  /\ Goto("idle")
  /\ UNCHANGED <<markAge, traefik, seen, past>>

\* docker compose restart traefik: stop,
RestartBegins ==
  /\ wd = "restart" /\ status # "none"
  /\ sinceRestart' = 0
  /\ defect' = IF deploying THEN "nonet" ELSE defect
  /\ status' = "exited"
  /\ Goto("starting")
  /\ UNCHANGED <<upAge, marker, seen, sinceHealthy>>

\* and start.
RestartEnds ==
  /\ wd = "starting"
  /\ Started
  /\ Goto("clear")
  /\ UNCHANGED <<marker, seen, past>>

\* Mutant: a failed restart ends the script.
RestartFailsAborts ==
  /\ wd = "restart"
  /\ Goto("idle")
  /\ UNCHANGED <<traefik, marker, seen, past>>

\* "traefik restart FAILED": nothing changes, the marker is removed anyway.
RestartFails ==
  /\ wd = "restart"
  /\ Goto("clear")
  /\ UNCHANGED <<traefik, marker, seen, past>>

\* The script dies with docker.service, or with the unit.
Kill ==
  /\ wd # "idle" /\ kills < MaxKills
  /\ kills' = kills + 1
  /\ wd' = "idle"
  /\ UNCHANGED <<traefik, marker, seen, tickAge, past, deploying, deploys>>

\* Killed between creating the marker and writing the time: $(( now - "" ))
\* counts from the epoch, so an empty marker is as old as one can be.
KillTearsMarker ==
  /\ wd = "judge" /\ ~mark /\ kills < MaxKills
  /\ kills' = kills + 1
  /\ wd' = "idle"
  /\ mark' = TRUE /\ markAge' = Threshold
  /\ UNCHANGED <<traefik, seen, tickAge, past, deploying, deploys>>

-----------------------------------------------------------------------------
\* The timer starts before the stack exists (the traefik role runs before the
\* deploy role), or long after.
Init ==
  /\ status \in {"none", "running"} /\ defect = "none" /\ upAge = Threshold
  /\ mark = FALSE /\ markAge = 0
  /\ wd = "idle" /\ seen = "none" /\ tickAge = 0
  /\ sinceRestart = Threshold /\ sinceHealthy = Threshold
  /\ deploying = FALSE /\ kills = 0 /\ deploys = 0

Restart == RestartBegins \/ RestartEnds \/ RestartFails
Script ==
  \/ Tick \/ ProbeSucceeds \/ ProbeFails \/ SetMarker \/ Judge \/ Inspect
  \/ DropMarker \/ Restart
Host == \/ TimePasses \/ Hang \/ Crash \/ PolicyRestart
        \/ DeployCreates \/ DeployStarts

Next == Script \/ Host \/ Kill \/ KillTearsMarker

Spec == Init /\ [][Next]_vars

\* The timer fires and the script runs; Docker restarts what it should; a
\* restart that is tried again and again succeeds once.
Fairness ==
  /\ WF_vars(TimePasses) /\ WF_vars(Script)
  /\ WF_vars(PolicyRestart) /\ WF_vars(DeployStarts)
  /\ SF_vars(RestartBegins) /\ WF_vars(RestartEnds)

FairSpec == Spec /\ Fairness

-----------------------------------------------------------------------------
(* Properties                                                              *)

TypeOK ==
  /\ status \in {"none", "created", "running", "restarting", "exited"}
  /\ defect \in {"none", "hang", "nonet"}
  /\ upAge \in Age /\ markAge \in Age /\ tickAge \in Age
  /\ sinceRestart \in Age /\ sinceHealthy \in Age
  /\ mark \in BOOLEAN /\ deploying \in BOOLEAN
  /\ wd \in {"idle", "probe", "recover", "judge", "inspect", "drop",
             "restart", "starting", "clear"}
  /\ seen \in {"none", "created", "running", "restarting", "exited"}
  /\ kills \in 0 .. MaxKills /\ deploys \in 0 .. MaxDeploys

\* A Traefik that inspect saw running is not restarted within Threshold of
\* the previous restart, even if the script was killed before it removed its
\* marker ("one restart per failure episode, not per tick").
RestartsAreSpaced ==
  [][RestartBegins /\ seen = "running" => sinceRestart >= Threshold]_vars

\* Without kills, a restart is preceded by Threshold without any healthy
\* probe: no stale marker turns a short failure into a restart.
RestartNeedsLongFailure ==
  [][RestartBegins /\ kills = 0 => sinceHealthy >= Threshold]_vars

\* A hanging Traefik does not hang forever: lost markers, warm-up resets,
\* failed restarts and kills only delay the restart.
HangIsHealed == defect = "hang" ~> defect # "hang"

\* Nor does the marker outlive the failure it stands for.
MarkerGoes == mark ~> ~mark

=============================================================================
