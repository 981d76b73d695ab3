----------------------------- MODULE HostUpdate -----------------------------
(***************************************************************************)
(* playbooks/host-update.yml: upgrade and reboot one host after another.   *)
(*                                                                         *)
(* On each host the play holds the docker packages, so that apt does not   *)
(* restart the docker daemon under running containers, upgrades, reboots,  *)
(* releases the packages, starts the containers that did not come back,    *)
(* and judges the result.  Meanwhile containers exit, and the nightly      *)
(* unattended-upgrades of roles/host-base-update installs what is not      *)
(* held.  A task may fail anywhere; nothing undoes what was done before.   *)
(***************************************************************************)
EXTENDS Naturals

CONSTANTS
  Hosts,
  Ubuntu,        \* the hosts that run Ubuntu
  Installed,     \* docker packages on each host
  Containers,    \* containers on each host
  Policy,        \* restart policy of each container
  RebootIfRequired, DomainsRequired,
  MaxRuns,       \* bound: runs of the play
  MaxFaults,     \* bound: tasks that fail for an outside reason
  None

OfficialPackages == {"docker-ce", "docker-ce-cli", "containerd.io",
                     "docker-compose-plugin"}
DistroPackages == {"docker.io", "containerd", "docker-compose-v2"}
hu_docker_packages == OfficialPackages \cup DistroPackages

Policies == {"no", "on-failure", "always", "unless-stopped"}
Running == "running"
Absent == "absent"
\* status=created, status=exited with exit code 0 and with another one
States == {Running, "created", "done", "error", Absent}

ASSUME HostUpdateAssumption ==
  /\ Ubuntu \subseteq Hosts /\ None \notin Hosts
  /\ Installed \in [Hosts -> SUBSET hu_docker_packages]
  /\ Policy \in [Containers -> Policies]
  /\ RebootIfRequired \in BOOLEAN /\ DomainsRequired \in BOOLEAN
  /\ MaxRuns \in Nat /\ MaxFaults \in Nat

VARIABLES
  held,         \* packages on hold, per host
  container,    \* state of each container, per host
  verdict,      \* what the run reports of each host
  host,         \* the host in progress
  at,           \* its next task
  loop,         \* packages or containers a loop has not reached yet
  broken,       \* did an item of the loop fail?
  needsReboot,  \* /var/run/reboot-required
  stopped,      \* containers that stopped since the candidates were listed
  runs, faults

progress == <<host, at, loop, broken, needsReboot>>
bounds == <<runs, faults>>
vars == <<held, container, verdict, progress, stopped, bounds>>

Tasks == {"hold", "upgrade", "reboot", "unhold", "find", "recover", "judge"}
Verdicts == {"todo", "skipped", "ok", "failed"}

\* Mistake: only the packages of docker's own repository are known.
PresentOfficial(h) == Installed[h] \cap OfficialPackages

\* hu_docker_packages_present; empty on a host without docker.
Present(h) == Installed[h] \cap hu_docker_packages

\* At boot docker starts what ran before, unless it is caught half stopped.
AfterRestart(c, s) ==
  IF s # Running THEN {s}
  ELSE IF Policy[c] = "no" THEN {"done", "error"}
  ELSE {Running, "done", "error"}

DaemonRestarts(h) ==
  /\ \E new \in [Containers -> States] :
       /\ \A c \in Containers : new[c] \in AfterRestart(c, container[h][c])
       /\ container' = [container EXCEPT ![h] = new]
  /\ stopped' = IF h = host /\ at \in {"recover", "judge"}
                THEN stopped \cup {c \in Containers :
                       container[h][c] # container'[h][c]}
                ELSE stopped

-----------------------------------------------------------------------------
(* What happens on the hosts besides the play                              *)

\* always and unless-stopped come back at once.
Exits(h, c) ==
  /\ container[h][c] = Running /\ Policy[c] \in {"no", "on-failure"}
  /\ \E s \in {"done", "error"} :
       container' = [container EXCEPT ![h][c] = s]
  /\ stopped' = IF h = host /\ at \in {"recover", "judge"}
                THEN stopped \cup {c} ELSE stopped
  /\ UNCHANGED <<held, verdict, progress, bounds>>

\* unattended-upgrades installs a docker package that is not on hold.
Nightly(h) ==
  /\ Installed[h] \ held[h] # {}
  /\ DaemonRestarts(h)
  /\ UNCHANGED <<held, verdict, progress, bounds>>

-----------------------------------------------------------------------------
(* The play                                                                *)

StartRun ==
  /\ at = "idle" /\ runs < MaxRuns
  /\ verdict' = [h \in Hosts |-> "todo"]
  /\ at' = "next" /\ runs' = runs + 1
  /\ UNCHANGED <<held, container, host, loop, broken, needsReboot, stopped,
                 faults>>

SkipHost(h) ==
  /\ at = "next" /\ verdict[h] = "todo" /\ h \notin Ubuntu
  /\ verdict' = [verdict EXCEPT ![h] = "skipped"]
  /\ UNCHANGED <<held, container, progress, stopped, bounds>>

\* serial: 1
NextHost(h) ==
  /\ at = "next" /\ verdict[h] = "todo" /\ h \in Ubuntu
  /\ host' = h /\ at' = "hold"
  /\ loop' = Present(h)
  /\ UNCHANGED <<held, container, verdict, broken, needsReboot, stopped,
                 bounds>>

EndRun ==
  /\ at = "next" /\ \A h \in Hosts : verdict[h] # "todo"
  /\ at' = "idle"
  /\ UNCHANGED <<held, container, verdict, host, loop, broken, needsReboot,
                 stopped, bounds>>

HoldPackage(p) ==
  /\ at = "hold" /\ p \in loop
  /\ held' = [held EXCEPT ![host] = @ \cup {p}]
  /\ loop' = loop \ {p}
  /\ UNCHANGED <<container, verdict, host, at, broken, needsReboot, stopped,
                 bounds>>

HoldsDone ==
  /\ at = "hold" /\ loop = {}
  /\ at' = "upgrade"
  /\ UNCHANGED <<held, container, verdict, host, loop, broken, needsReboot,
                 stopped, bounds>>

\* A docker package that is not on hold restarts the daemon as it goes.
Upgrade ==
  /\ at = "upgrade"
  /\ \/ UNCHANGED <<container, stopped>>
     \/ Installed[host] \ held[host] # {} /\ DaemonRestarts(host)
  /\ needsReboot' \in BOOLEAN
  /\ at' = "reboot"
  /\ UNCHANGED <<held, verdict, host, loop, broken, bounds>>

Reboot ==
  /\ at = "reboot"
  /\ IF RebootIfRequired /\ needsReboot THEN DaemonRestarts(host)
     ELSE UNCHANGED <<container, stopped>>
  /\ at' = "unhold"
  /\ loop' = Present(host)
  /\ needsReboot' = FALSE
  /\ UNCHANGED <<held, verdict, host, broken, bounds>>

UnholdPackage(p) ==
  /\ at = "unhold" /\ p \in loop
  /\ held' = [held EXCEPT ![host] = @ \ {p}]
  /\ loop' = loop \ {p}
  /\ UNCHANGED <<container, verdict, host, at, broken, needsReboot, stopped,
                 bounds>>

\* Mistake: the loop ends before the last package.
UnholdsEnd ==
  /\ at = "unhold"
  /\ at' = "find" /\ loop' = {}
  /\ UNCHANGED <<held, container, verdict, host, broken, needsReboot, stopped,
                 bounds>>

UnholdsDone ==
  /\ at = "unhold" /\ loop = {}
  /\ at' = "find"
  /\ UNCHANGED <<held, container, verdict, host, loop, broken, needsReboot,
                 stopped, bounds>>

\* Mistake: containers without an error are left out.
FailedOnly(c, s) == s = "error"

\* The containers that should run and do not.  One that was created and never
\* started has exit code 0.
NeedsRecovery(c, s) ==
  \/ Policy[c] \in {"always", "unless-stopped"} /\ s \notin {Running, Absent}
  \/ Policy[c] = "on-failure" /\ s = "error"

Candidates(h) == {c \in Containers : NeedsRecovery(c, container[h][c])}

Stopped(h) == {c \in Containers : container[h][c] \notin {Running, Absent}}

\* The pipeline ends as the test of the last container in the list does (the
\* list is in no order that the playbook knows): a job that is not to be
\* started again makes the task fail.
ListWorks(last) == Policy[last] = "on-failure" => last \in Candidates(host)

\* Mistake: the play goes on with the other hosts.
HostFailsAlone ==
  /\ verdict' = [verdict EXCEPT ![host] = "failed"]
  /\ host' = None /\ at' = "next"
  /\ loop' = {} /\ broken' = FALSE /\ needsReboot' = FALSE /\ stopped' = {}

\* All hosts of the batch failed: the play ends, the others are not reached.
HostFails ==
  /\ verdict' = [verdict EXCEPT ![host] = "failed"]
  /\ host' = None /\ at' = "idle"
  /\ loop' = {} /\ broken' = FALSE /\ needsReboot' = FALSE /\ stopped' = {}

FindCandidates ==
  /\ at = "find"
  /\ \/ /\ Stopped(host) = {} \/ \E last \in Stopped(host) : ListWorks(last)
        /\ loop' = Candidates(host) /\ at' = "recover"
        /\ UNCHANGED <<verdict, host, broken, needsReboot, stopped>>
     \/ (\E last \in Stopped(host) : ~ListWorks(last)) /\ HostFails
  /\ UNCHANGED <<held, container, bounds>>

StartContainer(c) ==
  /\ at = "recover" /\ c \in loop
  /\ container' = [container EXCEPT ![host][c] = Running]
  /\ stopped' = stopped \ {c}
  /\ loop' = loop \ {c}
  /\ UNCHANGED <<held, verdict, host, at, broken, needsReboot, bounds>>

\* A failing item does not end the loop.
StartContainerFails(c) ==
  /\ at = "recover" /\ c \in loop /\ faults < MaxFaults
  /\ loop' = loop \ {c} /\ broken' = TRUE
  /\ faults' = faults + 1
  /\ UNCHANGED <<held, container, verdict, host, at, needsReboot, stopped,
                 runs>>

RecoverDone ==
  /\ at = "recover" /\ loop = {}
  /\ IF broken THEN HostFails
     ELSE /\ at' = "judge"
          /\ UNCHANGED <<verdict, host, loop, broken, needsReboot, stopped>>
  /\ UNCHANGED <<held, container, bounds>>

Judge ==
  /\ at = "judge"
  /\ \E failedUnits, domainsDown \in BOOLEAN :
       IF failedUnits \/ (DomainsRequired /\ domainsDown) THEN HostFails
       ELSE /\ verdict' = [verdict EXCEPT ![host] = "ok"]
            /\ host' = None /\ at' = "next" /\ stopped' = {}
            /\ UNCHANGED <<loop, broken, needsReboot>>
  /\ UNCHANGED <<held, container, bounds>>

\* A task fails, the connection is lost, or the reboot takes too long.
TaskFails ==
  /\ at \in Tasks /\ faults < MaxFaults
  /\ HostFails
  /\ faults' = faults + 1
  /\ UNCHANGED <<held, container, runs>>

-----------------------------------------------------------------------------

\* Holds may be the operator's, or left by an earlier run that failed.
Init ==
  /\ held \in [Hosts -> SUBSET hu_docker_packages]
  /\ \A h \in Hosts : held[h] \subseteq Installed[h]
  /\ container \in [Hosts -> [Containers -> States]]
  /\ \A h \in Hosts, c \in Containers :
       container[h][c] = Absent <=> Installed[h] = {}
  /\ verdict = [h \in Hosts |-> "todo"]
  /\ host = None /\ at = "idle" /\ loop = {} /\ broken = FALSE
  /\ needsReboot = FALSE /\ stopped = {} /\ runs = 0 /\ faults = 0

Environment == \E h \in Hosts : Nightly(h) \/ \E c \in Containers : Exits(h, c)

HostSteps ==
  \/ \E p \in hu_docker_packages : HoldPackage(p) \/ UnholdPackage(p)
  \/ HoldsDone \/ Upgrade \/ Reboot \/ UnholdsDone \/ FindCandidates
  \/ \E c \in Containers : StartContainer(c) \/ StartContainerFails(c)
  \/ RecoverDone \/ Judge \/ TaskFails

Next ==
  \/ Environment
  \/ StartRun \/ EndRun \/ \E h \in Hosts : SkipHost(h) \/ NextHost(h)
  \/ HostSteps

Spec == Init /\ [][Next]_vars

-----------------------------------------------------------------------------
(* Properties                                                              *)

\* The variables have their types, and a host is in progress exactly while
\* its tasks are.
TypeOK ==
  /\ held \in [Hosts -> SUBSET hu_docker_packages]
  /\ container \in [Hosts -> [Containers -> States]]
  /\ verdict \in [Hosts -> Verdicts]
  /\ host \in Hosts \cup {None}
  /\ at \in Tasks \cup {"idle", "next"}
  /\ at \in Tasks <=> host # None
  /\ loop \subseteq hu_docker_packages \cup Containers
  /\ broken \in BOOLEAN /\ needsReboot \in BOOLEAN
  /\ stopped \subseteq Containers
  /\ runs \in 0 .. MaxRuns /\ faults \in 0 .. MaxFaults

\* host-update.yml:28-30: the upgrade of the packages never stops a container,
\* whichever packaging scheme the host uses; only the reboot does.
UpgradeSparesContainers ==
  [][at = "upgrade" /\ at' = "reboot" => UNCHANGED container]_vars

\* host-update.yml:196-198: a host reported as updated has no docker package on
\* hold, so nightly patches reach it, whatever earlier failed runs left behind.
HoldsReleased == \A h \in Hosts : verdict[h] = "ok" => held[h] = {}

\* Containers that docker's restart policies want running, and that are not.
Down(h) ==
  {c \in Containers :
     \/ Policy[c] \in {"always", "unless-stopped"}
        /\ container[h][c] \in States \ {Running, Absent}
     \/ Policy[c] = "on-failure" /\ container[h][c] = "error"}

\* host-update.yml:207-213: a host is reported as updated only when every
\* container that has to run was started, or stopped again after the list of
\* the candidates was made.
RecoveryComplete ==
  [][\A h \in Hosts :
       verdict[h] = "todo" /\ verdict'[h] = "ok" => Down(h) \subseteq stopped]_vars

\* host-update.yml:215-221: a job that ended with exit code 0 is never run again.
FinishedJobsStay ==
  [][\A h \in Hosts, c \in Containers :
       Policy[c] = "on-failure" /\ container[h][c] = "done"
       => container'[h][c] = "done"]_vars

\* Exactly the containers that have to run are started: none is left out, and
\* no job is started from a stale list.
RecoveryIsExact == RecoveryComplete /\ FinishedJobsStay

\* The host in progress, and the one a run has stopped at.
AtRisk == {h \in Hosts : h = host \/ verdict[h] = "failed"}

\* host-update.yml:38: a bad update hits one host: hosts are taken one by one,
\* and after a failure the run goes no further.
OneHostAtRisk == \A g, h \in AtRisk : g = h

=============================================================================
