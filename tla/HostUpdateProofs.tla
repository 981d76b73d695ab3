-------------------------- MODULE HostUpdateProofs --------------------------
(***************************************************************************)
(* What is proved about the rolling update for every set of hosts, every   *)
(* choice of docker packages and containers, and any number of runs and    *)
(* failing tasks.  The invariants relate what a task has reached so far    *)
(* with what its loop still has to do.                                     *)
(***************************************************************************)
EXTENDS HostUpdate, TLAPS

USE HostUpdateAssumption

HeldInstalled == \A h \in Hosts : held[h] \subseteq Installed[h]

\* Packages on hold at each task of the play.
HoldProgress ==
  /\ at = "hold" => /\ Installed[host] \subseteq held[host] \cup loop
                    /\ loop \subseteq Installed[host]
  /\ at = "upgrade" => Installed[host] \subseteq held[host]
  /\ at = "unhold" => held[host] \subseteq loop
  /\ at \in {"find", "recover", "judge"} => held[host] = {}

\* Containers that are still to be started.
RecoverProgress ==
  /\ at = "recover" /\ ~broken => Candidates(host) \subseteq stopped \cup loop
  /\ at = "judge" => Candidates(host) \subseteq stopped

\* What the run has reported so far.
VerdictProgress ==
  /\ at \in Tasks => verdict[host] = "todo"
  /\ at # "idle" => \A h \in Hosts : verdict[h] # "failed"

LEMMA PresentInstalled == \A h \in Hosts : Present(h) = Installed[h]
  BY DEF Present

LEMMA RestartTypes ==
  ASSUME NEW h \in Hosts, TypeOK, DaemonRestarts(h)
  PROVE  /\ container' \in [Hosts -> [Containers -> States]]
         /\ \A g \in Hosts : g # h => container'[g] = container[g]
         /\ \A c \in Containers :
              container'[h][c] \in AfterRestart(c, container[h][c])
         /\ stopped' \subseteq Containers
  BY DEF DaemonRestarts, TypeOK

\* Every step keeps the type invariant.
LEMMA TypeStep == ASSUME TypeOK, [Next]_vars PROVE TypeOK'
<1> USE DEF TypeOK, progress, bounds
<1>1. CASE \E h \in Hosts : Nightly(h)
  BY <1>1, RestartTypes DEF Nightly
<1>2. CASE \E h \in Hosts, c \in Containers : Exits(h, c)
  BY <1>2 DEF Exits, States, Running
<1>3. CASE StartRun \/ EndRun \/ \E h \in Hosts : SkipHost(h)
  BY <1>3 DEF StartRun, EndRun, SkipHost, Verdicts, Tasks
<1>4. CASE \E h \in Hosts : NextHost(h)
  BY <1>4 DEF NextHost, Tasks, Present
<1>5. CASE \E p \in hu_docker_packages : HoldPackage(p) \/ UnholdPackage(p)
  BY <1>5 DEF HoldPackage, UnholdPackage, Tasks
<1>6. CASE HoldsDone \/ UnholdsDone
  BY <1>6 DEF HoldsDone, UnholdsDone, Tasks
<1>7. CASE Upgrade
  BY <1>7, RestartTypes DEF Upgrade, Tasks
<1>8. CASE Reboot
  BY <1>8, RestartTypes DEF Reboot, Tasks, Present
<1>9. CASE FindCandidates
  BY <1>9 DEF FindCandidates, HostFails, Tasks, Verdicts, Candidates
<1>10. CASE \E c \in Containers : StartContainer(c) \/ StartContainerFails(c)
  <2>1. CASE \E c \in Containers : StartContainer(c)
    BY <2>1 DEF StartContainer, States, Running
  <2>2. CASE \E c \in Containers : StartContainerFails(c)
    <3>1. faults' \in 0 .. MaxFaults
      BY <2>2 DEF StartContainerFails
    <3> QED BY <3>1, <2>2 DEF StartContainerFails
  <2> QED BY <1>10, <2>1, <2>2
<1>11. CASE RecoverDone \/ Judge
  BY <1>11 DEF RecoverDone, Judge, HostFails, Tasks, Verdicts
<1>12. CASE TaskFails
  <2>1. faults' \in 0 .. MaxFaults
    BY <1>12 DEF TaskFails
  <2> QED BY <2>1, <1>12 DEF TaskFails, HostFails, Tasks, Verdicts
<1>13. CASE UNCHANGED vars
  BY <1>13 DEF vars
<1> QED
  BY <1>1, <1>2, <1>3, <1>4, <1>5, <1>6, <1>7, <1>8, <1>9, <1>10, <1>11,
     <1>12, <1>13 DEF Next, HostSteps, Environment

\* The variables have their types, for every value of the constants.
THEOREM TypeCorrect == Spec => []TypeOK
<1>1. Init => TypeOK
  <2> SUFFICES ASSUME Init PROVE TypeOK
    OBVIOUS
  <2>1. runs \in 0 .. MaxRuns /\ faults \in 0 .. MaxFaults
    BY DEF Init
  <2>2. verdict \in [Hosts -> Verdicts]
    BY DEF Init, Verdicts
  <2>3. at \in Tasks <=> host # None
    BY DEF Init, Tasks
  <2> QED BY <2>1, <2>2, <2>3 DEF Init, TypeOK
<1>2. QED BY <1>1, TypeStep, PTL DEF Spec

-----------------------------------------------------------------------------

HoldInv == HeldInstalled /\ HoldProgress /\ VerdictProgress /\ HoldsReleased

\* Steps that leave the holds and the verdicts alone.
LEMMA HoldQuiet ==
  ASSUME TypeOK, HoldInv, UNCHANGED <<held, verdict, progress>>
  PROVE  HoldInv'
  BY DEF HoldInv, HeldInstalled, HoldProgress, VerdictProgress, HoldsReleased,
         progress

\* A host that fails keeps its holds and is not reported as updated.
LEMMA HoldFail ==
  ASSUME TypeOK, HoldInv, at \in Tasks, HostFails, UNCHANGED held
  PROVE  HoldInv'
  BY DEF TypeOK, HoldInv, HeldInstalled, HoldProgress, VerdictProgress,
         HoldsReleased, HostFails, Tasks

\* Every step keeps what is known about the holds.
LEMMA HoldStep == ASSUME TypeOK, HoldInv, [Next]_vars PROVE HoldInv'
<1> USE DEF TypeOK, HoldInv, HeldInstalled, HoldProgress, VerdictProgress,
            HoldsReleased
<1>1. CASE Environment
  BY <1>1, HoldQuiet DEF Environment, Nightly, Exits
<1>2. CASE StartRun \/ EndRun \/ \E h \in Hosts : SkipHost(h)
  <2>1. CASE StartRun
    BY <2>1 DEF StartRun, Tasks
  <2>2. CASE EndRun
    BY <2>2 DEF EndRun, Tasks
  <2>3. CASE \E h \in Hosts : SkipHost(h)
    BY <2>3 DEF SkipHost, Tasks, progress
  <2> QED BY <1>2, <2>1, <2>2, <2>3
<1>3. CASE \E h \in Hosts : NextHost(h)
  BY <1>3, PresentInstalled DEF NextHost, Tasks
<1>4. CASE \E p \in hu_docker_packages : HoldPackage(p)
  <2> PICK p \in hu_docker_packages : HoldPackage(p)
    BY <1>4
  <2>1. /\ at = "hold" /\ at' = "hold" /\ host' = host /\ host \in Hosts
        /\ verdict' = verdict
    BY DEF HoldPackage, Tasks
  <2>2. p \in Installed[host]
    BY DEF HoldPackage
  <2> QED BY <2>1, <2>2 DEF HoldPackage, Tasks
<1>5. CASE \E p \in hu_docker_packages : UnholdPackage(p)
  BY <1>5 DEF UnholdPackage, Tasks
<1>6. CASE HoldsDone \/ UnholdsDone
  BY <1>6 DEF HoldsDone, UnholdsDone, Tasks
<1>7. CASE Upgrade \/ Reboot
  BY <1>7, PresentInstalled DEF Upgrade, Reboot, Tasks
<1>8. CASE FindCandidates
  <2>1. CASE HostFails
    BY <1>8, <2>1, HoldFail DEF FindCandidates, Tasks
  <2>2. CASE at' = "recover" /\ UNCHANGED <<verdict, host>>
    BY <1>8, <2>2 DEF FindCandidates, Tasks
  <2> QED BY <1>8, <2>1, <2>2 DEF FindCandidates
<1>9. CASE \E c \in Containers : StartContainer(c) \/ StartContainerFails(c)
  BY <1>9 DEF StartContainer, StartContainerFails, Tasks
<1>10. CASE RecoverDone
  <2>1. CASE HostFails
    BY <1>10, <2>1, HoldFail DEF RecoverDone, Tasks
  <2>2. CASE at' = "judge" /\ UNCHANGED <<verdict, host>>
    BY <1>10, <2>2 DEF RecoverDone, Tasks
  <2> QED BY <1>10, <2>1, <2>2 DEF RecoverDone
<1>11. CASE Judge
  <2>1. CASE HostFails
    BY <1>11, <2>1, HoldFail DEF Judge, Tasks
  <2>2. CASE verdict' = [verdict EXCEPT ![host] = "ok"] /\ at' = "next"
    BY <1>11, <2>2 DEF Judge, Tasks
  <2> QED BY <1>11, <2>1, <2>2 DEF Judge
<1>12. CASE TaskFails
  BY <1>12, HoldFail DEF TaskFails
<1>13. CASE UNCHANGED vars
  BY <1>13, HoldQuiet DEF vars
<1> QED
  BY <1>1, <1>2, <1>3, <1>4, <1>5, <1>6, <1>7, <1>8, <1>9, <1>10, <1>11,
     <1>12, <1>13 DEF Next, HostSteps

LEMMA HoldInvariant == Spec => []HoldInv
<1>1. Init => HoldInv
  BY DEF Init, HoldInv, HeldInstalled, HoldProgress, VerdictProgress,
         HoldsReleased, Tasks
<1>2. QED BY <1>1, HoldStep, TypeCorrect, PTL DEF Spec

\* A host reported as updated has no docker package on hold
\* (host-update.yml:196-205).
THEOREM ReportedHostsAreReleased == Spec => []HoldsReleased
<1>1. HoldInv => HoldsReleased
  BY DEF HoldInv
<1>2. QED BY <1>1, HoldInvariant, PTL

\* The upgrade of the packages stops no container (host-update.yml:28-30).
THEOREM UpgradeIsQuiet == Spec => UpgradeSparesContainers
<1>1. TypeOK /\ HoldInv /\ [Next]_vars
      => [at = "upgrade" /\ at' = "reboot" => UNCHANGED container]_vars
  <2> SUFFICES ASSUME TypeOK, HoldInv, Next, at = "upgrade", at' = "reboot"
               PROVE  UNCHANGED container
    BY DEF vars
  <2>1. Upgrade
    BY DEF Next, HostSteps, Environment, Nightly, Exits, StartRun, EndRun,
           SkipHost, NextHost, HoldPackage, UnholdPackage, HoldsDone, Reboot,
           UnholdsDone, FindCandidates, HostFails, StartContainer,
           StartContainerFails, RecoverDone, Judge, TaskFails, progress
  <2>2. Installed[host] \ held[host] = {}
    BY DEF HoldInv, HoldProgress
  <2> QED BY <2>1, <2>2 DEF Upgrade
<1>2. QED BY <1>1, TypeCorrect, HoldInvariant, PTL DEF Spec, UpgradeSparesContainers

-----------------------------------------------------------------------------

\* Hosts are updated one by one, and none after a failure
\* (host-update.yml:38).
THEOREM FailureStopsTheRun == Spec => []OneHostAtRisk
<1>1. Init => OneHostAtRisk
  BY DEF Init, OneHostAtRisk, AtRisk
<1>2. TypeOK /\ HoldInv /\ OneHostAtRisk /\ [Next]_vars => OneHostAtRisk'
  <2> SUFFICES ASSUME TypeOK, HoldInv, OneHostAtRisk, [Next]_vars
               PROVE  OneHostAtRisk'
    OBVIOUS
  <2> USE DEF OneHostAtRisk, AtRisk
  <2>1. CASE UNCHANGED <<verdict, host>>
    BY <2>1
  <2>2. CASE HostFails /\ at \in Tasks
    BY <2>2 DEF HostFails, HoldInv, VerdictProgress, TypeOK, Tasks
  <2>3. CASE StartRun \/ \E h \in Hosts : SkipHost(h) \/ NextHost(h)
    <3>1. CASE StartRun
      BY <3>1 DEF StartRun, TypeOK, Tasks
    <3>2. CASE \E h \in Hosts : SkipHost(h)
      BY <3>2 DEF SkipHost, TypeOK, progress
    <3>3. CASE \E h \in Hosts : NextHost(h)
      BY <3>3 DEF NextHost, HoldInv, VerdictProgress
    <3> QED BY <2>3, <3>1, <3>2, <3>3
  <2>4. CASE /\ verdict' = [verdict EXCEPT ![host] = "ok"] /\ host' = None
             /\ at = "judge"
    BY <2>4 DEF HoldInv, VerdictProgress, TypeOK, Tasks
  <2>5. CASE FindCandidates \/ RecoverDone \/ Judge \/ TaskFails
    BY <2>5, <2>1, <2>2, <2>4
       DEF FindCandidates, RecoverDone, Judge, TaskFails, Tasks
  <2>6. CASE Environment \/ UNCHANGED vars
    BY <2>6, <2>1 DEF Environment, Nightly, Exits, progress, vars
  <2>7. CASE EndRun \/ HoldsDone \/ Upgrade \/ Reboot \/ UnholdsDone
    BY <2>7, <2>1 DEF EndRun, HoldsDone, Upgrade, Reboot, UnholdsDone
  <2>8. CASE \E p \in hu_docker_packages : HoldPackage(p) \/ UnholdPackage(p)
    BY <2>8, <2>1 DEF HoldPackage, UnholdPackage
  <2>9. CASE \E c \in Containers : StartContainer(c) \/ StartContainerFails(c)
    BY <2>9, <2>1 DEF StartContainer, StartContainerFails
  <2> QED BY <2>3, <2>5, <2>6, <2>7, <2>8, <2>9 DEF Next, HostSteps
<1>3. QED BY <1>1, <1>2, TypeCorrect, HoldInvariant, PTL DEF Spec

-----------------------------------------------------------------------------

\* A container that does not run after a step did not run before, or is noted.
LEMMA StopsAreNoted ==
  ASSUME NEW h \in Hosts, TypeOK, host \in Hosts, at \in {"recover", "judge"},
         DaemonRestarts(h), host' = host
  PROVE  Candidates(host)' \subseteq Candidates(host) \cup stopped'
  BY DEF DaemonRestarts, AfterRestart, Candidates, NeedsRecovery, TypeOK

\* Every step keeps what is known about the recovery.
LEMMA RecoverStep ==
  ASSUME TypeOK, RecoverProgress, [Next]_vars PROVE RecoverProgress'
<1> USE DEF RecoverProgress
<1>1. CASE \E h \in Hosts : Nightly(h)
  <2> PICK h \in Hosts : Nightly(h)
    BY <1>1
  <2>1. at' = at /\ host' = host /\ loop' = loop /\ broken' = broken
    BY DEF Nightly, progress
  <2> SUFFICES ASSUME at \in {"recover", "judge"} PROVE RecoverProgress'
    BY <2>1
  <2>2. host \in Hosts
    BY DEF TypeOK, Tasks
  <2>3. Candidates(host)' \subseteq Candidates(host) \cup stopped'
    BY <2>1, <2>2, StopsAreNoted DEF Nightly
  <2>4. stopped \subseteq stopped'
    BY DEF Nightly, DaemonRestarts
  <2> QED BY <2>1, <2>3, <2>4
<1>2. CASE \E h \in Hosts, c \in Containers : Exits(h, c)
  BY <1>2 DEF Exits, progress, Candidates, NeedsRecovery, TypeOK, Tasks
<1>3. CASE at' \notin {"recover", "judge"}
  BY <1>3
<1>4. CASE FindCandidates
  BY <1>4, <1>3 DEF FindCandidates, HostFails, Candidates
<1>5. CASE \E c \in Containers : StartContainer(c)
  BY <1>5 DEF StartContainer, Candidates, NeedsRecovery, TypeOK, Tasks, Running
<1>6. CASE \E c \in Containers : StartContainerFails(c)
  BY <1>6 DEF StartContainerFails
<1>7. CASE RecoverDone
  BY <1>7, <1>3 DEF RecoverDone, HostFails, Candidates
<1>8. CASE UNCHANGED vars
  BY <1>8 DEF vars, progress, Candidates
<1>9. CASE StartRun \/ EndRun \/ (\E h \in Hosts : SkipHost(h) \/ NextHost(h))
  BY <1>9, <1>3 DEF StartRun, EndRun, SkipHost, NextHost, progress
<1>10. CASE HoldsDone \/ Upgrade \/ Reboot \/ UnholdsDone \/ Judge \/ TaskFails
            \/ \E p \in hu_docker_packages : HoldPackage(p) \/ UnholdPackage(p)
  BY <1>10, <1>3 DEF HoldsDone, Upgrade, Reboot, UnholdsDone, Judge, TaskFails,
     HoldPackage, UnholdPackage, HostFails
<1> QED
  BY <1>1, <1>2, <1>4, <1>5, <1>6, <1>7, <1>8, <1>9, <1>10
     DEF Next, HostSteps, Environment

\* A host is reported as updated only when every container that has to run was
\* started, or stopped again since (host-update.yml:207-213).
THEOREM ReportedHostsAreRecovered == Spec => RecoveryComplete
<1>1. Init => RecoverProgress
  BY DEF Init, RecoverProgress
<1>2. TypeOK /\ RecoverProgress /\ [Next]_vars
      => [\A h \in Hosts : verdict[h] = "todo" /\ verdict'[h] = "ok"
                            => Down(h) \subseteq stopped]_vars
  <2> SUFFICES ASSUME TypeOK, RecoverProgress, Next, NEW h \in Hosts,
                      verdict[h] = "todo", verdict'[h] = "ok"
               PROVE  Down(h) \subseteq stopped
    BY DEF vars
  <2>1. Judge /\ h = host
    BY DEF Next, HostSteps, Environment, Nightly, Exits, StartRun, EndRun,
           SkipHost, NextHost, HoldPackage, UnholdPackage, HoldsDone, Upgrade,
           Reboot, UnholdsDone, FindCandidates, HostFails, StartContainer,
           StartContainerFails, RecoverDone, Judge, TaskFails, TypeOK
  <2>2. Down(h) = Candidates(h)
    BY DEF Down, Candidates, NeedsRecovery, TypeOK
  <2> QED BY <2>1, <2>2 DEF Judge, RecoverProgress
<1>3. QED
  BY <1>1, <1>2, RecoverStep, TypeCorrect, PTL DEF Spec, RecoveryComplete

-----------------------------------------------------------------------------

\* What the loop has still to start is no job that ended with exit code 0.
NoFinishedJobInLoop ==
  at = "recover" =>
    loop \subseteq {c \in Containers :
                      Policy[c] = "on-failure" => container[host][c] = "error"}

\* A daemon restart leaves stopped containers as they are.
LEMMA StoppedStay ==
  ASSUME NEW h \in Hosts, NEW g \in Hosts, NEW c \in Containers, TypeOK,
         DaemonRestarts(h), container[g][c] # Running
  PROVE  container'[g][c] = container[g][c]
<1>1. CASE g = h
  BY <1>1, RestartTypes DEF AfterRestart
<1>2. CASE g # h
  BY <1>2, RestartTypes
<1> QED BY <1>1, <1>2

\* Every step keeps the finished jobs out of the loop.
LEMMA LoopStep ==
  ASSUME TypeOK, NoFinishedJobInLoop, [Next]_vars PROVE NoFinishedJobInLoop'
<1> USE DEF NoFinishedJobInLoop
<1>1. CASE at' # "recover"
  BY <1>1
<1>2. CASE \E h \in Hosts : Nightly(h)
  BY <1>2, StoppedStay DEF Nightly, progress, TypeOK, Tasks, Running
<1>3. CASE \E h \in Hosts, c \in Containers : Exits(h, c)
  BY <1>3 DEF Exits, progress, TypeOK, Tasks, Running
<1>4. CASE FindCandidates
  BY <1>4, <1>1 DEF FindCandidates, HostFails, Candidates, NeedsRecovery
<1>5. CASE \E c \in Containers : StartContainer(c)
  BY <1>5 DEF StartContainer, TypeOK, Tasks
<1>6. CASE \E c \in Containers : StartContainerFails(c)
  BY <1>6 DEF StartContainerFails
<1>7. CASE UNCHANGED vars
  BY <1>7 DEF vars, progress
<1>8. CASE StartRun \/ EndRun \/ (\E h \in Hosts : SkipHost(h) \/ NextHost(h))
  BY <1>8, <1>1 DEF StartRun, EndRun, SkipHost, NextHost, progress
<1>9. CASE HoldsDone \/ Upgrade \/ Reboot \/ UnholdsDone \/ RecoverDone \/ Judge
           \/ TaskFails
           \/ \E p \in hu_docker_packages : HoldPackage(p) \/ UnholdPackage(p)
  BY <1>9, <1>1 DEF HoldsDone, Upgrade, Reboot, UnholdsDone, RecoverDone, Judge,
     TaskFails, HoldPackage, UnholdPackage, HostFails
<1> QED
  BY <1>2, <1>3, <1>4, <1>5, <1>6, <1>7, <1>8, <1>9
     DEF Next, HostSteps, Environment

\* A job that has ended with exit code 0 is never run again
\* (host-update.yml:215-221).
THEOREM FinishedJobsAreKept == Spec => FinishedJobsStay
<1>1. Init => NoFinishedJobInLoop
  BY DEF Init, NoFinishedJobInLoop
<1>2. TypeOK /\ NoFinishedJobInLoop /\ [Next]_vars
      => [\A h \in Hosts, c \in Containers :
            Policy[c] = "on-failure" /\ container[h][c] = "done"
            => container'[h][c] = "done"]_vars
  <2> SUFFICES ASSUME TypeOK, NoFinishedJobInLoop, Next,
                      NEW h \in Hosts, NEW c \in Containers,
                      Policy[c] = "on-failure", container[h][c] = "done"
               PROVE  container'[h][c] = "done"
    BY DEF vars
  <2>1. CASE \E g \in Hosts : DaemonRestarts(g)
    BY <2>1, StoppedStay DEF Running
  <2>2. CASE \E g \in Hosts, d \in Containers : Exits(g, d)
    BY <2>2 DEF Exits, TypeOK, Running
  <2>3. CASE \E d \in Containers : StartContainer(d)
    BY <2>3 DEF StartContainer, NoFinishedJobInLoop, TypeOK, Tasks
  <2>4. CASE UNCHANGED container
    BY <2>4
  <2>5. CASE Upgrade \/ Reboot
    BY <2>5, <2>1, <2>4 DEF Upgrade, Reboot, TypeOK, Tasks
  <2>6. CASE \E g \in Hosts : Nightly(g)
    BY <2>6, <2>1 DEF Nightly
  <2>7. CASE \E d \in Containers : StartContainerFails(d)
    BY <2>7, <2>4 DEF StartContainerFails
  <2>8. CASE StartRun \/ EndRun \/ (\E g \in Hosts : SkipHost(g) \/ NextHost(g))
    BY <2>8, <2>4 DEF StartRun, EndRun, SkipHost, NextHost
  <2>9. CASE HoldsDone \/ UnholdsDone \/ RecoverDone \/ Judge \/ TaskFails
             \/ FindCandidates
             \/ \E p \in hu_docker_packages : HoldPackage(p) \/ UnholdPackage(p)
    BY <2>9, <2>4 DEF HoldsDone, UnholdsDone, RecoverDone, Judge, TaskFails,
       FindCandidates, HoldPackage, UnholdPackage
  <2> QED
    BY <2>2, <2>3, <2>5, <2>6, <2>7, <2>8, <2>9 DEF Next, HostSteps, Environment
<1>3. QED
  BY <1>1, <1>2, LoopStep, TypeCorrect, PTL DEF Spec, FinishedJobsStay

\* Both halves together: the recovery starts exactly what has to run.
THEOREM RecoveriesAreExact == Spec => RecoveryIsExact
  BY ReportedHostsAreRecovered, FinishedJobsAreKept DEF RecoveryIsExact

=============================================================================
