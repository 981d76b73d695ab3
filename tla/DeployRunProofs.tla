--------------------------- MODULE DeployRunProofs ---------------------------
(***************************************************************************)
(* What holds of a deploy run for every playbook whose tasks are ordered   *)
(* and guarded as DeployRun assumes, for any number of services, files,    *)
(* versions, runs and failures.                                            *)
(***************************************************************************)
EXTENDS DeployRun, TLAPS

LEMMA PlaybookLength == Len(Playbook) \in Nat /\ DOMAIN Playbook = 1 .. Len(Playbook)
BY PlaybookAssumption

\* A step of Next is one of the actions (or, in a run, one of its tasks).
LEMMA InitTypeOK == Init => TypeOK
<1> SUFFICES ASSUME Init PROVE TypeOK
  OBVIOUS
<1>1. PICK v \in Version : /\ siteF = [f \in File |-> v]
                           /\ siteS \in [Service -> {v, Absent}]
  BY DEF Init
<1>2. siteF \in [File -> Version] /\ siteS \in [Service -> Stanza]
  BY <1>1 DEF Stanza
<1>3. /\ diskF \in [File -> Content] /\ diskS \in [Service -> Stanza]
      /\ boxF \in [File -> Content] /\ boxS \in [Service -> Stanza]
  BY DEF Init, Content, Stanza
<1>4. pc \in 0 .. End /\ edits \in 0 .. MaxEdits
  BY PlaybookLength, ConstantsAssumption DEF Init, End
<1> QED BY <1>2, <1>3, <1>4 DEF Init, TypeOK

\* A recreate touches the container and, of the others, those it depends on.
LEMMA RenewedType ==
  ASSUME NEW s \in Service
  PROVE  Renewed(s) \in SUBSET Service /\ s \in Renewed(s)
BY DEF Renewed, Created, Diverged

LEMMA ReloadType ==
  ASSUME TypeOK, NEW S, Reload(S)
  PROVE  boxF' \in [File -> Content]
BY DEF TypeOK, Reload

LEMMA EndRunType ==
  ASSUME NEW how \in {"ok", "abort", "fault"}, EndRun(how)
  PROVE  /\ pc' \in 0 .. End /\ tags' \in TagSets \cup {{}}
         /\ secrets' \in BOOLEAN /\ clean' \in BOOLEAN
         /\ changed' \subseteq File /\ upped' \subseteq Service
         /\ outcome' \in {"none", "running", "ok", "abort", "fault"}
<1>1. pc' = 0 /\ tags' = {} /\ changed' = {} /\ upped' = {} /\ outcome' = how
  BY DEF EndRun
<1>2. secrets' \in BOOLEAN /\ clean' \in BOOLEAN
  BY DEF EndRun
<1>3. 0 \in 0 .. End
  BY PlaybookLength DEF End
<1> QED BY <1>1, <1>2, <1>3

LEMMA AdvanceType ==
  ASSUME TypeOK, pc \in DOMAIN Playbook, Advance
  PROVE  /\ pc' \in 0 .. End /\ tags' \in TagSets \cup {{}} /\ clean' \in BOOLEAN
         /\ outcome' \in {"none", "running", "ok", "abort", "fault"}
BY PlaybookLength DEF TypeOK, Advance, End

LEMMA NextTypeOK == TypeOK /\ [Next]_vars => TypeOK'
<1> SUFFICES ASSUME TypeOK, [Next]_vars PROVE TypeOK'
  OBVIOUS
<1> USE DEF site, disk, box, facts
<1>1. ASSUME NEW f \in File, NEW v \in Version, EditFile(f, v) PROVE TypeOK'
  BY <1>1, ConstantsAssumption DEF EditFile, TypeOK
<1>2. ASSUME NEW s \in Service, NEW v \in Stanza, EditStanza(s, v) PROVE TypeOK'
  BY <1>2, ConstantsAssumption DEF EditStanza, TypeOK
<1>3. ASSUME NEW s \in Service, Restart(s) PROVE TypeOK'
  BY <1>3, ReloadType DEF Restart, TypeOK
<1>4. ASSUME NEW T \in TagSets, Start(T) PROVE TypeOK'
  BY <1>4, PlaybookLength DEF Start, TypeOK, NoDrift, End
<1>5. CASE Skip
  BY <1>5, AdvanceType DEF Skip, TypeOK
<1>6. CASE LoadSecrets
  BY <1>6, AdvanceType DEF LoadSecrets, Go, TypeOK
<1>7. CASE Guard
  BY <1>7, AdvanceType, EndRunType DEF Guard, Go, TypeOK
<1>8. CASE Write
  <2>1. Task.file \in File
    BY <1>8, PlaybookAssumption DEF Write, Go, At, Task
  <2> DEFINE v == IF Task.file \in SecretFile /\ ~secrets THEN Blank ELSE siteF[Task.file]
  <2>2. v \in Content
    BY <2>1 DEF TypeOK, Content
  <2>3. diskF' \in [File -> Content] /\ changed' \subseteq File
    BY <1>8, <2>1, <2>2 DEF Write, Register, TypeOK
  <2> QED BY <1>8, <2>3, AdvanceType DEF Write, Go, TypeOK
<1>9. CASE RenderCompose
  BY <1>9, AdvanceType DEF RenderCompose, Go, TypeOK
<1>10. CASE RenderEnv
  BY <1>10, AdvanceType DEF RenderEnv, Go, TypeOK
<1>11. CASE ComposeUp
  BY <1>11, AdvanceType, ReloadType DEF ComposeUp, Created, Diverged, Go, TypeOK
<1>12. CASE ForceRecreate
  <2>1. Task.service \in Service
    BY <1>12, PlaybookAssumption DEF ForceRecreate, Go, At, Task
  <2>2. boxS' \in [Service -> Stanza] /\ boxF' \in [File -> Content]
    BY <1>12, <2>1, ReloadType, RenewedType DEF ForceRecreate, Renew, TypeOK
  <2> QED BY <1>12, <2>2, AdvanceType, EndRunType DEF ForceRecreate, Go, TypeOK
<1>13. CASE Stamp
  BY <1>13, AdvanceType, EndRunType DEF Stamp, Go, TypeOK
<1>14. CASE Finish
  BY <1>14, EndRunType DEF Finish, TypeOK
<1>15. ASSUME NEW S \in SUBSET Diverged, ComposeUpFails(S) PROVE TypeOK'
  <2>1. boxS' \in [Service -> Stanza]
    BY <1>15 DEF ComposeUpFails, TypeOK
  <2> QED BY <1>15, <2>1, ReloadType, EndRunType DEF ComposeUpFails, Go, TypeOK
<1>16. CASE Fault
  BY <1>16, EndRunType DEF Fault, TypeOK
<1>17. CASE UNCHANGED vars
  BY <1>17 DEF vars, TypeOK
<1> QED
  BY <1>1, <1>2, <1>3, <1>4, <1>5, <1>6, <1>7, <1>8, <1>9, <1>10, <1>11, <1>12,
     <1>13, <1>14, <1>15, <1>16, <1>17 DEF Next, RunStep

\* Every variable keeps its type.
THEOREM TypeCorrect == Spec => []TypeOK
BY InitTypeOK, NextTypeOK, PTL DEF Spec

-----------------------------------------------------------------------------
(* Secrets                                                                 *)

\* Between runs nothing is remembered of the last one.
Idle == pc = 0 => ~secrets /\ changed = {} /\ upped = {}

\* A run that passed a guard has loaded the secrets.
GuardsHeld == pc > 0 => \A j \in At("guard") : j < pc /\ Chosen(j) => secrets

SecretsInv == Idle /\ GuardsHeld /\ SecretsNeverBlank

LEMMA GuardedHasSecrets ==
  ASSUME GuardsHeld, pc \in DOMAIN Playbook, Selected, Guarded(pc)
  PROVE  secrets
<1>1. PICK j \in At("guard") : j < pc /\ Playbook[pc].tags \subseteq Playbook[j].tags
  BY DEF Guarded
<1>2. Chosen(j)
  BY <1>1 DEF Selected, Chosen
<1> QED BY <1>1, <1>2, PlaybookLength DEF GuardsHeld

LEMMA AdvanceGuards ==
  ASSUME GuardsHeld, pc \in DOMAIN Playbook, Advance, secrets => secrets',
         Task.do = "guard" /\ Selected => secrets
  PROVE  GuardsHeld'
<1> SUFFICES ASSUME NEW j \in At("guard"), j < pc + 1, Chosen(j) PROVE secrets'
  BY DEF GuardsHeld, Advance, Chosen, Full, At
<1>1. CASE j < pc
  BY <1>1, PlaybookLength DEF GuardsHeld
<1>2. CASE j = pc
  BY <1>2 DEF At, Task, Selected
<1> QED BY <1>1, <1>2, PlaybookLength DEF At

LEMMA SecretsNext == TypeOK /\ SecretsInv /\ [Next]_vars => SecretsInv'
<1> SUFFICES ASSUME TypeOK, SecretsInv, [Next]_vars PROVE SecretsInv'
  OBVIOUS
<1> USE DEF site, disk, box, facts, SecretsInv
<1>a. ASSUME NEW how, EndRun(how), UNCHANGED <<diskF, env>> PROVE SecretsInv'
  BY <1>a DEF EndRun, Idle, GuardsHeld, SecretsNeverBlank
<1>b. ASSUME pc \in DOMAIN Playbook, Advance PROVE Idle'
  BY <1>b, PlaybookLength DEF Advance, Idle
<1>1. ASSUME NEW f \in File, NEW v \in Version, EditFile(f, v) PROVE SecretsInv'
  BY <1>1 DEF EditFile, Idle, GuardsHeld, SecretsNeverBlank, Chosen, Full
<1>2. ASSUME NEW s \in Service, NEW v \in Stanza, EditStanza(s, v) PROVE SecretsInv'
  BY <1>2 DEF EditStanza, Idle, GuardsHeld, SecretsNeverBlank, Chosen, Full
<1>3. ASSUME NEW s \in Service, Restart(s) PROVE SecretsInv'
  BY <1>3 DEF Restart, Idle, GuardsHeld, SecretsNeverBlank, Chosen, Full
<1>4. ASSUME NEW T \in TagSets, Start(T) PROVE SecretsInv'
  BY <1>4, PlaybookLength DEF Start, Idle, GuardsHeld, SecretsNeverBlank, At
<1>5. CASE Skip
  BY <1>5, <1>b, AdvanceGuards DEF Skip, SecretsNeverBlank
<1>6. CASE LoadSecrets
  BY <1>6, <1>b, AdvanceGuards DEF LoadSecrets, Go, SecretsNeverBlank
<1>7. CASE Guard
  BY <1>7, <1>a, <1>b, AdvanceGuards DEF Guard, Go, SecretsNeverBlank
<1>8. CASE Write
  <2>1. Task.file \in SecretFile => secrets
    BY <1>8, GuardAssumption, GuardedHasSecrets DEF Write, Go, At, Task
  <2>2. Task.file \in File
    BY <1>8, PlaybookAssumption DEF Write, Go, At, Task
  <2>3. SecretsNeverBlank'
    BY <1>8, <2>1, <2>2, ConstantsAssumption DEF Write, SecretsNeverBlank, TypeOK
  <2> QED BY <1>8, <2>3, <1>b, AdvanceGuards DEF Write, Go
<1>9. CASE RenderCompose
  BY <1>9, <1>b, AdvanceGuards DEF RenderCompose, Go, SecretsNeverBlank
<1>10. CASE RenderEnv
  <2>1. secrets
    BY <1>10, GuardAssumption, GuardedHasSecrets DEF RenderEnv, Go, At, Task
  <2>2. env' # "blank"
    BY <1>10, <2>1 DEF RenderEnv
  <2> QED BY <1>10, <2>2, <1>b, AdvanceGuards DEF RenderEnv, Go, SecretsNeverBlank
<1>11. CASE ComposeUp
  BY <1>11, <1>b, AdvanceGuards DEF ComposeUp, Go, SecretsNeverBlank
<1>12. CASE ForceRecreate
  BY <1>12, <1>a, <1>b, AdvanceGuards DEF ForceRecreate, Go, SecretsNeverBlank
<1>13. CASE Stamp
  BY <1>13, <1>a, <1>b, AdvanceGuards DEF Stamp, Go, SecretsNeverBlank
<1>14. CASE Finish
  BY <1>14, <1>a DEF Finish
<1>15. ASSUME NEW S \in SUBSET Diverged, ComposeUpFails(S) PROVE SecretsInv'
  BY <1>15, <1>a DEF ComposeUpFails
<1>16. CASE Fault
  BY <1>16, <1>a DEF Fault
<1>17. CASE UNCHANGED vars
  BY <1>17 DEF vars, Idle, GuardsHeld, SecretsNeverBlank, Chosen, Full
<1> QED
  BY <1>1, <1>2, <1>3, <1>4, <1>5, <1>6, <1>7, <1>8, <1>9, <1>10, <1>11, <1>12,
     <1>13, <1>14, <1>15, <1>16, <1>17 DEF Next, RunStep

LEMMA SecretsInvariant == Spec => [](TypeOK /\ SecretsInv)
<1>1. Init => SecretsInv
  BY ConstantsAssumption DEF Init, SecretsInv, Idle, GuardsHeld, SecretsNeverBlank
<1> QED BY <1>1, InitTypeOK, NextTypeOK, SecretsNext, PTL DEF Spec

\* No tag selection and no failure renders a secret blank (the cross-tag
\* guards of roles/deploy and roles/auth).
THEOREM SecretsAreSafe == Spec => []SecretsNeverBlank
BY SecretsInvariant, PTL DEF SecretsInv

-----------------------------------------------------------------------------
(* Full runs bring Compose and the files up to date                        *)

InRun == pc > 0 /\ Full

\* What the tasks already done have established.
Written == InRun => \A w \in At("write") :
  LET f == Playbook[w].file
  IN w < pc /\ Enabled(Reader[f]) => diskF[f] = siteF[f]
Rendered == InRun /\ (\E c \in At("compose") : c < pc) => diskS = siteS
Composed == InRun /\ (\E u \in At("up") : u < pc) => boxS = diskS

HealInv == Written /\ Rendered /\ Composed

\* A task of a full run that writes no file, no compose file and no container.
LEMMA AdvanceHeals ==
  ASSUME HealInv, pc \in DOMAIN Playbook, Advance, UNCHANGED <<site, diskF>>,
         Task.do # "write",
         Full => (Task.do = "compose" => diskS' = siteS),
         Full => (Task.do # "compose" => diskS' = diskS),
         Full => (Task.do = "up" => boxS' = diskS'),
         Full => (Task.do # "up" =>
                    \/ boxS' = boxS
                    \/ /\ boxS' \in [Service -> Stanza]
                       /\ \A s \in Service : boxS'[s] \in {boxS[s], diskS[s]}),
         TypeOK
  PROVE  HealInv'
<1> SUFFICES ASSUME Full PROVE HealInv'
  BY DEF HealInv, Written, Rendered, Composed, InRun, Full, Advance
<1> USE DEF HealInv, site
<1>1. pc \in Nat \ {0} /\ pc' = pc + 1 /\ Full'
  BY PlaybookLength DEF Advance, Full
<1>2. Written'
  <2> SUFFICES ASSUME NEW w \in At("write"), w < pc'
               PROVE  LET f == Playbook[w].file
                      IN Enabled(Reader[f])' => diskF'[f] = siteF'[f]
    BY DEF Written, At
  <2>1. w < pc
    BY <1>1, PlaybookLength DEF At, Task
  <2> QED BY <2>1, <1>1 DEF Written, InRun, Enabled
<1>3. Rendered'
  <2> SUFFICES ASSUME NEW c \in At("compose"), c < pc' PROVE diskS' = siteS'
    BY DEF Rendered, At
  <2>1. CASE c < pc
    BY <2>1, <1>1 DEF Rendered, InRun
  <2>2. CASE c = pc
    BY <2>2 DEF At, Task
  <2> QED BY <2>1, <2>2, <1>1, PlaybookLength DEF At
<1>4. Composed'
  <2> SUFFICES ASSUME NEW u \in At("up"), u < pc' PROVE boxS' = diskS'
    BY DEF Composed, At
  <2>1. CASE u < pc
    <3>1. Task.do # "compose"
      BY <2>1, <1>1, OrderAssumption, PlaybookLength DEF At, Task
    <3>2. boxS = diskS /\ diskS' = diskS
      BY <2>1, <1>1, <3>1 DEF Composed, InRun
    <3> QED BY <3>2 DEF TypeOK
  <2>2. CASE u = pc
    BY <2>2 DEF At, Task
  <2> QED BY <2>1, <2>2, <1>1, PlaybookLength DEF At
<1> QED BY <1>2, <1>3, <1>4

LEMMA WriteHeals == ASSUME HealInv, SecretsInv, TypeOK, Write PROVE HealInv'
<1> SUFFICES ASSUME Full PROVE HealInv'
  BY DEF HealInv, Written, Rendered, Composed, InRun, Full, Advance, Write
<1> USE DEF HealInv, site, box, Go
<1>1. pc \in DOMAIN Playbook /\ pc \in Nat \ {0} /\ pc' = pc + 1 /\ Full'
  BY PlaybookLength DEF Write, Advance, Full
<1>2. Task.file \in File /\ (Task.file \in SecretFile => secrets)
  BY PlaybookAssumption, GuardAssumption, GuardedHasSecrets DEF Write, At, Task, SecretsInv
<1>3. Enabled(Reader[Task.file]) => diskF'[Task.file] = siteF[Task.file]
  BY <1>2 DEF Write, TypeOK
<1>4. \A f \in File : f # Task.file => diskF'[f] = diskF[f]
  BY <1>2 DEF Write, TypeOK
<1>5. Written'
  <2> SUFFICES ASSUME NEW w \in At("write"), w < pc'
               PROVE  LET f == Playbook[w].file
                      IN Enabled(Reader[f])' => diskF'[f] = siteF'[f]
    BY DEF Written, At
  <2>1. Playbook[w].file \in File
    BY PlaybookAssumption
  <2>2. CASE Playbook[w].file = Task.file
    BY <2>2, <1>3 DEF Write, Enabled
  <2>3. CASE Playbook[w].file # Task.file
    <3>1. w < pc
      BY <2>3, <1>1, PlaybookLength DEF At, Task
    <3> QED BY <2>1, <2>3, <3>1, <1>1, <1>4 DEF Written, InRun, Enabled, Write
  <2> QED BY <2>2, <2>3
<1>6. Rendered'
  <2> SUFFICES ASSUME NEW c \in At("compose"), c < pc' PROVE diskS' = siteS'
    BY DEF Rendered, At
  <2>1. c < pc
    BY <1>1, PlaybookLength DEF At, Task, Write
  <2> QED BY <2>1, <1>1 DEF Rendered, InRun, Write
<1>7. Composed'
  <2> SUFFICES ASSUME NEW u \in At("up"), u < pc' PROVE boxS' = diskS'
    BY DEF Composed, At
  <2>1. u < pc
    BY <1>1, PlaybookLength DEF At, Task, Write
  <2> QED BY <2>1, <1>1 DEF Composed, InRun, Write
<1> QED BY <1>5, <1>6, <1>7

LEMMA HealNext == TypeOK /\ SecretsInv /\ HealInv /\ [Next]_vars => HealInv'
<1> SUFFICES ASSUME TypeOK, SecretsInv, HealInv, [Next]_vars PROVE HealInv'
  OBVIOUS
<1> USE DEF site, disk, box, facts
<1>a. ASSUME pc' = 0 PROVE HealInv'
  BY <1>a DEF HealInv, Written, Rendered, Composed, InRun
<1>b. ASSUME NEW how, EndRun(how) PROVE HealInv'
  BY <1>b, <1>a DEF EndRun
<1>1. ASSUME NEW f \in File, NEW v \in Version, EditFile(f, v) PROVE HealInv'
  BY <1>1, <1>a DEF EditFile
<1>2. ASSUME NEW s \in Service, NEW v \in Stanza, EditStanza(s, v) PROVE HealInv'
  BY <1>2, <1>a DEF EditStanza
<1>3. ASSUME NEW s \in Service, Restart(s) PROVE HealInv'
  BY <1>3 DEF Restart, HealInv, Written, Rendered, Composed, InRun, Full, Enabled
<1>4. ASSUME NEW T \in TagSets, Start(T) PROVE HealInv'
  BY <1>4, PlaybookLength DEF Start, HealInv, Written, Rendered, Composed, At
<1>5. CASE Skip
  BY <1>5 DEF Skip, HealInv, Written, Rendered, Composed, InRun, Selected, Chosen,
              Full, Advance
<1>6. CASE LoadSecrets
  BY <1>6, AdvanceHeals DEF LoadSecrets, Go
<1>7. CASE Guard
  BY <1>7, <1>b, AdvanceHeals DEF Guard, Go
<1>8. CASE Write
  BY <1>8, WriteHeals
<1>9. CASE RenderCompose
  BY <1>9, AdvanceHeals DEF RenderCompose, Go
<1>10. CASE RenderEnv
  BY <1>10, AdvanceHeals DEF RenderEnv, Go
<1>11. CASE ComposeUp
  BY <1>11, AdvanceHeals DEF ComposeUp, Go
<1>12. CASE ForceRecreate
  <2>1. Task.service \in Service
    BY <1>12, PlaybookAssumption DEF ForceRecreate, Go, At, Task
  <2>2. CASE UNCHANGED boxS
    BY <1>12, <1>b, <2>2, AdvanceHeals DEF ForceRecreate, Go
  <2>3. CASE Renew(Task.service)
    <3>1. /\ boxS' \in [Service -> Stanza]
          /\ \A s \in Service : boxS'[s] \in {boxS[s], diskS[s]}
      BY <2>1, <2>3 DEF Renew, TypeOK
    <3> QED BY <1>12, <1>b, <3>1, AdvanceHeals DEF ForceRecreate, Go
  <2> QED BY <1>12, <2>2, <2>3 DEF ForceRecreate
<1>13. CASE Stamp
  BY <1>13, <1>b, AdvanceHeals DEF Stamp, Go
<1>14. CASE Finish
  BY <1>14, <1>b DEF Finish
<1>15. ASSUME NEW S \in SUBSET Diverged, ComposeUpFails(S) PROVE HealInv'
  BY <1>15, <1>b DEF ComposeUpFails
<1>16. CASE Fault
  BY <1>16, <1>b DEF Fault
<1>17. CASE UNCHANGED vars
  BY <1>17 DEF vars, HealInv, Written, Rendered, Composed, InRun, Full, Enabled
<1> QED
  BY <1>1, <1>2, <1>3, <1>4, <1>5, <1>6, <1>7, <1>8, <1>9, <1>10, <1>11, <1>12,
     <1>13, <1>14, <1>15, <1>16, <1>17 DEF Next, RunStep

LEMMA HealInvariant == Spec => [](TypeOK /\ SecretsInv /\ HealInv)
<1>1. Init => HealInv
  BY DEF Init, HealInv, Written, Rendered, Composed, InRun
<1> QED BY <1>1, SecretsInvariant, HealNext, PTL DEF Spec

LEMMA EndIsLast == pc = End => /\ pc > 0
                               /\ \A i \in DOMAIN Playbook : i < pc
BY PlaybookLength DEF End

\* A full run that reaches its end has brought the compose file, the rendered
\* files and the stanzas of the containers up to date, whatever earlier runs,
\* complete or not, left behind.
THEOREM FullRunsHeal == Spec => []FullRunHealsCompose
<1>1. TypeOK /\ HealInv => FullRunHealsCompose
  <2> SUFFICES ASSUME TypeOK, HealInv, pc = End, Full
               PROVE  /\ diskS = siteS /\ boxS = siteS
                      /\ \A f \in File : Enabled(Reader[f]) => diskF[f] = siteF[f]
    BY DEF FullRunHealsCompose
  <2>1. diskS = siteS /\ boxS = siteS
    BY EndIsLast, OrderAssumption DEF HealInv, Rendered, Composed, InRun, At
  <2>2. ASSUME NEW f \in File, Enabled(Reader[f]) PROVE diskF[f] = siteF[f]
    <3>1. PICK w \in At("write") : Playbook[w].file = f
      BY OrderAssumption DEF WritesOf
    <3> QED BY <2>2, <3>1, EndIsLast DEF HealInv, Written, InRun, At
  <2> QED BY <2>1, <2>2
<1> QED BY <1>1, HealInvariant, PTL

-----------------------------------------------------------------------------
(* Full runs without earlier drift leave no container stale                *)

CleanRun == InRun /\ clean

\* Staleness is never unknown to the run: the file's register says changed.
Known == CleanRun => \A f \in Watched : Stale(f) => f \in changed

\* Until the compose file is rendered, it still defines what is running.
Defined == CleanRun /\ (\A c \in At("compose") : pc <= c) =>
             \A s \in Service : Running(s) => diskS[s] # Absent

\* `up` has created the containers in upped with the files as they are now.
WrittenBeforeUp(f) == \A w \in WritesOf(f), u \in At("up") : w < u
Upped == CleanRun => /\ upped # {} => \E u \in At("up") : u < pc
                     /\ \A f \in Watched :
                          Reader[f] \in upped /\ WrittenBeforeUp(f) => ~Stale(f)

\* A recreate that suffices for a file leaves it stale only in a container
\* that the coming `up` removes.
Recreated == CleanRun => \A f \in Watched, r \in At("recreate") :
               r < pc /\ Suffices(r, f) /\ Stale(f) => ~Enabled(Reader[f])

CleanInv == Known /\ Defined /\ Upped /\ Recreated

\* Staleness is the only thing a step can add to CleanInv: a step that adds
\* none, and drops no register, keeps it.
NoNewStale == \A f \in Watched : Stale(f)' => Stale(f)

LEMMA WatchedFiles == \A f \in Watched : f \in File /\ Reader[f] \in Service
BY ConstantsAssumption DEF Watched

LEMMA ReloadNoNewStale ==
  ASSUME TypeOK, NEW S \in SUBSET Service, Reload(S), UNCHANGED diskF,
         \A s \in Service \ S : boxS'[s] = boxS[s]
  PROVE  /\ NoNewStale
         /\ \A f \in Watched : Reader[f] \in S => ~Stale(f)'
<1> SUFFICES ASSUME NEW f \in Watched
             PROVE  /\ Stale(f)' => Stale(f)
                    /\ Reader[f] \in S => ~Stale(f)'
  BY DEF NoNewStale
<1>1. f \in File /\ Reader[f] \in Service
  BY WatchedFiles
<1>2. CASE Reader[f] \in S
  BY <1>1, <1>2 DEF Reload, Stale, TypeOK
<1>3. CASE Reader[f] \notin S
  BY <1>1, <1>3 DEF Reload, Stale, Running, TypeOK
<1> QED BY <1>2, <1>3

LEMMA AdvanceClean ==
  ASSUME TypeOK, CleanInv, pc \in DOMAIN Playbook, Advance, NoNewStale, CleanRun,
         UNCHANGED <<siteS, changed>>,
         Task.do # "up" => upped' = upped,
         upped' # upped =>
           \A f \in Watched : Reader[f] \in upped' /\ WrittenBeforeUp(f) => ~Stale(f)',
         Task.do # "compose" => /\ diskS' = diskS
                                /\ \A s \in Service : boxS'[s] \in {boxS[s], diskS[s]},
         \A f \in Watched : Task.do = "recreate" /\ Suffices(pc, f) /\ Stale(f)'
                              => ~Enabled(Reader[f])
  PROVE  CleanInv'
<1> USE DEF CleanInv
<1>1. pc \in Nat \ {0} /\ pc' = pc + 1 /\ CleanRun /\ Full'
  BY PlaybookLength DEF Advance, CleanRun, InRun, Full
<1>2. Known'
  BY <1>1 DEF Known, NoNewStale
<1>3. Defined'
  <2> SUFFICES ASSUME \A c \in At("compose") : pc' <= c, NEW s \in Service, Running(s)'
               PROVE  diskS'[s] # Absent
    BY DEF Defined, At
  <2>1. \A c \in At("compose") : pc <= c /\ pc # c
    BY <1>1, PlaybookLength DEF At
  <2>2. Task.do # "compose"
    BY <2>1, <1>1 DEF At, Task
  <2> QED BY <2>1, <2>2, <1>1 DEF Defined, Running
<1>4. (upped # {} => \E u \in At("up") : u < pc')
  BY <1>1, PlaybookLength DEF Upped, At
<1>5. upped' # {} => \E u \in At("up") : u < pc'
  <2>1. CASE Task.do = "up"
    BY <2>1, <1>1 DEF At, Task
  <2>2. CASE Task.do # "up"
    BY <2>2, <1>4
  <2> QED BY <2>1, <2>2
<1>6. Upped'
  BY <1>1, <1>5 DEF Upped, NoNewStale, WrittenBeforeUp, WritesOf, At
<1>7. Recreated'
  <2> SUFFICES ASSUME NEW f \in Watched, NEW r \in At("recreate"), r < pc',
                      Suffices(r, f), Stale(f)'
               PROVE  ~Enabled(Reader[f])'
    BY DEF Recreated, Suffices, At, WritesOf
  <2>1. CASE r < pc
    BY <2>1, <1>1 DEF Recreated, NoNewStale, Enabled
  <2>2. CASE r = pc
    BY <2>2 DEF At, Task, Enabled
  <2> QED BY <2>1, <2>2, <1>1, PlaybookLength DEF At
<1> QED BY <1>2, <1>3, <1>6, <1>7

LEMMA WriteClean == ASSUME TypeOK, CleanInv, Write, CleanRun PROVE CleanInv'
<1> USE DEF CleanInv, site, disk, box, Go
<1>1. /\ pc \in DOMAIN Playbook /\ pc \in Nat \ {0} /\ pc' = pc + 1
      /\ pc \in WritesOf(Task.file) /\ Task.file \in File
  BY PlaybookLength, PlaybookAssumption DEF Write, Advance, WritesOf, At, Task
<1>2. \A f \in Watched : Stale(f)' => Stale(f) \/ (f = Task.file /\ f \in changed')
  BY <1>1, WatchedFiles DEF Write, Register, TypeOK, Stale, Running
<1>3. changed \subseteq changed' /\ UNCHANGED <<siteS, diskS, boxS, upped>>
  BY DEF Write, Register
<1>4. Known'
  BY <1>2, <1>3 DEF Known
<1>5. Defined'
  BY <1>1, <1>3, PlaybookLength DEF Defined, At, Running
<1>6. Upped'
  <2>1. upped' # {} => \E u \in At("up") : u < pc'
    BY <1>1, <1>3, PlaybookLength DEF Upped, At
  <2>2. ASSUME NEW f \in Watched, Reader[f] \in upped', WrittenBeforeUp(f), Stale(f)'
        PROVE  FALSE
    <3>1. f = Task.file
      BY <2>2, <1>2, <1>3 DEF Upped
    <3>2. PICK u \in At("up") : u < pc
      BY <2>2, <1>3 DEF Upped
    <3>3. pc < u
      BY <3>1, <1>1, <2>2 DEF WrittenBeforeUp
    <3> QED BY <3>2, <3>3, <1>1, PlaybookLength DEF At
  <2> QED BY <2>1, <2>2 DEF Upped, WrittenBeforeUp, WritesOf, At
<1>7. Recreated'
  <2> SUFFICES ASSUME NEW f \in Watched, NEW r \in At("recreate"), r < pc',
                      Suffices(r, f), Stale(f)'
               PROVE  ~Enabled(Reader[f])'
    BY DEF Recreated, Suffices, At, WritesOf
  <2>1. r < pc
    BY <1>1, PlaybookLength DEF At, Write, Task
  <2>2. f # Task.file
    BY <2>1, <1>1, PlaybookLength DEF Suffices, At
  <2> QED BY <2>1, <2>2, <1>2, <1>3 DEF Recreated, Enabled
<1> QED BY <1>4, <1>5, <1>6, <1>7

\* A recreate task that is skipped for a reason other than its registers is
\* not needed.
LEMMA UntriggeredClean ==
  ASSUME TypeOK, HealInv, CleanInv, CleanRun, pc \in DOMAIN Playbook,
         Task.do = "recreate", ~Triggered(Task.service),
         NEW f \in Watched, Suffices(pc, f), Stale(f)
  PROVE  ~Enabled(Reader[f])
<1>1. /\ Task.service = Reader[f] /\ Reader[f] \in Service
      /\ Task.watch \cap changed # {} /\ Running(Reader[f])
  BY WatchedFiles DEF Suffices, Task, CleanInv, Known, Stale
<1>2. ~("upped" \in Task.unless /\ Reader[f] \in upped)
  BY DEF Suffices, Task, CleanInv, Upped, WrittenBeforeUp
<1>3. CASE diskS[Reader[f]] = Absent
  <2>1. PICK c \in At("compose") : ~(pc <= c)
    BY <1>1, <1>3 DEF CleanInv, Defined
  <2>2. c < pc
    BY <2>1, PlaybookLength DEF At
  <2> QED BY <2>2, <1>3 DEF HealInv, Rendered, CleanRun, Enabled
<1> QED BY <1>1, <1>2, <1>3 DEF Triggered

LEMMA RecreateClean ==
  ASSUME TypeOK, HealInv, CleanInv, CleanRun, ForceRecreate, pc' # 0
  PROVE  CleanInv'
<1> USE DEF site, disk, box, facts
<1>1. pc \in DOMAIN Playbook /\ Task.do = "recreate" /\ Task.service \in Service
  BY PlaybookAssumption DEF ForceRecreate, Go, At, Task
<1>2. CASE ~Triggered(Task.service)
  <2>1. Advance /\ UNCHANGED <<site, disk, box, facts>>
    BY <1>2 DEF ForceRecreate
  <2>2. NoNewStale
    BY <2>1 DEF NoNewStale, Stale, Running
  <2> QED BY <1>1, <1>2, <2>1, <2>2, AdvanceClean, UntriggeredClean DEF NoNewStale
<1>3. CASE Triggered(Task.service)
  <2> DEFINE S == Renewed(Task.service)
  <2>1. /\ boxS' = [t \in Service |-> IF t \in S THEN diskS[t] ELSE boxS[t]]
        /\ Reload(S) /\ Advance /\ UNCHANGED <<site, disk, facts>>
    BY <1>3 DEF ForceRecreate, Renew, EndRun
  <2>6. S \in SUBSET Service /\ Task.service \in S
    BY <1>1, RenewedType
  <2> HIDE DEF S
  <2>2. \A s \in Service \ S : boxS'[s] = boxS[s]
    BY <2>1
  <2>3. \A s \in Service : boxS'[s] \in {boxS[s], diskS[s]}
    BY <2>1
  <2>4. /\ NoNewStale
        /\ \A f \in Watched : Reader[f] = Task.service => ~Stale(f)'
    BY <2>1, <2>2, <2>6, ReloadNoNewStale
  <2>5. \A f \in Watched : Suffices(pc, f) => Reader[f] = Task.service
    BY DEF Suffices, Task
  <2> QED BY <1>1, <2>1, <2>3, <2>4, <2>5, AdvanceClean
<1> QED BY <1>2, <1>3

LEMMA UpClean == ASSUME TypeOK, CleanInv, CleanRun, ComposeUp PROVE CleanInv'
<1> USE DEF site, disk, box
<1>1. pc \in DOMAIN Playbook /\ Task.do = "up"
  BY DEF ComposeUp, Go
<1>2. /\ boxS' = diskS /\ Reload(Diverged) /\ Diverged \in SUBSET Service
      /\ upped' \subseteq Diverged /\ Advance /\ UNCHANGED <<site, disk, changed>>
  BY DEF ComposeUp, Created, Diverged
<1>3. \A s \in Service \ Diverged : boxS'[s] = boxS[s]
  BY <1>2 DEF Diverged
<1>4. NoNewStale /\ \A f \in Watched : Reader[f] \in Diverged => ~Stale(f)'
  BY <1>2, <1>3, ReloadNoNewStale
<1> QED BY <1>1, <1>2, <1>4, AdvanceClean

LEMMA CleanNext ==
  TypeOK /\ SecretsInv /\ HealInv /\ CleanInv /\ [Next]_vars => CleanInv'
<1> SUFFICES ASSUME TypeOK, SecretsInv, HealInv, CleanInv, [Next]_vars PROVE CleanInv'
  OBVIOUS
<1> USE DEF site, disk, box, facts
<1>a. ASSUME ~CleanRun' PROVE CleanInv'
  BY <1>a DEF CleanInv, Known, Defined, Upped, Recreated
<1>b. ASSUME pc' = 0 PROVE CleanInv'
  BY <1>a, <1>b DEF CleanRun, InRun
<1>c. ASSUME NEW how, EndRun(how) PROVE CleanInv'
  BY <1>c, <1>b DEF EndRun
<1>d. ASSUME pc \in DOMAIN Playbook, Advance, Task.do \notin {"up", "recreate"},
             UNCHANGED <<siteS, diskF, boxF, boxS, changed, upped>>,
             Task.do # "compose" => diskS' = diskS
      PROVE  CleanInv'
  <2>1. CASE CleanRun
    <3>1. NoNewStale
      BY <1>d DEF NoNewStale, Stale, Running
    <3> QED BY <1>d, <2>1, <3>1, AdvanceClean
  <2>2. CASE ~CleanRun
    BY <1>d, <2>2, <1>a, PlaybookLength DEF CleanRun, InRun, Full, Advance
  <2> QED BY <2>1, <2>2
<1>e. ASSUME pc \in DOMAIN Playbook, Advance, ~CleanRun PROVE CleanInv'
  BY <1>e, <1>a, PlaybookLength DEF CleanRun, InRun, Full, Advance
<1>1. ASSUME NEW f \in File, NEW v \in Version, EditFile(f, v) PROVE CleanInv'
  BY <1>1, <1>b DEF EditFile
<1>2. ASSUME NEW s \in Service, NEW v \in Stanza, EditStanza(s, v) PROVE CleanInv'
  BY <1>2, <1>b DEF EditStanza
<1>3. ASSUME NEW s \in Service, Restart(s) PROVE CleanInv'
  <2>1. NoNewStale
    BY <1>3, ReloadNoNewStale DEF Restart
  <2> QED BY <1>3, <2>1 DEF Restart, CleanInv, Known, Defined, Upped, Recreated, CleanRun,
             InRun, Full, NoNewStale, Running, Enabled, WrittenBeforeUp, WritesOf, At,
             Suffices
<1>4. ASSUME NEW T \in TagSets, Start(T) PROVE CleanInv'
  <2>1. clean' => (\A f \in Watched : ~Stale(f)')
    BY <1>4 DEF Start, NoDrift, Stale, Running
  <2>2. clean' => (\A s \in Service : Running(s)' => diskS'[s] # Absent)
    BY <1>4 DEF Start, NoDrift, Running
  <2>3. upped' = {}
    BY <1>4 DEF Start, SecretsInv, Idle
  <2> QED BY <2>1, <2>2, <2>3 DEF CleanInv, Known, Defined, Upped, Recreated, CleanRun
<1>5. CASE Skip
  BY <1>5, <1>e DEF Skip, Selected, Chosen, CleanRun, InRun
<1>6. CASE LoadSecrets
  BY <1>6, <1>d DEF LoadSecrets, Go
<1>7. CASE Guard
  BY <1>7, <1>c, <1>d DEF Guard, Go
<1>8. CASE Write
  BY <1>8, <1>e, WriteClean DEF Write, Go
<1>9. CASE RenderCompose
  BY <1>9, <1>d DEF RenderCompose, Go
<1>10. CASE RenderEnv
  BY <1>10, <1>d DEF RenderEnv, Go
<1>11. CASE ComposeUp
  BY <1>11, <1>e, UpClean DEF ComposeUp, Go
<1>12. CASE ForceRecreate
  <2>1. CASE pc' = 0
    BY <2>1, <1>b
  <2>2. CASE pc' # 0 /\ CleanRun
    BY <1>12, <2>2, RecreateClean
  <2>3. CASE pc' # 0 /\ ~CleanRun
    BY <1>12, <2>3, <1>e DEF ForceRecreate, EndRun, Go
  <2> QED BY <2>1, <2>2, <2>3
<1>13. CASE Stamp
  BY <1>13, <1>c, <1>d DEF Stamp, Go
<1>14. CASE Finish
  BY <1>14, <1>c DEF Finish
<1>15. ASSUME NEW S \in SUBSET Diverged, ComposeUpFails(S) PROVE CleanInv'
  BY <1>15, <1>c DEF ComposeUpFails
<1>16. CASE Fault
  BY <1>16, <1>c DEF Fault
<1>17. CASE UNCHANGED vars
  BY <1>17 DEF vars, CleanInv, Known, Defined, Upped, Recreated, CleanRun, InRun, Full,
               Stale, Running, Enabled, WrittenBeforeUp, WritesOf, At, Suffices
<1> QED
  BY <1>1, <1>2, <1>3, <1>4, <1>5, <1>6, <1>7, <1>8, <1>9, <1>10, <1>11, <1>12,
     <1>13, <1>14, <1>15, <1>16, <1>17 DEF Next, RunStep

LEMMA CleanInvariant == Spec => [](TypeOK /\ HealInv /\ CleanInv)
<1>1. Init => CleanInv
  BY DEF Init, CleanInv, Known, Defined, Upped, Recreated, CleanRun, InRun
<1> QED BY <1>1, HealInvariant, CleanNext, PTL DEF Spec

\* A full run that starts without drift and reaches its end leaves every
\* container with the stanza and the watched files the site wants: the order
\* of the tasks of deploy.yml, and the exceptions of its force-recreate tasks,
\* never skip a recreate that is needed.
THEOREM CleanRunsConverge == Spec => []CleanRunConverges
<1>1. TypeOK /\ HealInv /\ CleanInv => CleanRunConverges
  <2> SUFFICES ASSUME TypeOK, HealInv, CleanInv, pc = End, Full, clean
               PROVE  Converged(Watched)
    BY DEF CleanRunConverges
  <2>0. CleanRun /\ \A i \in DOMAIN Playbook : i < pc
    BY EndIsLast DEF CleanRun, InRun
  <2>1. diskS = siteS /\ boxS = siteS
    BY <2>0, OrderAssumption DEF HealInv, Rendered, Composed, CleanRun, At
  <2>2. ASSUME NEW f \in Watched, Enabled(Reader[f]) PROVE boxF[f] = siteF[f]
    <3>1. PICK r \in At("recreate") : Suffices(r, f)
      BY OrderAssumption
    <3>2. ~Stale(f)
      BY <2>0, <2>2, <3>1 DEF CleanInv, Recreated, At
    <3>3. boxF[f] = diskF[f]
      BY <2>1, <2>2, <3>2 DEF Stale, Running, Enabled
    <3>4. PICK w \in At("write") : Playbook[w].file = f
      BY OrderAssumption, WatchedFiles DEF WritesOf
    <3> QED BY <2>0, <2>2, <3>3, <3>4 DEF HealInv, Written, CleanRun, At
  <2> QED BY <2>1, <2>2 DEF Converged
<1> QED BY <1>1, CleanInvariant, PTL

------------------------------------------------------------------------------
\* Both promises of a full run together.
THEOREM FullRunsDoConverge == Spec => []FullRunsConverge
BY FullRunsHeal, CleanRunsConverge, PTL DEF FullRunsConverge

=============================================================================
