------------------------------ MODULE DeployRun ------------------------------
(***************************************************************************)
(* Runs of playbooks/deploy.yml against one host.                          *)
(*                                                                         *)
(* A run walks through the tasks of a playbook in order.  A task renders a *)
(* configuration file, renders docker-compose.yml or .env, lets Compose    *)
(* create containers, or recreates one container because a file it reads   *)
(* changed.  Whether a file changed is known only to the run that wrote    *)
(* it (Ansible's `register`); nothing on the host remembers it.  The model *)
(* is about what that means once runs fail, or are limited by --tags.      *)
(*                                                                         *)
(* The playbook is a constant: module DrayvePlaybook holds drayve's.       *)
(***************************************************************************)
EXTENDS Naturals, Sequences, FiniteSets

CONSTANTS
  Service,      \* the containers the compose file can define
  DependsOn,    \* DependsOn[s]: the containers in depends_on of s
  Optional,     \* those the site can switch off (profile, crowdsec, provider)
  File,         \* rendered files that a container reads when it starts
  Reader,       \* Reader[f]: the container that reads f
  SecretFile,   \* files rendered from secrets.yml
  Version,      \* the contents a file or a compose stanza can have
  Absent,       \* no such file, no such stanza, no such container
  Blank,        \* rendered without the secrets it needs
  Playbook,     \* the tasks, in order
  TagSets,      \* the --tags selections runs are started with; {} is none
  MayFail,      \* can a task fail (network, registry, disk, ssh)?
  MaxEdits      \* bound: how often the site configuration is edited

VARIABLES
  siteF, siteS, \* what the site repository wants: files, compose stanzas
  diskF, diskS, \* what the host has on disk
  env,          \* the host's .env: "none", "blank" or "filled"
  boxF, boxS,   \* what the running containers were started with
  pc,           \* next task of the current run, 0 between runs
  tags,         \* --tags of the current run
  secrets,      \* drayve_secrets_facts_loaded
  changed,      \* files whose task reported changed in this run
  upped,        \* containers `docker compose up` created in this run
  clean,        \* history: did this run start on a host without drift?
  outcome,      \* how the last run ended
  edits         \* number of edits so far

site  == <<siteF, siteS, edits>>
disk  == <<diskF, diskS, env>>
box   == <<boxF, boxS>>
facts == <<secrets, changed, upped>>
vars  == <<site, disk, box, facts, pc, tags, clean, outcome>>

-----------------------------------------------------------------------------
(* The playbook                                                            *)

Task == Playbook[pc]
End  == Len(Playbook) + 1
At(do) == {i \in DOMAIN Playbook : Playbook[i].do = do}

\* A full run: no --tags, every task is selected.
Full == tags = {}

\* --tags selects a task that has one of them; so does a block or an import.
Chosen(i) == Full \/ Playbook[i].tags \cap tags # {}
Selected == Chosen(pc)

\* Files some task watches to decide about a recreate.
Watched == File \cap UNION {Playbook[i].watch : i \in DOMAIN Playbook}

Stanza == Version \cup {Absent}
Content == Version \cup {Absent, Blank}

ASSUME ConstantsAssumption ==
  /\ Optional \subseteq Service
  /\ Reader \in [File -> Service] /\ DependsOn \in [Service -> SUBSET Service]
  /\ SecretFile \subseteq File
  /\ Absent \notin Version /\ Blank \notin Version /\ Absent # Blank
  /\ MayFail \in BOOLEAN /\ MaxEdits \in Nat

ASSUME PlaybookAssumption ==
  /\ Playbook \in Seq([do : {"secrets", "guard", "write", "compose", "env",
                             "up", "recreate", "stamp"},
                       file : STRING \cup {Absent}, service : STRING \cup {Absent},
                       watch : SUBSET STRING,
                       unless : SUBSET {"upped", "undefined", "nofile"},
                       tags : SUBSET STRING])
  /\ \A i \in At("write") : Playbook[i].file \in File
  /\ \A i \in At("recreate") : Playbook[i].service \in Service

\* What renders a secret is preceded by a guard that every selection of tags
\* runs too.
Guarded(i) ==
  \E j \in At("guard") : j < i /\ Playbook[i].tags \subseteq Playbook[j].tags

ASSUME GuardAssumption ==
  /\ \A i \in At("write") : Playbook[i].file \in SecretFile => Guarded(i)
  /\ \A i \in At("env") : Guarded(i)

\* The order of the tasks.  Recreate task r suffices for file f: it comes
\* after everything that writes f and, if it makes an exception for containers
\* that `up` has just created, all of that comes before `up`.
WritesOf(f) == {i \in At("write") : Playbook[i].file = f}
Suffices(r, f) ==
  /\ Playbook[r].service = Reader[f] /\ f \in Playbook[r].watch
  /\ \A w \in WritesOf(f) : w < r
  /\ "upped" \in Playbook[r].unless => \A w \in WritesOf(f), u \in At("up") : w < u

ASSUME OrderAssumption ==
  /\ At("compose") # {} /\ At("up") # {}
  /\ \A c \in At("compose"), u \in At("up") : c < u
  /\ \A f \in File : WritesOf(f) # {}
  /\ \A f \in Watched : \E r \in At("recreate") : Suffices(r, f)

Enabled(s) == siteS[s] # Absent
Running(s) == boxS[s] # Absent

\* A running container still works with an older file than the host has.
Stale(f) == Running(Reader[f]) /\ boxF[f] # diskF[f]

\* No watched file is stale, and no container outlives its compose stanza.
NoDrift == /\ \A f \in Watched : ~Stale(f)
           /\ \A s \in Service : Running(s) => diskS[s] # Absent

\* What `docker compose up -d` or a restart makes of the containers in S.
Reload(S) == boxF' = [f \in File |-> IF Reader[f] \in S THEN diskF[f] ELSE boxF[f]]

-----------------------------------------------------------------------------
(* The operator and the host                                               *)

\* Someone edits the site: another content for a file or a stanza, or an
\* optional service switched on or off.  A run reads the site when it starts.
EditFile(f, v) ==
  /\ pc = 0 /\ edits < MaxEdits /\ siteF[f] # v
  /\ siteF' = [siteF EXCEPT ![f] = v]
  /\ edits' = edits + 1
  /\ UNCHANGED <<siteS, disk, box, facts, pc, tags, clean, outcome>>

EditStanza(s, v) ==
  /\ pc = 0 /\ edits < MaxEdits /\ siteS[s] # v
  /\ v = Absent => s \in Optional
  /\ siteS' = [siteS EXCEPT ![s] = v]
  /\ edits' = edits + 1
  /\ UNCHANGED <<siteF, disk, box, facts, pc, tags, clean, outcome>>

\* A container restarts (crash, reboot, watchdog): it binds the files anew.
Restart(s) ==
  /\ Running(s)
  /\ Reload({s})
  /\ UNCHANGED <<site, disk, boxS, facts, pc, tags, clean, outcome>>

Start(T) ==
  /\ pc = 0
  /\ pc' = 1
  /\ tags' = T
  /\ clean' = NoDrift
  /\ outcome' = "running"
  /\ UNCHANGED <<site, disk, box, facts>>

-----------------------------------------------------------------------------
(* The tasks                                                               *)

\* The end of a run: registers and facts are gone.
EndRun(how) ==
  /\ outcome' = how
  /\ pc' = 0
  /\ tags' = {}
  /\ clean' = FALSE
  /\ secrets' = FALSE /\ changed' = {} /\ upped' = {}

Go(do) == pc \in DOMAIN Playbook /\ Task.do = do /\ Selected
Advance == pc' = pc + 1 /\ UNCHANGED <<tags, clean, outcome>>

\* --tags leaves the task out.
Skip ==
  /\ pc \in DOMAIN Playbook /\ ~Selected
  /\ Advance
  /\ UNCHANGED <<site, disk, box, facts>>

\* roles/secrets maps secrets.yml to facts and sets the sentinel.
LoadSecrets ==
  /\ Go("secrets")
  /\ secrets' = TRUE
  /\ Advance
  /\ UNCHANGED <<site, disk, box, changed, upped>>

\* Mutant: the sentinel is not checked.
GuardIgnoresSentinel ==
  /\ Go("guard")
  /\ Advance
  /\ UNCHANGED <<site, disk, box, facts>>

\* "Guard - fail if secrets.yml exists but its facts were never loaded".
Guard ==
  /\ Go("guard")
  /\ IF secrets
       THEN Advance /\ UNCHANGED facts
       ELSE EndRun("abort")
  /\ UNCHANGED <<site, disk, box>>

\* Mutant: tasks share one register, the last change overwrites the others.
RegisterShared(f) == {f}

\* The register of the task that wrote f.
Register(f) == changed \cup {f}

\* template/copy of one file; reports changed when the content differs.
Write ==
  /\ Go("write")
  /\ LET f == Task.file
         v == IF f \in SecretFile /\ ~secrets THEN Blank ELSE siteF[f]
     IN IF Enabled(Reader[f]) /\ diskF[f] # v
          THEN /\ diskF' = [diskF EXCEPT ![f] = v]
               /\ changed' = Register(f)
          ELSE UNCHANGED <<diskF, changed>>
  /\ Advance
  /\ UNCHANGED <<site, diskS, env, box, secrets, upped>>

RenderCompose ==
  /\ Go("compose")
  /\ diskS' = siteS
  /\ Advance
  /\ UNCHANGED <<site, diskF, env, box, facts>>

RenderEnv ==
  /\ Go("env")
  /\ env' = IF secrets THEN "filled" ELSE "blank"
  /\ Advance
  /\ UNCHANGED <<site, diskF, diskS, box, facts>>

\* Compose recreates what differs from its stanza; nothing else is touched,
\* so a file that changed behind an unchanged stanza goes unnoticed.
Diverged == {s \in Service : diskS[s] # boxS[s]}

\* What the output of `up` lists as Created or Recreated.
Created == {s \in Diverged : diskS[s] # Absent}

\* Mutant: `up` without --remove-orphans.
ComposeUpKeepsOrphans ==
  /\ Go("up")
  /\ boxS' = [s \in Service |-> IF diskS[s] = Absent THEN boxS[s] ELSE diskS[s]]
  /\ Reload(Diverged)
  /\ upped' = Created
  /\ Advance
  /\ UNCHANGED <<site, disk, secrets, changed>>

ComposeUp ==
  /\ Go("up")
  /\ boxS' = diskS
  /\ Reload(Diverged)
  /\ upped' = Created
  /\ Advance
  /\ UNCHANGED <<site, disk, secrets, changed>>

\* `up` dies half way: some containers are recreated, the rest are not.
ComposeUpFails(S) ==
  /\ MayFail /\ Go("up")
  /\ boxS' = [s \in Service |-> IF s \in S THEN diskS[s] ELSE boxS[s]]
  /\ Reload(S)
  /\ EndRun("fault")
  /\ UNCHANGED <<site, disk>>

\* The condition of a "Force-recreate X on config change" task.
Triggered(s) ==
  /\ Task.watch \cap changed # {}
  /\ Enabled(s)
  /\ ~("upped" \in Task.unless /\ s \in upped)
  /\ ~("undefined" \in Task.unless /\ diskS[s] = Absent)
  /\ ~("nofile" \in Task.unless /\ \A t \in Service : diskS[t] = Absent)

\* docker compose up -d --force-recreate s: what s depends on is created, or
\* recreated if it differs from its stanza.
Renewed(s) == {s} \cup (DependsOn[s] \cap Created)

Renew(s) ==
  /\ boxS' = [t \in Service |-> IF t \in Renewed(s) THEN diskS[t] ELSE boxS[t]]
  /\ Reload(Renewed(s))

ForceRecreate ==
  /\ Go("recreate")
  /\ LET s == Task.service IN
       \/ /\ ~Triggered(s)
          /\ Advance
          /\ UNCHANGED <<box, facts>>
       \/ /\ Triggered(s) /\ diskS[s] # Absent
          /\ Renew(s)
          /\ Advance
          /\ UNCHANGED facts
       \/ /\ Triggered(s) /\ diskS[s] = Absent   \* "no such service"
          /\ EndRun("abort")
          /\ UNCHANGED box
  /\ UNCHANGED <<site, disk>>

\* VERSION.  Its kedge line comes from an untagged include, which --tags
\* never selects: the variable is then undefined and the task fails.
Stamp ==
  /\ Go("stamp")
  /\ IF Full THEN Advance /\ UNCHANGED facts ELSE EndRun("abort")
  /\ UNCHANGED <<site, disk, box>>

Fault ==
  /\ MayFail /\ pc \in DOMAIN Playbook /\ Selected
  /\ EndRun("fault")
  /\ UNCHANGED <<site, disk, box>>

Finish ==
  /\ pc = End
  /\ EndRun("ok")
  /\ UNCHANGED <<site, disk, box>>

-----------------------------------------------------------------------------
\* A provisioned host without any container, and its site configuration.
Init ==
  /\ \E v \in Version : /\ siteF = [f \in File |-> v]
                        /\ siteS \in [Service -> {v, Absent}]
  /\ \A s \in Service \ Optional : siteS[s] # Absent
  /\ diskF = [f \in File |-> Absent] /\ diskS = [s \in Service |-> Absent]
  /\ env = "none"
  /\ boxF = [f \in File |-> Absent] /\ boxS = [s \in Service |-> Absent]
  /\ pc = 0 /\ tags = {} /\ clean = FALSE /\ outcome = "none"
  /\ secrets = FALSE /\ changed = {} /\ upped = {}
  /\ edits = 0

RunStep ==
  \/ Skip \/ LoadSecrets \/ Guard \/ Write \/ RenderCompose \/ RenderEnv
  \/ ComposeUp \/ ForceRecreate \/ Stamp \/ Finish

Next ==
  \/ \E f \in File, v \in Version : EditFile(f, v)
  \/ \E s \in Service, v \in Stanza : EditStanza(s, v)
  \/ \E s \in Service : Restart(s)
  \/ \E T \in TagSets : Start(T)
  \/ RunStep
  \/ \E S \in SUBSET Diverged : ComposeUpFails(S)
  \/ Fault

Spec == Init /\ [][Next]_vars

-----------------------------------------------------------------------------
(* Properties                                                              *)

TypeOK ==
  /\ siteF \in [File -> Version] /\ siteS \in [Service -> Stanza]
  /\ diskF \in [File -> Content] /\ diskS \in [Service -> Stanza]
  /\ boxF \in [File -> Content] /\ boxS \in [Service -> Stanza]
  /\ env \in {"none", "blank", "filled"}
  /\ pc \in 0 .. End
  /\ tags \in TagSets \cup {{}}
  /\ secrets \in BOOLEAN /\ clean \in BOOLEAN
  /\ changed \subseteq File /\ upped \subseteq Service
  /\ outcome \in {"none", "running", "ok", "abort", "fault"}
  /\ edits \in 0 .. MaxEdits

\* Every container the site wants runs what the site wants, as far as the
\* files in F go, and no other container runs.
Converged(F) ==
  /\ boxS = siteS
  /\ \A f \in F : Enabled(Reader[f]) => boxF[f] = siteF[f]

\* No selection of tags, and no failure, leaves a file or .env on the host
\* that was rendered without its secrets: each guard runs whenever the task
\* it protects does (the cross-tag guards of roles/deploy, roles/auth and
\* the undefined key in roles/traefik).
SecretsNeverBlank == env # "blank" /\ \A f \in File : diskF[f] # Blank

\* Whatever earlier runs left behind, a full run that reaches its end has
\* brought every compose stanza and every rendered file up to date: Compose
\* compares the host with the containers, it does not depend on registers.
FullRunHealsCompose ==
  pc = End /\ Full =>
    /\ diskS = siteS /\ boxS = siteS
    /\ \A s \in Service : Enabled(s) => \A f \in File : Reader[f] = s => diskF[f] = siteF[f]

\* A full run that started without drift and reaches its end leaves every
\* container with the site's stanza and the site's watched files: no
\* register is dropped, no exception of a `when` skips a needed recreate,
\* and no recreate comes too early (the order of the tasks of deploy.yml).
CleanRunConverges == pc = End /\ Full /\ clean => Converged(Watched)

\* What a full run that reaches its end promises, with and without drift.
FullRunsConverge == FullRunHealsCompose /\ CleanRunConverges

\* After a run without the deploy tag changed Authelia's files: "Run the full
\* deploy (or add the `deploy` tag) so the change is guaranteed to apply"
\* (roles/authelia/tasks/main.yml:264-266).
FullDeployAppliesAuthelia ==
  pc = End /\ Full => \A f \in File : Reader[f] = "authelia" => ~Stale(f)

=============================================================================
