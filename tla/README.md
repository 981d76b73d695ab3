# drayve in TLA+

drayve deploys a stack of containers to one or more hosts: Traefik, CrowdSec, a
login (Authelia with lldap, or Authentik), monitoring, and the site's own
services. It is a set of Ansible playbooks and roles, with a handful of scripts
that run on the host or against the API of a container. This directory holds
TLA+ specifications of the parts whose correctness depends on *order*: what a
run does when the run before it failed half way, what two programs do to the
same container, what a retry does after its first attempt has already taken
effect. TLC checks them on small instances, TLAPS proves the main properties for
every instance.

Almost all of the code is idempotent tasks that write files, and each one alone
is easy to test. What is hard to test, and what is modelled here:

* **Facts that live for one run only.** Ansible's `register` knows that a file
  changed; the next run does not. A recreate that depends on a register is lost
  when the run ends between the two.
* **Tags.** `--tags` turns one playbook into many. A variable set under one tag
  and used under another is blank in some of them.
* **Runs cut off anywhere.** Nothing is rolled back: the next run starts from
  whatever is on the host.
* **Pairs of files or of objects** (a hash and its checksum, a database and the
  checksum of its key, a provider and its place in an outpost) written one after
  the other.
* **Other actors**: Docker's restart policies, a systemd timer, unattended
  upgrades, operators in a web interface, a second deploy run.
* **One rule, two programs.** What an operator writes is read by a validator, by
  Ansible, by a template and by the program behind it, each with its own idea of
  strings, lists, templates, labels and networks.

## Inventory

Paths are relative to the repository. "Modelled in" is empty for components
without a module; PROJECT.json lists the same components with their status and
reasons.

| Component | State it keeps | Operations | Interacts with | Modelled in |
|---|---|---|---|---|
| Deploy run: `ansible/playbooks/deploy.yml`, `roles/deploy`, the rendering tasks of `roles/traefik`, `roles/monitoring`, `roles/authelia` | rendered files, `docker-compose.yml`, `.env`, `VERSION`; registers during a run | render, guard, compose up, force-recreate | Compose and Docker; the site repository | `DeployRun`, `DrayvePlaybook` |
| Secrets role: `roles/secrets` | facts during a run, the sentinel `drayve_secrets_facts_loaded` | load | every role that renders a secret | `DeployRun` (`LoadSecrets`, `Guard`) |
| Bouncer watchdog: `roles/traefik/files/drayve-bouncer-watchdog.sh` with its service and timer | `FAIL_FILE`, a time stamp | probe, mark, judge, inspect, restart, remove mark | Traefik, Docker, deploy runs | `BouncerWatchdog` |
| Authelia role: `roles/authelia/tasks/main.yml` | per client a hash and a checksum; database; checksum of its key; configuration | hash, store, render, detect a changed key, reset, record | the Authelia container, the operator's edits of `secrets.yml` | `AutheliaState` |
| Rolling update: `playbooks/host-update.yml` | packages on hold; containers; report per host | hold, upgrade, reboot, release, find, start, judge | apt, Docker, nightly upgrades | `HostUpdate` |
| Nightly updates: `roles/host-base-update` | two apt files | render | apt on its own schedule | `HostUpdate` (`Nightly`) |
| Authentik setup: `roles/authentik/templates/bootstrap.py.j2`, `scripts/auth-sync.py.j2` | objects in Authentik's database | ensure provider, application, outpost, LDAP source | Authentik's blueprints, operators, `label-scanner.py` | `AuthentikSetup` |
| lldap: `roles/lldap`, `roles/authelia/tasks/bind-user.yml` | users, passwords, groups | wait, verify, create, set, add to group | Authelia at start | `LldapBootstrap` |
| Grafana alerting: `roles/monitoring/tasks/main.yml` 330–603 | contact points, policy, rules | write, remove, guard | secrets role, Grafana | `GrafanaAlerting` in `RoleRun` |
| CrowdSec keys: `roles/deploy/tasks/main.yml` 152–186, 700–762 | key in `.env`, in `secrets.yml`, in the plugin file, in CrowdSec | preserve, render, register | Traefik, watchdog | `DrayvePlaybook` (CrowdSec's files and recreates) |
| Auth dispatcher and middleware: `roles/auth`, `roles/traefik` 26–138 | one file per provider, `.htpasswd` | write new, remove stale | Traefik's file watcher | `AuthMiddleware` in `RoleRun`; `StackCheck` |
| Validation: `filter_plugins/drayve_auth.py`, `scripts/validate-stack.py`, preflights | none | accept, warn, reject | all roles, Authelia, Traefik, Grafana | `AuthRules`, `StackCheck` |
| Label tools: `scripts/label-scanner.py`, `scripts/multinet-label-fix.py` | the override file on the host | fix in place, scan | Compose, landing page, `auth-sync.py`, Traefik | `LabelPipeline`, `LabelContract` |
| Release tools: `scripts/check-vars.py`, `list-ci-images.py`, `reap-orphan-test-hosts.py` and shell scripts | none; the servers of a cloud project | check, list, select, delete | CI, the tests' hosts | `CheckVars`, `CiImages`, `ReleaseTools` |
| Backup: `roles/backup` | environment file, repository | stop, back up, start, prune, refresh password | Compose, restic, kedge, OpenBao | |
| Life cycle: `playbooks/provision.yml`, `rebuild.yml`, `burn.yml` | server, DNS records, certificates | create, restore, verify, delete | provider API | |
| Base system: `roles/common`, `roles/docker` | packages, users, firewall chain | install, configure | Docker | |
| Log retention: `drayve-authelia-retention.sh` | rows of a table | prune | Authelia's database | |
| Landing page, dashboards, Makefile, CI, tests | none at run time | | | |

### How they interact

`deploy.yml` runs the roles in a fixed order: secrets, then the roles that render
files (traefik, auth with authelia and lldap or authentik, monitoring), then
deploy, which renders the compose file and `.env`, brings the containers up and
recreates those whose files changed; after it come the scripts that talk to the
containers. Roles do not call each other: they communicate through facts (the
sentinel, registers, `auth_provider`) and through files on the host. On the host,
Traefik, the watchdog, Docker's restart policies and the nightly upgrades run all
the time, and do not know whether a deploy run is in progress; there is no lock
between them.

### What makes each component correct

* *Deploy run.* A secret is never rendered blank. A run that ends well leaves the
  containers as the site describes them; if it cannot promise that after earlier
  failures, at least Compose's own comparison heals what Compose knows about. A
  full run does not fail because of what an older compose file lacks.
* *Watchdog.* A hang is healed; a short failure is not answered by a restart;
  restarts of a running Traefik are a threshold apart; a container that a deploy
  run has just created is left alone.
* *Authelia.* The configuration has the hashes of the secrets in use, which are
  not made again for nothing; no run ends well with a database that its key
  cannot read, and none aborts without a reason.
* *Rolling update.* The upgrade does not stop containers. No reported host keeps
  its docker packages on hold, or misses a container that has to run. A failing
  host stops the run. A job that is done is not run again.
* *Authentik.* After lost answers, retries and half-done runs every service has
  provider, application and its place in the outpost, and no write drops another
  service.
* *lldap.* Authelia's bind user exists, with the password of the configuration,
  before Authelia starts; a new one may search the directory; the users of a run
  that ends well have their passwords and groups, whatever was half done before.
* *Alerting.* The policy names no contact point that is missing, no run without
  secrets removes either, and Grafana has read what the site asks for.
* *Middleware.* `auth` is defined exactly once when a run is over, and there is no
  moment in a switch at which it is not defined.
* *Validation.* An accepted rule means for Authelia what the operator wrote; an
  accepted proxy range trusts no large part of the internet; an accepted login can
  start, for visitors and for Grafana.
* *Label tools.* The label fix adds what is missing and touches nothing else, also
  when it is cut off while it writes; what the scanner reports is what the labels
  say.
* *Release tools.* An undefined reference does not pass; what the tests pull is in the
  cache; the reaper deletes what was left behind, and no host of a running test.
* *CrowdSec keys, backup, life cycle* (no module): plugin file, `.env` and CrowdSec agree
  once a full run is over; services come back after a failed backup; no DNS record
  outlives its server.

PROJECT.json lists the hazards with the properties that cover them. Hazards the code has
and no module reaches: the key of an existing `.env` is taken over after the plugin
file was rendered (`roles/deploy/tasks/main.yml` 161), and a bouncer is looked up by
its name, so that CrowdSec keeps the old key after a rotation (746); `.htpasswd` is
written once (`roles/auth/tasks/main.yml` 53); `rules.yaml` is copied without a register
(`roles/monitoring/tasks/main.yml` 478); the rotated OIDC secret of an Authentik
provider that exists reaches Grafana and not Authentik (`bootstrap.py.j2` 230); a
failing restic ends the script before the services are started again
(`roles/backup/tasks/main.yml` 103); the environment file of kedge is written in place
(`kedge-openbao-fetch.py.j2` 53); DNS records are deleted after the server
(`playbooks/burn.yml` 62); a rebuild takes the stack down before the restore
(`playbooks/rebuild.yml` 62); the firewall chain is flushed and refilled rule by rule
(`roles/docker/templates/docker-user-fw.sh.j2` 9); the days of the retention script (43).
Known and without a property because the code promises nothing: a tag-scoped run ends at
the `VERSION` task, whose variable an untagged include sets (`tasks/version_file.yml`
67; modelled by `Stamp`); a hold that an operator had set is lifted
(`playbooks/host-update.yml` 200); a changed key before the first run of a release with a
marker is recorded as if it were the old one (`roles/authelia/tasks/main.yml` 415).

## Modules

| Module | Content |
|---|---|
| `DeployRun` | Runs over any playbook: tasks, tags, faults, site edits, Compose |
| `DrayvePlaybook` | drayve's playbook as data: one record per task that matters, and the files and readers |
| `MCDeployRun` | Small hosts, documented tag selections, symmetry |
| `DeployRunProofs` | Theorems about `DeployRun` |
| `BouncerWatchdog`, `BouncerWatchdogProofs` | The watchdog and the container it restarts |
| `AutheliaState` | What `roles/authelia` keeps between runs |
| `HostUpdate`, `MCHostUpdate`, `HostUpdateProofs` | The rolling update |
| `AuthentikSetup`, `AuthentikSetupProofs` | `bootstrap.py` and `auth-sync.py` |
| `LldapBootstrap`, `MCLldapBootstrap`, `LldapBootstrapProofs` | lldap, its bind user and its users |
| `AuthMiddleware`, `GrafanaAlerting` | The files of the middleware `auth`, and of Grafana's alerts: state and what a task does to it |
| `RoleRun`, `RoleRunProofs` | The two above composed: one run of the roles that write them |
| `LabelContract` | What becomes of an operator's labels, in one step |
| `LabelPipeline`, `MCLabelPipeline` | The scripts and tasks that do it, shown to implement the contract |
| `AuthRules` | `drayve_auth.py`: what is accepted, and what is warned about |
| `StackCheck`, `MCStackCheck` | From `stack.yaml` through the checks to what Authelia, Traefik and Grafana read |
| `AutheliaStateProofs` | Theorems about `AutheliaState` and `StackCheck` |
| `CheckVars`, `CiImages` | `check-vars.py` and `list-ci-images.py` as functions of a source tree |
| `ReleaseTools`, `MCReleaseTools` | The two above and the reaper, with jobs that create and lose hosts |
| `ToolProofs` | Theorems about `LabelPipeline` and `ReleaseTools` |

A proof module that is about two specifications extends both: the second one has names of
its own for its variables, initial states, steps and behaviours (`CheckInit`, `CheckNext`,
`CheckSpec` in `StackCheck`, `ToolsInit`, `ToolsNext`, `ToolsSpec` in `ReleaseTools`).

Definitions named as the *mutant* of another one stand next to it and are used
nowhere: each is a plausible bug (a dropped guard, a swapped order) under which
the property PROJECT.json names with it no longer holds.

### DeployRun and DrayvePlaybook

The machine is separate from the program it runs. `DeployRun` has one action per
*kind* of task: `LoadSecrets`, `Guard`, `Write`, `RenderCompose`, `RenderEnv`,
`ComposeUp`, `ForceRecreate`, `Stamp`; `Skip` passes over what the tags of the run
leave out, and `Fault` ends the run at any task it would have performed (`ComposeUpFails`: with some
of the containers created and others not). `DrayvePlaybook` is the constant
`Playbook`: the tasks of the roles in the order of `deploy.yml`, with their tags,
the file they write, the registers in their `when`, and the exceptions
(`unless = "upped"` when compose up has just created the container,
`"undefined"` when the compose file has no such service, `"nofile"` when there is no
compose file, which only the recreates of `roles/monitoring` ask). A recreate is
`docker compose up -d --force-recreate`: it also creates, or brings in line with its
stanza, what the container depends on (`DependsOn`, `Renewed`).

State: what the site wants (`siteF`, `siteS`), what is on disk (`diskF`, `diskS`,
`env`), and what each container was started with (`boxF`, `boxS`). Contents are
abstract versions; `Blank` stands for a file rendered without its secrets.
`changed` is the set of registers that report a change, `upped` the containers
compose up has created in this run. Both are forgotten when the run ends: that is
the point of the model. `clean` is a history variable: did the run start on a host
whose containers had the files that are on disk?

### BouncerWatchdog

Every command of the script is an action (`wd` is the next one), interleaved with
hangs, crashes, Docker's restart policy, deploy runs that recreate Traefik, and
`Kill`, which ends the script anywhere because its unit requires docker.service.
Time is discrete, and an age stops at `Threshold`, beyond which the script does not
tell ages apart. `KillTearsMarker` leaves the marker created but empty, which the
script reads as the epoch. `sinceRestart` and `sinceHealthy` are history variables.

### AutheliaState

Secrets and keys are numbers in the order they are made; a hash or a checksum is
the value it is made of. `Generate`, `StoreHash`, `StoreSum`,
`DeployConfiguration`, `Detect`, `Abort`/`Pass`, `RemoveDb`, `RecordKey`, `Deploy`
are the tasks of the role in order; loops over clients are one action per item.
`Cut` ends a run anywhere, `AutheliaStarts` is a start of the container (which creates a
missing database with the key of the configuration it reads) at any time.
`Rollback` decides whether an edit may return to a value used before. Initially a
host is empty, or was deployed by a release without the marker.

### HostUpdate

One action per task; the holds, releases and starts of a loop are one action per
item, in any order. `Nightly` upgrades what is not on hold between any two tasks, `Exits`
stops a container with either exit code. `DaemonRestarts` says what a restart of
the daemon does under each restart policy. `FindCandidates` has the exit status of
the shell loop as a guard (`ListWorks`): under `set -o pipefail` the last test of
the loop decides about the task. `stopped` collects the containers that stopped after the
list was made: no list can know them. A host without docker is one without docker
packages (`Installed[h] = {}`), and then without containers.

### AuthentikSetup

One action per request. A request gets an `Answer` and leads on to the next one, or
it gets none (`NoAnswer`), whether it took effect or not, and is tried again up to
`MAX_RETRIES` times; `RequestFails` ends a script for good. `BlueprintApplies` makes Authentik's
own flows, mappings and outpost appear in any order while the scripts run.
`OperatorAssigns` puts a provider of the operator on the outpost, which a script may
overwrite. `bootstrap.py` and `auth-sync.py` share the actions for a service and
differ in what they do when an object exists.

### LldapBootstrap

A run is a sequence of requests to lldap, one action each: wait, verify the admin
password, look for the bind user, create it, set its password, add it to its group;
compose up, recreate Authelia; wait again, and per user create, set, add to groups.
`CutOff` ends a run between two of them. A failing request is passed over where the
script has `|| true` or no `-e` (`CheckFails`, `BindRequestFails`, `AddToSomeGroups`),
ends the run where it is the last command (`JoinFails`), and at the end of the loop
where it is one item of several (`ItemFails`). Passwords are versions:
of `secrets.yml`, of the configuration on the host, of the running container, of the
directory. `--tags secrets,deploy` leaves out the configuration. `run.clean` says that no
request of the run has failed, `run.fresh` that it found no bind user. Around it:
edits of secrets, of the admin password and of groups, containers that boot, reboots
of the host.

### RoleRun, AuthMiddleware and GrafanaAlerting

The two components share a run and nothing else, so each has a module with its
variables and one operator per task, without a next-state relation, and `RoleRun`
has the run: position, tags, whether the secrets were loaded, what they ask for.
Tasks are numbered (`Position`); the removals of a loop are one action per item. The
compose file is rendered before the guard that may abort the run, and a recreate
of Grafana comes before both: it starts the container with an older environment.
`Restart` restarts Grafana at any moment with the files that are there. For Traefik
no action is needed: its watcher reads every state, so that the property is an
action property over all states.

### LabelPipeline and LabelContract

`LabelContract` has two variables, what the operator wishes and what runs, and one
promise: a routed service with several networks gets the label of the primary one,
everything else stays. `LabelPipeline` has the file in between, which is copied,
parsed, truncated and written (`FixTruncates`, `FixWrites`), and is left torn when the
run is cut off there. `Contract` is an instance of `LabelContract` under the refinement
mapping that takes labels to their meaning (`Meaning`); `LabelsAsPromised` states that
every behaviour of the pipeline is one of the contract. Labels are lists or mappings
of *kinds*; the scanner's rules about the first label of a kind, about rules without
a host and about URLs are operators over them. A later label of a list wins, as in
Compose. The landing page links every card, and its template has no default for a card
whose service has no host: `LandingFails` is the run that ends there. `CanBeDeployed` says
of a site what no number of runs makes up for: an override that does not parse, and such a card.
A site may switch the page off (`RemoveLandingPage`).

### AuthRules and StackCheck

`AuthRules` has one operator per check of `drayve_auth.py`. `StackCheck` is the way of a
`stack.yaml`: `validate-stack.py` on the file as written (with `make`; a playbook called
directly skips it), the preflight on the values after Ansible has expanded the templates in
rules, users, cookie domain and portal (`Expand...`), and the templates (`Render...`) with what Jinja does to a string
where a list is expected. The properties compare what is rendered with what was
meant, through models of Authelia's rule matching and of Go's network matching.
The run has addresses of 4 and 7 bits instead of 32 and 128, with the mapped range in
between and shorter prefix limits; the theorems hold for all widths. Powers of two are a
recursive function, `Pow2`, because the provers know nothing of `2 ^ n`.
`StacksAssumption` says what a stack may be: sections that are left out are mappings of
absent values, domains are sequences of parts, and a regex that begins with the anchor
has one part after it. Patterns that match everything, as `^.*`, are beyond the model.

### CheckVars, CiImages and ReleaseTools

The first two are functions of a source tree. Text is a sequence of tokens: raw
blocks, loops, assignments, references with or without a guard. The regular
expression for raw blocks is a function along the text, inside from an opening
to the nearest closing. An image has a form: the list script drops what is no plain name,
and reads no variable but those named `*_image` (`IsRef`, `ImageVarNames`).

`ReleaseTools` runs the two on a tree and lets jobs create servers. A platform is named
`test-<scenario>`, or as its scenario says. The reaper's docstring gives the servers these
names, `docs/testing.md` puts a namespace before them (finding 14): the `prefix` of a tree
is what the driver prepends, and the run has trees with and without one. A job ends, or is
cut off; its servers are then destroyed by the next test or destroy of the scenario
(`DestroyAgain`), or Molecule's state is lost (`WipeWorkspace`) and they stay. The workflows
have no step that cleans up. The reaper reads its list in one step and deletes from it in later
ones, while jobs start again under the same names. A deletion of a host that is gone
raises, and ends the script.

## Runs

Run TLC with the `.cfg` of the run on the module PROJECT.json names with it.

| Run | Instance | States | Shows |
|---|---|---|---|
| `deploy_core` | Traefik, CrowdSec, Authelia; 2 site edits; faults at any task; every documented tag selection | 1.75 M | `SecretsNeverBlank`, `CleanRunConverges` |
| `deploy_watch` | Grafana, Loki, Alloy, of which Grafana and Alloy are switched on and off; 2 edits; faults; tags | 365 k | `FullRunsConverge` (`FullRunHealsCompose` and `CleanRunConverges`) |
| `watchdog` | threshold 2, interval 1, 1 kill, 1 deploy run | 33 k | `RestartsAreSpaced`, `RestartNeedsLongFailure`, `HangIsHealed`, `MarkerGoes` |
| `authelia` | 2 clients, values 0–2, 3 edits, 2 cut runs, no rollback | 1.0 M | `HashFollowsSecret`, `DbMatchesKey`, `HashStaysStable` |
| `host_update` | 3 hosts, 2 containers, 2 runs, 1 fault | 225 k | `HoldsReleased`, `OneHostAtRisk`, `UpgradeSparesContainers`, `RecoveryIsExact` |
| `authentik` | 2 frame services, 2 labelled ones (one is both), 1 of the operator, 3 attempts, 2 runs, 3 faults | 1.0 M | `BootstrapIsComplete`, `CleanRunIsComplete`, `SourceFollowsSecret`, `AssignmentsKept` |
| `lldap` | 2 users, 2 edits of secrets, 2 faults | 1.3 M | `UsersAreProvisioned`, `NewBindUserCanSearch`, `AutheliaStartsWithItsUser` |
| `role_files` | 4 providers, 2 receivers, 4 tag selections, 2 edits, 1 cut run | 2.6 M | `AuthIsDefinedOnce`, `AuthIsAlwaysDefined`, `PolicyReceiversExist`, `NothingRemovedWithoutSecrets`, `GrafanaAlerts` |
| `labels` | 40 sites, 1 edit, 1 cut run | 62 k | `LabelsAsPromised` (refinement), `ProtectedServicesHaveProvider`, `LandingFollowsLabels`, `SecondRunSucceeds` |
| `preflight` | about 2,100 `stack.yaml`, each with and without `make` | 11 k | `RulesMeanWhatIsWritten`, `UsersFileFitsRules`, `WarningsAreEnough`, `LoginWorks`, `TrustIsNarrow` |
| `release_tools` | 4,127 trees; in three of them, one of these with prefixed names, jobs of 2 scenarios, 3 host ids, 1 foreign host, 1 removed scenario, 1 overrun | 392 k | `TypeOK`, `GateFindsReferences`, `PulledImagesAreCached`, `RunningTestsKeepHosts`, `OrphansAreReaped` |
| `deploy_lost_change` | Authelia; 1 edit, no faults | | a counterexample to `FullDeployAppliesAuthelia`, see *Findings* |

The type invariants of the seven specifications of roles, playbooks and scripts on the
host are theorems, and are not checked again by the runs. `StackCheck` and
`LabelPipeline` have none: their steps are few, and what they write is compared in full by
their properties.

**Why these bounds are enough.** *Deploy:* a failure loses information about one
edit; the second edit covers a change back to the old content, for which a
register says "unchanged" although the container has a third one. Runs are not
bounded. Containers interact only through compose up and the order of their
tasks, so hosts of three containers cover the kinds: recreated before compose up
(monitoring), after it with an exception (CrowdSec, Authelia), after it without
one (Traefik). `whitelist.yaml` is written and watched by the same
tasks as `config.yaml.local`, which stands for both. Versions are symmetric: no
action and no property orders them. *Watchdog:* ages end at the threshold, so a
threshold of two intervals already separates a first, a second and a late failure;
the proofs cover the others. *Authelia:* two clients are needed for a run cut
between their files, two cut runs for a repair that is cut itself, three values
for a rotation after a rotation. *Host update:* the three hosts are the three
kinds the play tells apart; two runs, because a hold may be left by the first.
*Authentik:* three faults use up the three attempts of one request, or hit three
requests. *lldap:* two users, so that one of a loop fails and the other does not; two
faults for a repair that fails itself, or a cut run after a failed request; two edits
for a rotation between two runs and one within a run. *Role files:* the four providers are none, one
with a file of its own, and two that share a file, which `authentik` would only repeat
(the proofs cover it); the site starts with any provider and any secrets, and two
edits switch there and back, or change two of provider, secrets and addresses. The cut
is one, because each of the two components is repaired by its own tasks. *Labels:* at most three networks around the limit of two;
the sites vary one part of an otherwise plain site, since override and service files
meet only in the order of the tasks; the theorems are about lists and sites of any size. *Preflight:* families vary one section of a plain
file, and two where sections are checked against each other (users and rules, portal
and cookie domain, clients and Grafana, provider and directory). *Release tools:* the trees
for the first two scripts have one question each; three ids let a host be created
under an old name while the reaper still holds the old id.

`CHECK_DEADLOCK FALSE` is set in `host_update` and `authentik`, where the bound on
runs is an end the real system does not have, and in `preflight`, where a run ends.
The others are checked for deadlock.

### Fairness

`watchdog` and `release_tools` state fairness, because the watchdog and the reaper
promise that something happens. In `BouncerWatchdog`: weak fairness on `TimePasses` and on the script: systemd's timer fires and
starts a oneshot unit, which runs to its end or is killed. Weak fairness on
`PolicyRestart` and `DeployStarts`: Docker starts a container whose policy says so,
and compose starts what it has created. Weak fairness on `RestartEnds`: a restart
that has begun ends. Strong fairness on `RestartBegins`: an attempt may fail
(`RestartFails`) and the next tick tries again; a restart that always fails cannot
heal anything. Kills are bounded: a script that is killed at every tick does
nothing. There is no fairness on hangs, crashes or deploy runs. A deploy run *may
recreate* Traefik at any time, and recreating is what heals a container that has
lost its network (`defect = "nonet"`); `HangIsHealed` promises nothing about it.

In `ReleaseTools`: weak fairness on `Tick`, for time passes; on `ReapStart`, for the reaper
is meant to be started regularly (by hand or on a schedule: no workflow of the
repository calls it, which is a condition of `OrphansAreReaped` and not a result); on
its next deletion, which succeeds or raises; on the end of a test, which finishes or is
cut off. There is none on what follows a cut: nobody has to destroy again, or to wipe a
workspace. No fairness
makes a run of the reaper complete: another deletion may end it early every time a
host has gone meanwhile, and the next run goes on. `MaxOverruns` bounds how often that
happens, that is how many tests run as long as the threshold, and how many hosts are
destroyed by a later test while they are on the reaper's list. Without a bound one of
them could go before every deletion of an orphan, and no run of the reaper would get to it
(finding 15): the bound is a condition of `OrphansAreReaped`, with the default threshold a
mild one, since a test takes a fraction of four hours and a run of the reaper seconds.

## Theorems

Each theorem holds for all values of the constants that satisfy the named
assumptions of its module. TLC evaluates these assumptions in every run, for
drayve's own playbook in particular.

* **DeployRunProofs.** `TypeCorrect`. `SecretsAreSafe` (`SecretsNeverBlank`): needs
  `GuardAssumption`, that every task that renders a secret has a guard before it
  under all of its tags. The invariant says of the current run that each guard it
  has passed, if selected, found the secrets. `FullRunsHeal`
  (`FullRunHealsCompose`) and `CleanRunsConverge` (`CleanRunConverges`) need
  `OrderAssumption`: compose file before compose up, every watched file followed by
  a recreate that suffices for it. The invariant follows a full run: which files
  are already written, which containers still differ, and that each difference is
  remembered by a register whose recreate is yet to come. Together they say what a
  playbook must look like for the properties to hold; TLC checks that drayve's does.
* **BouncerWatchdogProofs.** `TypeCorrect`, `RestartsSpaced`
  (`RestartsAreSpaced`), `RestartsJustified` (`RestartNeedsLongFailure`), for every
  threshold, interval and number of kills and deploy runs. The action properties
  alone are not inductive; the invariant adds that a running container is not
  older than the last restart, that the verdict of `inspect` remains true while the
  script acts on it, and that without kills the marker is never older than the last
  healthy probe.
* **AutheliaStateProofs**, of `AutheliaState`. `TypeCorrect`; `HashesFollow`
  (`HashFollowsSecret`) if secrets never return to an earlier value, *or* if no run is cut
  off; `DatabaseReadable` (`DbMatchesKey`) if keys never return. The conditions are
  needed: finding 4 is the counterexample without the first. `HashesAreStable`
  (`HashStaysStable`) also with secrets that return: while no run has been cut off, hash
  and checksum of a client are of the same secret outside of the two loops, and what
  the first loop has left is out of date.
* **AutheliaStateProofs**, of `StackCheck`: `RulesAreKept` (`RulesMeanWhatIsWritten`),
  `UsersFitRules` (`UsersFileFitsRules`), `QuietRulesAreNarrow` (`WarningsAreEnough`),
  `AcceptedLoginWorks` (`LoginWorks`), `ProxiesAreNarrow` (`TrustIsNarrow`), for every
  `stack.yaml` that `StacksAssumption` admits, any requests, widths of addresses and prefix
  limits (`WidthAssumption`). The inductive invariant is short: a run that has come
  to a point has passed the checks before it, and the host has what is rendered from the
  stack. The rest is about one stack: expanding templates changes only rules,
  users, cookie domain and portal, and keeps their form; an accepted rule has no misspelled key and no string where a
  list belongs, so it is rendered as it is meant; users with different names
  are as many entries as users; networks of one quotient are at most as many addresses
  as the divisor, and an address of the mapped range lies in the range's own network,
  which the check refuses to overlap. `Pow2` is recursive: that its definition has a
  solution is proved from its finite parts, by the least number without one.
* **HostUpdateProofs.** `TypeCorrect`, `ReportedHostsAreReleased`,
  `UpgradeIsQuiet`, `FailureStopsTheRun`, `ReportedHostsAreRecovered`,
  `FinishedJobsAreKept`: all the properties of the run, for any hosts, packages,
  containers and faults. The invariant relates what a loop has done to what it has
  left, and what the run has reported to where it is.
* **AuthentikSetupProofs.** `TypeCorrect`, `BootstrapSetsUp`
  (`BootstrapIsComplete`), `CleanRunSetsUp` (`CleanRunIsComplete`),
  `AssignmentsStay` (`AssignmentsKept`), for any services and number of attempts. A
  service that is neither left nor in progress is settled; of the one in progress
  the next request tells what exists. For `auth-sync.py` this needs every request of
  the run to be answered, as the property says. `SourceIsRotated`
  (`SourceFollowsSecret`): what makes it inductive is that a run about to create the
  source has seen that there is none, and that no edit changes the password of a run
  in progress.
* **LldapBootstrapProofs.** `TypeCorrect`, `UsersProvisioned` (`UsersAreProvisioned`),
  `BindUserSearches` (`NewBindUserCanSearch`), `AutheliaBinds`
  (`AutheliaStartsWithItsUser`), for any users, groups, edits and faults. The invariant
  says for the current run, at each place of it, what is already true of the
  directory as long as no request has failed: accounts of the items a loop has done,
  their passwords, their groups, and of the bind user the account, then the password,
  then the group. That the run's own version of the secrets is used throughout, and not
  the current one, is what makes it inductive under edits.
* **RoleRunProofs.** `TypeCorrect`, `MiddlewareDefinedOnce` (`AuthIsDefinedOnce`),
  `MiddlewareAlwaysDefined` (`AuthIsAlwaysDefined`), `ReceiversExist`
  (`PolicyReceiversExist`), `RemovesNothing` (`NothingRemovedWithoutSecrets`), for any of
  the five providers and any edits and cuts. The new file is there while stale ones
  are removed, and what is not left to remove is gone; the receivers a run wants
  have their contact points before the policy names them, and the policy is gone before
  the contact points that are not wanted; after the guard, a run without secrets has
  nothing to remove. `GrafanaSendsAlerts` (`GrafanaAlerts`), over several runs and
  restarts: whatever Grafana has read, it has read together; where it has not read the
  latest files, the run that wrote them has a register that says so or is to start
  Grafana from the new compose file, as long as no run was cut off.
* **ToolProofs**, of `LabelPipeline`, for all sites `SitesAssumption` admits: label lists of
  any length in both forms, any edits and cuts. `FixerKeepsContract` is the refinement
  `LabelsAsPromised`: every step of the pipeline is a step of `LabelContract` or a
  stutter, because the file the fixer reads is the site's, what it holds in memory
  is the fixed form of it, and both forms have the promised meaning. `OneRunIsLost`
  (`SecondRunSucceeds`), for sites that can be deployed (`CanBeDeployed`): the landing task
  cannot fail for them, and after a failure nothing is stale, or no run has failed.
  `LandingPageFollows` (`LandingFollowsLabels`: the cards the labels name, each with a link,
  or no card if the page is switched off) and `ProvidersFollow`
  (`ProtectedServicesHaveProvider`) have the hypothesis `FilesInStack`, because the scanner
  looks only below the stack directory (finding 7). `SitesAssumption` excludes contradictory
  `traefik.enable` labels of one service, of which the fixer reads the first and Compose
  the last, and has one compose file per service.
* **ToolProofs**, of `ReleaseTools`, for all trees `TreesAssumption` admits and any bounds.
  `HostsAreUnique` (`TypeOK`, with the uniqueness of names in it), `ReaperSparesTests`
  (`RunningTestsKeepHosts`): jobs share no host, the hosts of a young job exist with its
  age, and none of them is on the reaper's list. `CacheIsComplete`
  (`PulledImagesAreCached`): what is pulled by a plain name, from a line or a variable `*_image`.
  `GateIsExact` (`GateFindsReferences`): the function that
  strips raw blocks is shown to agree, at every position of every text, with the closed
  form "there is an opening before it and no end since, and one after it".

`FullRunsDoConverge` and `RecoveriesAreExact` join the two halves of `FullRunsConverge`
and of `RecoveryIsExact`, each of which is a theorem above.

Of the type invariants and of the halves of `FullRunsConverge` and `RecoveryIsExact` the
theorems are listed without a property of a run.

The library's induction theorems take an operator as a parameter, which the provers
cannot instantiate. Where a definition is recursive (`StripRawBlocks`, `Pow2`) or walks
along a list, the proofs take the least position at which a claim fails instead
(`Least`, `LeastNumber`).

**Only model-checked:** liveness, that is `HangIsHealed`, `MarkerGoes` and `OrphansAreReaped`:
fairness and `ENABLED` are beyond the provers. Every other property of a passing run has a
theorem.

## Findings

A run shows the first one:

1. `deploy_lost_change`: a run with `--tags secrets,auth` that changes Authelia's
   configuration prints that a full deploy will apply it. The full deploy finds the
   file unchanged and does not recreate the container.

Others met while modelling, in the models but without a run of their own:

2. Switching Grafana or Loki on for an existing host makes the next full run fail at
   their recreate, which comes before the new compose file
   (`roles/monitoring/tasks/main.yml` 611–638). Alloy's has the check the two lack.
   In `DrayvePlaybook` it is the missing `"undefined"`.
3. The watchdog reads the state of the container before `docker compose restart`
   (`drayve-bouncer-watchdog.sh` 143); a deploy run may create the container in
   between. The window is shorter than before the guard, not closed; this is
   why `RestartsAreSpaced` is about a Traefik that was *seen* running.
4. A rotation cut off between hash and checksum, followed by a return to the old
   secret, leaves a wrong hash that no later run replaces
   (`roles/authelia/tasks/main.yml` 138): `Rollback = TRUE` shows it.
5. A reset cut off between the removal of the database and the marker makes a later
   run abort although database and key fit (395).
6. If the last listed container is a finished on-failure job, the list task fails,
   nothing is started, and the run stops at this host (`playbooks/host-update.yml` 243);
   lines 213–221 say that such a job is left alone.
7. `label-scanner.py` looks for services below the stack directory; services in
   `/opt/drayve/deploy` itself, where `docs/quickstart.md` 146 and 220 put them, are not found
   (`roles/deploy/tasks/main.yml` 425). `MCLabelPipeline` has the directory as `Place`.
8. A bind user whose creation was cut off after its password is not added to
   `lldap_strict_readonly` by any later run (`roles/authelia/tasks/bind-user.yml` 32); hence
   the condition of `NewBindUserCanSearch`.
9. Rotating `authelia_ldap_password` with `--tags secrets,deploy` changes the password in
   lldap and not in `configuration.yml`; hence `run.tags = "full"` in
   `AutheliaStartsWithItsUser`.
10. Removals of alert files have no register: after the last receiver was switched off
    under `--tags secrets,monitoring`, Grafana keeps the policy it has read until the next
    recreate or restart. `GrafanaAlerts` is about runs that want a receiver.
11. `docs/configuration.md` 56 says that rules with groups cannot use `bypass`; no check
    refuses one, and Authelia does not start with it. `WarningsAreEnough` leaves it out.
12. The reaper says it never touches a running test; one that is older than the threshold
    loses its hosts. `RunningTestsKeepHosts` has the age as a condition. An orphan of a
    renamed scenario is never reaped.
13. A service with `drayve.landing.name` and without a host makes "Deploy landing page"
    (`roles/deploy/tasks/main.yml` 449) fail on every run: the scanner sets no `url`
    (`label-scanner.py` 83–86), and `landing.html.j2` 182 has no default for it.
    `docs/architecture.md` 103 has name, icon and category as what a card needs. Such sites are
    in the run `labels`; `SecondRunSucceeds` has their absence as a condition.
14. The reaper's docstring says that the tests create hosts named `test-<scenario>`, and that
    the reaper is the last line of defence. `docs/testing.md` 83–84 names them
    `<namespace>-test-<scenario>`, and the match is exact
    (`reap-orphan-test-hosts.py` 70): with these names no orphan is ever selected.
    `OrphansAreReaped` therefore speaks about servers that have exactly a platform's name. The
    `Safety-destroy` step of the docstring does not exist (`release-gate-matrix.yml` 80,
    `release-gate-single.yml` 94).
15. A host that is gone when the reaper comes to it raises (119), and the orphans after it wait
    for the next run; if a listed host went in every run, they would wait for ever.
16. `auth.lldap: enabled`, a string, is true for `validate-stack.py` 104 and false for `| bool`
    in `roles/auth/tasks/main.yml` 8: the stack is accepted and gets no directory.
    The clause of `LoginWorks` about switches that are not ignored leaves such strings out.
17. `list-ci-images.py` drops references with a digest or a template inside, and variables
    whose names do not end in `_image`, although its docstring (line 5) says that the list has
    to be complete. No file of the repository has one today.

## What is not modelled

Whether an image can be pulled and a container becomes healthy; the contents of
files beyond what a decision depends on; the wording of messages; sops, age and the
handling of secrets on the controller; anything in the programs that are deployed
(Traefik's routing, Authelia's sessions, CrowdSec's decisions) beyond what a property
needs of it. In the modelled components:

* `roles/deploy`: image pulls, health waits, diagnostics; the keys taken over from an
  existing `.env`, and the registration of the bouncer.
* Authelia: the JWKS key and the users file.
* `host-update.yml`: reports and the service list.
* Authentik scripts: readiness wait, API token, choice of property mappings.
* lldap: the display names and mail addresses of users.
* Validation: required fields and enums of sections without a dependency, security
  headers, `extra_files`, password hashes, `preflight_vars.yml`, the JSON schema, and the
  warning about the host of a remote endpoint.
  Templates in `auth.provider`, `auth.lldap`, the policies and `auth.remote` are not expanded.
* Label tools: the frame's own compose file, icons, categories, the dry run.
* Release tools: the shell scripts; of `check-vars.py` the file walk, of the reaper the dry run.

Not modelled at all, with reasons in PROJECT.json: backup, the life cycle of a host,
roles `common` and `docker`, log retention, landing page and build files. Most of their
state is that of services the repository only calls.

## What may come next

1. The bouncer key in its four places, composed with `BouncerWatchdog`: a rejected key
   must not be taken for a hang.
2. Backup: services around the restic script, and the two jobs on one environment file.
3. Abstract specifications for `HostUpdate` (one host at a time) and `AuthentikSetup` (an
   idempotent set of objects).

Runs are kept few, one per question; a new module brings one run with its properties.
