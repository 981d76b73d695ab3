------------------------------- MODULE RoleRun --------------------------------
(***************************************************************************)
(* The roles traefik, monitoring and deploy of one run as far as they      *)
(* write and remove the files of AuthMiddleware and GrafanaAlerting.  The  *)
(* site may be edited at any time, a run may be cut off between two tasks, *)
(* and --tags may leave out roles, the secrets role among them.            *)
(***************************************************************************)
EXTENDS Naturals, FiniteSets, AuthMiddleware, GrafanaAlerting

CONSTANTS MaxEdits, MaxFaults

ASSUME BoundsAssumption == MaxEdits \in Nat /\ MaxFaults \in Nat

VARIABLES run, edits, faults

site   == <<provider, secrets, addressed>>
host   == <<middleware, alerting, compose, grafana>>
bounds == <<edits, faults>>
vars   == <<site, host, run, bounds>>

\* --tags secrets,traefik; secrets,monitoring; monitoring; or none
TagSets == {"full", "traefik", "secrets,monitoring", "monitoring"}

\* Mutant of Position: the files of other providers are removed before the new one is written.
PositionStaleFirst ==
    [middleware |-> 2, stale |-> 1,
     email |-> 3, slack |-> 4, policy |-> 5, guard |-> 6,
     no_policy |-> 7, no_email |-> 8, no_slack |-> 9, recreate |-> 10, render |-> 11, up |-> 12]

\* The tasks in the order of the play.
Position ==
    [middleware |-> 1, stale |-> 2,
     email |-> 3, slack |-> 4, policy |-> 5, guard |-> 6,
     no_policy |-> 7, no_email |-> 8, no_slack |-> 9, recreate |-> 10, render |-> 11, up |-> 12]

Idle == 0
Done == 13

First(tags) == IF tags \in {"full", "traefik"} THEN 1 ELSE 3

Last(tags) == CASE tags = "full" -> 12 [] tags = "traefik" -> 2 [] OTHER -> 10

NoRun == [pc |-> Idle, tags |-> "none", provider |-> "none", loaded |-> FALSE, wants |-> {},
          addressed |-> {}, left |-> AuthFiles, changed |-> FALSE, file |-> FALSE]

Resting == run.pc \in {Idle, Done}

At(task) == run.pc = Position[task]

NextPc == IF run.pc = Last(run.tags) THEN Done ELSE run.pc + 1

Advance == run' = [run EXCEPT !.pc = NextPc]

Abort == run' = [run EXCEPT !.pc = Idle]

------------------------------------------------------------------------------
Init ==
    /\ provider \in Providers /\ secrets \in {None} \cup SUBSET Receivers /\ addressed = Receivers
    /\ middleware = NoMiddleware /\ contact = {} /\ policy = None
    /\ compose = None /\ grafana = None
    /\ run = NoRun /\ edits = 0 /\ faults = 0

EditSite ==
    /\ edits < MaxEdits /\ edits' = edits + 1
    /\ \/ provider' \in Providers \ {provider} /\ UNCHANGED <<secrets, addressed>>
       \/ secrets' \in ({None} \cup SUBSET Receivers) \ {secrets} /\ UNCHANGED <<provider, addressed>>
       \/ addressed' \in (SUBSET Receivers) \ {addressed} /\ UNCHANGED <<provider, secrets>>
    /\ UNCHANGED <<host, run, faults>>

Restart == GrafanaRestarts /\ UNCHANGED <<site, middleware, alerting, compose, run, bounds>>

StartRun(tags) ==
    /\ Resting
    /\ LET loaded == HasFile /\ tags # "monitoring"
       IN run' = [NoRun EXCEPT !.pc = First(tags), !.tags = tags, !.provider = provider,
                               !.loaded = loaded, !.wants = IF loaded THEN secrets ELSE {},
                               !.addressed = addressed]
    /\ UNCHANGED <<site, host, bounds>>

------------------------------------------------------------------------------
(* roles/traefik *)

Middleware ==
    /\ At("middleware")
    /\ DeployMiddleware(run.provider) /\ Advance
    /\ UNCHANGED <<site, alerting, compose, grafana, bounds>>

\* An item of the loop; the order of the items does not matter.
RemoveStale(f) ==
    /\ At("stale") /\ f \in run.left
    /\ RemoveIfStale(f, run.provider)
    /\ run' = [run EXCEPT !.left = @ \ {f}, !.pc = IF run.left = {f} THEN NextPc ELSE @]
    /\ UNCHANGED <<site, alerting, compose, grafana, bounds>>

------------------------------------------------------------------------------
(* roles/monitoring *)

\* Each contact point is preceded by an assertion that it has an address.
Missing(r) == r \in run.wants /\ r \notin run.addressed

ContactPoint(r) ==
    /\ At(r) /\ ~Missing(r)
    /\ DeployContactPoint(r, run.wants)
    /\ run' = [run EXCEPT !.pc = NextPc, !.changed = @ \/ contact' # contact]
    /\ UNCHANGED <<site, middleware, policy, compose, grafana, bounds>>

AddressMissing(r) ==
    /\ At(r) /\ Missing(r) /\ Abort
    /\ UNCHANGED <<site, host, bounds>>

Policy ==
    /\ At("policy")
    /\ DeployPolicy(run.wants)
    /\ run' = [run EXCEPT !.pc = NextPc, !.changed = @ \/ policy' # policy]
    /\ UNCHANGED <<site, middleware, contact, compose, grafana, bounds>>

\* file is the register of the check whether secrets.yml exists.
Guard ==
    /\ At("guard")
    /\ IF GuardHolds(run.loaded, run.wants)
       THEN run' = [run EXCEPT !.pc = NextPc, !.file = HasFile]
       ELSE Abort
    /\ UNCHANGED <<site, host, bounds>>

NoPolicy ==
    /\ At("no_policy")
    /\ RemovePolicy(run.wants) /\ Advance
    /\ UNCHANGED <<site, middleware, contact, compose, grafana, bounds>>

NoContactPoint(r) ==
    /\ run.pc = (IF r = "email" THEN Position["no_email"] ELSE Position["no_slack"])
    /\ RemoveContactPoint(r, run.wants) /\ Advance
    /\ UNCHANGED <<site, middleware, policy, compose, grafana, bounds>>

\* Dashboards and data sources may have changed as well.  A removal has no register.
RecreateGrafana ==
    /\ At("recreate")
    /\ \E other \in BOOLEAN : ForceRecreate(run.changed \/ other)
    /\ Advance
    /\ UNCHANGED <<site, middleware, alerting, compose, bounds>>

------------------------------------------------------------------------------
(* roles/deploy *)

\* docker-compose.yml, the guard, .env.  The compose file is rendered before the guard.
Render ==
    /\ At("render")
    /\ RenderCompose(run.wants)
    /\ IF HasFile /\ ~run.loaded THEN Abort ELSE Advance
    /\ UNCHANGED <<site, middleware, alerting, grafana, bounds>>

Up ==
    /\ At("up")
    /\ ComposeUp /\ Advance
    /\ UNCHANGED <<site, middleware, alerting, compose, bounds>>

CutOff ==
    /\ ~Resting /\ faults < MaxFaults
    /\ faults' = faults + 1 /\ Abort
    /\ UNCHANGED <<site, host, edits>>

------------------------------------------------------------------------------
Next ==
    \/ EditSite \/ Restart \/ CutOff
    \/ \E tags \in TagSets : StartRun(tags)
    \/ Middleware
    \/ \E f \in AuthFiles : RemoveStale(f)
    \/ \E r \in Receivers : ContactPoint(r) \/ AddressMissing(r) \/ NoContactPoint(r)
    \/ Policy \/ Guard \/ NoPolicy \/ RecreateGrafana
    \/ Render \/ Up

Spec == Init /\ [][Next]_vars

------------------------------------------------------------------------------
(***************************************************************************)
(* Type invariant; a policy on the host names at least one receiver.       *)
(***************************************************************************)
TypeOK ==
    /\ provider \in Providers /\ secrets \in {None} \cup SUBSET Receivers
    /\ addressed \subseteq Receivers
    /\ middleware \in [AuthFiles -> Providers \cup {"absent"}]
    /\ contact \subseteq Receivers /\ policy \in {None} \cup ((SUBSET Receivers) \ {{}})
    /\ compose \in {None} \cup SUBSET Receivers
    /\ run.pc \in Idle .. Done /\ run.wants \subseteq Receivers /\ run.left \subseteq AuthFiles
    /\ edits \in 0 .. MaxEdits /\ faults \in 0 .. MaxFaults

(***************************************************************************)
(* A run for a provider other than `none` leaves no moment at which a      *)
(* middleware `auth` that was there is gone, not even when it is cut off   *)
(* and not when the file is shared by two providers: a protected service   *)
(* is never without its middleware while Traefik watches.                  *)
(***************************************************************************)
AuthIsAlwaysDefined ==
    [][run.pc # Idle /\ run.provider # "none" /\ Defining # {} => Defining' # {}]_vars

(***************************************************************************)
(* "the file defines the middleware `auth`, which must exist exactly once" *)
(* (roles/traefik/tasks/main.yml:46-47): so it is after the last task of   *)
(* the role, whatever earlier runs left, and with this run's content.      *)
(***************************************************************************)
AuthIsDefinedOnce ==
    run.pc = Done /\ run.tags \in {"full", "traefik"} =>
        {middleware[f] : f \in Defining} = {run.provider} \ {"none"} /\ Cardinality(Defining) <= 1

(***************************************************************************)
(* At any moment, for Grafana may restart at any moment, every receiver    *)
(* the policy on the host names has its contact point on the host.         *)
(***************************************************************************)
PolicyReceiversExist == policy # None => policy \subseteq contact

(***************************************************************************)
(* "fail before the delete" (roles/monitoring/tasks/main.yml:500): a run   *)
(* that found secrets.yml and did not load it removes no alert             *)
(* configuration, also if an earlier run was cut off among the removals.   *)
(***************************************************************************)
NothingRemovedWithoutSecrets ==
    [][run.tags # "none" /\ ~run.loaded /\ (run.pc < Position["guard"] \/ run.file) =>
        contact \subseteq contact' /\ (policy # None => policy' # None)]_vars

(***************************************************************************)
(* If no run was cut off, after a run without tags Grafana has read a      *)
(* policy with all the receivers the site wants and has their secrets in   *)
(* its environment, in whichever order tags, edits and restarts came.      *)
(***************************************************************************)
GrafanaAlerts ==
    run.pc = Done /\ run.tags = "full" /\ faults = 0 /\ run.wants # {} =>
        grafana.env = run.wants /\ grafana.policy = run.wants /\ run.wants \subseteq grafana.contact
===============================================================================
