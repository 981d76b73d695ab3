---------------------------- MODULE LldapBootstrap ----------------------------
(***************************************************************************)
(* lldap in a deploy run with auth.provider authelia and auth.lldap true:  *)
(* lldap alone is started and verified, the bind user of Authelia is       *)
(* created, then everything is started, and a run without tags provisions  *)
(* the users.  A run may be cut off between two requests to lldap, and a   *)
(* request may fail.                                                       *)
(*                                                                         *)
(* Passwords are versions: secret is that of secrets.yml, 0 is none.  One  *)
(* version stands for the bind user and the provisioned users.             *)
(***************************************************************************)
EXTENDS Integers, FiniteSets

CONSTANTS
    Users,               \* lldap_users
    Groups, Readonly,    \* Readonly is lldap_strict_readonly
    GroupsOf,            \* groups of a user in lldap_users
    MaxEdits,            \* edits of secrets.yml
    MaxFaults            \* requests that fail and runs that are cut off

ASSUME UsersAssumption ==
    /\ "authelia" \notin Users /\ Readonly \in Groups /\ GroupsOf \in [Users -> SUBSET Groups]
    /\ MaxEdits \in Nat /\ MaxFaults \in Nat

Accounts == Users \cup {"authelia"}

VARIABLES
    secret, cfg,         \* versions in secrets.yml and in configuration.yml on the host
    admin,               \* the admin password of secrets.yml is that of lldap
    lldap,               \* container: "absent", "starting", "healthy"
    accounts, password, member, groups,    \* the directory
    authelia,            \* container: "absent", "looping" (also while it starts), "up"
    held,                \* version the container has read
    run,                 \* the current or last run
    edits, faults

directory == <<accounts, password, member, groups>>
container == <<authelia, held>>
bounds    == <<edits, faults>>
vars == <<secret, cfg, admin, lldap, directory, container, run, bounds>>

NoRun == [pc |-> "idle", tags |-> "none", secret |-> 0, groups |-> {}, left |-> {},
          changed |-> FALSE, bad |-> FALSE, clean |-> FALSE, fresh |-> FALSE]

Resting == run.pc \in {"idle", "done"}

Bindable == "authelia" \in accounts /\ password["authelia"] = held

------------------------------------------------------------------------------
Init ==
    /\ secret = 1 /\ cfg = 0 /\ admin = TRUE /\ lldap = "absent"
    /\ accounts = {} /\ password = [a \in Accounts |-> 0] /\ member = {} /\ groups = {Readonly}
    /\ authelia = "absent" /\ held = 0
    /\ run = NoRun /\ edits = 0 /\ faults = 0

EditSecret ==
    /\ edits < MaxEdits
    /\ secret' = secret + 1 /\ edits' = edits + 1
    /\ UNCHANGED <<cfg, admin, lldap, directory, container, run, faults>>

\* The admin password of secrets.yml is changed, or changed back.
EditAdmin ==
    /\ edits < MaxEdits /\ lldap # "absent"
    /\ admin' = ~admin /\ edits' = edits + 1
    /\ UNCHANGED <<secret, cfg, lldap, directory, container, run, faults>>

\* In the web interface of lldap.
CreateGroup(g) ==
    /\ lldap = "healthy" /\ g \notin groups
    /\ groups' = groups \cup {g}
    /\ UNCHANGED <<secret, cfg, admin, lldap, accounts, password, member, container, run, bounds>>

LldapBoots ==
    /\ lldap = "starting" /\ lldap' = "healthy"
    /\ UNCHANGED <<secret, cfg, admin, directory, container, run, bounds>>

\* Authelia checks its bind when it starts and exits if that fails.
AutheliaBoots ==
    /\ authelia = "looping" /\ lldap = "healthy" /\ Bindable
    /\ authelia' = "up"
    /\ UNCHANGED <<secret, cfg, admin, lldap, directory, held, run, bounds>>

\* The connection of a run is lost.
Reboot ==
    /\ run' = IF Resting THEN run ELSE [run EXCEPT !.pc = "idle", !.clean = FALSE]
    /\ lldap' = IF lldap = "absent" THEN "absent" ELSE "starting"
    /\ authelia' = IF authelia = "absent" THEN "absent" ELSE "looping"
    /\ UNCHANGED <<secret, cfg, admin, directory, held, bounds>>

------------------------------------------------------------------------------
(* A run.  Its tags are "full" or "deploy", for --tags secrets,deploy. *)

At(pc) == run.pc = pc

Goto(pc) == run' = [run EXCEPT !.pc = pc]

Ends == run' = [run EXCEPT !.pc = "idle", !.clean = FALSE]

\* A request that the script does not get through; what it would change stays.
Fault == faults < MaxFaults /\ faults' = faults + 1

StartRun(tags) ==
    /\ Resting
    /\ tags = "deploy" => cfg # 0
    /\ run' = [NoRun EXCEPT !.pc = IF tags = "full" THEN "config" ELSE "prestart",
                            !.tags = tags, !.secret = secret, !.groups = groups,
                            !.clean = TRUE, !.fresh = "authelia" \notin accounts]
    /\ UNCHANGED <<secret, cfg, admin, lldap, directory, container, bounds>>

\* roles/authelia, before the deploy role
DeployConfiguration ==
    /\ At("config")
    /\ cfg' = run.secret
    /\ run' = [run EXCEPT !.pc = "prestart", !.changed = cfg # run.secret]
    /\ UNCHANGED <<secret, admin, lldap, directory, container, bounds>>

\* A new directory takes its admin password from .env.
StartLldapFirst ==
    /\ At("prestart")
    /\ lldap' = IF lldap = "absent" THEN "starting" ELSE lldap
    /\ Goto("ready")
    /\ UNCHANGED <<secret, cfg, admin, directory, container, bounds>>

LoopItems == Users

\* ready.yml, before and after compose up
After(pc) == IF pc = "ready" THEN "check" ELSE "provision"

Ready(pc) ==
    /\ At(pc) /\ lldap = "healthy" /\ admin
    /\ run' = [run EXCEPT !.pc = After(pc), !.left = LoopItems]
    /\ UNCHANGED <<secret, cfg, admin, lldap, directory, container, bounds>>

NotReady(pc) ==
    /\ At(pc) /\ ~(lldap = "healthy" /\ admin)
    /\ Ends
    /\ UNCHANGED <<secret, cfg, admin, lldap, directory, container, bounds>>

\* Mutant of CheckBindUser: an existing user is left as it is.
CheckBindUserExists ==
    /\ At("check")
    /\ Goto(IF "authelia" \in accounts THEN "up" ELSE "create")
    /\ UNCHANGED <<secret, cfg, admin, lldap, directory, container, bounds>>

\* The check is an attempt to set the password.
CheckBindUser ==
    /\ At("check")
    /\ IF "authelia" \in accounts
       THEN password' = [password EXCEPT !["authelia"] = run.secret] /\ Goto("up")
       ELSE Goto("create") /\ UNCHANGED password
    /\ UNCHANGED <<secret, cfg, admin, lldap, accounts, member, groups, container, bounds>>

\* A failed check is not a failed task.
CheckFails ==
    /\ At("check") /\ Fault
    /\ run' = [run EXCEPT !.pc = "create", !.clean = FALSE]
    /\ UNCHANGED <<secret, cfg, admin, lldap, directory, container, edits>>

\* createUser of an existing user is an error nobody looks at.
CreateBindUser ==
    /\ At("create")
    /\ accounts' = accounts \cup {"authelia"}
    /\ Goto("set")
    /\ UNCHANGED <<secret, cfg, admin, lldap, password, member, groups, container, bounds>>

SetBindPassword ==
    /\ At("set")
    /\ password' = IF "authelia" \in accounts
                   THEN [password EXCEPT !["authelia"] = run.secret] ELSE password
    /\ Goto("join")
    /\ UNCHANGED <<secret, cfg, admin, lldap, accounts, member, groups, container, bounds>>

\* Mutant of JoinReadonly: the group is left to the operator.
JoinNothing ==
    /\ At("join")
    /\ Goto("up")
    /\ UNCHANGED <<secret, cfg, admin, lldap, directory, container, bounds>>

JoinReadonly ==
    /\ At("join")
    /\ member' = IF "authelia" \in accounts THEN member \cup {<<"authelia", Readonly>>} ELSE member
    /\ Goto("up")
    /\ UNCHANGED <<secret, cfg, admin, lldap, accounts, password, groups, container, bounds>>

\* The script has no -e: only its last command makes the task fail.
BindRequestFails ==
    /\ run.pc \in {"create", "set"} /\ Fault
    /\ run' = [run EXCEPT !.pc = IF @ = "create" THEN "set" ELSE "join", !.clean = FALSE]
    /\ UNCHANGED <<secret, cfg, admin, lldap, directory, container, edits>>

JoinFails ==
    /\ At("join") /\ Fault /\ Ends
    /\ UNCHANGED <<secret, cfg, admin, lldap, directory, container, edits>>

\* An existing container is left alone, it waits for the recreate.
ComposeUp ==
    /\ At("up")
    /\ IF authelia = "absent"
       THEN /\ authelia' = "looping" /\ held' = cfg
            /\ run' = [run EXCEPT !.pc = "recreate", !.changed = FALSE]
       ELSE Goto("recreate") /\ UNCHANGED container
    /\ UNCHANGED <<secret, cfg, admin, lldap, directory, bounds>>

\* The tasks of post-deploy.yml do not have the tag deploy.
Last == IF run.tags = "full" THEN "ready again" ELSE "done"

RecreateAuthelia ==
    /\ At("recreate")
    /\ IF run.changed THEN authelia' = "looping" /\ held' = cfg ELSE UNCHANGED container
    /\ Goto(Last)
    /\ UNCHANGED <<secret, cfg, admin, lldap, directory, bounds>>

------------------------------------------------------------------------------
(* post-deploy.yml: three loops over the users.  A loop goes on after a    *)
(* failed item, and its task fails at the end.                             *)

Item(u) == u \in run.left /\ run' = [run EXCEPT !.left = @ \ {u}]

BadItem(u) == u \in run.left /\ run' = [run EXCEPT !.left = @ \ {u}, !.bad = TRUE, !.clean = FALSE]

ProvisionUser(u) ==
    /\ At("provision") /\ Item(u)
    /\ accounts' = accounts \cup {u}
    /\ UNCHANGED <<secret, cfg, admin, lldap, password, member, groups, container, bounds>>

SetUserPassword(u) ==
    /\ At("passwords") /\ u \in accounts /\ Item(u)
    /\ password' = [password EXCEPT ![u] = run.secret]
    /\ UNCHANGED <<secret, cfg, admin, lldap, accounts, member, groups, container, bounds>>

ItemFails(u) ==
    /\ run.pc \in {"provision", "passwords"} /\ Fault /\ BadItem(u)
    /\ UNCHANGED <<secret, cfg, admin, lldap, directory, container, edits>>

\* A group that is not there is not an error.
AddToGroups(u) ==
    /\ At("groups") /\ Item(u)
    /\ member' = member \cup {<<u, g>> : g \in GroupsOf[u] \cap groups}
    /\ UNCHANGED <<secret, cfg, admin, lldap, accounts, password, groups, container, bounds>>

\* `|| true`: some of the groups, and no failure.
AddToSomeGroups(u) ==
    /\ At("groups") /\ Fault
    /\ u \in run.left /\ run' = [run EXCEPT !.left = @ \ {u}, !.clean = FALSE]
    /\ \E some \in SUBSET (GroupsOf[u] \cap groups) : member' = member \cup {<<u, g>> : g \in some}
    /\ UNCHANGED <<secret, cfg, admin, lldap, accounts, password, groups, container, edits>>

\* Mutant of Following: users have their groups from the start.
FollowingTwo(pc) == IF pc = "provision" THEN "passwords" ELSE "done"

Following(pc) == CASE pc = "provision" -> "passwords"
                   [] pc = "passwords" -> "groups"
                   [] pc = "groups"    -> "done"

EndOfLoop ==
    /\ run.pc \in {"provision", "passwords", "groups"} /\ run.left = {}
    /\ IF run.bad THEN Ends ELSE run' = [run EXCEPT !.pc = Following(@),
                                                    !.left = IF run.pc = "groups" THEN {} ELSE LoopItems]
    /\ UNCHANGED <<secret, cfg, admin, lldap, directory, container, bounds>>

CutOff ==
    /\ ~Resting /\ Fault /\ Ends
    /\ UNCHANGED <<secret, cfg, admin, lldap, directory, container, edits>>

------------------------------------------------------------------------------
RunStep ==
    \/ \E tags \in {"full", "deploy"} : StartRun(tags)
    \/ DeployConfiguration \/ StartLldapFirst
    \/ \E pc \in {"ready", "ready again"} : Ready(pc) \/ NotReady(pc)
    \/ CheckBindUser \/ CheckFails \/ CreateBindUser \/ SetBindPassword \/ JoinReadonly
    \/ BindRequestFails \/ JoinFails
    \/ ComposeUp \/ RecreateAuthelia
    \/ \E u \in Users : \/ ProvisionUser(u) \/ SetUserPassword(u) \/ ItemFails(u)
                        \/ AddToGroups(u) \/ AddToSomeGroups(u)
    \/ EndOfLoop \/ CutOff

Environment ==
    \/ EditSecret \/ EditAdmin \/ LldapBoots \/ AutheliaBoots \/ Reboot
    \/ \E g \in Groups : CreateGroup(g)

Next == RunStep \/ Environment

Spec == Init /\ [][Next]_vars

------------------------------------------------------------------------------
(***************************************************************************)
(* Type invariant; passwords and groups belong to accounts.                *)
(***************************************************************************)
TypeOK ==
    /\ secret \in 1 .. MaxEdits + 1 /\ cfg \in 0 .. secret /\ held \in 0 .. secret
    /\ admin \in BOOLEAN /\ lldap \in {"absent", "starting", "healthy"}
    /\ authelia \in {"absent", "looping", "up"}
    /\ accounts \subseteq Accounts /\ groups \subseteq Groups
    /\ \A a \in Accounts : password[a] \in 0 .. secret /\ (password[a] # 0 => a \in accounts)
    /\ \A m \in member : m[1] \in accounts /\ m[2] \in groups
    /\ run.secret \in 0 .. secret /\ run.left \subseteq Users
    /\ edits \in 0 .. MaxEdits /\ faults \in 0 .. MaxFaults

(***************************************************************************)
(* A run without tags in which no request has failed starts Authelia only  *)
(* with a configuration its bind user can sign in with, whatever earlier   *)
(* runs left behind: no crash loop with LDAP code 49.                      *)
(***************************************************************************)
AutheliaStartsWithItsUser ==
    [][authelia' = "looping" /\ held' = cfg' /\ run.pc \in {"up", "recreate"}
       /\ <<authelia, held>>' # <<authelia, held>> /\ run.tags = "full" /\ run.clean
       => Bindable']_vars

(***************************************************************************)
(* After a run without tags that ended and in which no request failed all  *)
(* users exist with the passwords of secrets.yml and are members of those  *)
(* of their groups that were there when it began: what an earlier run did  *)
(* half way or passed over is repaired.                                    *)
(***************************************************************************)
UsersAreProvisioned ==
    run.pc = "done" /\ run.tags = "full" /\ run.clean =>
        \A u \in Users :
            /\ u \in accounts /\ password[u] = run.secret
            /\ \A g \in GroupsOf[u] \cap run.groups : <<u, g>> \in member

(***************************************************************************)
(* A run that found no bind user and in which no request failed leaves one *)
(* that may search the directory.  (One that finds a user without the      *)
(* group leaves it so.)                                                    *)
(***************************************************************************)
NewBindUserCanSearch ==
    run.pc = "done" /\ run.clean /\ run.fresh => <<"authelia", Readonly>> \in member
===============================================================================
