---------------------------- MODULE GrafanaAlerting ---------------------------
(***************************************************************************)
(* Grafana's alert provisioning in roles/monitoring: a contact point each  *)
(* for email (grafana_smtp_host) and Slack (grafana_slack_token), and a    *)
(* root policy that names them.  Files are removed when their secret is    *)
(* gone, and a guard tells that from a run without secrets.                *)
(*                                                                         *)
(* loaded and wants are facts of a run: were the secrets loaded, and the   *)
(* receivers they ask for, none if they were not.                          *)
(***************************************************************************)
CONSTANT None

Receivers == {"email", "slack"}

ASSUME NoneAssumption == \A R \in SUBSET Receivers : None # R

VARIABLES
    secrets,       \* receivers with a secret in secrets.yml, None without the file
    addressed,     \* receivers with an address or a channel in stack.yaml
    contact,       \* contact point files on the host
    policy,        \* receivers in policies.yaml, None without the file
    compose,       \* receivers in Grafana's environment in docker-compose.yml and .env, None without the file
    grafana        \* the container: its environment, and the files it read; None

alerting == <<contact, policy>>

HasFile == secrets # None

Started == [env |-> compose, contact |-> contact, policy |-> policy]

DeployContactPoint(r, wants) == contact' = IF r \in wants THEN contact \cup {r} ELSE contact

\* Without SMTP the root receiver is Grafana's own.
DeployPolicy(wants) == policy' = IF wants # {} THEN wants ELSE policy

\* Mutant of GuardHolds: only the policy is guarded.
GuardsPolicy(loaded, wants) == HasFile /\ ~loaded /\ wants = {} => policy = None

GuardHolds(loaded, wants) ==
    HasFile /\ ~loaded =>
        /\ wants = {} => policy = None
        /\ \A r \in Receivers : r \notin wants => r \notin contact

RemovePolicy(wants) == policy' = IF wants = {} THEN None ELSE policy

\* Mutant of RemoveContactPoint: a contact point goes as soon as one of the two is not wanted.
RemoveBoth(r, wants) == contact' = IF wants = Receivers THEN contact ELSE {}

RemoveContactPoint(r, wants) == contact' = IF r \in wants THEN contact ELSE contact \ {r}

\* docker compose up -d --force-recreate grafana, with the compose file of an earlier run
ForceRecreate(changed) ==
    grafana' = IF changed /\ compose # None THEN Started ELSE grafana

RenderCompose(wants) == compose' = wants

\* Mutant of ComposeUp: a container that is there is left to the force-recreate.
ComposeUpIfAbsent == grafana' = IF grafana = None THEN Started ELSE grafana

ComposeUp ==
    grafana' = IF grafana = None THEN Started
               ELSE IF grafana.env # compose THEN Started ELSE grafana

\* A restart keeps the environment and reads the files again.
GrafanaRestarts ==
    /\ grafana # None
    /\ grafana' = [grafana EXCEPT !.contact = contact, !.policy = policy]
===============================================================================
