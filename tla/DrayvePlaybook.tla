--------------------------- MODULE DrayvePlaybook ----------------------------
(***************************************************************************)
(* The tasks of playbooks/deploy.yml that write a file a container reads,  *)
(* decide about a container, or check that the secrets were loaded: one    *)
(* record per task, role by role, in the order the play runs them.         *)
(*                                                                         *)
(*   file     what a "write" task renders                                  *)
(*   service  the container that reads it, or that is recreated            *)
(*   watch    the registers in the `when` of a force-recreate              *)
(*   unless   its exceptions: "upped" (compose up has just created it),    *)
(*            "undefined" (the compose file has no such service),          *)
(*            "nofile" (there is no docker-compose.yml yet)                *)
(*   tags     the effective tags                                           *)
(***************************************************************************)
EXTENDS Naturals, Sequences

CONSTANT None   \* no file, no service

AllFiles == {"crowdsec.yml", "traefik.yml", "config.yaml.local", "whitelist.yaml",
             "configuration.yml", "prometheus.yml", "loki-config.yml",
             "config.alloy", "datasources", "rules.yaml"}

\* The bind mounts of docker-compose.yml.j2.
ReaderOf == [f \in AllFiles |->
  CASE f \in {"crowdsec.yml", "traefik.yml"}                    -> "traefik"
    [] f \in {"config.yaml.local", "whitelist.yaml"}            -> "crowdsec"
    [] f = "configuration.yml"                                  -> "authelia"
    [] f = "prometheus.yml"                                     -> "prometheus"
    [] f = "loki-config.yml"                                    -> "loki"
    [] f = "config.alloy"                                       -> "alloy"
    [] f \in {"datasources", "rules.yaml"}                      -> "grafana"]

\* depends_on of docker-compose.yml.j2, between these containers.
Dependencies(s) == IF s = "traefik" THEN {"crowdsec"} ELSE {}

\* crowdsec.yml carries the bouncer key, configuration.yml all of Authelia's.
FilesWithSecrets == {"crowdsec.yml", "configuration.yml"}

Step(kind, T) == [do |-> kind, file |-> None, service |-> None,
                   watch |-> {}, unless |-> {}, tags |-> T]
WriteFile(f, T) ==
  [Step("write", T) EXCEPT !.file = f, !.service = ReaderOf[f]]
Recreate(s, registers, except, T) ==
  [Step("recreate", T) EXCEPT !.service = s, !.watch = registers, !.unless = except]
GuardFor(s, T) == [Step("guard", T) EXCEPT !.service = s]

SecretsRole == << Step("secrets", {"secrets"}) >>

\* An undefined crowdsec_bouncer_key fails the template: a guard of its own.
TraefikRole == <<
  GuardFor("crowdsec", {"traefik", "crowdsec"}),
  WriteFile("crowdsec.yml", {"traefik", "crowdsec"}),
  WriteFile("config.yaml.local", {"traefik", "crowdsec"}),
  WriteFile("whitelist.yaml", {"traefik", "crowdsec"}) >>

\* The OIDC client secrets are asserted before anything is rendered.  The
\* block around the role gives its tasks the tag auth.
OidcAssert == << GuardFor("authelia", {"auth"}) >>
AutheliaRole == << WriteFile("configuration.yml", {"auth"}) >>

PrometheusTasks == << WriteFile("prometheus.yml", {"monitoring"}) >>
LokiTasks == << WriteFile("loki-config.yml", {"monitoring"}) >>
AlloyTasks == << WriteFile("config.alloy", {"monitoring"}) >>
GrafanaTasks == << WriteFile("datasources", {"monitoring", "dashboards"}) >>

\* This task has no register.  Contact points and notification policy are in
\* module GrafanaAlerting.
AlertRuleTasks == << WriteFile("rules.yaml", {"monitoring", "alerting"}) >>

MonitoringRecreates == <<
  Recreate("grafana", {"datasources"}, {"nofile"}, {"monitoring", "dashboards"}),
  Recreate("loki", {"loki-config.yml"}, {"nofile"}, {"monitoring"}),
  Recreate("alloy", {"config.alloy"}, {"nofile", "undefined"}, {"monitoring"}) >>

DeployTemplates == <<
  Step("compose", {"deploy"}),
  Step("guard", {"deploy"}),
  Step("env", {"deploy"}),
  WriteFile("traefik.yml", {"deploy", "traefik"}) >>

DeployContainers == <<
  Step("up", {"deploy"}),
  Recreate("traefik", {"traefik.yml", "crowdsec.yml"}, {}, {"deploy", "traefik"}),
  Recreate("authelia", {"configuration.yml"}, {"upped"}, {"deploy", "authelia"}),
  Recreate("prometheus", {"prometheus.yml"}, {}, {"deploy", "monitoring"}) >>

DeployCrowdsec == <<
  Recreate("crowdsec", {"config.yaml.local", "whitelist.yaml"}, {"upped"},
           {"deploy", "crowdsec"}),
  GuardFor("crowdsec", {"deploy", "crowdsec"}) >>

PostTasks == << Step("stamp", {"deploy"}) >>

DeployPlay ==
  SecretsRole \o TraefikRole \o OidcAssert \o AutheliaRole \o PrometheusTasks \o LokiTasks
  \o AlloyTasks \o GrafanaTasks \o AlertRuleTasks \o MonitoringRecreates
  \o DeployTemplates \o DeployContainers \o DeployCrowdsec \o PostTasks

\* The files and the tasks of a host whose site knows only the containers in
\* S: auth_provider, crowdsec_enabled and _mon_stack gate the others off.
FilesFor(S) == {f \in AllFiles : ReaderOf[f] \in S /\ (f = "crowdsec.yml" => "crowdsec" \in S)}
PlayFor(S) ==
  LET OnHost(t) == t.service \in S \cup {None} /\ t.file \in FilesFor(S) \cup {None}
  IN SelectSeq(DeployPlay, OnHost)

=============================================================================
