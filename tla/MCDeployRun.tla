----------------------------- MODULE MCDeployRun -----------------------------
(* TLC instances of DeployRun: drayve's playbook on small hosts.            *)
EXTENDS DeployRun, DrayvePlaybook, TLC

\* The proxy and the login; the monitoring containers that are recreated before
\* compose up (Prometheus is recreated after it, like Traefik); smaller hosts.
Core  == {"traefik", "crowdsec", "authelia"}
Watch == {"grafana", "loki", "alloy"}
Sso   == {"traefik", "authelia"}
Mon   == {"prometheus", "grafana"}

\* Written and watched by the same tasks as config.yaml.local: one stands for both.
Twin == "whitelist.yaml"
IsNoTwin(t) == t.file # Twin

HostFile == FilesFor(Service) \ {Twin}
HostReader == [f \in HostFile |-> ReaderOf[f]]
HostDependsOn == [s \in Service |-> Dependencies(s) \cap Service]
HostPlay == SelectSeq(PlayFor(Service), IsNoTwin)
HostSecretFile == FilesWithSecrets \cap HostFile

\* The selections the docs and the fail messages of the roles name.
DocumentedTags == {{}, {"secrets", "deploy"}, {"deploy"}, {"secrets", "auth"}, {"auth"},
                   {"secrets", "traefik"}, {"secrets", "deploy", "crowdsec"},
                   {"crowdsec"}, {"monitoring"}, {"secrets", "monitoring"}, {"dashboards"}}

\* On one host, those that select a task of its containers.
HostTagSets ==
  {T \in DocumentedTags : T = {} \/ \E i \in DOMAIN HostPlay :
     HostPlay[i].service # None /\ T \cap HostPlay[i].tags # {}}

\* TLC evaluates the right-hand side of a <- anew at every use, and a
\* definition without parameters once: hence the names in between.
MCPlaybook == HostPlay
MCFile == HostFile
MCReader == HostReader
MCDependsOn == HostDependsOn
MCSecretFile == HostSecretFile
MCTagSets == HostTagSets

-----------------------------------------------------------------------------
(* Properties                                                               *)

Symmetry == Permutations(Version)
=============================================================================
