---------------------------- MODULE LabelPipeline ----------------------------
(***************************************************************************)
(* The part of a deploy run that works on Docker labels: the override file *)
(* of the site is copied to the host, scripts/multinet-label-fix.py        *)
(* rewrites it in place, scripts/label-scanner.py collects the labels of   *)
(* the services on the host, and the landing page, compose up and          *)
(* auth-sync use the results.  A run may be cut off at any point, also     *)
(* between truncating the override file and writing it.                    *)
(***************************************************************************)
EXTENDS Integers, Sequences, FiniteSets

CONSTANTS
    Sites,        \* [override, files, landing]: what an operator may have written
    PrimaryNet,   \* multinet_primary_network
    NoPin, NoUrl, \* no network label; no URL found
    MaxEdits, MaxFaults

VARIABLES
    site,      \* the override in the site repository, the service files on the host
    disk,      \* docker-compose.override.yml on the host
    data,      \* the override as multinet-label-fix.py has changed it in memory
    scanned,   \* scanned_labels: entries of label-scanner.py, a fact of the run
    box,       \* services of the override as their containers were created
    page,      \* cards on the landing page
    provider,  \* service -> URL of the proxy providers auth-sync.py has created
    stale,     \* the site has changed what roles/monitoring renders
    pc,        \* next task of the run; "idle" between runs, "done" after a good one
    failures,  \* runs that failed by themselves since the last edit or cut
    edits, faults

results == <<scanned, box, page, provider>>
bounds  == <<edits, faults>>
vars == <<site, disk, data, results, stale, pc, failures, bounds>>

------------------------------------------------------------------------------
(* Labels: a list of "key=value" or a mapping.  Keys are kinds; "rule" and
   "mws" stand for the keys of different routers, and may occur twice. *)

Kinds == {"enable", "net", "rule", "mws", "mwdef", "card", "board"}

(* What the tools tell apart: a rule with a host in backticks, without a
   host, with one in other quotes; a name for the card, or a label without
   value.  In a mapping every label has a value, and the enable labels of a
   service agree: the fixer reads the first one, Compose the last. *)

Labels ==
    {l \in [form : {"none", "list", "dict"}, items : Seq([k : Kinds, v : STRING])] :
        /\ l.form = "none" => l.items = << >>
        /\ \A i \in DOMAIN l.items :
              /\ l.items[i].k = "rule" => l.items[i].v \in {"host", "noHost", "unquoted"}
              /\ l.items[i].k = "card" => l.items[i].v \in {"name", "bare"}
              /\ l.form = "dict" => l.items[i].v # "bare"
              /\ \A j \in DOMAIN l.items :
                    l.items[i].k = "enable" /\ l.items[j].k = "enable"
                    => l.items[i].v = l.items[j].v}

Service == [nets : SUBSET STRING, labels : Labels]

ComposeFile == [at : {"stack", "root"}, service : STRING, readable : BOOLEAN, labels : Labels]

Absent == [kind |-> "absent", services |-> << >>]
Torn   == [kind |-> "torn", services |-> << >>]
Compose(services) == [kind |-> "compose", services |-> services]

\* Only a compose file has services; a service has one file.
ASSUME SitesAssumption ==
    /\ {NoPin, NoUrl} \cap STRING = {}
    /\ \A s \in Sites :
          /\ s.override.kind \in {"absent", "compose", "malformed"}
          /\ s.override.kind # "compose" => s.override.services = << >>
          /\ \A n \in DOMAIN s.override.services : s.override.services[n] \in Service
          /\ s.files \subseteq ComposeFile /\ s.landing \in BOOLEAN
          /\ \A f, g \in s.files : f.service = g.service => f = g

------------------------------------------------------------------------------
(* multinet-label-fix.py *)

\* The first flag decides; a bare flag counts in a list only.
IsTraefikEnabled(labels) ==
    \E i \in DOMAIN labels.items :
        /\ labels.items[i].k = "enable"
        /\ \A j \in 1 .. i - 1 : labels.items[j].k # "enable"
        /\ \/ labels.items[i].v = "true"
           \/ labels.form = "list" /\ labels.items[i].v = "bare"

HasExplicitTraefikNetwork(labels) ==
    \E i \in DOMAIN labels.items : labels.items[i].k = "net"

InjectLabel(labels) ==
    [form  |-> IF labels.form = "none" THEN "list" ELSE labels.form,
     items |-> Append(labels.items, [k |-> "net", v |-> PrimaryNet])]

\* Mutant of NeedsLabel: the boundary of _network_count.
NeedsLabelFromThree(svc) ==
    /\ Cardinality(svc.nets) > 2
    /\ IsTraefikEnabled(svc.labels)
    /\ ~HasExplicitTraefikNetwork(svc.labels)

NeedsLabel(svc) ==
    /\ Cardinality(svc.nets) >= 2
    /\ IsTraefikEnabled(svc.labels)
    /\ ~HasExplicitTraefikNetwork(svc.labels)

FixCompose(services) ==
    [n \in DOMAIN services |->
        IF NeedsLabel(services[n])
        THEN [services[n] EXCEPT !.labels = InjectLabel(@)]
        ELSE services[n]]

------------------------------------------------------------------------------
(* label-scanner.py.  A file holds one service here: [at, service, readable,
   labels].  "at" is "stack" below drayve_deploy_dir, "root" below
   drayve_root, where the quickstart puts the services of a site. *)

\* The labels as a mapping: an item without "=" is dropped.
Pairs(labels) ==
    {i \in DOMAIN labels.items : labels.form = "dict" \/ labels.items[i].v # "bare"}

Has(f, kind) == \E i \in Pairs(f.labels) : f.labels.items[i].k = kind

\* Value of the first label of the given kinds and not of the given values.
First(f, kinds, except, default) ==
    LET hits == {i \in Pairs(f.labels) : /\ f.labels.items[i].k \in kinds
                                         /\ f.labels.items[i].v \notin except}
    IN  IF hits = {} THEN default
        ELSE f.labels.items[CHOOSE i \in hits : \A j \in hits : i <= j].v

\* Mutant of UrlOf: the first rule decides, with or without a host.
UrlOfFirstRule(f) == First(f, {"rule"}, {}, NoUrl)

\* A rule without Host( is passed over; one whose host is not in backticks
\* ends the search without a URL.
UrlOf(f) == LET rule == First(f, {"rule"}, {"noHost"}, NoUrl)
            IN  IF rule = "unquoted" THEN NoUrl ELSE rule

\* Any key with "middlewares" in it, a definition as well as a router's list.
MiddlewaresOf(f) == First(f, {"mws", "mwdef"}, {}, "")

\* Mutant of EntryOf: the URL is not passed on.
EntryWithoutUrl(f) ==
    [service |-> f.service, url |-> NoUrl, middlewares |-> MiddlewaresOf(f),
     landing |-> Has(f, "card"), dashboard |-> Has(f, "board")]

EntryOf(f) == [service |-> f.service, url |-> UrlOf(f), middlewares |-> MiddlewaresOf(f),
               landing |-> Has(f, "card"), dashboard |-> Has(f, "board")]

\* An unreadable file is left out with a warning.
ScanDirectory(files) ==
    {EntryOf(f) : f \in {g \in files : /\ g.at = "stack"
                                       /\ g.readable
                                       /\ \/ Has(g, "card") \/ Has(g, "board")
                                          \/ Has(g, "rule")}}

AuthSyncEntries(entries) == {e \in entries : e.middlewares = "authentik"}

------------------------------------------------------------------------------
Init ==
    /\ site \in Sites
    /\ disk = Absent
    /\ data = << >> /\ scanned = {} /\ box = << >> /\ page = {}
    /\ provider = << >>
    /\ stale = TRUE
    /\ pc = "idle" /\ failures = 0 /\ edits = 0 /\ faults = 0

SiteEdit ==
    /\ pc \in {"idle", "done"} /\ edits < MaxEdits
    /\ site' \in Sites
    /\ stale' \in BOOLEAN
    /\ edits' = edits + 1 /\ pc' = "idle" /\ failures' = 0
    /\ UNCHANGED <<disk, data, results, faults>>

StartRun ==
    /\ pc \in {"idle", "done"}
    /\ pc' = "recreate"
    /\ UNCHANGED <<site, disk, data, results, stale, failures, bounds>>

\* The run ends with a failed task.  Two failures stand for more.
Fails == pc' = "idle" /\ failures' = IF failures < 2 THEN failures + 1 ELSE 2

\* Mutant of RecreateMonitoring: what has changed is kept until it succeeds.
RecreateUntilDone ==
    /\ pc = "recreate"
    /\ IF stale /\ disk.kind \in {"torn", "malformed"}
       THEN Fails /\ UNCHANGED stale
       ELSE pc' = "copy" /\ stale' = FALSE /\ UNCHANGED failures
    /\ UNCHANGED <<site, disk, data, results, bounds>>

\* roles/monitoring comes first.  When its files have changed it recreates
\* its containers with docker compose, which reads the override that an
\* earlier run has left.  The change is known to this run only.
RecreateMonitoring ==
    /\ pc = "recreate"
    /\ stale' = FALSE
    /\ IF stale /\ disk.kind \in {"torn", "malformed"}
       THEN Fails
       ELSE pc' = "copy" /\ UNCHANGED failures
    /\ UNCHANGED <<site, disk, data, results, bounds>>

\* Copied in one step, or removed when the site has none.
CopyOverride ==
    /\ pc = "copy"
    /\ disk' = site.override
    /\ pc' = IF site.override = Absent THEN "scan" ELSE "fix"
    /\ UNCHANGED <<site, data, results, stale, failures, bounds>>

\* The script reads the file.  Exit code 2 ends the run.
FixRejects ==
    /\ pc = "fix" /\ disk.kind = "malformed"
    /\ Fails
    /\ UNCHANGED <<site, disk, data, results, stale, bounds>>

\* An empty file is an empty mapping to the script.
FixLeaves ==
    /\ pc = "fix" /\ disk.kind \in {"compose", "torn"}
    /\ \A n \in DOMAIN disk.services : ~NeedsLabel(disk.services[n])
    /\ pc' = "scan"
    /\ UNCHANGED <<site, disk, data, results, stale, failures, bounds>>

\* open("w") truncates; the content follows.
FixTruncates ==
    /\ pc = "fix" /\ disk.kind = "compose"
    /\ \E n \in DOMAIN disk.services : NeedsLabel(disk.services[n])
    /\ data' = FixCompose(disk.services)
    /\ disk' = Torn
    /\ pc' = "write"
    /\ UNCHANGED <<site, results, stale, failures, bounds>>

FixWrites ==
    /\ pc = "write"
    /\ disk' = Compose(data) /\ data' = << >>
    /\ pc' = "scan"
    /\ UNCHANGED <<site, results, stale, failures, bounds>>

RunLabelScanner ==
    /\ pc = "scan"
    /\ scanned' = ScanDirectory(site.files)
    /\ pc' = "landing"
    /\ UNCHANGED <<site, disk, data, box, page, provider, stale, failures, bounds>>

Cards == {[service |-> e.service, url |-> e.url] : e \in {f \in scanned : f.landing}}

\* services.landing.enabled is false in stack.yaml.
RemoveLandingPage ==
    /\ pc = "landing" /\ ~site.landing
    /\ page' = {} /\ pc' = "up"
    /\ UNCHANGED <<site, disk, data, scanned, box, provider, stale, failures, bounds>>

\* The template has no default for app.url.
LandingFails ==
    /\ pc = "landing" /\ site.landing
    /\ \E c \in Cards : c.url = NoUrl
    /\ Fails /\ scanned' = {}
    /\ UNCHANGED <<site, disk, data, box, page, provider, stale, bounds>>

DeployLandingPage ==
    /\ pc = "landing" /\ site.landing
    /\ \A c \in Cards : c.url # NoUrl
    /\ page' = Cards /\ pc' = "up"
    /\ UNCHANGED <<site, disk, data, scanned, box, provider, stale, failures, bounds>>

ComposeUp ==
    /\ pc = "up"
    /\ box' = disk.services
    /\ pc' = "sync"
    /\ UNCHANGED <<site, disk, data, scanned, page, provider, stale, failures, bounds>>

\* A provider that exists is left as it is; an entry without URL is skipped.
RunAuthSync ==
    /\ pc = "sync"
    /\ LET todo == {e \in AuthSyncEntries(scanned) : e.url # NoUrl}
           new  == {e.service : e \in todo} \ DOMAIN provider
       IN  provider' = [s \in DOMAIN provider \cup new |->
                          IF s \in DOMAIN provider THEN provider[s]
                          ELSE (CHOOSE e \in todo : e.service = s).url]
    /\ scanned' = {} /\ pc' = "done" /\ failures' = 0
    /\ UNCHANGED <<site, disk, data, box, page, stale, bounds>>

Fault ==
    /\ pc \notin {"idle", "done"} /\ faults < MaxFaults
    /\ faults' = faults + 1 /\ pc' = "idle" /\ failures' = 0
    /\ scanned' = {} /\ data' = << >>
    /\ UNCHANGED <<site, disk, box, page, provider, stale, edits>>

Next ==
    \/ SiteEdit \/ StartRun \/ RecreateMonitoring \/ CopyOverride
    \/ FixRejects \/ FixLeaves \/ FixTruncates \/ FixWrites
    \/ RunLabelScanner \/ RemoveLandingPage \/ LandingFails \/ DeployLandingPage
    \/ ComposeUp \/ RunAuthSync \/ Fault

Spec == Init /\ [][Next]_vars

------------------------------------------------------------------------------
(* What a list of labels means to Compose (a later item wins) and Traefik. *)

Last(labels, kind, default) ==
    LET hits == {i \in DOMAIN labels.items : labels.items[i].k = kind}
    IN  IF hits = {} THEN default
        ELSE labels.items[CHOOSE i \in hits : \A j \in hits : j <= i].v

MeaningOf(svc) ==
    [nets   |-> svc.nets,
     routed |-> Last(svc.labels, "enable", "false") \in {"true", "bare"},
     pin    |-> Last(svc.labels, "net", NoPin),
     rest   |-> {svc.labels.items[i] : i \in {j \in DOMAIN svc.labels.items :
                                         svc.labels.items[j].k \notin {"enable", "net"}}}]

Meaning(services) == [n \in DOMAIN services |-> MeaningOf(services[n])]

(***************************************************************************)
(* The override runs as LabelContract promises, whatever was cut off in    *)
(* between: compose up never sees a file that is not fixed, or torn.       *)
(***************************************************************************)
Contract == INSTANCE LabelContract WITH
                Wishes  <- {Meaning(s.override.services) : s \in Sites},
                wish    <- Meaning(site.override.services),
                running <- Meaning(box)

LabelsAsPromised == Contract!Spec

Labelled(f, kind, values) ==
    \E i \in DOMAIN f.labels.items : f.labels.items[i].k = kind /\ f.labels.items[i].v \in values

MiddlewareLabels(f) == {i \in DOMAIN f.labels.items : f.labels.items[i].k \in {"mws", "mwdef"}}

(***************************************************************************)
(* After a run that ended well, a service whose router asks for            *)
(* authentik@file has a proxy provider, without which Authentik refuses    *)
(* its visitors.  For services with one label about middlewares and hosts  *)
(* in backticks: the scanner looks at the first label only.                *)
(***************************************************************************)
ProtectedServicesHaveProvider ==
    pc = "done" =>
        \A f \in site.files :
            /\ f.readable
            /\ Labelled(f, "mws", {"authentik"}) /\ Cardinality(MiddlewareLabels(f)) = 1
            /\ Labelled(f, "rule", {"host"}) /\ ~Labelled(f, "rule", {"unquoted"})
            => f.service \in DOMAIN provider

(***************************************************************************)
(* After a run that ended well the landing page has a card for every       *)
(* service with a name for it, and no other, each with a link to a host    *)
(* that one of the routers of the service has; or no card at all, if the   *)
(* page is switched off.                                                   *)
(***************************************************************************)
LandingFollowsLabels ==
    pc = "done" =>
        /\ {c.service : c \in page} =
               {f.service : f \in {g \in site.files : /\ site.landing /\ g.readable
                                                     /\ Labelled(g, "card", {"name"})}}
        /\ \A c \in page : /\ c.url = "host"
                           /\ \A f \in site.files : f.service = c.service
                                                    => Labelled(f, "rule", {"host"})

(* What no number of runs makes up for: an override that does not parse,
   and a card of a service without a host, which the page cannot link. *)
CanBeDeployed(s) ==
    /\ s.override.kind # "malformed"
    /\ \A f \in s.files :
          s.landing /\ f.at = "stack" /\ f.readable /\ Labelled(f, "card", {"name"})
          => Labelled(f, "rule", {"host"}) /\ ~Labelled(f, "rule", {"unquoted"})

(***************************************************************************)
(* A run that was cut off makes at most one later run fail: the override   *)
(* left on the host is in the way of the recreates before it is replaced,  *)
(* but only while their files change.  So does a site that was mended.     *)
(***************************************************************************)
SecondRunSucceeds == CanBeDeployed(site) => failures <= 1
==============================================================================
