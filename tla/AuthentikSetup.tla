--------------------------- MODULE AuthentikSetup ---------------------------
(***************************************************************************)
(* The two scripts that set up Authentik over its API after compose up:    *)
(* bootstrap.py (roles/authentik) for the services of the frame, then      *)
(* auth-sync.py for the services that the compose labels name.             *)
(*                                                                         *)
(* For each service a script makes a provider and an application, and adds *)
(* the provider to the embedded outpost by reading its list and writing it *)
(* back.  Authentik fills its own database with flows, mappings and the    *)
(* outpost while the scripts already run, an operator works in its web     *)
(* interface, and an answer may be lost after the request took effect.     *)
(*                                                                         *)
(* Names are unique in Authentik, so that a provider stands for its name.  *)
(***************************************************************************)
EXTENDS Naturals

CONSTANTS
  Frames,       \* services with a proxy provider that bootstrap.py lists
  Labels,       \* services that auth-sync.py finds, with a URL
  Others,       \* providers that an operator made
  Grafana,      \* the service with an OAuth2 provider
  LdapEnabled,
  MAX_RETRIES,
  MaxPassword,  \* bound: LDAP bind passwords are 0 .. MaxPassword
  MaxRuns,      \* bound: deploy runs
  MaxFaults,    \* bound: requests without an answer, failing scripts
  None

ASSUME AuthentikAssumption ==
  /\ Grafana \notin Frames \cup Labels \cup Others
  /\ Others \cap (Frames \cup Labels) = {}
  /\ LdapEnabled \in BOOLEAN /\ None \notin Nat
  /\ MAX_RETRIES \in Nat \ {0}
  /\ MaxPassword \in Nat /\ MaxRuns \in Nat /\ MaxFaults \in Nat

Implicit == "default-provider-authorization-implicit-consent"
Explicit == "default-provider-authorization-explicit"
Invalidation == "default-provider-invalidation-flow"
Flows == {Implicit, Explicit, Invalidation}
Names == Frames \cup Labels \cup {Grafana}

VARIABLES
  provider, app,      \* names with a provider, with an application
  assigned,           \* providers of the embedded outpost
  flows, outpostUp, mappings, \* what Authentik has created so far
  source,             \* bind password of the LDAP source
  ldap_bind_password, \* the one in secrets.yml
  script, at,         \* the running script and its next request
  todo, item,         \* services left; the one in progress
  attempt,            \* of the request, up to MAX_RETRIES
  outpost, authFlow, invalFlow, \* what the script has found
  existing, existingApps, \* names that auth-sync.py found at its start
  current,            \* list of providers to be written to the outpost
  result, clean,      \* of the last run; did every request get an answer?
  runs, faults

database == <<provider, app, assigned, source>>
blueprints == <<flows, outpostUp, mappings>>
found == <<outpost, authFlow, invalFlow, existing, existingApps>>
outcome == <<result, clean, runs, faults>>
vars == <<database, blueprints, ldap_bind_password, script, at, todo, item,
          attempt, found, current, outcome>>

ItemRequests == {"provider", "postProvider", "app", "postApp", "read", "patch"}
Requests == ItemRequests \cup
  {"flows", "outpost", "next", "ldap", "patchSource", "postSource", "sync"}

-----------------------------------------------------------------------------
(* Authentik, the operator, secrets.yml                                    *)

BlueprintApplies ==
  /\ \/ \E f \in Flows : flows' = flows \cup {f} /\ UNCHANGED <<outpostUp, mappings>>
     \/ outpostUp' = TRUE /\ UNCHANGED <<flows, mappings>>
     \/ mappings' = TRUE /\ UNCHANGED <<flows, outpostUp>>
  /\ UNCHANGED <<database, ldap_bind_password, script, at, todo, item,
                 attempt, found, current, outcome>>

OperatorAssigns ==
  /\ outpostUp
  /\ \E n \in Others : assigned' = assigned \cup {n}
  /\ UNCHANGED <<provider, app, source, blueprints, ldap_bind_password, script,
                 at, todo, item, attempt, found, current, outcome>>

EditBindPassword ==
  /\ at = "idle" /\ ldap_bind_password < MaxPassword
  /\ ldap_bind_password' = ldap_bind_password + 1
  /\ UNCHANGED <<database, blueprints, script, at, todo, item, attempt, found,
                 current, outcome>>

-----------------------------------------------------------------------------
(* Requests                                                                *)

Goto(task) == at' = task /\ attempt' = 1

ScriptFails == Goto("idle") /\ result' = "failed"

Retry == attempt < MAX_RETRIES /\ attempt' = attempt + 1 /\ UNCHANGED <<at, result>>

\* No answer: try again, up to MAX_RETRIES times.  A client error (4xx) and an
\* answer that cannot be read end the attempts at once.
NoAnswer(giveUp) ==
  /\ faults < MaxFaults /\ faults' = faults + 1
  /\ clean' = FALSE
  /\ Retry \/ giveUp
  /\ UNCHANGED <<blueprints, ldap_bind_password, script, todo, item, found,
                 current, runs>>

\* An answer leads on to the next request.
Answer(task) ==
  /\ Goto(task)
  /\ UNCHANGED <<blueprints, ldap_bind_password, script, todo, item, found,
                 current, outcome>>

Raise == ScriptFails
\* auth-sync.py logs an HTTP error and goes on; other errors end it as well.
Continue(task) == ScriptFails \/ (script = "auth-sync" /\ Goto(task) /\ UNCHANGED result)

\* A request that only reads, or the host, fails for good.
RequestFails ==
  /\ at \in Requests /\ faults < MaxFaults
  /\ faults' = faults + 1 /\ clean' = FALSE
  /\ ScriptFails
  /\ UNCHANGED <<database, blueprints, ldap_bind_password, script, todo, item,
                 found, current, runs>>

-----------------------------------------------------------------------------
(* The two scripts                                                         *)

StartRun ==
  /\ at = "idle" /\ runs < MaxRuns
  /\ Goto("flows")
  /\ script' = "bootstrap" /\ result' = "none" /\ clean' = TRUE
  /\ runs' = runs + 1
  /\ UNCHANGED <<database, blueprints, ldap_bind_password, todo, item, found,
                 current, faults>>

\* The explicit flow is taken only if the implicit one is missing for long.
WaitForFlows ==
  /\ at = "flows"
  /\ \/ /\ Invalidation \in flows
        /\ \/ Implicit \in flows /\ authFlow' = Implicit
           \/ Implicit \notin flows /\ Explicit \in flows /\ authFlow' = Explicit
        /\ invalFlow' = Invalidation
        /\ Goto("outpost") /\ UNCHANGED result
     \/ /\ ~(Invalidation \in flows /\ flows \cap {Implicit, Explicit} # {})
        /\ ScriptFails /\ UNCHANGED <<authFlow, invalFlow>>
  /\ UNCHANGED <<database, blueprints, ldap_bind_password, script, todo, item,
                 outpost, existing, existingApps, current, clean, runs, faults>>

FindOutpost ==
  /\ at = "outpost"
  /\ outpost' = outpostUp
  /\ todo' = Frames \cup {Grafana}
  /\ Goto("next")
  /\ UNCHANGED <<database, blueprints, ldap_bind_password, script, item,
                 authFlow, invalFlow, existing, existingApps, current, outcome>>

NextService ==
  /\ at = "next"
  /\ \E n \in todo : item' = n /\ todo' = todo \ {n}
  /\ Goto("provider")
  /\ UNCHANGED <<database, blueprints, ldap_bind_password, script, found,
                 current, outcome>>

ServicesDone ==
  /\ at = "next" /\ todo = {}
  /\ IF script = "bootstrap" THEN Goto("ldap") /\ UNCHANGED result
     ELSE Goto("idle") /\ result' = "ok"
  /\ UNCHANGED <<database, blueprints, ldap_bind_password, script, todo, item,
                 found, current, clean, runs, faults>>

\* Mistake: an existing provider is taken for a service that is set up.
SkipExisting ==
  /\ at = "provider"
  /\ IF item \in (IF script = "bootstrap" THEN provider ELSE existing)
       THEN Answer(IF script = "bootstrap" THEN "app" ELSE "next")
       ELSE Answer("postProvider")
  /\ UNCHANGED database

\* bootstrap.py asks Authentik, auth-sync.py goes by the list of its start.
FindProvider ==
  /\ at = "provider"
  /\ IF item \in (IF script = "bootstrap" THEN provider ELSE existing)
       THEN Answer("app") ELSE Answer("postProvider")
  /\ UNCHANGED database

\* Mistake: a provider that exists already is not fetched.
PostAndSkip ==
  /\ at = "postProvider"
  /\ \/ item \in provider /\ Answer("next") /\ UNCHANGED provider
     \/ item \notin provider /\ provider' = provider \cup {item} /\ Answer("app")
     \/ provider' \in {provider, provider \cup {item}} /\ NoAnswer(Continue("next"))
  /\ UNCHANGED <<app, assigned, source>>

\* 400 "already exists": bootstrap.py fetches the provider and goes on,
\* auth-sync.py takes the next service.
PostProvider ==
  /\ at = "postProvider"
  /\ \/ /\ item \in provider
        /\ Answer(IF script = "bootstrap" THEN "app" ELSE "next")
        /\ UNCHANGED provider
     \/ item \notin provider /\ provider' = provider \cup {item} /\ Answer("app")
     \/ provider' \in {provider, provider \cup {item}} /\ NoAnswer(Continue("next"))
  /\ UNCHANGED <<app, assigned, source>>

\* Authentik's search may miss an application that exists.
FindApplication ==
  /\ at = "app"
  /\ \/ /\ item \in (IF script = "bootstrap" THEN app ELSE existingApps)
        /\ Answer("read")
     \/ /\ script = "bootstrap" \/ item \notin existingApps
        /\ Answer("postApp")
  /\ UNCHANGED database

\* 400 "already exists" counts as success.
PostApplication ==
  /\ at = "postApp"
  /\ \/ app' = app \cup {item} /\ Answer("read")
     \/ app' \in {app, app \cup {item}} /\ NoAnswer(Continue("read"))
  /\ UNCHANGED <<provider, assigned, source>>

\* Mistake: the other providers are left out of the list.
ReadNothing ==
  /\ at = "read"
  /\ IF outpost /\ item # Grafana /\ item \notin assigned
       THEN Goto("patch") /\ current' = {item}
       ELSE Goto("next") /\ UNCHANGED current
  /\ UNCHANGED <<database, blueprints, ldap_bind_password, script, todo, item,
                 found, outcome>>

ReadOutpost ==
  /\ at = "read"
  /\ IF outpost /\ item # Grafana /\ item \notin assigned
       THEN Goto("patch") /\ current' = assigned \cup {item}
       ELSE Goto("next") /\ UNCHANGED current
  /\ UNCHANGED <<database, blueprints, ldap_bind_password, script, todo, item,
                 found, outcome>>

PatchOutpost ==
  /\ at = "patch"
  /\ \/ assigned' = current /\ Answer("next")
     \/ assigned' \in {assigned, current} /\ NoAnswer(Raise)
  /\ UNCHANGED <<provider, app, source>>

\* Mistake: a source that exists is left as it is.
EnsureNewSource ==
  /\ at = "ldap"
  /\ mappings
  /\ Answer(IF source # None THEN "sync" ELSE "postSource")
  /\ UNCHANGED database

\* The source is looked up before the wait for the mappings.
EnsureLdapSource ==
  /\ at = "ldap"
  /\ \/ ~LdapEnabled /\ Answer("sync")
     \/ LdapEnabled /\ mappings
        /\ Answer(IF source # None THEN "patchSource" ELSE "postSource")
     \/ /\ LdapEnabled /\ ~mappings /\ ScriptFails
        /\ UNCHANGED <<blueprints, ldap_bind_password, script, todo, item,
                       found, current, clean, runs, faults>>
  /\ UNCHANGED database

PatchSource ==
  /\ at = "patchSource"
  /\ \/ source' = ldap_bind_password /\ Answer("sync")
     \/ source' \in {source, ldap_bind_password} /\ NoAnswer(Raise)
  /\ UNCHANGED <<provider, app, assigned>>

\* 400 "already exists" counts as success.
PostSource ==
  /\ at = "postSource"
  /\ \/ /\ source' = IF source = None THEN ldap_bind_password ELSE source
        /\ Answer("sync")
     \/ /\ source' \in {source, IF source = None THEN ldap_bind_password ELSE source}
        /\ NoAnswer(Raise)
  /\ UNCHANGED <<provider, app, assigned>>

\* auth-sync.py runs when the labels name a service.
StartSync ==
  /\ at = "sync"
  /\ IF Labels = {}
       THEN /\ Goto("idle") /\ result' = "ok"
            /\ UNCHANGED <<script, todo, found>>
       ELSE /\ Goto("next") /\ script' = "auth-sync" /\ todo' = Labels
            /\ authFlow' = IF Implicit \in flows THEN Implicit
                           ELSE IF Explicit \in flows THEN Explicit ELSE None
            /\ invalFlow' = IF Invalidation \in flows THEN Invalidation ELSE None
            /\ outpost' = outpostUp
            /\ existing' = provider /\ existingApps' = app
            /\ UNCHANGED result
  /\ UNCHANGED <<database, blueprints, ldap_bind_password, item, current, clean,
                 runs, faults>>

-----------------------------------------------------------------------------

Init ==
  /\ provider = {} /\ app = {} /\ assigned = {} /\ source = None
  /\ flows = {} /\ outpostUp = FALSE /\ mappings = FALSE
  /\ ldap_bind_password = 0
  /\ script = "bootstrap" /\ at = "idle" /\ todo = {} /\ item = None
  /\ attempt = 1 /\ outpost = FALSE /\ authFlow = None /\ invalFlow = None
  /\ existing = {} /\ existingApps = {} /\ current = {}
  /\ result = "none" /\ clean = TRUE /\ runs = 0 /\ faults = 0

Bootstrap == WaitForFlows \/ FindOutpost \/ EnsureLdapSource \/ PatchSource
             \/ PostSource
Services == NextService \/ ServicesDone \/ FindProvider \/ PostProvider
            \/ FindApplication \/ PostApplication \/ ReadOutpost \/ PatchOutpost
Environment == BlueprintApplies \/ OperatorAssigns \/ EditBindPassword

Next == StartRun \/ Bootstrap \/ Services \/ StartSync \/ RequestFails
        \/ Environment

Spec == Init /\ [][Next]_vars

-----------------------------------------------------------------------------
(* Properties                                                              *)

\* The variables have their types.
TypeOK ==
  /\ provider \subseteq Names /\ app \subseteq Names
  /\ assigned \subseteq Names \cup Others /\ current \subseteq Names \cup Others
  /\ flows \subseteq Flows /\ outpostUp \in BOOLEAN /\ mappings \in BOOLEAN
  /\ source \in 0 .. MaxPassword \cup {None}
  /\ ldap_bind_password \in 0 .. MaxPassword
  /\ script \in {"bootstrap", "auth-sync"} /\ at \in Requests \cup {"idle"}
  /\ todo \subseteq Names /\ item \in Names \cup {None}
  /\ at \in ItemRequests => item \in Names
  /\ attempt \in 1 .. MAX_RETRIES
  /\ outpost \in BOOLEAN /\ authFlow \in {Implicit, Explicit, None}
  /\ invalFlow \in {Invalidation, None}
  /\ existing \subseteq Names /\ existingApps \subseteq Names
  /\ result \in {"none", "failed", "ok"} /\ clean \in BOOLEAN
  /\ runs \in 0 .. MaxRuns /\ faults \in 0 .. MaxFaults

\* bootstrap.py.j2:468-484: a bootstrap that ends well has set up every service
\* of the frame, whatever answers were lost, here and in earlier runs.
BootstrapIsComplete ==
  at \in {"ldap", "patchSource", "postSource", "sync"} =>
    /\ Frames \cup {Grafana} \subseteq provider \cap app
    /\ outpost => Frames \subseteq assigned

\* auth-sync.py.j2:7-10: a run in which every request was answered sets up every
\* service of the labels, also those that an earlier run left half done.
CleanRunIsComplete ==
  result = "ok" /\ clean =>
    /\ Labels \subseteq provider \cap app
    /\ outpost => Labels \subseteq assigned

\* auth-sync.py.j2:198-205: writing back the list of providers drops no service
\* that a script has assigned before.
AssignmentsKept == [][assigned \cap Names \subseteq assigned']_vars

\* bootstrap.py.j2:407-408: a rotated bind password reaches Authentik.
SourceFollowsSecret ==
  LdapEnabled /\ (at = "sync" \/ (script = "auth-sync" /\ at # "idle"))
  => source = ldap_bind_password

=============================================================================
