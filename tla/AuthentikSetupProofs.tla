------------------------ MODULE AuthentikSetupProofs ------------------------
(***************************************************************************)
(* What is proved about the two scripts for any sets of services, any      *)
(* number of attempts, and any number of runs and lost answers.  While a   *)
(* script goes through its services, each one that is neither left nor in  *)
(* progress is settled; of the one in progress, the request that is next   *)
(* tells what is there already.  For auth-sync.py this holds as long as    *)
(* every request was answered.                                             *)
(***************************************************************************)
EXTENDS AuthentikSetup, TLAPS

USE AuthentikAssumption

InProgress == IF at \in ItemRequests THEN {item} ELSE {}
Wanted == IF script = "bootstrap" THEN Frames \cup {Grafana} ELSE Labels
Strict == script = "bootstrap" \/ clean

Settled(n) ==
  n \in provider \cap app /\ (outpost /\ n # Grafana => n \in assigned)

\* Where the loop over the services stands.
LoopInv ==
  /\ at \in ItemRequests \cup {"next"} =>
       todo \cup InProgress \subseteq Wanted /\ todo \cap InProgress = {}
  /\ at \in {"flows", "outpost", "ldap", "patchSource", "postSource", "sync"}
       => script = "bootstrap"
  /\ script = "auth-sync" => existing \subseteq provider /\ existingApps \subseteq app

\* What is there already of the service in progress.
ItemInv ==
  /\ at \in {"app", "postApp", "read", "patch"} => item \in provider
  /\ at \in {"read", "patch"} /\ Strict => item \in app
  /\ at = "patch" => item \in current /\ assigned \cap Names \subseteq current

\* With every request answered, auth-sync.py never meets a provider that was
\* not there at its start.
FreshInv ==
  script = "auth-sync" /\ clean =>
    /\ at \in ItemRequests \cup {"next"} => provider \cap todo \subseteq existing
    /\ at = "provider" /\ item \in provider => item \in existing
    /\ at = "postProvider" => item \notin provider

SettledInv ==
  at \in ItemRequests \cup {"next"} /\ Strict =>
    \A n \in Wanted \ (todo \cup InProgress) : Settled(n)

\* What a run has achieved when it is over.
ResultInv ==
  /\ result = "ok" => at = "idle"
  /\ CleanRunIsComplete
  /\ BootstrapIsComplete

SetupInv == LoopInv /\ ItemInv /\ FreshInv /\ SettledInv /\ ResultInv

-----------------------------------------------------------------------------

LEMMA Counting ==
  /\ 1 \in 1 .. MAX_RETRIES
  /\ \A a \in 1 .. MAX_RETRIES : a < MAX_RETRIES => a + 1 \in 1 .. MAX_RETRIES
  /\ \A f \in 0 .. MaxFaults : f < MaxFaults => f + 1 \in 0 .. MaxFaults
  /\ \A r \in 0 .. MaxRuns : r < MaxRuns => r + 1 \in 0 .. MaxRuns
  /\ \A p \in 0 .. MaxPassword : p < MaxPassword => p + 1 \in 0 .. MaxPassword
  OBVIOUS

\* What an answer leaves alone, and where the script may be after it.
LEMMA AnswerTypes ==
  ASSUME TypeOK, NEW task \in Requests, Answer(task)
  PROVE  /\ at' = task /\ attempt' \in 1 .. MAX_RETRIES
         /\ UNCHANGED <<blueprints, ldap_bind_password, script, todo, item,
                        found, current, outcome>>
  BY Counting DEF Answer, Goto

\* A request without an answer is tried again, or ends the script or the
\* work on the service.
LEMMA NoAnswerTypes ==
  ASSUME TypeOK, at \in Requests, NEW task \in Requests,
         NoAnswer(Raise) \/ NoAnswer(Continue(task))
  PROVE  /\ at' \in {at, "idle"} \/ (at' = task /\ script = "auth-sync")
         /\ attempt' \in 1 .. MAX_RETRIES /\ faults' \in 0 .. MaxFaults
         /\ result' \in {result, "failed"} /\ clean' = FALSE
         /\ UNCHANGED <<blueprints, ldap_bind_password, script, todo, item,
                        found, current, runs>>
<1>1. faults' \in 0 .. MaxFaults
  BY Counting DEF NoAnswer, TypeOK
<1>2. attempt' \in 1 .. MAX_RETRIES
  BY Counting DEF NoAnswer, Retry, Raise, Continue, ScriptFails, Goto, TypeOK
<1> QED BY <1>1, <1>2 DEF NoAnswer, Retry, Raise, Continue, ScriptFails, Goto

\* Every step keeps the type invariant.
LEMMA TypeStep == ASSUME TypeOK, [Next]_vars PROVE TypeOK'
<1> USE DEF database, blueprints, found, outcome
<1>1. CASE Environment
  <2>1. CASE BlueprintApplies
    <3>1. flows' \subseteq Flows /\ outpostUp' \in BOOLEAN /\ mappings' \in BOOLEAN
      BY <2>1 DEF BlueprintApplies, TypeOK
    <3> QED BY <2>1, <3>1 DEF BlueprintApplies, TypeOK
  <2>2. CASE OperatorAssigns
    BY <2>2 DEF OperatorAssigns, TypeOK
  <2>3. CASE EditBindPassword
    BY <2>3, Counting DEF EditBindPassword, TypeOK
  <2> QED BY <1>1, <2>1, <2>2, <2>3 DEF Environment
<1>2. CASE StartRun
  BY <1>2, Counting DEF StartRun, Goto, TypeOK, Requests, ItemRequests
<1>3. CASE RequestFails
  <2>1. faults' \in 0 .. MaxFaults
    BY <1>3, Counting DEF RequestFails, TypeOK
  <2>2. attempt' \in 1 .. MAX_RETRIES
    BY <1>3, Counting DEF RequestFails, ScriptFails, Goto
  <2>3. at' = "idle" /\ result' = "failed" /\ clean' = FALSE
    BY <1>3 DEF RequestFails, ScriptFails, Goto
  <2> QED BY <2>1, <2>2, <2>3, <1>3 DEF RequestFails, TypeOK, ItemRequests
<1>4. CASE WaitForFlows
  <2>1. attempt' \in 1 .. MAX_RETRIES
    BY <1>4, Counting DEF WaitForFlows, ScriptFails, Goto
  <2> QED BY <2>1, <1>4 DEF WaitForFlows, ScriptFails, Goto, TypeOK, Requests, ItemRequests
<1>5. CASE FindOutpost \/ NextService \/ ReadOutpost
  <2>1. attempt' \in 1 .. MAX_RETRIES
    BY <1>5, Counting DEF FindOutpost, NextService, ReadOutpost, Goto
  <2>2. CASE FindOutpost
    BY <2>1, <2>2 DEF FindOutpost, Goto, TypeOK, Requests, ItemRequests, Names
  <2>3. CASE NextService
    BY <2>1, <2>3 DEF NextService, Goto, TypeOK, Requests, ItemRequests
  <2>4. CASE ReadOutpost
    <3>1. item \in Names
      BY <2>4 DEF ReadOutpost, TypeOK, ItemRequests
    <3> QED BY <2>1, <2>4, <3>1 DEF ReadOutpost, Goto, TypeOK, Requests, ItemRequests
  <2> QED BY <1>5, <2>2, <2>3, <2>4
<1>6. CASE ServicesDone \/ StartSync
  <2>1. attempt' \in 1 .. MAX_RETRIES
    BY <1>6, Counting DEF ServicesDone, StartSync, Goto
  <2>2. CASE ServicesDone
    BY <2>1, <2>2 DEF ServicesDone, Goto, TypeOK, Requests, ItemRequests
  <2>3. CASE StartSync
    BY <2>1, <2>3 DEF StartSync, Goto, TypeOK, Requests, ItemRequests, Names
  <2> QED BY <1>6, <2>2, <2>3
<1>7. CASE FindProvider \/ FindApplication
  <2>1. PICK task \in {"app", "postProvider", "read", "postApp"} : Answer(task)
    BY <1>7 DEF FindProvider, FindApplication
  <2>2. item \in Names
    BY <1>7 DEF FindProvider, FindApplication, TypeOK, ItemRequests
  <2> QED
    BY <2>1, <2>2, <1>7, AnswerTypes
       DEF FindProvider, FindApplication, TypeOK, Requests, ItemRequests
<1>8. CASE PostProvider \/ PostApplication \/ PatchOutpost
  <2>1. /\ item \in Names
        /\ provider' \in {provider, provider \cup {item}}
        /\ app' \in {app, app \cup {item}}
        /\ assigned' \in {assigned, current} /\ source' = source
    BY <1>8 DEF PostProvider, PostApplication, PatchOutpost, TypeOK, ItemRequests
  <2>2. CASE \E task \in {"app", "next", "read"} : Answer(task)
    BY <2>1, <2>2, AnswerTypes DEF TypeOK, Requests, ItemRequests
  <2>3. CASE NoAnswer(Raise) \/ \E task \in {"next", "read"} : NoAnswer(Continue(task))
    <3>1. at \in ItemRequests
      BY <1>8 DEF PostProvider, PostApplication, PatchOutpost, ItemRequests
    <3>2. PICK task \in {"next", "read"} : NoAnswer(Raise) \/ NoAnswer(Continue(task))
      BY <2>3
    <3>3. task \in Requests /\ at \in Requests
      BY <3>1 DEF Requests, ItemRequests
    <3>4. provider' \subseteq Names /\ app' \subseteq Names
      BY <2>1 DEF TypeOK
    <3>5. assigned' \subseteq Names \cup Others /\ source' = source
      BY <2>1 DEF TypeOK
    <3>6. at' \in Requests \cup {"idle"}
      BY <3>2, <3>3, NoAnswerTypes
    <3> QED BY <2>1, <3>2, <3>3, <3>4, <3>5, <3>6, NoAnswerTypes DEF TypeOK
  <2> QED BY <1>8, <2>2, <2>3 DEF PostProvider, PostApplication, PatchOutpost
<1>9. CASE EnsureLdapSource
  <2>1. CASE \E task \in {"sync", "patchSource", "postSource"} : Answer(task)
    BY <2>1, <1>9, AnswerTypes DEF EnsureLdapSource, TypeOK, Requests, ItemRequests
  <2>2. CASE ScriptFails /\ UNCHANGED <<blueprints, ldap_bind_password, script,
                 todo, item, found, current, clean, runs, faults>>
    BY <2>2, <1>9, Counting
       DEF EnsureLdapSource, ScriptFails, Goto, TypeOK, ItemRequests
  <2> QED BY <1>9, <2>1, <2>2 DEF EnsureLdapSource
<1>10. CASE PatchSource \/ PostSource
  <2>1. /\ source' \in {source, ldap_bind_password}
        /\ UNCHANGED <<provider, app, assigned>>
    BY <1>10 DEF PatchSource, PostSource
  <2>2. CASE Answer("sync")
    BY <2>1, <2>2, AnswerTypes DEF TypeOK, Requests, ItemRequests
  <2>3. CASE NoAnswer(Raise)
    <3>1. at \in Requests /\ at \notin ItemRequests /\ "sync" \in Requests
      BY <1>10 DEF PatchSource, PostSource, Requests, ItemRequests
    <3>2. at' \in {at, "idle"} \/ at' = "sync"
      BY <2>3, <3>1, NoAnswerTypes
    <3>3. at' \notin ItemRequests /\ at' \in Requests \cup {"idle"}
      BY <3>1, <3>2 DEF Requests, ItemRequests
    <3> QED BY <2>1, <2>3, <3>1, <3>3, NoAnswerTypes DEF TypeOK
  <2> QED BY <1>10, <2>2, <2>3 DEF PatchSource, PostSource
<1>11. CASE UNCHANGED vars
  BY <1>11 DEF vars, TypeOK
<1> QED
  BY <1>1, <1>2, <1>3, <1>4, <1>5, <1>6, <1>7, <1>8, <1>9, <1>10, <1>11
     DEF Next, Bootstrap, Services

\* The variables have their types, for every value of the constants.
THEOREM TypeCorrect == Spec => []TypeOK
<1>1. Init => TypeOK
  <2> SUFFICES ASSUME Init PROVE TypeOK
    OBVIOUS
  <2>1. /\ runs \in 0 .. MaxRuns /\ faults \in 0 .. MaxFaults
        /\ ldap_bind_password \in 0 .. MaxPassword /\ attempt \in 1 .. MAX_RETRIES
    BY DEF Init
  <2>2. at \in Requests \cup {"idle"} /\ at \notin ItemRequests
    BY DEF Init, ItemRequests
  <2> QED BY <2>1, <2>2 DEF Init, TypeOK
<1>2. QED BY <1>1, TypeStep, PTL DEF Spec

-----------------------------------------------------------------------------

\* A failing script leaves its database and what it knew as they are.
LEMMA FailureIsQuiet ==
  ASSUME TypeOK, SetupInv, at' = "idle", result' = "failed",
         script' = script, UNCHANGED found,
         provider \subseteq provider', app \subseteq app'
  PROVE  SetupInv'
  BY DEF SetupInv, LoopInv, ItemInv, FreshInv, SettledInv, ResultInv,
     CleanRunIsComplete, BootstrapIsComplete, InProgress, ItemRequests, found

\* A step from one request of a service to another.
LEMMA InProgressStays ==
  ASSUME at \in ItemRequests, at' \in ItemRequests,
         UNCHANGED <<item, script, outcome>>
  PROVE  InProgress' = InProgress /\ Wanted' = Wanted /\ Strict' = Strict
  BY DEF InProgress, Wanted, Strict, outcome

\* Every step keeps the invariant.
LEMMA SetupStep == ASSUME TypeOK, SetupInv, [Next]_vars PROVE SetupInv'
<1> USE DEF SetupInv, LoopInv, ItemInv, FreshInv, SettledInv, ResultInv,
            CleanRunIsComplete, BootstrapIsComplete, InProgress, ItemRequests,
            Wanted, Strict, Settled, database, blueprints, found, outcome
<1>0. script \in {"bootstrap", "auth-sync"}
  BY DEF TypeOK
<1>1. CASE Environment
  <2>1. CASE BlueprintApplies \/ EditBindPassword
    BY <2>1 DEF BlueprintApplies, EditBindPassword
  <2>2. CASE OperatorAssigns
    <3>1. assigned \subseteq assigned' /\ assigned' \cap Names = assigned \cap Names
      BY <2>2 DEF OperatorAssigns, Names
    <3> QED BY <3>1, <2>2 DEF OperatorAssigns
  <2> QED BY <1>1, <2>1, <2>2 DEF Environment
<1>2. CASE StartRun \/ WaitForFlows \/ FindOutpost
  <2>1. CASE StartRun
    BY <2>1 DEF StartRun, Goto
  <2>2. CASE WaitForFlows
    BY <2>2 DEF WaitForFlows, Goto, ScriptFails
  <2>3. CASE FindOutpost
    BY <2>3 DEF FindOutpost, Goto
  <2> QED BY <1>2, <2>1, <2>2, <2>3
<1>3. CASE RequestFails
  BY <1>3, FailureIsQuiet DEF RequestFails, ScriptFails, Goto
<1>4. CASE NextService
  BY <1>4 DEF NextService, Goto, Answer
<1>5. CASE ServicesDone
  BY <1>5 DEF ServicesDone, Goto
<1>6. CASE FindProvider
  <2>1. /\ at = "provider" /\ at' \in {"app", "postProvider"}
        /\ at' = "app" => item \in provider
        /\ UNCHANGED <<database, script, todo, item, found, outcome>>
        /\ at' = "postProvider" /\ script = "auth-sync" => item \notin existing
    BY <1>0, <1>6 DEF FindProvider, Answer, Goto
  <2> QED BY <2>1, InProgressStays
<1>7. CASE FindApplication
  <2>1. /\ at = "app" /\ at' \in {"read", "postApp"}
        /\ at' = "read" => item \in app
        /\ UNCHANGED <<database, script, todo, item, found, outcome>>
    BY <1>0, <1>7 DEF FindApplication, Answer, Goto
  <2> QED BY <2>1, InProgressStays
<1>8. CASE ReadOutpost
  BY <1>8 DEF ReadOutpost, Goto
<1>9. CASE StartSync
  BY <1>9 DEF StartSync, Goto
<1>10. CASE UNCHANGED vars
  BY <1>10 DEF vars
<1>11. CASE EnsureLdapSource
  BY <1>11 DEF EnsureLdapSource, Answer, Goto, ScriptFails
<1>12. CASE PostProvider
  <2>1. CASE \/ /\ item \in provider /\ provider' = provider
                /\ Answer(IF script = "bootstrap" THEN "app" ELSE "next")
             \/ /\ item \notin provider /\ provider' = provider \cup {item}
                /\ Answer("app")
    <3>1. /\ at = "postProvider" /\ item \in provider'
          /\ provider' \in {provider, provider \cup {item}}
          /\ UNCHANGED <<app, assigned, source, script, todo, item, found, outcome>>
      BY <1>12, <2>1 DEF PostProvider, Answer
    <3>2. item \notin todo
      BY <3>1
    <3>3. CASE at' = "app"
      BY <3>1, <3>2, <3>3, InProgressStays
    <3>4. CASE at' = "next" /\ script = "auth-sync" /\ ~clean
      BY <3>1, <3>2, <3>4
    <3>5. at' = "app" \/ (at' = "next" /\ script = "auth-sync" /\ item \in provider)
      BY <1>0, <2>1 DEF Answer, Goto
    <3>6. script = "auth-sync" /\ item \in provider => ~clean
      BY <3>1
    <3> QED BY <3>3, <3>4, <3>5, <3>6
  <2>2. CASE NoAnswer(Continue("next"))
    BY <1>12, <2>2, NoAnswerTypes DEF PostProvider, Requests
  <2> QED BY <1>12, <2>1, <2>2 DEF PostProvider
<1>13. CASE PostApplication
  <2>1. CASE app' = app \cup {item} /\ Answer("read")
    <3>1. /\ at = "postApp" /\ at' = "read" /\ app' = app \cup {item}
          /\ UNCHANGED <<provider, assigned, source, script, todo, item, found,
                         outcome>>
      BY <1>13, <2>1 DEF PostApplication, Answer, Goto
    <3> QED BY <3>1, InProgressStays
  <2>2. CASE NoAnswer(Continue("read"))
    BY <1>13, <2>2, NoAnswerTypes DEF PostApplication, Requests
  <2> QED BY <1>13, <2>1, <2>2 DEF PostApplication
<1>14. CASE PatchOutpost
  <2>1. CASE assigned' = current /\ Answer("next")
    <3>1. /\ at = "patch" /\ at' = "next" /\ assigned' = current
          /\ UNCHANGED <<provider, app, source, script, todo, item, found, outcome>>
      BY <1>14, <2>1 DEF PatchOutpost, Answer, Goto
    <3>2. Wanted \subseteq Names
      BY DEF Names
    <3>3. assigned \cap Names \subseteq assigned' /\ item \in assigned'
      BY <3>1
    <3>4. Strict => Settled(item)'
      BY <3>1, <3>3
    <3>5. \A n \in Names : Settled(n) => Settled(n)'
      BY <3>1, <3>3
    <3>6. SettledInv'
      BY <3>1, <3>2, <3>4, <3>5
    <3>7. CleanRunIsComplete'
      BY <3>1
    <3> QED BY <3>1, <3>6, <3>7
  <2>2. CASE NoAnswer(Raise)
    <3>1. /\ at = "patch" /\ at' \in {"patch", "idle", "next"}
          /\ assigned' \in {assigned, current} /\ clean' = FALSE
          /\ result' \in {result, "failed"}
          /\ UNCHANGED <<provider, app, source, script, todo, item, found, current>>
      BY <1>14, <2>2, NoAnswerTypes DEF PatchOutpost, Requests
    <3>2. at' # "next"
      BY <2>2, <3>1 DEF NoAnswer, Retry, Raise, ScriptFails, Goto
    <3>3. CASE at' = "idle"
      BY <3>1, <3>3, <2>2
    <3>4. CASE at' = "patch"
      <4>1. assigned \cap Names \subseteq assigned' /\ assigned' \cap Names \subseteq current
        BY <3>1
      <4>2. Wanted \subseteq Names
        BY DEF Names
      <4>3. \A n \in Names : Settled(n) => Settled(n)'
        BY <3>1, <4>1
      <4>4. SettledInv'
        BY <3>1, <3>4, <4>2, <4>3
      <4> QED BY <3>1, <3>4, <4>1, <4>4
    <3> QED BY <3>1, <3>2, <3>3, <3>4
  <2> QED BY <1>14, <2>1, <2>2 DEF PatchOutpost
<1>15. CASE PatchSource \/ PostSource
  <2>1. CASE Answer("sync")
    BY <1>15, <2>1 DEF PatchSource, PostSource, Answer, Goto
  <2>2. CASE NoAnswer(Raise)
    BY <1>15, <2>2, NoAnswerTypes DEF PatchSource, PostSource, Requests
  <2> QED BY <1>15, <2>1, <2>2 DEF PatchSource, PostSource
<1> QED
  BY <1>1, <1>2, <1>3, <1>4, <1>5, <1>6, <1>7, <1>8, <1>9, <1>10, <1>11,
     <1>12, <1>13, <1>14, <1>15 DEF Next, Bootstrap, Services

LEMMA SetupInvariant == Spec => []SetupInv
<1>1. Init => SetupInv
  BY DEF Init, SetupInv, LoopInv, ItemInv, FreshInv, SettledInv, ResultInv,
     CleanRunIsComplete, BootstrapIsComplete, InProgress, ItemRequests
<1>2. QED BY <1>1, SetupStep, TypeCorrect, PTL DEF Spec

\* A bootstrap that ends well has set up the frame (bootstrap.py.j2:468-484).
THEOREM BootstrapSetsUp == Spec => []BootstrapIsComplete
<1>1. SetupInv => BootstrapIsComplete
  BY DEF SetupInv, ResultInv
<1>2. QED BY <1>1, SetupInvariant, PTL

\* A run in which every request was answered sets up the services of the
\* labels (auth-sync.py.j2:7-10).
THEOREM CleanRunSetsUp == Spec => []CleanRunIsComplete
<1>1. SetupInv => CleanRunIsComplete
  BY DEF SetupInv, ResultInv
<1>2. QED BY <1>1, SetupInvariant, PTL

\* Writing back the list of providers drops no service that a script has
\* assigned (auth-sync.py.j2:198-205).
THEOREM AssignmentsStay == Spec => AssignmentsKept
<1>1. SetupInv /\ [Next]_vars => [assigned \cap Names \subseteq assigned']_vars
  <2> SUFFICES ASSUME SetupInv, Next PROVE assigned \cap Names \subseteq assigned'
    BY DEF vars
  <2>1. CASE PatchOutpost
    BY <2>1 DEF PatchOutpost, SetupInv, ItemInv
  <2>2. CASE OperatorAssigns
    BY <2>2 DEF OperatorAssigns
  <2>3. CASE assigned' = assigned
    BY <2>3
  <2>4. CASE StartRun \/ Bootstrap \/ StartSync \/ RequestFails
    BY <2>3, <2>4 DEF StartRun, Bootstrap, WaitForFlows, FindOutpost, database,
       EnsureLdapSource, PatchSource, PostSource, StartSync, RequestFails
  <2>5. CASE NextService \/ ServicesDone \/ FindProvider \/ PostProvider
             \/ FindApplication \/ PostApplication \/ ReadOutpost
    BY <2>3, <2>5 DEF NextService, ServicesDone, FindProvider, PostProvider,
       FindApplication, PostApplication, ReadOutpost, database
  <2>6. CASE BlueprintApplies \/ EditBindPassword
    BY <2>3, <2>6 DEF BlueprintApplies, EditBindPassword, database
  <2> QED BY <2>1, <2>2, <2>4, <2>5, <2>6 DEF Next, Services, Environment
<1>2. QED BY <1>1, SetupInvariant, PTL DEF Spec, AssignmentsKept

-----------------------------------------------------------------------------

\* While the source is posted it is missing, or it is there with this password:
\* the answer to an earlier attempt was lost.
SourceInv ==
  /\ LdapEnabled /\ at = "postSource" => source \in {None, ldap_bind_password}
  /\ SourceFollowsSecret

\* Every step keeps the source of a run that is past it.
LEMMA SourceStep == ASSUME TypeOK, LoopInv, SourceInv, [Next]_vars PROVE SourceInv'
<1> USE DEF SourceInv, SourceFollowsSecret, database, blueprints, found, outcome
<1>1. CASE Environment
  BY <1>1 DEF Environment, BlueprintApplies, OperatorAssigns, EditBindPassword
<1>2. CASE StartRun \/ WaitForFlows \/ FindOutpost \/ RequestFails
  BY <1>2 DEF StartRun, WaitForFlows, FindOutpost, RequestFails, ScriptFails, Goto, LoopInv
<1>3. CASE EnsureLdapSource
  BY <1>3 DEF EnsureLdapSource, Answer, ScriptFails, Goto, LoopInv
<1>4. CASE PatchSource \/ PostSource
  <2>1. script = "bootstrap" /\ script' = script /\ ldap_bind_password' = ldap_bind_password
    BY <1>4 DEF PatchSource, PostSource, Answer, NoAnswer, LoopInv
  <2>2. CASE Answer("sync")
    BY <1>4, <2>1, <2>2
       DEF PatchSource, PostSource, Answer, NoAnswer, Retry, Raise, ScriptFails, Goto
  <2>3. CASE NoAnswer(Raise)
    <3>1. at' \in {at, "idle"} /\ at # "sync"
      BY <1>4, <2>3 DEF PatchSource, PostSource, NoAnswer, Raise, ScriptFails, Goto, Retry
    <3>2. LdapEnabled /\ at' = "postSource" => source' \in {None, ldap_bind_password}
      BY <1>4, <3>1 DEF PatchSource, PostSource
    <3> QED BY <2>1, <3>1, <3>2
  <2> QED BY <1>4, <2>2, <2>3 DEF PatchSource, PostSource
<1>5. CASE Services
  <2>1. UNCHANGED <<source, ldap_bind_password, script>> /\ at \in ItemRequests \cup {"next"}
    BY <1>5 DEF Services, NextService, ServicesDone, FindProvider, PostProvider, FindApplication,
       PostApplication, ReadOutpost, PatchOutpost, Answer, NoAnswer, ItemRequests
  <2>2. at' \notin {"postSource", "sync"}
    BY <1>5 DEF Services, NextService, ServicesDone, FindProvider, PostProvider, FindApplication,
       PostApplication, ReadOutpost, PatchOutpost, Answer, NoAnswer, Retry, Raise, Continue,
       ScriptFails, Goto
  <2> QED BY <2>1, <2>2 DEF ItemRequests
<1>6. CASE StartSync
  BY <1>6 DEF StartSync, Goto
<1>7. CASE UNCHANGED vars
  BY <1>7 DEF vars
<1> QED BY <1>1, <1>2, <1>3, <1>4, <1>5, <1>6, <1>7 DEF Next, Bootstrap

\* A rotated bind password reaches Authentik (bootstrap.py.j2:407-408), whatever
\* answers of earlier attempts and runs were lost.
THEOREM SourceIsRotated == Spec => []SourceFollowsSecret
<1>1. Init => SourceInv
  BY DEF Init, SourceInv, SourceFollowsSecret
<1>2. SetupInv => LoopInv
  BY DEF SetupInv
<1>3. SourceInv => SourceFollowsSecret
  BY DEF SourceInv
<1>4. QED BY <1>1, <1>2, <1>3, SourceStep, TypeCorrect, SetupInvariant, PTL DEF Spec

=============================================================================
