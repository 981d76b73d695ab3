----------------------------- MODULE ReleaseTools -----------------------------
(***************************************************************************)
(* The tools around the release gate, which read one source tree: check-   *)
(* vars.py, list-ci-images.py for the cache of the runner, and             *)
(* reap-orphan-test-hosts.py, which runs by itself while Molecule, with    *)
(* the Hetzner driver, creates servers, destroys them, or is cut off and   *)
(* leaves them behind.  Server names are unique in the project of the      *)
(* cloud; ids are not reused while somebody holds one.                     *)
(*                                                                         *)
(* A platform is named test-<scenario>.  The reaper's docstring gives the  *)
(* servers that name, docs/testing.md puts a namespace before it: the      *)
(* prefix of a tree is what the driver of its requirements.txt prepends.   *)
(***************************************************************************)
EXTENDS CheckVars, CiImages, FiniteSets

CONSTANTS
    Trees,
    Tested,              \* scenarios the gate runs
    Ids,
    Threshold,           \* REAP_AGE_HOURS; ages are counted up to it
    MaxRemovals, MaxForeign,
    MaxOverruns          \* tests that reach the threshold, or destroy hosts the reaper has listed

ASSUME ToolsAssumption ==
    /\ Threshold \in Nat \ {0}
    /\ MaxRemovals \in Nat /\ MaxForeign \in Nat /\ MaxOverruns \in Nat
    /\ IsFiniteSet(Tested)

ASSUME TreesAssumption ==
    \A t \in Trees :
        /\ t = [defs |-> t.defs, text |-> t.text, scenarios |-> t.scenarios, prefix |-> t.prefix,
                group_vars |-> t.group_vars, defaults |-> t.defaults, images |-> t.images]
        /\ t.text \in Seq({t.text[i] : i \in DOMAIN t.text})
        /\ \A d \in t.defs : d.kind \in DefinitionKinds \cup {"option"}

VARIABLES
    tree,
    verdict,             \* of check-vars.py for this tree: "none", "pass", "fail"
    cache,               \* images the pull-through cache was warmed with
    warmed,              \* the cache was warmed from this tree
    servers,             \* [id, name, age]
    job,                 \* scenario -> [state, hosts, age]
    todo,                \* orphans the reaper has still to delete
    removals, foreign, overruns

sources == <<tree, verdict, cache, warmed>>
toolBounds  == <<removals, foreign, overruns>>
toolVars == <<sources, servers, job, todo, toolBounds>>

Idle == [state |-> "off", hosts |-> {}, age |-> 0]

Older(age) == IF age < Threshold THEN age + 1 ELSE age

Named(names) == {srv \in servers : srv.name \in names}

WithIds(ids) == {srv \in servers : srv.id \in ids}

Listed(ids) == {srv \in todo : srv.id \in ids}

------------------------------------------------------------------------------
(* reap-orphan-test-hosts.py *)

\* Names of the platforms; without any, that of the base configuration.
HostsOf(scenario, s) ==
    IF scenario.platforms = {} THEN {<<"test", s>>} ELSE scenario.platforms

\* Mutant of LoadAllowlist: scenarios that inherit the platform of the base configuration are forgotten.
AllowlistOfPlatforms(scenarios) ==
    UNION {scenarios[s].platforms : s \in {r \in DOMAIN scenarios : scenarios[r].readable}}

\* A molecule.yml that cannot be parsed is passed over.
LoadAllowlist(scenarios) ==
    UNION {HostsOf(scenarios[s], s) : s \in {r \in DOMAIN scenarios : scenarios[r].readable}}

\* The names must be equal: a prefix makes a name unknown.
SelectOrphans(all, allowlist) ==
    {srv \in all : srv.name \in allowlist /\ srv.age >= Threshold}

------------------------------------------------------------------------------
ToolsInit ==
    /\ tree \in Trees
    /\ verdict = "none" /\ cache = {} /\ warmed = FALSE
    /\ servers = {} /\ todo = {}
    /\ job = [s \in Tested |-> Idle]
    /\ removals = 0 /\ foreign = 0 /\ overruns = 0

\* A scenario is removed or renamed: the host it may have left is unknown then.
RemoveScenario(s) ==
    /\ removals < MaxRemovals /\ s \in DOMAIN tree.scenarios
    /\ tree' = [tree EXCEPT !.scenarios = [r \in DOMAIN @ \ {s} |-> @[r]]]
    /\ verdict' = "none" /\ warmed' = FALSE
    /\ removals' = removals + 1
    /\ UNCHANGED <<cache, servers, job, todo, foreign, overruns>>

RunCheckVars ==
    /\ verdict = "none"
    /\ verdict' = IF Undefined(tree) = {} THEN "pass" ELSE "fail"
    /\ UNCHANGED <<tree, cache, warmed, servers, job, todo, toolBounds>>

WarmCache ==
    /\ ~warmed
    /\ cache' = HubImages(tree) /\ warmed' = TRUE
    /\ UNCHANGED <<tree, verdict, servers, job, todo, toolBounds>>

\* Servers of the tests of a scenario.
ServersOf(s) == {tree.prefix \o n : n \in HostsOf(tree.scenarios[s], s)}

\* Mutant of NameIsFree: the cloud would allow a second host of a name.
NameIsNotAsked(names) == TRUE

NameIsFree(names) == Named(names) = {}

FreshIds == Ids \ ({srv.id : srv \in servers \cup todo} \cup UNION {job[s].hosts : s \in Tested})

StartTest(s) ==
    /\ job[s].state = "off"
    /\ s \in DOMAIN tree.scenarios /\ tree.scenarios[s].readable
    /\ NameIsFree(ServersOf(s))
    /\ \E new \in {h \in SUBSET ([id : FreshIds, name : ServersOf(s), age : {0}]) :
                      /\ Cardinality(h) = Cardinality(ServersOf(s))
                      /\ \A a, b \in h : (a.id = b.id \/ a.name = b.name) => a = b} :
          /\ servers' = servers \cup new
          /\ job' = [job EXCEPT ![s] = [state |-> "running", age |-> 0,
                                        hosts |-> {h.id : h \in new}]]
    /\ UNCHANGED <<sources, todo, toolBounds>>

FinishTest(s) ==
    /\ job[s].state = "running"
    /\ servers' = servers \ WithIds(job[s].hosts)
    /\ job' = [job EXCEPT ![s] = Idle]
    /\ UNCHANGED <<sources, todo, toolBounds>>

CutTest(s) ==
    /\ job[s].state = "running"
    /\ job' = [job EXCEPT ![s].state = "cut"]
    /\ UNCHANGED <<sources, servers, todo, toolBounds>>

\* The next molecule test or destroy removes what Molecule's state knows.
DestroyAgain(s) ==
    /\ job[s].state = "cut"
    /\ overruns' = overruns + (IF Listed(job[s].hosts) = {} THEN 0 ELSE 1) /\ overruns' <= MaxOverruns
    /\ servers' = servers \ WithIds(job[s].hosts)
    /\ job' = [job EXCEPT ![s] = Idle]
    /\ UNCHANGED <<sources, todo, removals, foreign>>

\* "Leftovers without Molecule state (e.g. a wiped workspace)".
WipeWorkspace(s) ==
    /\ job[s].state = "cut"
    /\ job' = [job EXCEPT ![s] = Idle]
    /\ UNCHANGED <<sources, servers, todo, toolBounds>>

\* A server made by hand, or by a driver that prepends nothing, that has a platform's name.
CreateForeign ==
    /\ foreign < MaxForeign
    /\ \E id \in FreshIds, name \in LoadAllowlist(tree.scenarios) :
          /\ NameIsFree({name})
          /\ servers' = servers \cup {[id |-> id, name |-> name, age |-> 0]}
    /\ foreign' = foreign + 1
    /\ UNCHANGED <<sources, job, todo, removals, overruns>>

LastTick == {s \in Tested : job[s].state = "running" /\ job[s].age = Threshold - 1}

Tick ==
    /\ overruns' = overruns + Cardinality(LastTick) /\ overruns' <= MaxOverruns
    /\ servers' = {[srv EXCEPT !.age = Older(@)] : srv \in servers}
    /\ job' = [s \in Tested |-> IF job[s].state = "off" THEN job[s]
                                ELSE [job[s] EXCEPT !.age = Older(@)]]
    /\ UNCHANGED <<sources, todo, removals, foreign>>

ReapStart ==
    /\ todo = {}
    /\ todo' = SelectOrphans(servers, LoadAllowlist(tree.scenarios))
    /\ UNCHANGED <<sources, servers, job, toolBounds>>

\* Mutant of ReapDelete: the host of that name.
ReapDeleteByName(srv) ==
    /\ srv \in todo /\ Named({srv.name}) # {}
    /\ servers' = servers \ Named({srv.name})
    /\ todo' = todo \ {srv}
    /\ UNCHANGED <<sources, job, toolBounds>>

ReapDelete(srv) ==
    /\ srv \in todo /\ WithIds({srv.id}) # {}
    /\ servers' = servers \ WithIds({srv.id})
    /\ todo' = todo \ {srv}
    /\ UNCHANGED <<sources, job, toolBounds>>

\* The host is gone since the list was read: the exception ends the script.
ReapRaises(srv) ==
    /\ srv \in todo /\ WithIds({srv.id}) = {}
    /\ todo' = {}
    /\ UNCHANGED <<sources, servers, job, toolBounds>>

ToolsNext ==
    \/ RunCheckVars \/ WarmCache \/ CreateForeign \/ Tick \/ ReapStart
    \/ \E s \in Tested : \/ RemoveScenario(s) \/ StartTest(s) \/ FinishTest(s) \/ CutTest(s)
                         \/ DestroyAgain(s) \/ WipeWorkspace(s)
    \/ \E srv \in todo : ReapDelete(srv) \/ ReapRaises(srv)

ToolsSpec == ToolsInit /\ [][ToolsNext]_toolVars

\* Time passes, a test ends, the reaper is started again and again and gets on.
FairToolsSpec ==
    /\ ToolsSpec
    /\ WF_toolVars(Tick) /\ WF_toolVars(ReapStart)
    /\ \A s \in Tested : WF_toolVars(FinishTest(s) \/ CutTest(s))
    /\ WF_toolVars(\E srv \in todo : ReapDelete(srv) \/ ReapRaises(srv))

------------------------------------------------------------------------------
(***************************************************************************)
(* Type invariant; no two hosts have one name or one id.                   *)
(***************************************************************************)
TypeOK ==
    /\ verdict \in {"none", "pass", "fail"} /\ warmed \in BOOLEAN
    /\ \A srv \in servers : srv.id \in Ids /\ srv.age \in 0 .. Threshold
    /\ \A a, b \in servers : (a.id = b.id \/ a.name = b.name) => a = b
    /\ job \in [Tested -> [state : {"off", "running", "cut"}, hosts : SUBSET Ids, age : 0 .. Threshold]]
    /\ removals \in 0 .. MaxRemovals /\ foreign \in 0 .. MaxForeign /\ overruns \in 0 .. MaxOverruns

(* A token is literal text if the nearest delimiter of the right kind is
   open before it and closed after it. *)
IsLiteral(text, i) ==
    /\ \E j \in 1 .. i : /\ text[j].t = "raw"
                         /\ \A k \in j .. i : text[k].t # "endraw"
    /\ \E j \in i .. Len(text) : text[j].t = "endraw"

IsDefined(name) ==
    \/ name \in MAGIC \cup Whitelist
    \/ \E d \in tree.defs : /\ d.name = name /\ d.readable
                           /\ d.kind # "option" /\ <<d.kind, d.name>> # <<"set_fact", "cacheable">>
    \/ \E i \in DOMAIN tree.text : tree.text[i].t \in {"for", "set"} /\ tree.text[i].name = name

(***************************************************************************)
(* check-vars.py lets a tree pass exactly if every reference Jinja would   *)
(* evaluate, outside of raw blocks and without a guard, has a definition   *)
(* somewhere.                                                              *)
(***************************************************************************)
GateFindsReferences ==
    verdict # "none" =>
        (verdict = "pass" <=>
            \A i \in DOMAIN tree.text :
                /\ tree.text[i].t = "ref" /\ tree.text[i].guard = "none"
                /\ ~IsLiteral(tree.text, i)
                => IsDefined(tree.text[i].name))

(* The image a line means in a scenario: the variable as Ansible resolves
   it, or else the default of the line. *)
PulledBy(s, line) ==
    LET v == line.var
        o == tree.scenarios[s].overrides
    IN  IF v \in DOMAIN o THEN o[v]
        ELSE IF v \in DOMAIN tree.group_vars THEN tree.group_vars[v]
        ELSE IF v \in DOMAIN tree.defaults THEN tree.defaults[v]
        ELSE line.default

(***************************************************************************)
(* Once the cache is warmed, what a scenario pulls from Docker Hub is in   *)
(* it under the name Docker asks for, and nothing of another registry is:  *)
(* if it is a plain name, of a line's default or a variable *_image.       *)
(***************************************************************************)
PulledImagesAreCached ==
    warmed =>
        /\ \A i \in cache : i.registry = "" /\ i.tag # ""
        /\ \A s \in DOMAIN tree.scenarios, line \in tree.images :
               LET image == PulledBy(s, line) IN
               /\ image # NoImage /\ IsRef(image) /\ image.registry \in {"", "docker.io"}
               /\ line.var \in ImageVarNames \/ image = line.default
               => \E i \in cache : /\ i.name = image.name
                                    /\ i.tag = (IF image.tag = "" THEN "latest" ELSE image.tag)

(***************************************************************************)
(* A test that is younger than the threshold has its hosts, whatever was   *)
(* on the reaper's list when it began, also under the same names.          *)
(***************************************************************************)
RunningTestsKeepHosts ==
    \A s \in Tested : job[s].state = "running" /\ job[s].age < Threshold
                      => job[s].hosts \subseteq {srv.id : srv \in servers}

Orphan(id) ==
    /\ \A s \in Tested : job[s].state = "running" => id \notin job[s].hosts
    /\ \E srv \in servers, s \in DOMAIN tree.scenarios :
          /\ tree.scenarios[s].readable
          /\ srv.id = id /\ srv.name \in HostsOf(tree.scenarios[s], s)

(***************************************************************************)
(* A server that has the name of a platform, and that no test runs on, is  *)
(* deleted in the end, although one that is gone meanwhile ends a run of   *)
(* the reaper early: unless its scenario is removed from the tree.  Of a   *)
(* server whose name has a prefix this says nothing: it is never deleted.  *)
(***************************************************************************)
OrphansAreReaped == \A id \in Ids : Orphan(id) ~> ~Orphan(id)
==============================================================================
