--------------------------- MODULE MCLabelPipeline ---------------------------
(* Overrides and service files for TLC: one of the two is varied at a time. *)
EXTENDS LabelPipeline

CONSTANT Place  \* directory of the service files: "stack" or "root"

Item(k, v) == [k |-> k, v |-> v]
On    == Item("enable", "true")
Off   == Item("enable", "false")
Flag  == Item("enable", "bare")
Own   == Item("net", "own")
Rule  == Item("rule", "host")
Path  == Item("rule", "noHost")
Loose == Item("rule", "unquoted")
Login == Item("mws", "authentik")
Other == Item("mws", "other")
Def   == Item("mwdef", "other")
Card  == Item("card", "name")
Board == Item("board", "name")

AsList(items) == [form |-> "list", items |-> items]
AsDict(items) == [form |-> "dict", items |-> items]
NoLabels == [form |-> "none", items |-> << >>]

NetSets == {{}, {"default"}, {"default", "db"}, {"default", "db", "cache"}}

Routings == {<<On>>, <<Rule, On>>, <<On, Own>>, <<Own, On>>, <<Off>>, <<Rule>>}

AppLabels == {AsList(i) : i \in Routings \cup {<<Flag, Rule>>}}
             \cup {AsDict(i) : i \in Routings} \cup {NoLabels}

Worker == [nets |-> {"default", "db"}, labels |-> AsList(<<Off>>)]

SomeOverrides ==
    {Compose([app |-> [nets |-> {"default", "db"}, labels |-> l], worker |-> Worker]) :
        l \in AppLabels}
    \cup {Compose([app |-> [nets |-> n, labels |-> AsDict(<<Rule, On>>)]]) : n \in NetSets}
    \cup {Absent, [kind |-> "malformed", services |-> << >>]}

File(service, labels, readable) ==
    [at |-> Place, service |-> service, readable |-> readable, labels |-> labels]

WebItems == {<<>>, <<Rule>>, <<Card>>, <<Rule, Login>>, <<Login, Rule>>, <<Rule, Other>>,
             <<Rule, Login, Card>>, <<Path, Rule, Login>>, <<Rule, Def, Login>>,
             <<Path, Card>>, <<Loose, Card>>, <<Loose, Rule, Login>>, <<Board>>,
             <<Card, Rule, Board>>, <<Flag, Card, Path, Rule>>}

Wiki == File("wiki", AsDict(<<Rule, Login, Card>>), TRUE)

SomeFiles == {{File("web", AsList(i), TRUE), Wiki} : i \in WebItems}
             \cup {{File("web", AsDict(i), TRUE)} : i \in {<<Rule, Login>>, <<Path, Card>>}}
             \cup {{File("web", AsDict(<<Rule, Login, Card>>), FALSE), Wiki}}

PlainOverride == Compose([app |-> [nets |-> {"default", "db"}, labels |-> AsDict(<<On, Rule>>)]])

Site(o, f, l) == [override |-> o, files |-> f, landing |-> l]

\* The page is switched off for a service that could not be on it, and for one that could.
MCSites == {Site(o, {Wiki}, TRUE) : o \in SomeOverrides}
           \cup {Site(PlainOverride, f, TRUE) : f \in SomeFiles}
           \cup {Site(PlainOverride, {Wiki, File("web", AsList(i), TRUE)}, FALSE) :
                    i \in {<<Path, Card>>, <<Board>>}}
==============================================================================
