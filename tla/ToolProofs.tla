------------------------------ MODULE ToolProofs ------------------------------
(***************************************************************************)
(* What is proved about the Python tools under scripts/, each used by the  *)
(* state machine of its module: label-scanner.py and multinet-label-fix.py *)
(* in LabelPipeline, check-vars.py, list-ci-images.py and                  *)
(* reap-orphan-test-hosts.py in ReleaseTools.  The theorems hold for every *)
(* set of sites and trees that SitesAssumption and TreesAssumption admit:  *)
(* any services, labels and texts in any order, any hosts, jobs and cuts.  *)
(***************************************************************************)
EXTENDS LabelPipeline, ReleaseTools,
        FiniteSetTheorems, SequenceTheorems, WellFoundedInduction, TLAPS

------------------------------------------------------------------------------
(* A set of numbers has a least and, if bounded, a greatest element: used   *)
(* for positions in lists, and in place of induction over them.            *)

LEMMA Least ==
  ASSUME NEW S, S \subseteq Nat, S # {}
  PROVE  \E i \in S : \A j \in S : i <= j
<1>1. PICK i \in S : \A j \in S : <<j, i>> \notin OpToRel(<, Nat)
  BY WFMin, NatLessThanWellFounded, Zenon
<1>2. \A j \in S : i <= j
  <2> TAKE j \in S
  <2>1. <<j, i>> \in Nat \X Nat /\ ~(j < i)
    BY <1>1 DEF OpToRel
  <2> QED BY <2>1
<1> QED BY <1>2

LEMMA Greatest ==
  ASSUME NEW n \in Nat, NEW S, S \subseteq 1 .. n, S # {}
  PROVE  \E i \in S : \A j \in S : j <= i
<1> DEFINE T == {n - i : i \in S}
<1>1. T \subseteq Nat /\ T # {}
  <2>1. \A i \in S : n - i \in Nat
    OBVIOUS
  <2> QED BY <2>1
<1>2. PICK m \in T : \A l \in T : m <= l
  BY <1>1, Least, Zenon
<1>3. PICK i \in S : m = n - i
  BY <1>2
<1>4. \A j \in S : n - i <= n - j
  BY <1>2, <1>3
<1> QED BY <1>4

------------------------------------------------------------------------------
(* Indices of a list of labels. *)

Hits(labels, kind) == {i \in DOMAIN labels.items : labels.items[i].k = kind}

\* A list of labels as the tools read it.
LEMMA LabelsRead ==
  ASSUME NEW l \in Labels
  PROVE  \E n \in Nat :
            /\ DOMAIN l.items = 1 .. n /\ Len(l.items) = n
            /\ \A i \in 1 .. n : l.items[i] \in [k : Kinds, v : STRING]
            /\ l.form = "none" => n = 0
  <1>1. /\ l \in [form : {"none", "list", "dict"}, items : Seq([k : Kinds, v : STRING])]
        /\ l.form = "none" => l.items = << >>
    BY DEF Labels
  <1>2. /\ Len(l.items) \in Nat /\ DOMAIN l.items = 1 .. Len(l.items)
        /\ \A i \in 1 .. Len(l.items) : l.items[i] \in [k : Kinds, v : STRING]
    <2> DEFINE Item == [k : Kinds, v : STRING]
    <2>1. l.items \in Seq(Item)
      BY <1>1
    <2> HIDE DEF Item
    <2>2. /\ Len(l.items) \in Nat /\ DOMAIN l.items = 1 .. Len(l.items)
          /\ \A i \in 1 .. Len(l.items) : l.items[i] \in Item
      BY <2>1
    <2> QED BY <2>2 DEF Item
  <1>3. l.form = "none" => Len(l.items) = 0
    BY <1>1
  <1> QED BY <1>2, <1>3

LEMMA LabelValues ==
  ASSUME NEW l \in Labels, NEW i \in DOMAIN l.items
  PROVE  /\ l.items[i].v \in STRING
         /\ l.items[i].k = "rule" => l.items[i].v \in {"host", "noHost", "unquoted"}
         /\ l.items[i].k = "card" => l.items[i].v \in {"name", "bare"}
         /\ l.form \in {"list", "dict"}
         /\ l.form = "dict" => l.items[i].v # "bare"
         /\ \A j \in DOMAIN l.items :
               l.items[i].k = "enable" /\ l.items[j].k = "enable"
               => l.items[i].v = l.items[j].v
  <1>1. l.items[i].v \in STRING /\ l.form \in {"list", "dict"}
    <2>1. PICK n \in Nat : /\ DOMAIN l.items = 1 .. n
                           /\ \A m \in 1 .. n : l.items[m] \in [k : Kinds, v : STRING]
                           /\ l.form = "none" => n = 0
      BY LabelsRead
    <2>2. l.form \in {"none", "list", "dict"}
      BY DEF Labels
    <2> QED BY <2>1, <2>2
  <1> QED BY <1>1 DEF Labels

\* What Compose makes of a kind of label is the value of one of them.
LEMMA LastIsOne ==
  ASSUME NEW l \in Labels, NEW kind, NEW default, Hits(l, kind) # {}
  PROVE  \E i \in Hits(l, kind) : Last(l, kind, default) = l.items[i].v
  <1>1. PICK n \in Nat : DOMAIN l.items = 1 .. n
    BY LabelsRead
  <1>2. \E i \in Hits(l, kind) : \A j \in Hits(l, kind) : j <= i
    BY <1>1, Greatest DEF Hits
  <1> DEFINE top == CHOOSE i \in Hits(l, kind) : \A j \in Hits(l, kind) : j <= i
  <1>3. top \in Hits(l, kind)
    BY <1>2
  <1>4. Last(l, kind, default) = l.items[top].v
    BY DEF Last, Hits
  <1> QED BY <1>3, <1>4

LEMMA LastOfNone ==
  ASSUME NEW l, NEW kind, NEW default, Hits(l, kind) = {}
  PROVE  Last(l, kind, default) = default
  BY DEF Last, Hits

------------------------------------------------------------------------------
(* The fixer and Compose see the same labels. *)

LEMMA EnabledIsRouted ==
  ASSUME NEW l \in Labels
  PROVE  IsTraefikEnabled(l) <=> Last(l, "enable", "false") \in {"true", "bare"}
<1> DEFINE hits == Hits(l, "enable")
<1>1. CASE hits = {}
  BY <1>1, LastOfNone DEF IsTraefikEnabled, Hits
<1>2. CASE hits # {}
  <2>1. PICK n \in Nat : DOMAIN l.items = 1 .. n
    BY LabelsRead
  <2>2. hits \subseteq Nat /\ hits \subseteq DOMAIN l.items
    BY <2>1 DEF Hits
  <2>3. PICK first \in hits : \A j \in hits : first <= j
    BY <1>2, <2>2, Least, Zenon
  <2>4. \A j \in 1 .. first - 1 : l.items[j].k # "enable"
    BY <2>1, <2>2, <2>3 DEF Hits
  <2>5. PICK i \in hits : Last(l, "enable", "false") = l.items[i].v
    BY <1>2, LastIsOne
  <2>6. \A j \in hits : /\ l.items[j].v = l.items[i].v /\ l.items[j].k = "enable"
                        /\ l.form \in {"list", "dict"}
                        /\ l.form = "dict" => l.items[j].v # "bare"
    BY LabelValues DEF Hits
  <2>7. IsTraefikEnabled(l) <=> l.items[i].v \in {"true", "bare"}
    BY <2>2, <2>3, <2>4, <2>6 DEF IsTraefikEnabled, Hits
  <2> QED BY <2>5, <2>7
<1> QED BY <1>1, <1>2

LEMMA ExplicitIsPinned ==
  ASSUME NEW l \in Labels
  PROVE  HasExplicitTraefikNetwork(l) <=> Last(l, "net", NoPin) # NoPin
<1>1. CASE Hits(l, "net") = {}
  BY <1>1, LastOfNone DEF HasExplicitTraefikNetwork, Hits
<1>2. CASE Hits(l, "net") # {}
  <2>1. PICK i \in Hits(l, "net") : Last(l, "net", NoPin) = l.items[i].v
    BY <1>2, LastIsOne
  <2>2. l.items[i].v \in STRING
    BY LabelValues DEF Hits
  <2> QED BY <1>2, <2>1, <2>2, SitesAssumption DEF HasExplicitTraefikNetwork, Hits
<1> QED BY <1>1, <1>2

\* The list after the injection: one label more, the others as they were.
LEMMA InjectedList ==
  ASSUME NEW l \in Labels
  PROVE  \E n \in Nat :
            /\ DOMAIN l.items = 1 .. n
            /\ DOMAIN InjectLabel(l).items = 1 .. n + 1
            /\ \A i \in 1 .. n : InjectLabel(l).items[i] = l.items[i]
            /\ InjectLabel(l).items[n + 1] = [k |-> "net", v |-> PrimaryNet]
<1> DEFINE e == [k |-> "net", v |-> PrimaryNet]
           s == l.items
<1>1. PICK n \in Nat : /\ DOMAIN s = 1 .. n /\ Len(s) = n
                       /\ \A i \in 1 .. n : s[i] \in [k : Kinds, v : STRING]
  BY LabelsRead
<1>2. s \in Seq([k : Kinds, v : STRING])
  BY DEF Labels
<1> DEFINE Item == [k : Kinds, v : STRING] \cup {e}
<1> HIDE DEF Item, e, s
<1>3. s \in Seq(Item) /\ e \in Item
  BY <1>2, SeqMonotonic DEF Item
<1>4. /\ DOMAIN Append(s, e) = 1 .. n + 1
      /\ \A i \in 1 .. n : Append(s, e)[i] = s[i]
      /\ Append(s, e)[n + 1] = e
  BY <1>1, <1>3
<1>5. InjectLabel(l).items = Append(s, e)
  BY DEF InjectLabel, s, e
<1> QED BY <1>1, <1>4, <1>5 DEF s, e

LEMMA InjectionKeepsEnable ==
  ASSUME NEW l \in Labels
  PROVE  Last(InjectLabel(l), "enable", "false") = Last(l, "enable", "false")
<1> DEFINE m == InjectLabel(l)
<1>1. PICK n \in Nat :
         /\ DOMAIN l.items = 1 .. n /\ DOMAIN m.items = 1 .. n + 1
         /\ \A i \in 1 .. n : m.items[i] = l.items[i]
         /\ m.items[n + 1] = [k |-> "net", v |-> PrimaryNet]
  BY InjectedList
<1> HIDE DEF m
<1> DEFINE hits == Hits(l, "enable")
           top  == CHOOSE i \in hits : \A j \in hits : j <= i
<1>2. Hits(m, "enable") = hits
  BY <1>1 DEF Hits
<1>3. CASE hits = {}
  BY <1>2, <1>3, LastOfNone DEF m
<1>4. CASE hits # {}
  <2>1. \E i \in hits : \A j \in hits : j <= i
    BY <1>1, <1>4, Greatest DEF Hits
  <2>2. top \in hits
    BY <2>1
  <2>3. Last(l, "enable", "false") = l.items[top].v
    BY <1>4 DEF Last, Hits
  <2>4. Last(m, "enable", "false") = m.items[top].v
    BY <1>2, <1>4 DEF Last, Hits
  <2> QED BY <1>1, <2>2, <2>3, <2>4 DEF m, Hits
<1> QED BY <1>3, <1>4

LEMMA InjectionPins ==
  ASSUME NEW l \in Labels, ~HasExplicitTraefikNetwork(l)
  PROVE  Last(InjectLabel(l), "net", NoPin) = PrimaryNet
<1> DEFINE m == InjectLabel(l)
<1>1. PICK n \in Nat :
         /\ DOMAIN l.items = 1 .. n /\ DOMAIN m.items = 1 .. n + 1
         /\ \A i \in 1 .. n : m.items[i] = l.items[i]
         /\ m.items[n + 1] = [k |-> "net", v |-> PrimaryNet]
  BY InjectedList
<1> HIDE DEF m
<1>2. Hits(m, "net") = {n + 1}
  BY <1>1 DEF Hits, HasExplicitTraefikNetwork
<1>3. (CHOOSE i \in Hits(m, "net") : \A j \in Hits(m, "net") : j <= i) = n + 1
  BY <1>2
<1>4. Last(m, "net", NoPin) = m.items[n + 1].v
  BY <1>2, <1>3 DEF Last, Hits
<1> QED BY <1>1, <1>4 DEF m

RestOf(l) == {l.items[i] : i \in {j \in DOMAIN l.items : l.items[j].k \notin {"enable", "net"}}}

LEMMA InjectionKeepsRest ==
  ASSUME NEW l \in Labels
  PROVE  RestOf(InjectLabel(l)) = RestOf(l)
<1> DEFINE m == InjectLabel(l)
           Rest(q) == {j \in DOMAIN q.items : q.items[j].k \notin {"enable", "net"}}
<1>1. PICK n \in Nat :
         /\ DOMAIN l.items = 1 .. n /\ DOMAIN m.items = 1 .. n + 1
         /\ \A i \in 1 .. n : m.items[i] = l.items[i]
         /\ m.items[n + 1] = [k |-> "net", v |-> PrimaryNet]
  BY InjectedList
<1> HIDE DEF m
<1>2. Rest(m) = Rest(l)
  BY <1>1
<1>3. \A i \in Rest(l) : m.items[i] = l.items[i]
  BY <1>1
<1> QED BY <1>2, <1>3 DEF RestOf, m

LEMMA SameCount == ASSUME NEW S PROVE Contract!Cardinality(S) = Cardinality(S)
  BY Zenon DEF Contract!Cardinality, Cardinality

(***************************************************************************)
(* The fixer keeps the contract service by service: what it changes means  *)
(* afterwards what is promised, and what it leaves alone did so before.    *)
(***************************************************************************)
LEMMA FixedAsPromised ==
  ASSUME NEW svc \in Service, NeedsLabel(svc)
  PROVE  MeaningOf([svc EXCEPT !.labels = InjectLabel(@)]) = Contract!Promised(MeaningOf(svc))
<1> DEFINE fixed == [svc EXCEPT !.labels = InjectLabel(@)]
<1>1. svc.labels \in Labels /\ fixed.nets = svc.nets /\ fixed.labels = InjectLabel(svc.labels)
  BY DEF Service
<1>2. /\ Cardinality(svc.nets) >= 2 /\ IsTraefikEnabled(svc.labels)
      /\ ~HasExplicitTraefikNetwork(svc.labels)
  BY DEF NeedsLabel
<1>3. /\ MeaningOf(svc).routed = TRUE /\ MeaningOf(svc).pin = NoPin
      /\ MeaningOf(svc).nets = svc.nets
  BY <1>1, <1>2, EnabledIsRouted, ExplicitIsPinned DEF MeaningOf
<1>4. Contract!Promised(MeaningOf(svc)) = [MeaningOf(svc) EXCEPT !.pin = PrimaryNet]
  BY <1>2, <1>3, SameCount DEF Contract!Promised
<1>5. /\ Last(fixed.labels, "enable", "false") = Last(svc.labels, "enable", "false")
      /\ Last(fixed.labels, "net", NoPin) = PrimaryNet
      /\ RestOf(fixed.labels) = RestOf(svc.labels)
  BY <1>1, <1>2, InjectionKeepsEnable, InjectionPins, InjectionKeepsRest
<1>6. /\ MeaningOf(fixed) = [nets |-> svc.nets,
                             routed |-> Last(svc.labels, "enable", "false") \in {"true", "bare"},
                             pin |-> PrimaryNet, rest |-> RestOf(svc.labels)]
      /\ MeaningOf(svc) = [nets |-> svc.nets,
                           routed |-> Last(svc.labels, "enable", "false") \in {"true", "bare"},
                           pin |-> Last(svc.labels, "net", NoPin), rest |-> RestOf(svc.labels)]
  BY <1>1, <1>5 DEF MeaningOf, RestOf
<1> QED BY <1>4, <1>6

LEMMA LeftAsPromised ==
  ASSUME NEW svc \in Service, ~NeedsLabel(svc)
  PROVE  MeaningOf(svc) = Contract!Promised(MeaningOf(svc))
<1>1. svc.labels \in Labels
  BY DEF Service
<1>2. /\ MeaningOf(svc).nets = svc.nets
      /\ MeaningOf(svc).routed <=> IsTraefikEnabled(svc.labels)
      /\ MeaningOf(svc).pin # NoPin <=> HasExplicitTraefikNetwork(svc.labels)
  BY <1>1, EnabledIsRouted, ExplicitIsPinned DEF MeaningOf
<1> QED BY <1>2, SameCount DEF NeedsLabel, Contract!Promised

------------------------------------------------------------------------------
(* The override on the host, task by task. *)

Wish == Meaning(site.override.services)

AsPromised(wish) == [n \in DOMAIN wish |-> Contract!Promised(wish[n])]

FixInv ==
    /\ site \in Sites
    /\ pc = "fix" => disk = site.override
    /\ pc = "write" => data = FixCompose(site.override.services)
    /\ pc \in {"scan", "landing", "up"} => Meaning(disk.services) = AsPromised(Wish)

LEMMA OverridePromised ==
  ASSUME NEW s \in Sites
  PROVE  LET services == s.override.services IN
         /\ Meaning(FixCompose(services)) = AsPromised(Meaning(services))
         /\ (\A n \in DOMAIN services : ~NeedsLabel(services[n]))
            => Meaning(services) = AsPromised(Meaning(services))
<1> DEFINE services == s.override.services
<1>1. \A n \in DOMAIN services : services[n] \in Service
  BY SitesAssumption
<1> HIDE DEF services
<1>2. /\ DOMAIN Meaning(services) = DOMAIN services
      /\ DOMAIN FixCompose(services) = DOMAIN services
      /\ DOMAIN Meaning(FixCompose(services)) = DOMAIN services
  BY DEF Meaning, FixCompose
<1>3. \A n \in DOMAIN services :
         MeaningOf(FixCompose(services)[n]) = Contract!Promised(MeaningOf(services[n]))
  <2> TAKE n \in DOMAIN services
  <2>1. services[n] \in Service
    BY <1>1
  <2>2. CASE NeedsLabel(services[n])
    BY <2>1, <2>2, FixedAsPromised DEF FixCompose
  <2>3. CASE ~NeedsLabel(services[n])
    BY <2>1, <2>3, LeftAsPromised DEF FixCompose
  <2> QED BY <2>2, <2>3
<1>4. Meaning(FixCompose(services)) = AsPromised(Meaning(services))
  BY <1>2, <1>3 DEF Meaning, AsPromised
<1>5. ASSUME \A n \in DOMAIN services : ~NeedsLabel(services[n])
      PROVE  Meaning(services) = AsPromised(Meaning(services))
  <2>1. \A n \in DOMAIN services : MeaningOf(services[n]) = Contract!Promised(MeaningOf(services[n]))
    BY <1>1, <1>5, LeftAsPromised
  <2> QED BY <1>2, <2>1 DEF Meaning, AsPromised
<1> QED BY <1>4, <1>5 DEF services

LEMMA FixStep ==
  ASSUME FixInv, [Next]_vars
  PROVE  FixInv'
<1> USE DEF FixInv, Wish
<1>1. CASE SiteEdit
  BY <1>1 DEF SiteEdit
<1>2. CASE StartRun
  BY <1>2 DEF StartRun
<1>3. CASE RecreateMonitoring
  BY <1>3 DEF RecreateMonitoring, Fails
<1>4. CASE CopyOverride
  <2>1. CASE site.override = Absent
    <3>1. \A n \in DOMAIN site.override.services : ~NeedsLabel(site.override.services[n])
      BY <2>1 DEF Absent
    <3>2. Meaning(site.override.services) = AsPromised(Meaning(site.override.services))
      BY <3>1, OverridePromised
    <3> QED BY <1>4, <2>1, <3>2 DEF CopyOverride
  <2>2. CASE site.override # Absent
    BY <1>4, <2>2 DEF CopyOverride
  <2> QED BY <2>1, <2>2
<1>5. CASE FixRejects
  BY <1>5 DEF FixRejects, Fails
<1>6. CASE FixLeaves
  <2>1. Meaning(site.override.services) = AsPromised(Meaning(site.override.services))
    BY <1>6, OverridePromised DEF FixLeaves
  <2> QED BY <1>6, <2>1 DEF FixLeaves
<1>7. CASE FixTruncates
  BY <1>7 DEF FixTruncates
<1>8. CASE FixWrites
  <2>1. disk'.services = FixCompose(site.override.services)
    BY <1>8 DEF FixWrites, Compose
  <2>2. Meaning(disk'.services) = AsPromised(Meaning(site.override.services))
    BY <2>1, OverridePromised
  <2> QED BY <1>8, <2>2 DEF FixWrites
<1>9. CASE RunLabelScanner
  BY <1>9 DEF RunLabelScanner
<1>10. CASE RemoveLandingPage \/ LandingFails \/ DeployLandingPage
  BY <1>10 DEF RemoveLandingPage, LandingFails, DeployLandingPage, Fails
<1>11. CASE ComposeUp
  BY <1>11 DEF ComposeUp
<1>12. CASE RunAuthSync
  BY <1>12 DEF RunAuthSync
<1>13. CASE Fault
  BY <1>13 DEF Fault
<1>14. CASE UNCHANGED vars
  BY <1>14 DEF vars
<1> QED BY <1>1, <1>2, <1>3, <1>4, <1>5, <1>6, <1>7, <1>8, <1>9, <1>10, <1>11, <1>12,
           <1>13, <1>14 DEF Next

\* Only an edit and compose up change what the contract speaks of.
LEMMA ContractStep ==
  ASSUME FixInv, [Next]_vars
  PROVE  [Contract!Next]_<<Meaning(site.override.services), Meaning(box)>>
<1>1. CASE SiteEdit
  <2>1. Meaning(site.override.services)' \in {Meaning(s.override.services) : s \in Sites}
    BY <1>1 DEF SiteEdit
  <2>2. Meaning(box)' = Meaning(box)
    BY <1>1 DEF SiteEdit, results
  <2> QED BY <2>1, <2>2 DEF Contract!Next, Contract!Write
<1>2. CASE ComposeUp
  <2>1. Meaning(box)' = AsPromised(Wish)
    BY <1>2 DEF ComposeUp, FixInv
  <2>2. Meaning(site.override.services)' = Meaning(site.override.services)
    BY <1>2 DEF ComposeUp
  <2> QED BY <2>1, <2>2 DEF Contract!Next, Contract!Apply, AsPromised, Wish
<1>3. ASSUME site' = site, box' = box
      PROVE  UNCHANGED <<Meaning(site.override.services), Meaning(box)>>
  BY <1>3
<1>4. CASE Next /\ ~SiteEdit /\ ~ComposeUp
  <2>1. site' = site /\ box' = box
    BY <1>4 DEF Next, StartRun, RecreateMonitoring, CopyOverride, FixRejects, FixLeaves,
                FixTruncates, FixWrites, RunLabelScanner, RemoveLandingPage, LandingFails,
                DeployLandingPage, RunAuthSync, Fault, results
  <2> QED BY <2>1, <1>3
<1>5. CASE UNCHANGED vars
  BY <1>3, <1>5 DEF vars, results
<1> QED BY <1>1, <1>2, <1>4, <1>5

(***************************************************************************)
(* LabelPipeline implements LabelContract: for every site, the containers  *)
(* only ever run with what the operator wrote and the promised network,    *)
(* also when a run is cut off while multinet-label-fix.py writes the file. *)
(***************************************************************************)
THEOREM FixerKeepsContract == Spec => LabelsAsPromised
<1>1. Init => Contract!Init
  <2> SUFFICES ASSUME Init PROVE Contract!Init
    OBVIOUS
  <2>1. Meaning(site.override.services) \in {Meaning(s.override.services) : s \in Sites}
    BY DEF Init
  <2>2. Meaning(box) = << >>
    BY DEF Init, Meaning
  <2> QED BY <2>1, <2>2 DEF Contract!Init
<1>2. Init => FixInv
  BY DEF Init, FixInv
<1>3. FixInv /\ [Next]_vars => FixInv'
  BY FixStep
<1>4. FixInv /\ [Next]_vars => [Contract!Next]_<<Meaning(site.override.services), Meaning(box)>>
  BY ContractStep
<1> QED BY <1>1, <1>2, <1>3, <1>4, PTL DEF Spec, LabelsAsPromised, Contract!Spec

------------------------------------------------------------------------------
(* What the scanner finds in a file. *)

LEMMA PairsOf ==
  ASSUME NEW f \in ComposeFile
  PROVE  /\ Pairs(f.labels) \subseteq Nat /\ Pairs(f.labels) \subseteq DOMAIN f.labels.items
         /\ \A i \in DOMAIN f.labels.items : f.labels.items[i].v # "bare" => i \in Pairs(f.labels)
         /\ \A i \in Pairs(f.labels) : f.labels.items[i].v # "bare"
<1>1. f.labels \in Labels
  BY DEF ComposeFile
<1>2. PICK n \in Nat : DOMAIN f.labels.items = 1 .. n
  BY <1>1, LabelsRead
<1>3. \A i \in Pairs(f.labels) : f.labels.items[i].v # "bare"
  BY <1>1, LabelValues DEF Pairs
<1> QED BY <1>2, <1>3 DEF Pairs

Found(f, kinds, except) ==
    {i \in Pairs(f.labels) : f.labels.items[i].k \in kinds /\ f.labels.items[i].v \notin except}

\* The search stops at one of the labels it looks for, if there is any.
LEMMA FirstIsOne ==
  ASSUME NEW f \in ComposeFile, NEW kinds, NEW except, NEW default
  PROVE  /\ Found(f, kinds, except) = {} => First(f, kinds, except, default) = default
         /\ Found(f, kinds, except) # {}
            => \E i \in Found(f, kinds, except) :
                  First(f, kinds, except, default) = f.labels.items[i].v
<1> DEFINE hits == Found(f, kinds, except)
           least == CHOOSE i \in hits : \A j \in hits : i <= j
<1>1. CASE hits = {}
  BY <1>1 DEF First, Found
<1>2. CASE hits # {}
  <2>1. hits \subseteq Nat
    BY PairsOf DEF Found
  <2>2. \E i \in hits : \A j \in hits : i <= j
    BY <1>2, <2>1, Least, Zenon
  <2>3. least \in hits
    BY <2>2
  <2>4. First(f, kinds, except, default) = f.labels.items[least].v
    BY <1>2 DEF First, Found
  <2> QED BY <1>2, <2>3, <2>4
<1> QED BY <1>1, <1>2

\* A link is the host of a router.
LEMMA LinkIsHost ==
  ASSUME NEW f \in ComposeFile, UrlOf(f) # NoUrl
  PROVE  UrlOf(f) = "host" /\ Labelled(f, "rule", {"host"})
<1> DEFINE hits == Found(f, {"rule"}, {"noHost"})
           rule == First(f, {"rule"}, {"noHost"}, NoUrl)
<1>1. rule # NoUrl /\ rule # "unquoted" /\ UrlOf(f) = rule
  BY DEF UrlOf
<1>2. hits # {}
  BY <1>1, FirstIsOne
<1>3. PICK i \in hits : rule = f.labels.items[i].v
  BY <1>2, FirstIsOne
<1>4. i \in DOMAIN f.labels.items /\ f.labels.items[i].k = "rule" /\ f.labels.items[i].v # "noHost"
  BY PairsOf DEF Found
<1>5. f.labels.items[i].v \in {"host", "noHost", "unquoted"}
  BY <1>4, LabelValues DEF ComposeFile
<1> QED BY <1>1, <1>3, <1>4, <1>5 DEF Labelled

\* A host in backticks is found, if there is no other.
LEMMA LinkFound ==
  ASSUME NEW f \in ComposeFile, Labelled(f, "rule", {"host"}), ~Labelled(f, "rule", {"unquoted"})
  PROVE  UrlOf(f) # NoUrl
<1> DEFINE hits == Found(f, {"rule"}, {"noHost"})
           rule == First(f, {"rule"}, {"noHost"}, NoUrl)
<1>1. f.labels \in Labels
  BY DEF ComposeFile
<1>2. \A i \in DOMAIN f.labels.items :
         f.labels.items[i].k = "rule" => f.labels.items[i].v \in {"host", "noHost"}
  BY <1>1, LabelValues DEF Labelled
<1>3. hits # {}
  BY <1>2, PairsOf DEF Labelled, Found
<1>4. PICK i \in hits : rule = f.labels.items[i].v
  BY <1>3, FirstIsOne
<1>5. rule = "host"
  BY <1>4, <1>2, PairsOf DEF Found
<1>6. rule # NoUrl
  BY <1>1, <1>4, PairsOf, LabelValues, SitesAssumption DEF Found
<1> QED BY <1>5, <1>6 DEF UrlOf

LEMMA CardFound ==
  ASSUME NEW f \in ComposeFile
  PROVE  Has(f, "card") <=> Labelled(f, "card", {"name"})
<1>1. f.labels \in Labels
  BY DEF ComposeFile
<1>2. \A i \in DOMAIN f.labels.items :
         f.labels.items[i].k = "card" => f.labels.items[i].v \in {"name", "bare"}
  BY <1>1, LabelValues
<1> QED BY <1>2, PairsOf DEF Has, Labelled

\* The only label about middlewares is the one that is read.
LEMMA LoginFound ==
  ASSUME NEW f \in ComposeFile, Labelled(f, "mws", {"authentik"}),
         Cardinality(MiddlewareLabels(f)) = 1
  PROVE  MiddlewaresOf(f) = "authentik"
<1>1. PICK n \in Nat : DOMAIN f.labels.items = 1 .. n
  BY LabelsRead DEF ComposeFile
<1>2. IsFiniteSet(MiddlewareLabels(f))
  <2>1. MiddlewareLabels(f) \in SUBSET (1 .. n)
    BY <1>1 DEF MiddlewareLabels
  <2>2. IsFiniteSet(1 .. n)
    BY FS_Interval
  <2> QED BY <2>1, <2>2, FS_Subset
<1>3. PICK only : MiddlewareLabels(f) = {only}
  BY <1>2, FS_Singleton
<1>4. PICK i \in DOMAIN f.labels.items :
         f.labels.items[i].k = "mws" /\ f.labels.items[i].v = "authentik"
  BY DEF Labelled
<1>5. i = only /\ i \in Pairs(f.labels)
  BY <1>3, <1>4, PairsOf DEF MiddlewareLabels
<1> DEFINE hits == Found(f, {"mws", "mwdef"}, {})
<1>6. hits = {only}
  BY <1>3, <1>4, <1>5, PairsOf DEF MiddlewareLabels, Found
<1>7. \E j \in hits : First(f, {"mws", "mwdef"}, {}, "") = f.labels.items[j].v
  BY <1>6, FirstIsOne
<1> QED BY <1>4, <1>5, <1>6, <1>7 DEF MiddlewaresOf

------------------------------------------------------------------------------
(* From the scan to the landing page. *)

CardsOf(entries) == {[service |-> e.service, url |-> e.url] : e \in {f \in entries : f.landing}}

ScanInv ==
    /\ site \in Sites
    /\ pc \in {"landing", "up", "sync"} => scanned = ScanDirectory(site.files)
    /\ pc \in {"up", "sync", "done"} =>
          page = IF site.landing THEN CardsOf(ScanDirectory(site.files)) ELSE {}
    /\ pc \in {"up", "sync", "done"} => \A c \in page : c.url # NoUrl

LEMMA ScanStep ==
  ASSUME ScanInv, [Next]_vars
  PROVE  ScanInv'
<1> USE DEF ScanInv
<1>1. CASE SiteEdit
  BY <1>1 DEF SiteEdit
<1>2. CASE StartRun
  BY <1>2 DEF StartRun
<1>3. CASE RecreateMonitoring \/ CopyOverride \/ FixRejects
  BY <1>3 DEF RecreateMonitoring, CopyOverride, FixRejects, Fails
<1>4. CASE FixLeaves \/ FixTruncates \/ FixWrites
  BY <1>4 DEF FixLeaves, FixTruncates, FixWrites
<1>5. CASE RunLabelScanner
  BY <1>5 DEF RunLabelScanner
<1>6. CASE RemoveLandingPage \/ LandingFails \/ DeployLandingPage
  BY <1>6 DEF RemoveLandingPage, LandingFails, DeployLandingPage, Cards, CardsOf, Fails
<1>7. CASE ComposeUp
  BY <1>7 DEF ComposeUp
<1>8. CASE RunAuthSync
  BY <1>8 DEF RunAuthSync
<1>9. CASE Fault
  BY <1>9 DEF Fault
<1>10. CASE UNCHANGED vars
  BY <1>10 DEF vars, results
<1> QED BY <1>1, <1>2, <1>3, <1>4, <1>5, <1>6, <1>7, <1>8, <1>9, <1>10 DEF Next

LEMMA ScanInvariant == Spec => []ScanInv
<1>1. Init => ScanInv
  BY DEF Init, ScanInv
<1>2. ScanInv /\ [Next]_vars => ScanInv'
  BY ScanStep
<1> QED BY <1>1, <1>2, PTL DEF Spec

(***************************************************************************)
(* The scanner looks below drayve_deploy_dir only, so what it promises is  *)
(* about sites that keep their services there.                             *)
(***************************************************************************)
FilesInStack == \A s \in Sites : \A f \in s.files : f.at = "stack"

LEMMA CardsFollowLabels ==
  ASSUME FilesInStack, NEW s \in Sites
  PROVE  LET cards == CardsOf(ScanDirectory(s.files)) IN
         /\ {c.service : c \in cards} =
                {f.service : f \in {g \in s.files : g.readable /\ Labelled(g, "card", {"name"})}}
         /\ \A c \in cards : c.url # NoUrl =>
                /\ c.url = "host"
                /\ \A f \in s.files : f.service = c.service => Labelled(f, "rule", {"host"})
<1> DEFINE named == {g \in s.files : g.readable /\ Labelled(g, "card", {"name"})}
           cards == CardsOf(ScanDirectory(s.files))
<1>1. \A f \in s.files : f \in ComposeFile /\ f.at = "stack"
  BY SitesAssumption DEF FilesInStack
<1>2. \A f \in named : [service |-> f.service, url |-> UrlOf(f)] \in cards
  <2> TAKE f \in named
  <2>1. Has(f, "card") /\ f.readable /\ f.at = "stack" /\ f \in s.files
    BY <1>1, CardFound
  <2>2. EntryOf(f) \in ScanDirectory(s.files)
    BY <2>1 DEF ScanDirectory
  <2>3. EntryOf(f).landing /\ EntryOf(f).service = f.service /\ EntryOf(f).url = UrlOf(f)
    BY <2>1 DEF EntryOf
  <2> QED BY <2>2, <2>3 DEF CardsOf
<1>3. \A c \in cards : \E f \in named : c = [service |-> f.service, url |-> UrlOf(f)]
  <2> TAKE c \in cards
  <2>1. PICK e \in ScanDirectory(s.files) :
           e.landing /\ c = [service |-> e.service, url |-> e.url]
    BY DEF CardsOf
  <2>2. PICK f \in s.files : f.readable /\ e = EntryOf(f)
    BY DEF ScanDirectory
  <2>3. Has(f, "card") /\ e.service = f.service /\ e.url = UrlOf(f)
    BY <2>1, <2>2 DEF EntryOf
  <2>4. f \in named
    BY <1>1, <2>2, <2>3, CardFound
  <2> QED BY <2>1, <2>3, <2>4
<1>4. {c.service : c \in cards} = {f.service : f \in named}
  <2> HIDE DEF cards, named
  <2>1. \A f \in named : \E c \in cards : c.service = f.service
    BY <1>2
  <2>2. \A c \in cards : \E f \in named : c.service = f.service
    BY <1>3
  <2> QED BY <2>1, <2>2
<1>5. ASSUME NEW c \in cards, c.url # NoUrl
      PROVE  /\ c.url = "host"
             /\ \A f \in s.files : f.service = c.service => Labelled(f, "rule", {"host"})
  <2>1. PICK g \in named : c = [service |-> g.service, url |-> UrlOf(g)]
    BY <1>3
  <2>2. c.url = "host" /\ Labelled(g, "rule", {"host"})
    BY <1>1, <1>5, <2>1, LinkIsHost
  <2>3. \A f \in s.files : f.service = c.service => f = g
    BY <2>1, SitesAssumption
  <2> QED BY <2>2, <2>3
<1> QED BY <1>4, <1>5

(***************************************************************************)
(* After a run that ended well the landing page shows the services with a  *)
(* name and no other, each with a link to the host of a router: a service  *)
(* without one ends every run at the template, before the page is written. *)
(***************************************************************************)
THEOREM LandingPageFollows == FilesInStack => (Spec => []LandingFollowsLabels)
<1> SUFFICES ASSUME FilesInStack PROVE Spec => []LandingFollowsLabels
  OBVIOUS
<1>1. ScanInv => LandingFollowsLabels
  <2> SUFFICES ASSUME ScanInv, pc = "done" PROVE LandingFollowsLabels
    BY DEF LandingFollowsLabels
  <2>1. site \in Sites /\ \A c \in page : c.url # NoUrl
    BY DEF ScanInv
  <2>2. CASE site.landing
    <3>1. page = CardsOf(ScanDirectory(site.files))
      BY <2>2 DEF ScanInv
    <3> QED BY <2>1, <2>2, <3>1, CardsFollowLabels DEF LandingFollowsLabels
  <2>3. CASE ~site.landing
    <3>1. page = {}
      BY <2>3 DEF ScanInv
    <3> QED BY <2>3, <3>1 DEF LandingFollowsLabels
  <2> QED BY <2>2, <2>3
<1> QED BY <1>1, ScanInvariant, PTL

------------------------------------------------------------------------------
(* Failed runs.  The first one has used up what had changed. *)

FailInv ==
    CanBeDeployed(site) =>
        /\ failures = 0 \/ (failures = 1 /\ ~stale)
        /\ pc = "fix" => disk = site.override

\* On a site that can be deployed every card has a link.
LEMMA LinksOfDeployed ==
  ASSUME NEW s \in Sites, CanBeDeployed(s), s.landing
  PROVE  \A c \in CardsOf(ScanDirectory(s.files)) : c.url # NoUrl
<1> TAKE c \in CardsOf(ScanDirectory(s.files))
<1>1. PICK e \in ScanDirectory(s.files) : e.landing /\ c = [service |-> e.service, url |-> e.url]
  BY DEF CardsOf
<1>2. PICK f \in s.files : f.readable /\ f.at = "stack" /\ e = EntryOf(f)
  BY DEF ScanDirectory
<1>3. f \in ComposeFile /\ Has(f, "card") /\ c.url = UrlOf(f)
  BY <1>1, <1>2, SitesAssumption DEF EntryOf
<1>4. Labelled(f, "rule", {"host"}) /\ ~Labelled(f, "rule", {"unquoted"})
  BY <1>2, <1>3, CardFound DEF CanBeDeployed
<1> QED BY <1>3, <1>4, LinkFound

LEMMA FailStep ==
  ASSUME FailInv, ScanInv, [Next]_vars
  PROVE  FailInv'
<1> USE DEF FailInv
<1>1. CASE SiteEdit
  <2>1. failures' = 0 /\ pc' # "fix"
    BY <1>1 DEF SiteEdit
  <2> QED BY <2>1
<1>2. CASE StartRun
  BY <1>2 DEF StartRun
<1>3. CASE RecreateMonitoring
  BY <1>3 DEF RecreateMonitoring, Fails
<1>4. CASE CopyOverride
  BY <1>4 DEF CopyOverride
<1>5. CASE FixRejects
  BY <1>5 DEF FixRejects, Fails, CanBeDeployed
<1>6. CASE FixLeaves \/ FixTruncates \/ FixWrites
  BY <1>6 DEF FixLeaves, FixTruncates, FixWrites
<1>7. CASE RunLabelScanner \/ RemoveLandingPage \/ DeployLandingPage \/ ComposeUp
  BY <1>7 DEF RunLabelScanner, RemoveLandingPage, DeployLandingPage, ComposeUp
<1>8. CASE RunAuthSync \/ Fault
  BY <1>8 DEF RunAuthSync, Fault
<1>9. CASE LandingFails
  <2>1. site' = site /\ site \in Sites
    BY <1>9 DEF LandingFails, ScanInv
  <2>2. ~CanBeDeployed(site)
    BY <1>9, <2>1, LinksOfDeployed DEF LandingFails, ScanInv, Cards, CardsOf
  <2> QED BY <2>1, <2>2
<1>10. CASE UNCHANGED vars
  BY <1>10 DEF vars
<1> QED BY <1>1, <1>2, <1>3, <1>4, <1>5, <1>6, <1>7, <1>8, <1>9, <1>10 DEF Next

(***************************************************************************)
(* A torn or a malformed file on the host costs one run at the most: the   *)
(* recreate of roles/monitoring that stumbles over it is not tried again,  *)
(* and the next run gets as far as the copy that replaces the file.  If    *)
(* the override parses and the cards have hosts, no later task fails.      *)
(***************************************************************************)
THEOREM OneRunIsLost == Spec => []SecondRunSucceeds
<1>1. Init => FailInv
  <2> SUFFICES ASSUME Init PROVE FailInv
    OBVIOUS
  <2>1. failures = 0 /\ pc # "fix"
    BY DEF Init
  <2> QED BY <2>1 DEF FailInv
<1>2. FailInv /\ ScanInv /\ [Next]_vars => FailInv'
  BY FailStep
<1>3. FailInv => SecondRunSucceeds
  BY DEF FailInv, SecondRunSucceeds
<1> QED BY <1>1, <1>2, <1>3, ScanInvariant, PTL DEF Spec

------------------------------------------------------------------------------
(* The providers. *)

LEMMA SyncCovers ==
  ASSUME FilesInStack, ScanInv, RunAuthSync,
         NEW f \in site.files, f.readable, Labelled(f, "mws", {"authentik"}),
         Cardinality(MiddlewareLabels(f)) = 1, Labelled(f, "rule", {"host"}),
         ~Labelled(f, "rule", {"unquoted"})
  PROVE  f.service \in DOMAIN provider'
<1>1. f \in ComposeFile /\ f.at = "stack" /\ scanned = ScanDirectory(site.files)
  BY SitesAssumption DEF FilesInStack, ScanInv, RunAuthSync
<1>2. Has(f, "rule")
  BY <1>1, PairsOf DEF Has, Labelled
<1>3. EntryOf(f) \in scanned
  BY <1>1, <1>2 DEF ScanDirectory
<1>4. /\ EntryOf(f).service = f.service /\ EntryOf(f).url # NoUrl
      /\ EntryOf(f).middlewares = "authentik"
  BY <1>1, LinkFound, LoginFound DEF EntryOf
<1> DEFINE chosen == {e \in AuthSyncEntries(scanned) : e.url # NoUrl}
           new  == {e.service : e \in chosen} \ DOMAIN provider
<1>5. EntryOf(f) \in chosen
  BY <1>3, <1>4 DEF AuthSyncEntries
<1>6. f.service \in DOMAIN provider \cup new
  BY <1>4, <1>5
<1>7. DOMAIN provider' = DOMAIN provider \cup new
  BY DEF RunAuthSync
<1> QED BY <1>6, <1>7

(***************************************************************************)
(* After a run that ended well, a service whose router asks for            *)
(* authentik@file has a proxy provider: the scan, the choice of the        *)
(* entries and auth-sync.py pass it on, whatever was created before.       *)
(***************************************************************************)
THEOREM ProvidersFollow == FilesInStack => (Spec => []ProtectedServicesHaveProvider)
<1> SUFFICES ASSUME FilesInStack PROVE Spec => []ProtectedServicesHaveProvider
  OBVIOUS
<1>1. Init => ProtectedServicesHaveProvider
  BY DEF Init, ProtectedServicesHaveProvider
<1>2. ScanInv /\ ProtectedServicesHaveProvider /\ [Next]_vars => ProtectedServicesHaveProvider'
  <2> SUFFICES ASSUME ScanInv, ProtectedServicesHaveProvider, [Next]_vars
               PROVE  ProtectedServicesHaveProvider'
    OBVIOUS
  <2>1. CASE RunAuthSync
    <3>1. site' = site
      BY <2>1 DEF RunAuthSync
    <3> QED BY <2>1, <3>1, SyncCovers
            DEF ProtectedServicesHaveProvider, Labelled, MiddlewareLabels
  <2>2. CASE Next /\ ~RunAuthSync
    <3>1. pc' # "done"
      BY <2>2 DEF Next, SiteEdit, StartRun, RecreateMonitoring, CopyOverride, FixRejects,
                  FixLeaves, FixTruncates, FixWrites, RunLabelScanner, RemoveLandingPage,
                  LandingFails, DeployLandingPage, ComposeUp, Fault, Fails
    <3> QED BY <3>1 DEF ProtectedServicesHaveProvider
  <2>3. CASE UNCHANGED vars
    BY <2>3 DEF vars, results, ProtectedServicesHaveProvider, Labelled, MiddlewareLabels
  <2> QED BY <2>1, <2>2, <2>3
<1> QED BY <1>1, <1>2, ScanInvariant, PTL DEF Spec

------------------------------------------------------------------------------
(* Hosts, jobs and the reaper. *)

IsServer(srv) == srv = [id |-> srv.id, name |-> srv.name, age |-> srv.age]

TypeInv == TypeOK /\ \A srv \in servers : IsServer(srv)

LEMMA StartedHosts ==
  ASSUME NEW names, NEW new \in SUBSET [id : FreshIds, name : names, age : {0}]
  PROVE  /\ \A h \in new : /\ IsServer(h) /\ h.age = 0 /\ h.name \in names
                           /\ h.id \in Ids
                           /\ \A srv \in servers \cup todo : srv.id # h.id
                           /\ \A s \in Tested : h.id \notin job[s].hosts
         /\ {h.id : h \in new} \subseteq Ids
  <1>1. \A h \in new : h \in [id : FreshIds, name : names, age : {0}]
    OBVIOUS
  <1>2. \A h \in new : IsServer(h) /\ h.age = 0 /\ h.name \in names /\ h.id \in FreshIds
    BY <1>1 DEF IsServer
  <1>3. \A i \in FreshIds : /\ i \in Ids
                            /\ \A srv \in servers \cup todo : srv.id # i
                            /\ \A s \in Tested : i \notin job[s].hosts
    BY DEF FreshIds
  <1> QED BY <1>2, <1>3

LEMMA OlderType ==
  ASSUME NEW age \in 0 .. Threshold
  PROVE  Older(age) \in 0 .. Threshold /\ Older(age) = IF age < Threshold THEN age + 1 ELSE age
  BY ToolsAssumption DEF Older

LEMMA TypeStep ==
  ASSUME TypeInv, [ToolsNext]_toolVars
  PROVE  TypeInv'
<1> USE DEF TypeInv, TypeOK
<1>1. CASE RunCheckVars \/ WarmCache
  BY <1>1 DEF RunCheckVars, WarmCache, toolBounds
<1>2. CASE CreateForeign
  <2>1. PICK id \in FreshIds, name \in LoadAllowlist(tree.scenarios) :
           NameIsFree({name}) /\ servers' = servers \cup {[id |-> id, name |-> name, age |-> 0]}
    BY <1>2 DEF CreateForeign
  <2> DEFINE h == [id |-> id, name |-> name, age |-> 0]
  <2>2. /\ id \in Ids /\ \A srv \in servers : srv.id # id
        /\ \A srv \in servers : srv.name # name
    BY <2>1 DEF FreshIds, NameIsFree, Named
  <2>3. h.id = id /\ h.name = name /\ h.age = 0 /\ IsServer(h)
    BY DEF IsServer
  <2>4. 0 \in 0 .. Threshold /\ foreign + 1 \in 0 .. MaxForeign
    BY <1>2, ToolsAssumption DEF CreateForeign
  <2> HIDE DEF h
  <2>5. servers' = servers \cup {h}
    BY <2>1 DEF h
  <2>6. /\ \A srv \in servers' : srv.id \in Ids /\ srv.age \in 0 .. Threshold /\ IsServer(srv)
        /\ \A a, b \in servers' : (a.id = b.id \/ a.name = b.name) => a = b
    BY <2>2, <2>3, <2>4, <2>5
  <2>7. foreign' \in 0 .. MaxForeign
    BY <1>2, <2>4 DEF CreateForeign
  <2> QED BY <1>2, <2>6, <2>7 DEF CreateForeign, sources
<1>3. CASE Tick
  <2> DEFINE Aged(srv) == [srv EXCEPT !.age = Older(@)]
  <2>1. \A srv \in servers : /\ Aged(srv).id = srv.id /\ Aged(srv).name = srv.name
                             /\ Aged(srv).age \in 0 .. Threshold /\ IsServer(Aged(srv))
    BY OlderType DEF IsServer
  <2>2. servers' = {Aged(srv) : srv \in servers}
    BY <1>3 DEF Tick
  <2> HIDE DEF Aged
  <2>3. /\ \A srv \in servers' : srv.id \in Ids /\ srv.age \in 0 .. Threshold /\ IsServer(srv)
        /\ \A a, b \in servers' : (a.id = b.id \/ a.name = b.name) => a = b
    BY <2>1, <2>2
  <2>4. job' \in [Tested -> [state : {"off", "running", "cut"}, hosts : SUBSET Ids,
                             age : 0 .. Threshold]]
    <3>1. \A s \in Tested : [job[s] EXCEPT !.age = Older(@)]
             \in [state : {"off", "running", "cut"}, hosts : SUBSET Ids, age : 0 .. Threshold]
      BY OlderType
    <3> QED BY <1>3, <3>1 DEF Tick
  <2>5. overruns' \in 0 .. MaxOverruns
    <3>1. LastTick \in SUBSET Tested
      BY DEF LastTick
    <3>2. Cardinality(LastTick) \in Nat
      BY <3>1, ToolsAssumption, FS_Subset, FS_CardinalityType
    <3> QED BY <1>3, <3>2, ToolsAssumption DEF Tick
  <2> QED BY <1>3, <2>3, <2>4, <2>5 DEF Tick, sources
<1>4. CASE ReapStart
  BY <1>4 DEF ReapStart, sources, toolBounds
<1>5. ASSUME NEW s \in Tested, RemoveScenario(s) PROVE TypeInv'
  <2>1. removals' \in 0 .. MaxRemovals
    BY <1>5, ToolsAssumption DEF RemoveScenario
  <2> QED BY <1>5, <2>1 DEF RemoveScenario
<1>6. ASSUME NEW s \in Tested, StartTest(s) PROVE TypeInv'
  <2> DEFINE names == ServersOf(s)
  <2>1. PICK new \in SUBSET [id : FreshIds, name : names, age : {0}] :
           /\ \A a, b \in new : (a.id = b.id \/ a.name = b.name) => a = b
           /\ servers' = servers \cup new
           /\ job' = [job EXCEPT ![s] = [state |-> "running", age |-> 0,
                                         hosts |-> {h.id : h \in new}]]
    BY <1>6, Zenon DEF StartTest
  <2>2. \A srv \in servers : srv.name \notin names
    BY <1>6 DEF StartTest, NameIsFree, Named
  <2> HIDE DEF names
  <2>3. /\ \A h \in new : /\ IsServer(h) /\ h.age = 0 /\ h.name \in names /\ h.id \in Ids
                          /\ \A srv \in servers : srv.id # h.id
        /\ {h.id : h \in new} \subseteq Ids
    BY StartedHosts
  <2>4. 0 \in 0 .. Threshold
    BY ToolsAssumption
  <2>5. /\ \A srv \in servers' : srv.id \in Ids /\ srv.age \in 0 .. Threshold /\ IsServer(srv)
        /\ \A a, b \in servers' : (a.id = b.id \/ a.name = b.name) => a = b
    BY <2>1, <2>2, <2>3, <2>4
  <2>6. job' \in [Tested -> [state : {"off", "running", "cut"}, hosts : SUBSET Ids,
                             age : 0 .. Threshold]]
    BY <2>1, <2>3, <2>4
  <2> QED BY <1>6, <2>5, <2>6 DEF StartTest, sources, toolBounds
<1>7. ASSUME NEW s \in Tested, FinishTest(s) \/ CutTest(s) \/ DestroyAgain(s) \/ WipeWorkspace(s)
      PROVE  TypeInv'
  <2>1. servers' \subseteq servers
    BY <1>7 DEF FinishTest, CutTest, DestroyAgain, WipeWorkspace
  <2>2. Idle \in [state : {"off", "running", "cut"}, hosts : SUBSET Ids, age : 0 .. Threshold]
    BY ToolsAssumption DEF Idle
  <2>3. job' \in [Tested -> [state : {"off", "running", "cut"}, hosts : SUBSET Ids,
                             age : 0 .. Threshold]]
    BY <1>7, <2>2 DEF FinishTest, CutTest, DestroyAgain, WipeWorkspace
  <2>4. UNCHANGED <<sources, removals, foreign>>
    BY <1>7 DEF FinishTest, CutTest, DestroyAgain, WipeWorkspace, toolBounds
  <2>5. overruns' \in 0 .. MaxOverruns
    BY <1>7, ToolsAssumption DEF FinishTest, CutTest, DestroyAgain, WipeWorkspace, toolBounds
  <2> QED BY <2>1, <2>3, <2>4, <2>5 DEF sources
<1>8. ASSUME NEW srv \in todo, ReapDelete(srv) \/ ReapRaises(srv) PROVE TypeInv'
  <2>1. servers' \subseteq servers
    BY <1>8 DEF ReapDelete, ReapRaises
  <2> QED BY <1>8, <2>1 DEF ReapDelete, ReapRaises, sources, toolBounds
<1>9. CASE UNCHANGED toolVars
  BY <1>9 DEF toolVars, sources, toolBounds
<1> QED BY <1>1, <1>2, <1>3, <1>4, <1>5, <1>6, <1>7, <1>8, <1>9 DEF ToolsNext

LEMMA TypeInvariant == ToolsSpec => []TypeInv
<1>1. ToolsInit => TypeInv
  <2> SUFFICES ASSUME ToolsInit PROVE TypeInv
    OBVIOUS
  <2>1. Idle \in [state : {"off", "running", "cut"}, hosts : SUBSET Ids, age : 0 .. Threshold]
    BY ToolsAssumption DEF Idle
  <2>2. job \in [Tested -> [state : {"off", "running", "cut"}, hosts : SUBSET Ids,
                            age : 0 .. Threshold]]
    BY <2>1 DEF ToolsInit
  <2>3. removals \in 0 .. MaxRemovals /\ foreign \in 0 .. MaxForeign /\ overruns \in 0 .. MaxOverruns
    BY ToolsAssumption DEF ToolsInit
  <2> QED BY <2>2, <2>3 DEF ToolsInit, TypeInv, TypeOK
<1>2. TypeInv /\ [ToolsNext]_toolVars => TypeInv'
  BY TypeStep
<1> QED BY <1>1, <1>2, PTL DEF ToolsSpec

(***************************************************************************)
(* Host names and ids stay unique, whatever is created, deleted and        *)
(* created again.                                                          *)
(***************************************************************************)
THEOREM HostsAreUnique == ToolsSpec => []TypeOK
BY TypeInvariant, PTL DEF TypeInv

Young(s) == job[s].state = "running" /\ job[s].age < Threshold

(***************************************************************************)
(* Why the reaper spares a young test: its hosts are as old as the test    *)
(* itself, belong to no other job, and no list the reaper still works off  *)
(* has one of their ids, which were free while that list was made.         *)
(***************************************************************************)
ReaperInv ==
    /\ \A s, r \in Tested : s # r => job[s].hosts \cap job[r].hosts = {}
    /\ \A s \in Tested : Young(s) =>
          \A h \in job[s].hosts :
             /\ \E srv \in servers : srv.id = h /\ srv.age = job[s].age
             /\ \A srv \in todo : srv.id # h

LEMMA ReaperStep ==
  ASSUME TypeInv, ReaperInv, [ToolsNext]_toolVars
  PROVE  ReaperInv'
<1>1. CASE RunCheckVars \/ WarmCache
  BY <1>1 DEF RunCheckVars, WarmCache, ReaperInv, Young
<1>2. CASE CreateForeign
  <2>1. servers \subseteq servers' /\ UNCHANGED <<job, todo>>
    BY <1>2 DEF CreateForeign
  <2> QED BY <2>1 DEF ReaperInv, Young
<1>3. CASE Tick
  <2>1. \A s \in Tested : /\ job'[s].hosts = job[s].hosts /\ job'[s].state = job[s].state
                          /\ job[s].state # "off" => job'[s].age = Older(job[s].age)
    BY <1>3 DEF Tick, TypeInv, TypeOK
  <2>2. \A s, r \in Tested : s # r => job'[s].hosts \cap job'[r].hosts = {}
    BY <2>1 DEF ReaperInv
  <2>3. ASSUME NEW s \in Tested, Young(s)', NEW h \in job'[s].hosts
        PROVE  /\ \E srv \in servers' : srv.id = h /\ srv.age = job'[s].age
               /\ \A srv \in todo' : srv.id # h
    <3>1. job[s].state = "running" /\ job'[s].age = Older(job[s].age) /\ Older(job[s].age) < Threshold
      BY <2>1, <2>3 DEF Young
    <3>2. Young(s)
      BY <3>1, OlderType, ToolsAssumption DEF Young, TypeInv, TypeOK
    <3>3. PICK srv \in servers : srv.id = h /\ srv.age = job[s].age
      BY <2>1, <2>3, <3>2 DEF ReaperInv
    <3> DEFINE aged == [srv EXCEPT !.age = Older(@)]
    <3>4. aged \in servers'
      BY <1>3 DEF Tick
    <3>5. IsServer(srv)
      BY DEF TypeInv
    <3>6. aged.id = h /\ aged.age = job'[s].age
      BY <3>1, <3>3, <3>5 DEF IsServer
    <3>7. \A o \in todo' : o.id # h
      BY <1>3, <2>1, <2>3, <3>2 DEF ReaperInv, Tick
    <3> QED BY <3>4, <3>6, <3>7
  <2> QED BY <2>2, <2>3 DEF ReaperInv
<1>4. CASE ReapStart
  <2>1. ASSUME NEW s \in Tested, Young(s), NEW h \in job[s].hosts, NEW o \in todo'
        PROVE  o.id # h
    <3>1. o \in servers /\ o.age >= Threshold
      BY <1>4 DEF ReapStart, SelectOrphans
    <3>2. PICK srv \in servers : srv.id = h /\ srv.age = job[s].age
      BY <2>1 DEF ReaperInv
    <3>3. srv.age < Threshold /\ srv.age \in 0 .. Threshold
      BY <2>1, <3>2 DEF Young, TypeInv, TypeOK
    <3>4. o # srv
      BY <3>1, <3>3, ToolsAssumption
    <3> QED BY <3>1, <3>2, <3>4 DEF TypeInv, TypeOK
  <2>2. UNCHANGED <<servers, job>>
    BY <1>4 DEF ReapStart
  <2> QED BY <2>1, <2>2 DEF ReaperInv, Young
<1>5. ASSUME NEW s \in Tested, RemoveScenario(s) PROVE ReaperInv'
  BY <1>5 DEF RemoveScenario, ReaperInv, Young
<1>6. ASSUME NEW s \in Tested, StartTest(s) PROVE ReaperInv'
  <2> DEFINE names == ServersOf(s)
  <2>1. PICK new \in SUBSET [id : FreshIds, name : names, age : {0}] :
           /\ \A a, b \in new : (a.id = b.id \/ a.name = b.name) => a = b
           /\ servers' = servers \cup new
           /\ job' = [job EXCEPT ![s] = [state |-> "running", age |-> 0,
                                         hosts |-> {h.id : h \in new}]]
    BY <1>6, Zenon DEF StartTest
  <2> HIDE DEF names
  <2>2. todo' = todo
    BY <1>6 DEF StartTest
  <2>3. \A h \in new : /\ h.age = 0 /\ \A srv \in todo : srv.id # h.id
                       /\ \A r \in Tested : h.id \notin job[r].hosts
    BY StartedHosts
  <2>4. /\ job'[s] = [state |-> "running", age |-> 0, hosts |-> {h.id : h \in new}]
        /\ \A r \in Tested : r # s => job'[r] = job[r]
    BY <2>1 DEF TypeInv, TypeOK
  <2>5. ASSUME NEW r \in Tested, NEW q \in Tested, r # q
        PROVE  job'[r].hosts \cap job'[q].hosts = {}
    BY <2>3, <2>4, <2>5 DEF ReaperInv
  <2>6. ASSUME NEW r \in Tested, Young(r)', NEW h \in job'[r].hosts
        PROVE  /\ \E srv \in servers' : srv.id = h /\ srv.age = job'[r].age
               /\ \A srv \in todo' : srv.id # h
    <3>1. CASE r = s
      <4>1. PICK srv \in new : srv.id = h
        BY <2>4, <2>6, <3>1
      <4> QED BY <2>1, <2>2, <2>3, <2>4, <3>1, <4>1
    <3>2. CASE r # s
      <4>1. job'[r] = job[r]
        BY <2>4, <3>2
      <4> QED BY <2>1, <2>2, <2>6, <4>1 DEF ReaperInv, Young
    <3> QED BY <3>1, <3>2
  <2> QED BY <2>5, <2>6 DEF ReaperInv
<1>7. ASSUME NEW s \in Tested, FinishTest(s) \/ CutTest(s) \/ DestroyAgain(s) \/ WipeWorkspace(s)
      PROVE  ReaperInv'
  <2>1. /\ servers' \in {servers, servers \ WithIds(job[s].hosts)} /\ todo' = todo
        /\ job'[s].hosts \subseteq job[s].hosts /\ job'[s].state # "running"
        /\ \A r \in Tested : r # s => job'[r] = job[r]
    BY <1>7 DEF FinishTest, CutTest, DestroyAgain, WipeWorkspace, TypeInv, TypeOK, Idle
  <2>2. \A r, q \in Tested : r # q => job'[r].hosts \cap job'[q].hosts = {}
    BY <2>1 DEF ReaperInv
  <2>3. ASSUME NEW r \in Tested, Young(r)', NEW h \in job'[r].hosts
        PROVE  /\ \E srv \in servers' : srv.id = h /\ srv.age = job'[r].age
               /\ \A srv \in todo' : srv.id # h
    <3>1. r # s /\ job'[r] = job[r]
      BY <2>1, <2>3 DEF Young
    <3>2. h \in job[r].hosts /\ h \notin job[s].hosts /\ Young(r)
      BY <2>3, <3>1 DEF ReaperInv, Young
    <3>3. PICK srv \in servers : srv.id = h /\ srv.age = job[r].age
      BY <3>2 DEF ReaperInv
    <3>4. srv \in servers'
      BY <2>1, <3>2, <3>3 DEF WithIds
    <3>5. \A o \in todo' : o.id # h
      BY <2>1, <3>2 DEF ReaperInv
    <3> QED BY <3>1, <3>3, <3>4, <3>5
  <2> QED BY <2>2, <2>3 DEF ReaperInv
<1>8. ASSUME NEW o \in todo, ReapDelete(o) \/ ReapRaises(o) PROVE ReaperInv'
  <2>1. /\ servers' \in {servers, servers \ WithIds({o.id})} /\ todo' \subseteq todo
        /\ job' = job
    BY <1>8 DEF ReapDelete, ReapRaises
  <2>2. ASSUME NEW r \in Tested, Young(r), NEW h \in job[r].hosts
        PROVE  /\ \E srv \in servers' : srv.id = h /\ srv.age = job[r].age
               /\ \A srv \in todo' : srv.id # h
    <3>1. o.id # h
      BY <2>2 DEF ReaperInv
    <3>2. PICK srv \in servers : srv.id = h /\ srv.age = job[r].age
      BY <2>2 DEF ReaperInv
    <3>3. srv \in servers'
      BY <2>1, <3>1, <3>2 DEF WithIds
    <3>4. \A q \in todo' : q.id # h
      BY <2>1, <2>2 DEF ReaperInv
    <3> QED BY <3>2, <3>3, <3>4
  <2> QED BY <2>1, <2>2 DEF ReaperInv, Young
<1>9. CASE UNCHANGED toolVars
  BY <1>9 DEF toolVars, ReaperInv, Young
<1> QED BY <1>1, <1>2, <1>3, <1>4, <1>5, <1>6, <1>7, <1>8, <1>9 DEF ToolsNext

(***************************************************************************)
(* The reaper deletes no host of a test that is younger than the           *)
(* threshold, also from a list that was read before the test began and     *)
(* names a host that had its name.                                         *)
(***************************************************************************)
THEOREM ReaperSparesTests == ToolsSpec => []RunningTestsKeepHosts
<1>1. ToolsInit => ReaperInv
  BY DEF ToolsInit, ReaperInv, Young, Idle
<1>2. TypeInv /\ ReaperInv /\ [ToolsNext]_toolVars => ReaperInv'
  BY ReaperStep
<1>3. ReaperInv => RunningTestsKeepHosts
  BY DEF ReaperInv, RunningTestsKeepHosts, Young
<1> QED BY <1>1, <1>2, <1>3, TypeInvariant, PTL DEF ToolsSpec

------------------------------------------------------------------------------
(* The image list. *)

LEMMA PulledIsCollected ==
  ASSUME NEW s \in DOMAIN tree.scenarios, NEW line \in tree.images,
         PulledBy(s, line) # NoImage, IsRef(PulledBy(s, line)),
         line.var \in ImageVarNames \/ PulledBy(s, line) = line.default
  PROVE  Normalize(PulledBy(s, line)) \in CollectImages(tree)
<1> DEFINE o == tree.scenarios[s].overrides
           v == line.var
           image == PulledBy(s, line)
<1>1. CASE image = line.default
  BY <1>1 DEF ImageLines, CollectImages
<1>2. CASE image # line.default
  <2>1. v \in ImageVarNames
    BY <1>2
  <2>2. CASE v \in DOMAIN o
    BY <2>1, <2>2 DEF PulledBy, Values, CollectImages, ImageVars
  <2>3. CASE v \notin DOMAIN o
    BY <1>2, <2>1, <2>3 DEF PulledBy, Values, CollectImages, ImageVars
  <2> QED BY <2>2, <2>3
<1> QED BY <1>1, <1>2

CacheInv == warmed => cache = HubImages(tree)

LEMMA CacheSuffices ==
  ASSUME CacheInv
  PROVE  PulledImagesAreCached
<1> SUFFICES ASSUME warmed PROVE PulledImagesAreCached
  BY DEF PulledImagesAreCached
<1>1. cache = {i \in CollectImages(tree) : IsDockerHub(i)}
  BY DEF CacheInv, HubImages
<1>2. ASSUME NEW i \in cache PROVE i.registry = "" /\ i.tag # ""
  <2>1. PICK r : i = Normalize(r) /\ IsDockerHub(i)
    BY <1>1 DEF CollectImages
  <2> QED BY <2>1 DEF Normalize, IsDockerHub, DockerHub
<1>3. ASSUME NEW s \in DOMAIN tree.scenarios, NEW line \in tree.images,
             PulledBy(s, line) # NoImage, IsRef(PulledBy(s, line)),
             PulledBy(s, line).registry \in {"", "docker.io"},
             line.var \in ImageVarNames \/ PulledBy(s, line) = line.default
      PROVE  LET image == PulledBy(s, line) IN
             \E i \in cache : /\ i.name = image.name
                              /\ i.tag = (IF image.tag = "" THEN "latest" ELSE image.tag)
  <2> DEFINE image == PulledBy(s, line)
  <2>1. Normalize(image) \in CollectImages(tree)
    BY <1>3, PulledIsCollected
  <2>2. /\ Normalize(image).registry = "" /\ Normalize(image).name = image.name
        /\ Normalize(image).tag = (IF image.tag = "" THEN "latest" ELSE image.tag)
    BY <1>3 DEF Normalize
  <2>3. Normalize(image) \in cache
    BY <1>1, <2>1, <2>2 DEF IsDockerHub, DockerHub
  <2> QED BY <2>2, <2>3
<1> QED BY <1>2, <1>3 DEF PulledImagesAreCached

(***************************************************************************)
(* The cache that was warmed from a tree has every image of Docker Hub     *)
(* that a scenario of this tree can pull by a plain name, whichever of the *)
(* places decides, under the name and the tag Docker asks for.             *)
(***************************************************************************)
THEOREM CacheIsComplete == ToolsSpec => []PulledImagesAreCached
<1>1. ToolsInit => CacheInv
  BY DEF ToolsInit, CacheInv
<1>2. CacheInv /\ [ToolsNext]_toolVars => CacheInv'
  <2> SUFFICES ASSUME CacheInv, [ToolsNext]_toolVars PROVE CacheInv'
    OBVIOUS
  <2>1. CASE WarmCache
    BY <2>1 DEF WarmCache, CacheInv
  <2>2. ASSUME NEW s \in Tested, RemoveScenario(s) PROVE CacheInv'
    BY <2>2 DEF RemoveScenario, CacheInv
  <2>3. ASSUME UNCHANGED <<tree, cache, warmed>> PROVE CacheInv'
    BY <2>3 DEF CacheInv
  <2>4. ASSUME NEW s \in Tested, \/ StartTest(s) \/ FinishTest(s) \/ CutTest(s)
                                 \/ DestroyAgain(s) \/ WipeWorkspace(s)
        PROVE  CacheInv'
    BY <2>3, <2>4 DEF StartTest, FinishTest, CutTest, DestroyAgain, WipeWorkspace, sources
  <2>5. ASSUME NEW srv \in todo, ReapDelete(srv) \/ ReapRaises(srv) PROVE CacheInv'
    BY <2>3, <2>5 DEF ReapDelete, ReapRaises, sources
  <2>6. CASE RunCheckVars \/ CreateForeign \/ Tick \/ ReapStart \/ UNCHANGED toolVars
    BY <2>3, <2>6 DEF RunCheckVars, CreateForeign, Tick, ReapStart, toolVars, sources
  <2> QED BY <2>1, <2>2, <2>4, <2>5, <2>6 DEF ToolsNext
<1> QED BY <1>1, <1>2, CacheSuffices, PTL DEF ToolsSpec

------------------------------------------------------------------------------
(* check-vars.py.  What the search for the shortest match finds, token by  *)
(* token, can be said at once: a position is in a raw block if one was     *)
(* opened, not closed since, and is closed later.                          *)

InRaw(text, i) ==
    /\ \E j \in 1 .. i : text[j].t = "raw" /\ \A k \in j .. i : text[k].t # "endraw"
    /\ \E m \in i + 1 .. Len(text) : text[m].t = "endraw"

LEMMA InRawStep ==
  ASSUME NEW text, Len(text) \in Nat, NEW i \in 1 .. Len(text)
  PROVE  InRaw(text, i) <=> IF InRaw(text, i - 1) THEN text[i].t # "endraw"
                            ELSE text[i].t = "raw" /\ Closes(text, i)
<1>1. CASE InRaw(text, i - 1)
  <2>1. PICK j \in 1 .. i - 1 : text[j].t = "raw" /\ \A k \in j .. i - 1 : text[k].t # "endraw"
    BY <1>1 DEF InRaw
  <2>2. PICK m \in i .. Len(text) : text[m].t = "endraw"
    BY <1>1 DEF InRaw
  <2>3. CASE text[i].t # "endraw"
    <3>1. j \in 1 .. i /\ \A k \in j .. i : text[k].t # "endraw"
      BY <2>1, <2>3
    <3>2. m \in i + 1 .. Len(text)
      BY <2>2, <2>3
    <3> QED BY <1>1, <2>1, <2>2, <2>3, <3>1, <3>2 DEF InRaw
  <2>4. CASE text[i].t = "endraw"
    <3>1. \A l \in 1 .. i : i \in l .. i
      OBVIOUS
    <3> QED BY <1>1, <2>4, <3>1 DEF InRaw
  <2> QED BY <2>3, <2>4
<1>2. CASE ~InRaw(text, i - 1)
  <2>1. ASSUME text[i].t = "raw", Closes(text, i) PROVE InRaw(text, i)
    <3>1. i \in 1 .. i /\ \A k \in i .. i : text[k].t # "endraw"
      BY <2>1
    <3> QED BY <2>1, <3>1 DEF InRaw, Closes
  <2>2. ASSUME InRaw(text, i) PROVE text[i].t = "raw" /\ Closes(text, i)
    <3>1. PICK j \in 1 .. i : text[j].t = "raw" /\ \A k \in j .. i : text[k].t # "endraw"
      BY <2>2 DEF InRaw
    <3>2. PICK m \in i + 1 .. Len(text) : text[m].t = "endraw"
      BY <2>2 DEF InRaw
    <3>3. ~(j < i)
      <4> SUFFICES ASSUME j < i PROVE InRaw(text, i - 1)
        BY <1>2
      <4>1. j \in 1 .. i - 1 /\ m \in (i - 1) + 1 .. Len(text)
        OBVIOUS
      <4>2. \A k \in j .. i - 1 : text[k].t # "endraw"
        BY <3>1
      <4> QED BY <3>1, <3>2, <4>1, <4>2 DEF InRaw
    <3>4. j = i
      BY <3>3
    <3> QED BY <3>1, <3>2, <3>4 DEF Closes
  <2> QED BY <1>2, <2>1, <2>2
<1> QED BY <1>1, <1>2

LEMMA StripIsInRaw ==
  ASSUME NEW text, Len(text) \in Nat, DOMAIN text = 1 .. Len(text)
  PROVE  StripRawBlocks(text) = {i \in DOMAIN text : ~InRaw(text, i)}
<1> DEFINE n == Len(text)
           Within(f, i) == IF i = 0 THEN FALSE
                           ELSE IF f[i - 1] THEN text[i].t # "endraw"
                           ELSE text[i].t = "raw" /\ Closes(text, i)
           inside == CHOOSE f : f = [i \in 0 .. n |-> Within(f, i)]
           g == [i \in 0 .. n |-> InRaw(text, i)]
<1>1. StripRawBlocks(text) = {i \in DOMAIN text : ~inside[i]}
  BY DEF StripRawBlocks
<1>2. \A i \in 0 .. n : Within(g, i) = InRaw(text, i)
  <2>1. Within(g, 0) = InRaw(text, 0)
    BY DEF InRaw
  <2>2. \A i \in 1 .. n : i - 1 \in 0 .. n /\ g[i - 1] = InRaw(text, i - 1)
    OBVIOUS
  <2>3. \A i \in 1 .. n : Within(g, i) = InRaw(text, i)
    BY <2>2, InRawStep
  <2> QED BY <2>1, <2>3
<1>3. g = [i \in 0 .. n |-> Within(g, i)]
  BY <1>2
<1>4. inside = [i \in 0 .. n |-> Within(inside, i)]
  BY <1>3
<1> HIDE DEF inside
<1>5. \A i \in 0 .. n : inside[i] = InRaw(text, i)
  <2> DEFINE Bad == {i \in 0 .. n : inside[i] # InRaw(text, i)}
  <2> SUFFICES ASSUME Bad # {} PROVE FALSE
    OBVIOUS
  <2>1. PICK i \in Bad : \A j \in Bad : i <= j
    <3>1. Bad \subseteq Nat
      OBVIOUS
    <3> QED BY <3>1, Least
  <2>2. i \in 0 .. n /\ inside[i] = Within(inside, i)
    BY <1>4
  <2>3. CASE i = 0
    <3>1. InRaw(text, 0) = FALSE
      BY DEF InRaw
    <3>2. inside[0] = FALSE
      BY <2>2, <2>3
    <3> QED BY <2>1, <2>3, <3>1, <3>2
  <2>4. CASE i # 0
    <3>1. i \in 1 .. n /\ i - 1 \in 0 .. n /\ i - 1 \notin Bad
      BY <2>1, <2>2, <2>4
    <3>2. inside[i - 1] = InRaw(text, i - 1)
      BY <3>1
    <3>3. inside[i] = IF inside[i - 1] THEN text[i].t # "endraw"
                      ELSE text[i].t = "raw" /\ Closes(text, i)
      BY <2>2, <2>4
    <3>4. InRaw(text, i) = IF InRaw(text, i - 1) THEN text[i].t # "endraw"
                           ELSE text[i].t = "raw" /\ Closes(text, i)
      <4>1. InRaw(text, i) \in BOOLEAN /\ Closes(text, i) \in BOOLEAN
        BY DEF InRaw, Closes
      <4> QED BY <3>1, <4>1, InRawStep
    <3>5. inside[i] = InRaw(text, i)
      BY <3>2, <3>3, <3>4, Zenon
    <3> QED BY <2>1, <3>5
  <2> QED BY <2>3, <2>4
<1> QED BY <1>1, <1>5

LEMMA LiteralIsInRaw ==
  ASSUME NEW text, Len(text) \in Nat, NEW i \in 1 .. Len(text), text[i].t = "ref"
  PROVE  InRaw(text, i) <=> IsLiteral(text, i)
<1>1. (\E m \in i + 1 .. Len(text) : text[m].t = "endraw")
      <=> \E m \in i .. Len(text) : text[m].t = "endraw"
  <2>1. \A m \in i .. Len(text) : text[m].t = "endraw" => m \in i + 1 .. Len(text)
    <3> TAKE m \in i .. Len(text)
    <3> HAVE text[m].t = "endraw"
    <3>1. m # i
      OBVIOUS
    <3> QED BY <3>1
  <2>2. \A m \in i + 1 .. Len(text) : m \in i .. Len(text)
    OBVIOUS
  <2> QED BY <2>1, <2>2
<1> QED BY <1>1 DEF InRaw, IsLiteral

\* What the proofs use of a tree; only its scenarios change.
IsTree(t) ==
    /\ t = [defs |-> t.defs, text |-> t.text, scenarios |-> t.scenarios, prefix |-> t.prefix,
            group_vars |-> t.group_vars, defaults |-> t.defaults, images |-> t.images]
    /\ Len(t.text) \in Nat /\ DOMAIN t.text = 1 .. Len(t.text)
    /\ \A d \in t.defs : d.kind \in DefinitionKinds \cup {"option"}

LEMMA TreesAreTrees == \A t \in Trees : IsTree(t)
<1> TAKE t \in Trees
<1> DEFINE S == {t.text[i] : i \in DOMAIN t.text}
<1>1. t.text \in Seq(S)
  BY TreesAssumption
<1> HIDE DEF S
<1>2. Len(t.text) \in Nat /\ DOMAIN t.text = 1 .. Len(t.text)
  BY <1>1
<1> QED BY <1>2, TreesAssumption DEF IsTree

LEMMA DefinedIsCollected ==
  ASSUME NEW name, IsTree(tree)
  PROVE  IsDefined(name) <=> name \in MAGIC \cup CollectDefinitions(tree) \cup Whitelist
<1> DEFINE Counts(d) == d.readable /\ d.kind # "option"
                        /\ <<d.kind, d.name>> # <<"set_fact", "cacheable">>
<1>1. \A d \in tree.defs :
         Counts(d) <=> /\ d.readable /\ d.kind \in DefinitionKinds
                       /\ ~(d.kind = "set_fact" /\ d.name = "cacheable")
  <2>1. "option" \notin DefinitionKinds
    BY DEF DefinitionKinds
  <2>2. \A d \in tree.defs : d.kind \in DefinitionKinds \cup {"option"}
    BY DEF IsTree
  <2> QED BY <2>1, <2>2
<1>2. (\E d \in tree.defs : d.name = name /\ Counts(d)) <=> name \in WalkDefinitions(tree)
  <2> HIDE DEF Counts
  <2>1. WalkDefinitions(tree) = {d.name : d \in {e \in tree.defs : Counts(e)}}
    BY <1>1 DEF WalkDefinitions
  <2> QED BY <2>1
<1>3. (\E i \in DOMAIN tree.text : tree.text[i].t \in {"for", "set"} /\ tree.text[i].name = name)
      <=> name \in JinjaDefinitions(tree.text)
  BY DEF JinjaDefinitions
<1> QED BY <1>2, <1>3 DEF IsDefined, CollectDefinitions

LEMMA UndefinedIsFound ==
  ASSUME IsTree(tree)
  PROVE  Undefined(tree) = {} <=>
            \A i \in DOMAIN tree.text :
               /\ tree.text[i].t = "ref" /\ tree.text[i].guard = "none"
               /\ ~IsLiteral(tree.text, i)
               => IsDefined(tree.text[i].name)
<1> DEFINE Refs == {i \in DOMAIN tree.text : /\ tree.text[i].t = "ref"
                                              /\ tree.text[i].guard = "none"
                                              /\ ~IsLiteral(tree.text, i)}
<1>1. Len(tree.text) \in Nat /\ DOMAIN tree.text = 1 .. Len(tree.text)
  BY DEF IsTree
<1>2. StripRawBlocks(tree.text) = {i \in DOMAIN tree.text : ~InRaw(tree.text, i)}
  BY <1>1, StripIsInRaw
<1>3. \A i \in DOMAIN tree.text :
         tree.text[i].t = "ref" => (InRaw(tree.text, i) <=> IsLiteral(tree.text, i))
  BY <1>1, LiteralIsInRaw
<1>4. CollectRefs(tree.text) = {tree.text[i].name : i \in Refs}
  <2>1. {j \in StripRawBlocks(tree.text) :
            tree.text[j].t = "ref" /\ tree.text[j].guard = "none"} = Refs
    BY <1>2, <1>3
  <2> QED BY <2>1 DEF CollectRefs
<1>5. Undefined(tree) = {} <=> \A i \in Refs : IsDefined(tree.text[i].name)
  <2> HIDE DEF Refs
  <2>1. Undefined(tree) = {} <=> \A name \in CollectRefs(tree.text) : IsDefined(name)
    BY DefinedIsCollected DEF Undefined
  <2> QED BY <1>4, <2>1
<1> QED BY <1>5

GateInv ==
    /\ IsTree(tree)
    /\ verdict # "none" => (verdict = "pass" <=> Undefined(tree) = {})

LEMMA GateStep ==
  ASSUME GateInv, [ToolsNext]_toolVars
  PROVE  GateInv'
<1>1. CASE RunCheckVars
  <2>1. IsTree(tree)' /\ Undefined(tree)' = Undefined(tree)
    BY <1>1 DEF RunCheckVars, GateInv
  <2> QED BY <1>1, <2>1 DEF RunCheckVars, GateInv
<1>2. ASSUME NEW s \in Tested, RemoveScenario(s) PROVE GateInv'
  <2>1. tree' = [defs |-> tree.defs, text |-> tree.text, scenarios |-> tree'.scenarios,
                 prefix |-> tree.prefix, group_vars |-> tree.group_vars, defaults |-> tree.defaults,
                 images |-> tree.images]
    BY <1>2 DEF RemoveScenario, GateInv, IsTree
  <2>2. IsTree(tree)'
    BY <2>1 DEF GateInv, IsTree
  <2> QED BY <1>2, <2>2 DEF RemoveScenario, GateInv
<1>3. ASSUME UNCHANGED <<tree, verdict>> PROVE GateInv'
  <2>1. IsTree(tree)' /\ Undefined(tree)' = Undefined(tree)
    BY <1>3 DEF GateInv
  <2> QED BY <1>3, <2>1 DEF GateInv
<1>4. ASSUME NEW s \in Tested, \/ StartTest(s) \/ FinishTest(s) \/ CutTest(s)
                               \/ DestroyAgain(s) \/ WipeWorkspace(s)
      PROVE  GateInv'
  BY <1>3, <1>4 DEF StartTest, FinishTest, CutTest, DestroyAgain, WipeWorkspace, sources
<1>5. ASSUME NEW srv \in todo, ReapDelete(srv) \/ ReapRaises(srv) PROVE GateInv'
  BY <1>3, <1>5 DEF ReapDelete, ReapRaises, sources
<1>6. CASE WarmCache \/ CreateForeign \/ Tick \/ ReapStart \/ UNCHANGED toolVars
  BY <1>3, <1>6 DEF WarmCache, CreateForeign, Tick, ReapStart, toolVars, sources
<1> QED BY <1>1, <1>2, <1>4, <1>5, <1>6 DEF ToolsNext

(***************************************************************************)
(* check-vars.py passes a tree exactly if every reference that Jinja would *)
(* evaluate without a guard has a definition, for texts of any length and  *)
(* raw blocks in any order.                                                *)
(***************************************************************************)
THEOREM GateIsExact == ToolsSpec => []GateFindsReferences
<1>1. ToolsInit => GateInv
  BY TreesAreTrees DEF ToolsInit, GateInv
<1>2. GateInv /\ [ToolsNext]_toolVars => GateInv'
  BY GateStep
<1>3. GateInv => GateFindsReferences
  BY UndefinedIsFound DEF GateInv, GateFindsReferences
<1> QED BY <1>1, <1>2, <1>3, PTL DEF ToolsSpec
==============================================================================
