---------------------------- MODULE MCReleaseTools ----------------------------
(***************************************************************************)
(* Instances of ReleaseTools: small trees, each with one question for one  *)
(* of the three scripts, and a few in which the gate's jobs run.           *)
(***************************************************************************)
EXTENDS ReleaseTools

MCMagic == {"item"}
MCWhitelist == {"cli_option"}
MCTested == {"basic", "light"}

Raw == [t |-> "raw"]
EndRaw == [t |-> "endraw"]
For(n) == [t |-> "for", name |-> n]
Set(n) == [t |-> "set", name |-> n]
Ref(n, g) == [t |-> "ref", name |-> n, guard |-> g]

Empty == [x \in {} |-> x]
Scenario(p, o, r) == [platforms |-> p, overrides |-> o, readable |-> r]
Only(defs, text) == [defs |-> defs, text |-> text, scenarios |-> Empty, prefix |-> <<>>,
                     group_vars |-> Empty, defaults |-> Empty, images |-> {}]

\* Where a name is defined, and how it is used.
DefTrees ==
    {Only({[kind |-> k, name |-> n, readable |-> r]}, <<Ref(n, g)>>) :
        k \in DefinitionKinds \cup {"option"}, n \in {"domain", "cacheable", "item", "cli_option"},
        r \in BOOLEAN, g \in {"none", "default", "is defined", "is not defined"}}

\* Raw blocks that are opened, nested, left open, and closed twice.
TextTrees ==
    {Only({}, t) : t \in UNION {[1 .. n -> {Raw, EndRaw, Ref("domain", "none"), For("host"),
                                           Set("domain"), Ref("host", "none")}] : n \in 1 .. 4}}

Image(f, r, n, t) == [form |-> f, registry |-> r, name |-> n, tag |-> t]
Nothing == Image("none", "none", "", "")
Refs == {Image("ref", "", "nginx", ""), Image("ref", "docker.io", "nginx", "1"),
         Image("ref", "ghcr.io", "nginx", "1"), Image("digest", "", "nginx", "1")}
MCImageVarNames == {"web_image"}
Maybe(v) == {Empty} \cup [{v} -> Refs]

\* A line uses a variable that the script reads or one that it does not, or none.
ImageTrees ==
    {[defs |-> {}, text |-> <<>>, scenarios |-> [s \in {"spare"} |-> Scenario({}, o, TRUE)], prefix |-> <<>>,
      group_vars |-> g, defaults |-> d, images |-> {[var |-> v, default |-> i]}] :
        o \in Maybe("web_image"),
        g \in Maybe("web_image") \cup {[v \in {"web_ref"} |-> Image("ref", "", "nginx", "1")]},
        d \in Maybe("web_image"),
        v \in {"web_image", "web_ref", ""}, i \in Refs \cup {Nothing}}

\* One job's host is that of the base configuration, the other has its own, or two of its own.
JobTree(x, p, r) ==
    [Only({}, <<>>) EXCEPT !.prefix = x, !.scenarios =
        [s \in {"basic", "light"} |-> IF s = "basic" THEN Scenario({}, Empty, TRUE)
                                      ELSE Scenario(p, Empty, r)]]

OneHost == {<<"test", "light">>}
TwoHosts == {<<"edge", "a">>, <<"edge", "b">>}

\* With the driver that prepends nothing, and with the one that prepends a namespace.
JobTrees == {JobTree(<<>>, TwoHosts, TRUE), JobTree(<<>>, OneHost, FALSE),
             JobTree(<<"namespace">>, OneHost, TRUE)}

MCTrees == DefTrees \cup TextTrees \cup ImageTrees \cup JobTrees
===============================================================================
