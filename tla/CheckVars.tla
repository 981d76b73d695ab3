------------------------------ MODULE CheckVars ------------------------------
(***************************************************************************)
(* scripts/check-vars.py: the variables that files under ansible/ and      *)
(* molecule/ refer to, against those that are defined anywhere.            *)
(* A tree has defs, a set of [kind, name, readable], and text, the tokens  *)
(* of its YAML files: {% raw %}, {% endraw %}, {% for %}, {% set %} and    *)
(* references [t |-> "ref", name, guard].                                  *)
(***************************************************************************)
EXTENDS Integers, Sequences

CONSTANTS MAGIC, Whitelist

DefinitionKinds == {"defaults", "vars_file", "group_vars", "set_fact", "register", "vars", "loop_var",
          "molecule_group_vars", "molecule_host_vars"}

\* An option of set_fact is not a fact.  A file that cannot be parsed
\* defines nothing, but its text is read all the same.
WalkDefinitions(tree) ==
    {d.name : d \in {e \in tree.defs :
                        /\ e.readable /\ e.kind \in DefinitionKinds
                        /\ ~(e.kind = "set_fact" /\ e.name = "cacheable")}}

\* {% for %} and {% set %} count inside raw blocks too.
JinjaDefinitions(text) ==
    {text[i].name : i \in {j \in DOMAIN text : text[j].t \in {"for", "set"}}}

CollectDefinitions(tree) == WalkDefinitions(tree) \cup JinjaDefinitions(tree.text)

Closes(text, i) == \E j \in i + 1 .. Len(text) : text[j].t = "endraw"

\* Mutant of StripRawBlocks: the longest match, to the last endraw.
StripLongest(text) ==
    {i \in DOMAIN text : ~(/\ Closes(text, i)
                           /\ \E j \in 1 .. i : text[j].t = "raw")}

\* Positions outside of raw blocks: the shortest match that is closed.
StripRawBlocks(text) ==
    LET inside[i \in 0 .. Len(text)] ==
            IF i = 0 THEN FALSE
            ELSE IF inside[i - 1] THEN text[i].t # "endraw"
            ELSE text[i].t = "raw" /\ Closes(text, i)
    IN  {i \in DOMAIN text : ~inside[i]}

CollectRefs(text) ==
    {text[i].name : i \in {j \in StripRawBlocks(text) :
                              text[j].t = "ref" /\ text[j].guard = "none"}}

Undefined(tree) ==
    CollectRefs(tree.text) \ (MAGIC \cup CollectDefinitions(tree) \cup Whitelist)
==============================================================================
