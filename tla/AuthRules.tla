------------------------------ MODULE AuthRules ------------------------------
(***************************************************************************)
(* playbooks/filter_plugins/drayve_auth.py: what the checks shared by      *)
(* `make validate` and the playbooks accept in `auth` and in               *)
(* `security.trusted_proxies`.  Findings are not listed one by one: a      *)
(* section is accepted or not, and a warning is given or not.              *)
(*                                                                         *)
(* A value of stack.yaml is a record with a type t and, where it matters,  *)
(* a content v.  Strings are sequences of parts: <<"*", "site">> is a      *)
(* wildcard domain, <<"^", "public">> an anchored regex, "{{" stands       *)
(* before a part that is a template, and <<"upper", "x">> is another       *)
(* spelling of <<"x">>.  A mapping has a field "typo" for the keys nobody  *)
(* reads: a function from the key that was meant to its value.             *)
(***************************************************************************)
EXTENDS Integers, Sequences, FiniteSets

CONSTANTS
    W4, W6,              \* bits of an IPv4 and of an IPv6 address
    MIN_PREFIX_V4, MIN_PREFIX_V6,
    MappedBase           \* first address of the IPv4-mapped range ::ffff:0:0/96

\* 2 ^ n as a function: what the provers can reason about.
Pow2[n \in Nat] == IF n = 0 THEN 1 ELSE 2 * Pow2[n - 1]

ASSUME WidthAssumption == /\ W4 \in Nat /\ W6 \in Nat /\ W4 < W6
                          /\ MIN_PREFIX_V4 \in 1 .. W4 /\ MIN_PREFIX_V6 \in 1 .. W6
                          /\ MappedBase \in Nat /\ MappedBase % Pow2[W4] = 0

Absent  == [t |-> "absent"]
Null    == [t |-> "null"]
Other   == [t |-> "other"]      \* a number, a mapping, a list of other things
Str(s)  == [t |-> "str", v |-> s]
List(s) == [t |-> "list", v |-> s]

Given(v) == v.t \notin {"absent", "null"}

POLICIES == {"deny", "one_factor", "two_factor", "bypass"}
Lists == {"groups", "resources", "networks"}

HasTemplate(s) == \E i \in DOMAIN s : s[i] = "{{"

CheckTemplateSyntax(v) ==
    /\ v.t = "str" => ~HasTemplate(v.v)
    /\ v.t = "list" => \A i \in DOMAIN v.v : ~HasTemplate(v.v[i])

\* Mutant of CheckKeys: the keys are not looked at.
AnyKeys(m) == TRUE

CheckKeys(m) == DOMAIN m.typo = {}

CheckPolicy(v) == v.t = "str" /\ v.v \in POLICIES

CheckStrList(v) == v.t \in {"absent", "list"}

------------------------------------------------------------------------------
(* auth.access_control *)

CheckRule(rule) ==
    /\ CheckKeys(rule)
    /\ \/ rule.domain.t = "str"
       \/ rule.domain.t = "list" /\ rule.domain.v # << >>
    /\ CheckTemplateSyntax(rule.domain)
    /\ CheckPolicy(rule.policy)
    /\ \A k \in Lists : CheckStrList(rule[k]) /\ CheckTemplateSyntax(rule[k])

CheckRules(ac) ==
    Given(ac.rules) =>
        /\ ac.rules.t = "list"
        /\ ac.rules.v # << >> => ac.default_policy # Absent
        /\ \A i \in DOMAIN ac.rules.v : CheckRule(ac.rules.v[i])

Elements(v) == IF v.t = "list" THEN {v.v[i] : i \in DOMAIN v.v}
               ELSE IF v.t = "str" THEN {v.v} ELSE {}

ListElements(v) == IF v.t = "list" THEN Elements(v) ELSE {}

IsBypass(rule) == rule.policy = Str("bypass")

Wildcards(rule) == {d \in Elements(rule.domain) : d # << >> /\ d[1] = "*"}

\* Mutant of RuleIsQuiet: a resource of any form counts as a restriction.
RuleIsQuietUnanchored(rule) ==
    /\ ~(/\ IsBypass(rule) /\ Wildcards(rule) # {}
         /\ ListElements(rule.groups) = {} /\ ListElements(rule.resources) = {})
    /\ \A w \in Wildcards(rule) : Tail(w) \in Elements(rule.domain)

\* No warning for the rule: see the three cases of _rule_warnings.
RuleIsQuiet(rule) ==
    /\ ~(/\ IsBypass(rule) /\ Wildcards(rule) # {}
         /\ ListElements(rule.groups) = {} /\ ListElements(rule.resources) = {})
    /\ \A w \in Wildcards(rule) : Tail(w) \in Elements(rule.domain)
    /\ IsBypass(rule) => \A r \in ListElements(rule.resources) : r # << >> /\ r[1] = "^"

------------------------------------------------------------------------------
(* auth.users *)

Fold(name) == <<name[Len(name)]>>

CheckUsers(users) ==
    Given(users) =>
        /\ users.t = "list"
        /\ \A i \in DOMAIN users.v :
               LET user == users.v[i] IN
               /\ CheckKeys(user)
               /\ user.name.t = "str" /\ user.name.v # << >> /\ ~HasTemplate(user.name.v)
               /\ CheckStrList(user.groups) /\ CheckTemplateSyntax(user.groups)
        /\ \A i, j \in DOMAIN users.v :
               Fold(users.v[i].name.v) = Fold(users.v[j].name.v) => i = j

KnownGroups(users) ==
    IF users.t # "list" THEN {}
    ELSE UNION {ListElements(users.v[i].groups) : i \in DOMAIN users.v}

\* Mutant of CheckGroupExistence: one known group of a rule is enough.
CheckAnyGroup(ac, users) ==
    ac.rules.t = "list" =>
        \A i \in DOMAIN ac.rules.v :
            LET named == ListElements(ac.rules.v[i].groups)
            IN  named # {} => named \cap KnownGroups(users) # {}

CheckGroupExistence(ac, users) ==
    ac.rules.t = "list" =>
        \A i \in DOMAIN ac.rules.v :
            \A g \in ListElements(ac.rules.v[i].groups) : HasTemplate(g) \/ g \in KnownGroups(users)

------------------------------------------------------------------------------
(* auth.remote, auth.session_*; a URL is [https, host, path, clean] *)

ForwardAuthPath == "/api/authz/forward-auth"

Https(v) == v.t = "url" /\ v.v.https

CheckRemote(remote) ==
    /\ CheckKeys(remote)
    /\ Https(remote.forward_auth_url) => remote.forward_auth_url.v.path = ForwardAuthPath
    /\ Given(remote.portal_url) => Https(remote.portal_url)

SessionKeys == {"session_inactivity", "session_expiration", "session_remember_me"}

Duration  == [t |-> "duration"]          \* 8h, 1h30m
Number(n) == [t |-> "int", v |-> n]

CheckSession(session) ==
    \A k \in SessionKeys :
        \/ ~Given(session[k])
        \/ session[k] = Duration
        \/ k = "session_remember_me" /\ session[k] = Number(-1)

------------------------------------------------------------------------------

ProviderOf(auth) == IF auth.provider = Absent THEN "basic" ELSE auth.provider.v

Truthy(v) == v \in {"true", "yes"}

CheckAuth(auth) ==
    /\ ProviderOf(auth) = "authelia_remote" => CheckRemote(auth.remote)
    /\ ProviderOf(auth) = "authelia" =>
           /\ CheckSession(auth.session)
           /\ CheckUsers(auth.users)
           /\ CheckKeys(auth.access_control)
           /\ \/ auth.access_control.default_policy = Absent
              \/ CheckPolicy(auth.access_control.default_policy)
           /\ CheckRules(auth.access_control)
           /\ Truthy(auth.lldap) \/ CheckGroupExistence(auth.access_control, auth.users)

\* No warning about a rule.
IsQuiet(auth) ==
    LET rules == auth.access_control.rules
    IN  ProviderOf(auth) = "authelia" /\ rules.t = "list"
        => \A i \in DOMAIN rules.v : RuleIsQuiet(rules.v[i])

------------------------------------------------------------------------------
(* security.trusted_proxies; an entry is "bad" or a network [t, version,
   address, prefixlen] *)

Width(version) == IF version = 4 THEN W4 ELSE W6

Addresses(n) ==
    LET size == Pow2[Width(n.version) - n.prefixlen]
    IN  {a \in 0 .. Pow2[Width(n.version)] - 1 : a \div size = n.address \div size}

IPV4_MAPPED == [t |-> "net", version |-> 6, address |-> MappedBase, prefixlen |-> W6 - W4]

Overlaps(m, n) == m.address \in Addresses(n) \/ n.address \in Addresses(m)

\* Mutant of CheckProxy: only the mapped range itself is refused.
CheckProxyNotMapped(n) ==
    /\ n.t = "net"
    /\ n.address % Pow2[Width(n.version) - n.prefixlen] = 0
    /\ n.prefixlen >= IF n.version = 4 THEN MIN_PREFIX_V4 ELSE MIN_PREFIX_V6
    /\ n # IPV4_MAPPED

\* A prefix length of 0 is below both minima.
CheckProxy(n) ==
    /\ n.t = "net"
    /\ n.address % Pow2[Width(n.version) - n.prefixlen] = 0
    /\ n.prefixlen >= IF n.version = 4 THEN MIN_PREFIX_V4 ELSE MIN_PREFIX_V6
    /\ n.version = 6 => ~Overlaps(n, IPV4_MAPPED)

CheckTrustedProxies(proxies) ==
    \/ proxies = Absent
    \/ proxies.t = "list" /\ \A i \in DOMAIN proxies.v : CheckProxy(proxies.v[i])
==============================================================================
