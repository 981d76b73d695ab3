------------------------------ MODULE StackCheck ------------------------------
(***************************************************************************)
(* From stack.yaml to the configuration of a host.  `make deploy` runs     *)
(* scripts/validate-stack.py on the file as it is written; every playbook, *)
(* also one that is called without make, runs tasks/auth_preflight.yml on  *)
(* the values after Ansible has expanded their templates; then the roles   *)
(* of a run without tags render what Authelia and Traefik read.            *)
(***************************************************************************)
EXTENDS AuthRules

CONSTANTS
    Stacks,              \* what an operator may have written
    Requests             \* [host, groups, path, net]: requests of users who are signed in

VARIABLES
    stack,
    via,                 \* "make" or "playbook"
    pc,
    quiet,               \* no warning about an access rule was printed
    host                 \* what the roles have rendered

checkVars == <<stack, via, pc, quiet, host>>

(* What is assumed of a stack.yaml: a section that is left out is a mapping
   of absent values, and a regex with an anchor has one part after it.  Of
   `typo` and of what a check rejects nothing is assumed.  An auth.lldap
   that is a "word" is a string like `enabled`. *)

Expand(text) == SelectSeq(text, LAMBDA part : part # "{{")

OneSegment(regex) == regex # << >> /\ regex[1] = "^" => regex = <<"^", regex[2]>>

IsRule(r) ==
    /\ DOMAIN r = {"domain", "policy", "groups", "resources", "networks", "typo"}
    /\ \A name \in Elements(r.domain) : Expand(name) \in Seq(STRING)
    /\ r.policy.t = "str" => r.policy = Str(r.policy.v)
    /\ \A regex \in Elements(r.resources) : OneSegment(Expand(regex))

IsEntry(n) ==
    n.t = "net" => /\ n.version \in {4, 6} /\ n.prefixlen \in 0 .. Width(n.version)
                   /\ n.address \in 0 .. Pow2[Width(n.version)] - 1

IsList(v) == v.t = "list" => v = List(v.v) /\ Len(v.v) \in Nat /\ DOMAIN v.v = 1 .. Len(v.v)

IsAuth(auth) ==
    /\ DOMAIN auth = {"provider", "lldap", "ldap", "access_control", "users", "remote", "session",
                      "cookie_domain", "portal_url", "oidc_clients"}
    /\ DOMAIN auth.access_control = {"default_policy", "rules", "typo"}
    /\ DOMAIN auth.session = SessionKeys
    /\ auth.lldap \in {"absent", "false", "true", "yes", "word"} /\ auth.ldap \in BOOLEAN
    /\ IsList(auth.users) /\ IsList(auth.access_control.rules)
    /\ \A r \in ListElements(auth.access_control.rules) : IsRule(r)

ASSUME StacksAssumption ==
    \A s \in Stacks : /\ IsAuth(s.auth)
                      /\ s.drayve_domain \in Seq(STRING)
                      /\ \A n \in ListElements(s.trusted_proxies) : IsEntry(n)

Providers == {"none", "basic", "authelia", "authelia_remote", "authentik"}
Profiles  == {"full", "light", "none"}

Covers(domain, name) ==
    /\ Len(name) >= Len(domain)
    /\ SubSeq(name, Len(name) - Len(domain) + 1, Len(name)) = domain

------------------------------------------------------------------------------
(* Checks of validate-stack.py and auth_preflight.yml that are written twice *)

RemoteIsGiven(auth) ==
    ProviderOf(auth) = "authelia_remote" =>
        /\ Https(auth.remote.forward_auth_url) /\ auth.remote.forward_auth_url.v.clean
        /\ Given(auth.remote.portal_url)

\* An empty string counts as not written.
Written(v) == v.t # "absent" /\ v # Str(<< >>)

CookieDomain(auth, domain) ==
    IF Written(auth.cookie_domain) THEN auth.cookie_domain.v ELSE domain

Portal(auth, domain) ==
    IF auth.portal_url.t = "url" THEN auth.portal_url.v
    ELSE [https |-> TRUE, host |-> <<"auth">> \o domain]

\* Mutant of PortalIsCovered: looked at only when both are written.
PortalIsCoveredIfBoth(auth, domain) ==
    /\ ProviderOf(auth) = "authelia"
    /\ Written(auth.cookie_domain) /\ Written(auth.portal_url)
    => /\ Portal(auth, domain).https
       /\ Covers(CookieDomain(auth, domain), Portal(auth, domain).host)

PortalIsCovered(auth, domain) ==
    /\ ProviderOf(auth) = "authelia"
    /\ Written(auth.cookie_domain) \/ Written(auth.portal_url)
    => /\ Portal(auth, domain).https
       /\ Covers(CookieDomain(auth, domain), Portal(auth, domain).host)

ByProfile(s) == s.profile \in {"absent", "full"}

GrafanaOn(s) == IF s.monitoring_grafana = "absent" THEN ByProfile(s)
                ELSE s.monitoring_grafana = "true"

GrafanaKeepsClient(s) ==
    ProviderOf(s.auth) = "authelia" /\ Given(s.auth.oidc_clients) /\ GrafanaOn(s)
    => "grafana" \in s.auth.oidc_clients.v

------------------------------------------------------------------------------
(* validate-stack.py *)

DirectoryFits(auth) ==
    /\ auth.lldap \notin {"absent", "false"} => ProviderOf(auth) = "authelia"
    /\ auth.ldap => ProviderOf(auth) = "authentik"

Validate(s) ==
    /\ ProviderOf(s.auth) \in Providers
    /\ s.profile \in Profiles \cup {"absent"}
    /\ DirectoryFits(s.auth)
    /\ RemoteIsGiven(s.auth)
    /\ CheckAuth(s.auth)
    /\ CheckTrustedProxies(s.trusted_proxies)
    /\ PortalIsCovered(s.auth, s.domain)
    /\ GrafanaKeepsClient(s)

------------------------------------------------------------------------------
(* auth_preflight.yml sees the values after Ansible has expanded them.  In
   `provider`, `lldap`, the policies and auth.remote templates are not
   modelled: a name that is none of the known ones stands for them. *)

ExpandValue(v) ==
    CASE v.t = "str"  -> Str(Expand(v.v))
      [] v.t = "list" -> List([i \in DOMAIN v.v |-> Expand(v.v[i])])
      [] v.t = "url"  -> [v EXCEPT !.v.host = Expand(@)]
      [] OTHER        -> v

ExpandRule(r) == [k \in DOMAIN r |-> IF k \in Lists \cup {"domain"} THEN ExpandValue(r[k]) ELSE r[k]]

ExpandUser(u) == [k \in DOMAIN u |-> IF k \in {"name", "groups"} THEN ExpandValue(u[k]) ELSE u[k]]

ExpandUsers(users) ==
    IF users.t # "list" THEN users ELSE List([i \in DOMAIN users.v |-> ExpandUser(users.v[i])])

ExpandAccessControl(ac) ==
    IF ac.rules.t # "list" THEN ac
    ELSE [ac EXCEPT !.rules.v = [i \in DOMAIN @ |-> ExpandRule(@[i])]]

ExpandAuth(auth) ==
    [auth EXCEPT !.access_control = ExpandAccessControl(@), !.users = ExpandUsers(@),
                 !.cookie_domain = ExpandValue(@), !.portal_url = ExpandValue(@)]

Preflight(s) ==
    LET auth == ExpandAuth(s.auth) IN
    /\ RemoteIsGiven(auth)
    /\ PortalIsCovered(auth, s.drayve_domain)
    /\ GrafanaKeepsClient(s)
    /\ CheckAuth(auth)
    /\ CheckTrustedProxies(s.trusted_proxies)

------------------------------------------------------------------------------
(* The templates *)

\* `for x in value`: of a string it takes the characters.
Items(v) == CASE v.t = "list" -> Elements(v)
              [] v.t = "str"  -> {<<"char">>}
              [] OTHER        -> {}

RenderRule(r) ==
    [domain    |-> Elements(r.domain),
     policy    |-> r.policy.v,
     groups    |-> Items(r.groups),
     resources |-> Items(r.resources),
     networks  |-> Items(r.networks)]

DefaultOf(ac) == IF ac.default_policy = Absent THEN "one_factor" ELSE ac.default_policy.v

RenderAccessControl(ac) ==
    [default_policy |-> DefaultOf(ac),
     rules |-> IF ac.rules.t = "list"
               THEN [i \in DOMAIN ac.rules.v |-> RenderRule(ac.rules.v[i])]
               ELSE << >>]

\* The users file is a mapping from names to groups.
RenderUsers(users) ==
    IF users.t # "list" THEN {}
    ELSE {[name |-> u.name.v, groups |-> Items(u.groups)] : u \in {users.v[i] : i \in DOMAIN users.v}}

\* What a template cannot be filled with ends the run: no client list, no
\* user or a user without an email.
Renderable(auth) ==
    ProviderOf(auth) = "authelia" =>
        /\ auth.oidc_clients # Null
        /\ Truthy(auth.lldap) \/ (auth.users.t = "list" /\ auth.users.v # << >>)
        /\ auth.users.t = "list" => \A i \in DOMAIN auth.users.v : auth.users.v[i].email

RenderedHost(s) ==
    LET auth == ExpandAuth(s.auth) IN
    [provider       |-> ProviderOf(auth),
     directory      |-> ProviderOf(auth) = "authelia" /\ Truthy(auth.lldap),
     ldap_source    |-> ProviderOf(auth) = "authentik" /\ auth.ldap,
     access_control |-> RenderAccessControl(auth.access_control),
     users          |-> RenderUsers(auth.users),
     session        |-> auth.session,
     cookie_domain  |-> CookieDomain(auth, s.drayve_domain),
     portal         |-> Portal(auth, s.drayve_domain),
     forward        |-> auth.remote.forward_auth_url,
     grafana        |-> GrafanaOn(s),
     clients        |-> IF auth.oidc_clients.t = "list" THEN auth.oidc_clients.v ELSE {"grafana"},
     trusted        |-> IF s.trusted_proxies.t = "list" THEN Elements(s.trusted_proxies) ELSE {}]

NoHost     == [provider |-> "unset"]
PartOfHost == [provider |-> "unknown"]

------------------------------------------------------------------------------
CheckInit ==
    /\ stack \in Stacks
    /\ via \in {"make", "playbook"}
    /\ pc = IF via = "make" THEN "validate" ELSE "preflight"
    /\ quiet = TRUE /\ host = NoHost

RunValidateStack ==
    /\ pc = "validate"
    /\ pc' = IF Validate(stack) THEN "preflight" ELSE "rejected"
    /\ UNCHANGED <<stack, via, quiet, host>>

RunPreflight ==
    /\ pc = "preflight"
    /\ pc' = IF Preflight(stack) THEN "render" ELSE "rejected"
    /\ quiet' = IsQuiet(ExpandAuth(stack.auth))
    /\ UNCHANGED <<stack, via, host>>

\* What was rendered before a template that fails stays on the host.
Render ==
    /\ pc = "render"
    /\ IF Renderable(stack.auth)
       THEN host' = RenderedHost(stack) /\ pc' = "done"
       ELSE host' = PartOfHost /\ pc' = "failed"
    /\ UNCHANGED <<stack, via, quiet>>

CheckNext == RunValidateStack \/ RunPreflight \/ Render

CheckSpec == CheckInit /\ [][CheckNext]_checkVars

------------------------------------------------------------------------------
(* Authelia: the first rule that matches decides.  Domains and resources
   and groups of a rule are alternatives; an empty list does not restrict. *)

MatchesDomain(d, name) ==
    IF d # << >> /\ d[1] = "*" THEN Len(name) > Len(d) - 1 /\ Covers(Tail(d), name)
    ELSE name = d

\* A regex that is not anchored is searched in the whole path.
MatchesPath(r, path) ==
    IF r # << >> /\ r[1] = "^" THEN path # << >> /\ path[1] = r[2]
    ELSE \E i \in DOMAIN path : r = <<path[i]>>

Matches(rule, q) ==
    /\ \E d \in rule.domain : MatchesDomain(d, q.host)
    /\ rule.groups = {} \/ rule.groups \cap q.groups # {}
    /\ rule.resources = {} \/ \E r \in rule.resources : MatchesPath(r, q.path)
    /\ rule.networks = {} \/ q.net \in rule.networks

Deciding(rules, q) ==
    {i \in DOMAIN rules : /\ Matches(rules[i], q)
                          /\ \A j \in 1 .. i - 1 : ~Matches(rules[j], q)}

Decision(ac, q) ==
    IF Deciding(ac.rules, q) = {} THEN ac.default_policy
    ELSE ac.rules[CHOOSE i \in Deciding(ac.rules, q) : TRUE].policy

(* The rules as the operator means them: a string is a list of one, and a
   misspelled key has the meaning of the one it resembles. *)

Key(m, k) == IF k \in DOMAIN m.typo THEN m.typo[k] ELSE m[k]

MeantRule(r) ==
    [domain    |-> Elements(Key(r, "domain")),
     policy    |-> r.policy.v,
     groups    |-> Elements(Key(r, "groups")),
     resources |-> Elements(Key(r, "resources")),
     networks  |-> Elements(Key(r, "networks"))]

Meant(ac) ==
    [default_policy |-> IF Key(ac, "default_policy") = Absent THEN "one_factor"
                        ELSE Key(ac, "default_policy").v,
     rules |-> IF ac.rules.t = "list"
               THEN [i \in DOMAIN ac.rules.v |-> MeantRule(ac.rules.v[i])]
               ELSE << >>]

OnAuthelia == pc = "done" /\ host.provider = "authelia"

(***************************************************************************)
(* Authelia decides every request as the rules are meant: no type, no      *)
(* template and no misspelled key that passes the checks changes what a    *)
(* rule matches.                                                           *)
(***************************************************************************)
RulesMeanWhatIsWritten ==
    OnAuthelia =>
        \A q \in Requests : Decision(host.access_control, q)
                            = Decision(Meant(ExpandAuth(stack.auth).access_control), q)

(***************************************************************************)
(* With the file backend every group a rule names has a member in the      *)
(* users file: otherwise the rule never matches, and a request falls       *)
(* through to a rule or default that may ask for less.                     *)
(***************************************************************************)
GroupsHaveMembers ==
    OnAuthelia /\ ~host.directory =>
        \A i \in DOMAIN host.access_control.rules :
            \A g \in host.access_control.rules[i].groups : \E u \in host.users : g \in u.groups

(***************************************************************************)
(* The users file has an entry of its own for every user, also for an      *)
(* Authelia that does not tell upper from lower case in names.             *)
(***************************************************************************)
UsersAreKeptApart ==
    OnAuthelia =>
        /\ Cardinality(host.users) = (IF stack.auth.users.t = "list" THEN Len(stack.auth.users.v) ELSE 0)
        /\ \A u, w \in host.users : u.name[Len(u.name)] = w.name[Len(w.name)] => u = w

(***************************************************************************)
(* The users file fits the rules: every group of a rule has its members,   *)
(* and no user loses an entry, and groups with it, to another one.         *)
(***************************************************************************)
UsersFileFitsRules == GroupsHaveMembers /\ UsersAreKeptApart

(***************************************************************************)
(* Without a warning, a rule lets nobody in without login except to a host *)
(* it names or to a path it names from its start, and a wildcard covers    *)
(* the bare domain too.  Not for a bypass rule with groups, with which     *)
(* Authelia does not start.                                                *)
(***************************************************************************)
WarningsAreEnough ==
    OnAuthelia /\ quiet =>
        \A i \in DOMAIN host.access_control.rules :
            LET rule == host.access_control.rules[i] IN
            /\ \A d \in rule.domain :
                   d # << >> /\ d[1] = "*" => \E e \in rule.domain : MatchesDomain(e, Tail(d))
            /\ \A q \in Requests :
                   rule.policy = "bypass" /\ rule.groups = {} /\ Matches(rule, q)
                   => \/ q.host \in rule.domain /\ rule.resources = {}
                      \/ \E r \in rule.resources : r = <<"^", q.path[1]>>

(***************************************************************************)
(* Authelia can start with what was accepted: it knows the policies, the   *)
(* durations have a form it reads, and the portal is below the cookie      *)
(* domain, also when one of the two has its default.                       *)
(***************************************************************************)
AutheliaCanStart ==
    OnAuthelia =>
        /\ host.access_control.default_policy \in {"deny", "one_factor", "two_factor", "bypass"}
        /\ host.session["session_remember_me"] # Str(<<"-1">>)
        /\ \A k \in DOMAIN host.session : host.session[k].t \in {"absent", "null", "duration", "int"}
        /\ host.portal.https /\ Covers(host.cookie_domain, host.portal.host)

(***************************************************************************)
(* A run that deploys Grafana behind Authelia, where its login form is     *)
(* off, renders the client it signs in with.                               *)
(***************************************************************************)
GrafanaCanSignIn ==
    OnAuthelia /\ host.grafana => "grafana" \in host.clients

(***************************************************************************)
(* The middleware of authelia_remote asks the endpoint that refuses        *)
(* requests, and never a page that answers 200 to everyone.                *)
(***************************************************************************)
ForwardAuthIsEndpoint ==
    pc = "done" /\ host.provider = "authelia_remote" =>
        /\ host.forward.t = "url" /\ host.forward.v.https
        /\ host.forward.v.path = ForwardAuthPath

(* Traefik's checker is Go's IPNet.Contains: a network whose address is a
   mapped one is an IPv4 network, with the last bits of its mask. *)
IsMapped(a) == a \in MappedBase .. MappedBase + Pow2[W4] - 1

TrustedV4(n) ==
    IF n.version = 4 THEN Addresses(n)
    ELSE IF ~IsMapped(n.address) THEN {}
    ELSE LET bits == IF n.prefixlen > W6 - W4 THEN n.prefixlen - (W6 - W4) ELSE 0
         IN  {a \in 0 .. Pow2[W4] - 1 :
                a \div Pow2[W4 - bits] = (n.address % Pow2[W4]) \div Pow2[W4 - bits]}

(***************************************************************************)
(* No accepted entry makes Traefik believe the forwarded headers of more   *)
(* clients than a network of the shortest prefix has, and an IPv6 entry    *)
(* trusts no IPv4 client.                                                  *)
(***************************************************************************)
TrustIsNarrow ==
    pc = "done" =>
        \A n \in host.trusted :
            /\ Cardinality(TrustedV4(n)) <= Pow2[W4 - MIN_PREFIX_V4]
            /\ n.version = 6 => /\ TrustedV4(n) = {}
                                /\ Cardinality(Addresses(n)) <= Pow2[W6 - MIN_PREFIX_V6]

(***************************************************************************)
(* With `make deploy` nothing that is switched on is ignored: the provider *)
(* is one a role deploys, and a directory that is asked for is deployed.   *)
(* Not so for a word that is no boolean: to the validator it is true, and  *)
(* to the roles, which filter it with `bool`, false.                       *)
(***************************************************************************)
NothingIsIgnored ==
    pc = "done" /\ via = "make" =>
        /\ host.provider \in Providers
        /\ stack.auth.lldap \notin {"absent", "false", "word"} => host.directory
        /\ stack.auth.ldap => host.ldap_source

(***************************************************************************)
(* What was accepted is a login that works, with each provider, for        *)
(* visitors and for Grafana.                                               *)
(***************************************************************************)
LoginWorks ==
    AutheliaCanStart /\ GrafanaCanSignIn /\ ForwardAuthIsEndpoint /\ NothingIsIgnored
==============================================================================
