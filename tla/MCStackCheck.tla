----------------------------- MODULE MCStackCheck -----------------------------
(* stack.yaml files for TLC: a plain one, and families that vary one part. *)
EXTENDS StackCheck

Apex == <<"site">>
App  == <<"app", "site">>
Wiki == <<"wiki", "site">>
Wild == <<"*", "site">>
Admins == <<"admins">>
Guests == <<"guests">>

NoTypo == << >>  \* a function without keys

Rule(domain, policy, groups, resources, networks) ==
    [domain |-> domain, policy |-> policy, groups |-> groups, resources |-> resources,
     networks |-> networks, typo |-> NoTypo]

Domains == {Absent, Str(App), Str(Wild), List(<<App, Wiki>>), List(<<Wild, Apex>>), List(<< >>),
            Str(<<"app", "{{", "site">>), List(<<App, <<"{{", "wiki", "{{", "site">> >>), Other}
Policies == {Absent, Str("deny"), Str("two_factor"), Str("bypass"), Str("Bypass"), Other}
GroupValues == {Absent, Null, Str(Admins), List(<<Admins>>), List(<<Admins, Guests>>),
                List(<<Guests>>), List(<< >>), List(<< <<"{{", "admins">> >>), Other}
Resources == {Absent, Str(<<"^", "public">>), List(<< <<"^", "public">> >>),
              List(<< <<"public">> >>), List(<< <<"^", "public">>, <<"admin">> >>), List(<< >>)}
Networks == {Absent, List(<< <<"lan">> >>), Str(<<"lan">>), Null}

Deny   == Rule(Str(App), Str("deny"), Absent, Absent, Absent)
Factor == Rule(List(<<Wild, Apex>>), Str("two_factor"), List(<<Admins>>), Absent, Absent)

RuleLists ==
    {Null, Other, List(<< >>), List(<<Deny, Factor>>), List(<<Factor, Deny>>)}
    \cup {List(<<Rule(d, p, Absent, r, Absent)>>) :
             d \in Domains, p \in Policies, r \in {Absent, List(<< <<"^", "public">> >>)}}
    \cup {List(<<Rule(Str(App), Str("one_factor"), g, r, n), Factor>>) :
             g \in GroupValues, r \in Resources, n \in Networks}
    \cup {List(<<Rule(d, Str("bypass"), g, r, Absent)>>) :
             d \in {Str(App), Str(Wild), List(<<Wild, Apex>>)},
             g \in {Absent, List(<<Admins>>)}, r \in Resources}
    \cup {List(<<[Rule(Str(App), Str("bypass"), Absent, Absent, Absent) EXCEPT !.typo = t]>>) :
             t \in {NoTypo, [k \in {"resources"} |-> List(<< <<"^", "public">> >>)],
                    [k \in {"groups"} |-> List(<<Admins>>)],
                    [k \in {"networks"} |-> List(<< <<"lan">> >>)]}}

AccessControls ==
    {[default_policy |-> Str("deny"), rules |-> r, typo |-> NoTypo] : r \in RuleLists}
    \cup {[default_policy |-> d, rules |-> r, typo |-> t] :
             d \in {Absent, Str("one_factor"), Str("Deny"), Other},
             r \in {Absent, List(<< >>), List(<<Deny>>)},
             t \in {NoTypo, [k \in {"default_policy"} |-> Str("deny")]}}

User(name, groups) == [name |-> name, groups |-> groups, email |-> TRUE, typo |-> NoTypo]
Ada == User(Str(<<"ada">>), List(<<Admins>>))

UserLists ==
    {Absent, Null, Other, List(<< >>), List(<<Ada>>), List(<<[Ada EXCEPT !.email = FALSE]>>),
     List(<<[Ada EXCEPT !.typo = [k \in {"disabled"} |-> Other]]>>)}
    \cup {List(<<Ada, User(n, g)>>) :
             n \in {Str(<<"bob">>), Str(<<"ada">>), Str(<<"upper", "ada">>), Str(<< >>), Absent,
                    Str(<<"{{", "bob">>)},
             g \in {Absent, Str(Guests), List(<<Guests>>), List(<< <<"{{", "guests">> >>), Other}}

Url(https, name, path) ==
    [t |-> "url", v |-> [https |-> https, host |-> name, path |-> path, clean |-> TRUE]]
Endpoint == Url(TRUE, <<"auth", "other">>, ForwardAuthPath)
OtherPortal == Url(TRUE, <<"auth", "other">>, "/")
Remote(forward, portal) == [forward_auth_url |-> forward, portal_url |-> portal, typo |-> NoTypo]

Session(i, r) == [session_inactivity |-> i, session_expiration |-> Absent, session_remember_me |-> r]

Auth == [provider |-> Str("authelia"), lldap |-> "absent", ldap |-> FALSE,
         access_control |-> [default_policy |-> Str("deny"), rules |-> List(<<Factor>>),
                             typo |-> NoTypo],
         users |-> List(<<Ada>>), remote |-> Remote(Absent, Absent),
         session |-> Session(Absent, Absent),
         cookie_domain |-> Absent, portal_url |-> Absent, oidc_clients |-> Absent]

Plain == [domain |-> Apex, drayve_domain |-> Apex, auth |-> Auth, profile |-> "absent",
          monitoring_grafana |-> "absent", trusted_proxies |-> Absent]

With(auth) == [Plain EXCEPT !.auth = auth]

AccessStacks == {With([Auth EXCEPT !.access_control = a]) : a \in AccessControls}

UserStacks == {With([Auth EXCEPT !.users = u, !.lldap = l, !.access_control.rules = r]) :
                  u \in UserLists, l \in {"absent", "false", "true", "yes", "word"},
                  r \in {List(<<Deny>>), List(<<Factor>>),
                         List(<<[Factor EXCEPT !.groups = List(<<Admins, Guests>>)]>>)}}

RemoteStacks == {With([Auth EXCEPT !.provider = Str("authelia_remote"), !.remote = Remote(f, p)]) :
                    f \in {Absent, Other, Endpoint, Url(FALSE, Apex, ForwardAuthPath),
                           Url(TRUE, Apex, "/"), Url(TRUE, Apex, "/api/health"),
                           [Endpoint EXCEPT !.v.clean = FALSE]},
                    p \in {Absent, OtherPortal, Url(FALSE, Apex, "/")}}

Values == {Absent, Null, Duration, Number(-1), Str(<<"-1">>), Other}

PortalStacks ==
    {With([Auth EXCEPT !.session = Session(i, r)]) : i \in Values, r \in Values}
    \cup {[With([Auth EXCEPT !.cookie_domain = c, !.portal_url = p]) EXCEPT !.drayve_domain = d] :
             c \in {Absent, Str(<< >>), Str(Apex), Str(App), Str(<<"other">>), Str(<<"{{", "other">>)},
             p \in {Absent, OtherPortal, Url(TRUE, <<"auth", "site">>, "/"), Url(TRUE, App, "/"),
                    Url(FALSE, <<"auth", "site">>, "/"), Url(TRUE, <<"auth", "{{", "other">>, "/")},
             d \in {Apex, <<"other">>}}

Clients(ids) == [t |-> "list", v |-> ids]

MonitoringStacks ==
    {[With([Auth EXCEPT !.provider = Str(p), !.oidc_clients = c])
        EXCEPT !.profile = m, !.monitoring_grafana = g] :
        p \in {"authelia", "basic"},
        c \in {Absent, Null, Clients({}), Clients({"forgejo"}), Clients({"forgejo", "grafana"})},
        m \in {"absent", "full", "light", "other"}, g \in {"absent", "true", "false"}}

ProviderStacks == {With([Auth EXCEPT !.provider = p, !.lldap = l, !.ldap = d]) :
                      p \in {Absent} \cup {Str(x) : x \in Providers \cup {"Authelia"}},
                      l \in {"absent", "false", "true", "word"}, d \in BOOLEAN}

Networks4 == [t : {"net"}, version : {4}, address : 0 .. Pow2[W4] - 1, prefixlen : 0 .. W4]
Networks6 == [t : {"net"}, version : {6}, address : 0 .. Pow2[W6] - 1, prefixlen : 0 .. W6]

ProxyStacks == {[Plain EXCEPT !.trusted_proxies = p] :
                   p \in {Other, List(<< >>), List(<<[t |-> "bad"]>>)}
                         \cup {List(<<n>>) : n \in Networks4 \cup Networks6}}

MCStacks == AccessStacks \cup UserStacks \cup RemoteStacks \cup PortalStacks
            \cup MonitoringStacks \cup ProviderStacks \cup ProxyStacks

MCRequests == [host : {Apex, App, Wiki}, groups : {{}, {Admins}, {Guests}},
               path : {<<"public">>, <<"admin", "public">>}, net : {<<"lan">>, <<"wan">>}]
==============================================================================
