---------------------------- MODULE AuthMiddleware ----------------------------
(***************************************************************************)
(* The files of roles/traefik that define the middleware `auth`, one for   *)
(* each provider, while auth.provider is switched.  Every router with      *)
(* auth@file depends on them, and Traefik watches their directory.         *)
(***************************************************************************)
CONSTANT Providers    \* values of auth.provider a site uses

AuthFiles == {"basic", "authelia", "authentik", "none"}

ASSUME ProvidersAssumption ==
    Providers \subseteq {"none", "basic", "authelia", "authelia_remote", "authentik"}

VARIABLES
    provider,      \* auth.provider of the site
    middleware     \* for each file its content, named for the provider; "absent"

\* auth-authelia.yml serves both kinds of Authelia.
FileOf(p) == IF p = "authelia_remote" THEN "authelia" ELSE p

\* auth-none.yml is a comment.
Defining == {f \in AuthFiles \ {"none"} : middleware[f] # "absent"}

NoMiddleware == [f \in AuthFiles |-> "absent"]

DeployMiddleware(p) == middleware' = [middleware EXCEPT ![FileOf(p)] = p]

\* Mutant of Stale: the file of Authelia is stale unless the provider has its name.
StaleByName(f, p) == f # p

Stale(f, p) == f # FileOf(p)

RemoveIfStale(f, p) ==
    middleware' = IF Stale(f, p) THEN [middleware EXCEPT ![f] = "absent"] ELSE middleware

MiddlewareInPlace(p) == middleware = [NoMiddleware EXCEPT ![FileOf(p)] = p]
===============================================================================
