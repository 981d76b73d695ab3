---------------------------- MODULE MCHostUpdate ----------------------------
(***************************************************************************)
(* Three hosts: docker from its own repository, docker from Ubuntu, and    *)
(* one that is not Ubuntu; a server and a job on each.                     *)
(***************************************************************************)
EXTENDS HostUpdate

MCInstalled == [h \in Hosts |-> CASE h = "web"  -> {"docker-ce", "containerd.io"}
                                  [] h = "mail" -> {"docker.io"}
                                  [] OTHER      -> {}]

MCPolicy == [c \in Containers |->
               IF c = "traefik" THEN "unless-stopped" ELSE "on-failure"]
=============================================================================
