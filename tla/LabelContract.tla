---------------------------- MODULE LabelContract ----------------------------
(***************************************************************************)
(* What drayve promises about the labels of a site's own services, without *)
(* files, forms of YAML or interrupted runs: the containers of             *)
(* compose.override.yml run with the labels the operator wrote, except     *)
(* that a routed service in several networks that names none is given the  *)
(* primary network.  Implemented by LabelPipeline.                         *)
(***************************************************************************)
EXTENDS Integers, FiniteSets

CONSTANTS
    Wishes,      \* what an operator may write: functions from services to Wish
    PrimaryNet,  \* the network Traefik shares with the stack
    NoPin        \* no traefik.docker.network label

VARIABLES
    wish,        \* what the operator has written
    running      \* what the containers run with

(***************************************************************************)
(* The labels of one service, by meaning: does Traefik route to it, over   *)
(* which network, and all other labels.                                    *)
(***************************************************************************)
Promised(s) ==
    IF s.routed /\ s.pin = NoPin /\ Cardinality(s.nets) >= 2
    THEN [s EXCEPT !.pin = PrimaryNet]
    ELSE s

Init == /\ wish \in Wishes
        /\ running = << >>

Write == /\ wish' \in Wishes
         /\ UNCHANGED running

Apply == /\ running' = [n \in DOMAIN wish |-> Promised(wish[n])]
         /\ UNCHANGED wish

Next == Write \/ Apply

Spec == Init /\ [][Next]_<<wish, running>>
==============================================================================
