--------------------------- MODULE MCLldapBootstrap ---------------------------
(* Two users, one of them in a group that an operator creates at any time. *)
EXTENDS LldapBootstrap

MCUsers == {"ada", "bob"}
MCGroups == {"readonly", "staff"}
MCGroupsOf == [u \in MCUsers |-> IF u = "ada" THEN {"staff", "readonly"} ELSE {"readonly"}]
===============================================================================
