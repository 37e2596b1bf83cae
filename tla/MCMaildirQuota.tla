--------------------------- MODULE MCMaildirQuota ---------------------------
(* MaildirQuota for TLC: two deliveries and a process that may be anything *)
(* but a delivery of that kind.                                              *)
EXTENDS MaildirQuota, TLC

CONSTANTS m1, b1, x1

Roles == m1 :> {"shell"} @@ b1 :> {"shell"} @@ x1 :> {"auto", "login", "setquota"}

Pair == m1 :> {"shell"} @@ x1 :> {"auto"}
=============================================================================
