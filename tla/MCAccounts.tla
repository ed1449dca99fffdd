----------------------------- MODULE MCAccounts -----------------------------
(* An instance of Accounts for TLC: two requests for one address, one for   *)
(* another.                                                                *)
EXTENDS Accounts, TLC

CONSTANTS q1, q2, q3, e1, e2, i1, i2

SharedAddress == (q1 :> e1) @@ (q2 :> e1) @@ (q3 :> e2)
=============================================================================
