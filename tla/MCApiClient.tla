---------------------------- MODULE MCApiClient ----------------------------
(* Instances of ApiClient for TLC. *)
EXTENDS ApiClient, TLC

CONSTANTS t1, c1, c2

OneTab == (c1 :> t1) @@ (c2 :> t1)

OneCall == c1 :> t1
=============================================================================
