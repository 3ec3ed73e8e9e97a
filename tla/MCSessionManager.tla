-------------------------- MODULE MCSessionManager --------------------------
(* Instances of SessionManager for TLC. *)
EXTENDS SessionManager, TLC

CONSTANTS s1, s2, s3, r1, r2, r3

(* With failures, a use of the session is any other request that presents   *)
(* an access token and fails once it is accepted.                           *)
AllButUse == [r \in Requests |-> Kind \ {"use"}]

(* Both slots open sessions; resets sweep them, and changed passwords. *)
LoginsAndResets == [r \in Requests |->
    {"login"} \cup IF r = r1 THEN {"reset"} ELSE {"logout", "change"}]

(* One slot opens and sweeps sessions, the others only use them. *)
OneOpens == [r \in Requests |->
    IF r = r1 THEN {"login", "change", "reset"} ELSE {"use", "logout"}]

SessionSymmetry == Permutations(Sessions)

Symmetry == Permutations(Sessions) \cup Permutations(Requests)
=============================================================================
