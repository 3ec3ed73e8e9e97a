--------------------------- MODULE RequestPromise ---------------------------
(***************************************************************************)
(* What a page may rely on when it hands a request to the API client: the  *)
(* server executes it at most once and it succeeds only if it was executed; *)
(* that it settles (Settles) holds while tokens last (see CallsSettle).    *)
(* How 401 answers are turned into a token refresh and a second try is no  *)
(* part of the promise.                                                    *)
(***************************************************************************)
CONSTANT Call

VARIABLE status

Outstanding == {"pending", "executed"}

Status == {"idle", "ok"} \cup Outstanding

Init == status = [c \in Call |-> "idle"]

Become(C, s) == status' = [c \in Call |-> IF c \in C THEN s ELSE status[c]]

Begin(c) == /\ status[c] \notin Outstanding
            /\ Become({c}, "pending")

Execute(c) == /\ status[c] = "pending"
              /\ Become({c}, "executed")

Succeed(c) == /\ status[c] = "executed"
              /\ Become({c}, "ok")

(* A request that fails, or whose page is left, leaves nothing; several may *)
(* end so together.                                                         *)
Drop(C) == Become(C, "idle")

Next == \/ \E c \in Call : Begin(c) \/ Execute(c) \/ Succeed(c)
        \/ \E C \in SUBSET Call : Drop(C)

Spec == Init /\ [][Next]_status

Settles == \A c \in Call : status[c] \in Outstanding ~> status[c] \notin Outstanding
=============================================================================
