---------------------------- MODULE MCQueryCache ----------------------------
(* Instances of QueryCache for TLC. *)
EXTENDS QueryCache

CONSTANTS c1, c2

(* The pairs in which the hook tells the query, or should. *)
Related ==
    {p \in (DOMAIN Mutations) \X (DOMAIN Queries) :
       \/ Tells(Mutations[p[1]], Queries[p[2]].key)
       \/ ShownBy(Mutations[p[1]], Queries[p[2]])}
=============================================================================
