----------------------------- MODULE QueryCache -----------------------------
(***************************************************************************)
(* The query cache of a page (services/query/queryClient.ts and the hooks  *)
(* of CacheHooks) against a server whose records change.                   *)
(*                                                                         *)
(* Queries do not depend on one another, so a behaviour follows one query  *)
(* and the mutations of one hook, each pair of them in some behaviour.     *)
(* The records that both are about have a version that every write raises. *)
(* What the query library does between the hooks is modelled as they use   *)
(* it: a query is fetched once at a time, an answer makes it valid, and an *)
(* invalidation fetches a query on the screen again, but lets its very     *)
(* first fetch go on.                                                      *)
(***************************************************************************)
EXTENDS Naturals, CacheHooks

CONSTANTS
    Call,       \* the mutations that may be in flight together
    MaxWrites,  \* bound: writes, those of other officers included
    Pairs       \* the hooks and queries to look at

ASSUME CacheAssumption ==
    /\ MaxWrites \in Nat
    /\ Pairs \subseteq (DOMAIN Mutations) \X (DOMAIN Queries)

VARIABLES
    pair,       \* the hook and the query of this behaviour
    records,    \* server: the version of the records
    shown,      \* a component uses the query
    cached,     \* the version in the cache, or Nothing
    valid,      \* the cached version was not invalidated
    old,        \* its staleTime is over
    fetch,      \* the fetch in flight: no, sent, or the version it read
    call,       \* the mutations in flight, likewise
    owed,       \* history: the newest version whose mutation has succeeded here
    passed,     \* history: the fetch has read older records than those of a
                \* success that came since, and nothing sends it again
    behind      \* history: the cached version is older than one told before,
                \* and came with such an answer

vars == <<pair, records, shown, cached, valid, old, fetch, call, owed, passed, behind>>
page == <<shown, cached, valid, old, fetch>>
history == <<owed, passed, behind>>

Version == 0..MaxWrites
No == MaxWrites + 1
Sent == MaxWrites + 2
Nothing == No
Flight == Version \cup {No, Sent}

(* What the hook of a pair does to the query of the pair when it succeeded. *)
Effect(m, q) ==
    CASE Sets(m, q.key) -> "set"
      [] Removes(m, q.key) -> "remove"
      [] Invalidates(m, q.key) -> "invalidate"
      [] OTHER -> "none"

(* The hook is about the records that the query lists (or, for the summary *)
(* of a case, counts), and tells something under the same root of keys.    *)
Akin(m, q) ==
    /\ \E k \in m.invalidates \cup m.sets : k[1] = q.key[1]
    /\ ShownBy(m, q) \/ (q.key = caseKeys.summary /\ CountedBy(m, q))

(* Details of what was deleted, or is created only now, the detail of a    *)
(* case whose status was changed in a list, and the other audit logs.      *)
Untold ==
    {<<"useDeleteCase", "useCase">>, <<"useDeleteArrest", "useArrest">>,
     <<"useDeleteEvidence", "useEvidence">>,
     <<"useCreateArrest", "useArrest">>, <<"useUploadEvidence", "useEvidence">>,
     <<"useCreateDepartment", "useDepartmentDetail">>,
     <<"useCreateOfficer", "useOfficerDetail">>,
     <<"useCreatePerson", "usePersonDetail">>,
     <<"useBulkUpdateCaseStatus", "useCase">>}
    \cup ({"useAddAuditNote"} \X
            {"useGlobalAuditLog", "useOfficerAuditHistory", "usePersonAuditHistory"})

Link(p) ==
    LET m == Mutations[p[1]]
        q == Queries[p[2]]
    IN  [hook |-> p[1], query |-> p[2], effect |-> Effect(m, q), goes |-> m.goes,
         ages |-> q.ages, polls |-> q.polls, owes |-> p \notin Untold /\ Akin(m, q)]

TypeOK ==
    /\ <<pair.hook, pair.query>> \in Pairs
    /\ records \in Version
    /\ shown \in BOOLEAN /\ valid \in BOOLEAN /\ old \in BOOLEAN
    /\ cached \in Version \cup {Nothing}
    /\ fetch \in Flight
    /\ call \in [Call -> Flight]
    /\ owed \in Version
    /\ passed \in BOOLEAN /\ behind \in BOOLEAN

Init ==
    /\ \E p \in Pairs : pair = Link(p)
    /\ records = 0
    /\ shown = FALSE
    /\ cached = Nothing
    /\ valid = TRUE
    /\ old = FALSE
    /\ fetch = No
    /\ call = [c \in Call |-> No]
    /\ owed = 0
    /\ passed = FALSE /\ behind = FALSE

-----------------------------------------------------------------------------
(* The components that use the query *)

Stale == cached = Nothing \/ ~valid \/ old \/ pair.ages = "now"

Refetch == fetch' = IF fetch = No THEN Sent ELSE fetch

(* refetchOnMount and refetchOnWindowFocus look for a stale query. *)
Mount ==
    /\ ~shown
    /\ shown' = TRUE
    /\ IF Stale THEN Refetch ELSE UNCHANGED fetch
    /\ UNCHANGED <<pair, records, cached, valid, old, call, history>>

Focus ==
    /\ shown /\ Stale
    /\ Refetch
    /\ UNCHANGED <<pair, records, shown, cached, valid, old, call, history>>

(* Mutant: only a stale query is polled. *)
PollStale ==
    /\ shown /\ pair.polls /\ Stale
    /\ Refetch
    /\ UNCHANGED <<pair, records, shown, cached, valid, old, call, history>>

Poll ==
    /\ shown /\ pair.polls
    /\ Refetch
    /\ UNCHANGED <<pair, records, shown, cached, valid, old, call, history>>

(* A fetch goes on when the component is gone. *)
Unmount ==
    /\ shown
    /\ shown' = FALSE
    /\ UNCHANGED <<pair, records, cached, valid, old, fetch, call, history>>

Age ==
    /\ cached # Nothing /\ ~old
    /\ old' = TRUE
    /\ UNCHANGED <<pair, records, shown, cached, valid, fetch, call, history>>

Forget == /\ cached' = Nothing
          /\ valid' = TRUE
          /\ old' = FALSE
          /\ fetch' = No

(* gcTime: a query that nothing uses is dropped. *)
Collect ==
    /\ ~shown /\ fetch = No /\ cached # Nothing
    /\ Forget
    /\ UNCHANGED <<pair, records, shown, call, history>>

-----------------------------------------------------------------------------
(* The fetches *)

Read ==
    /\ fetch = Sent
    /\ fetch' = records
    /\ UNCHANGED <<pair, records, shown, cached, valid, old, call, history>>

Put(version) == /\ cached' = version
                /\ valid' = TRUE
                /\ old' = FALSE

Fetched ==
    /\ fetch \in Version
    /\ Put(fetch)
    /\ fetch' = No
    /\ passed' = FALSE
    /\ behind' = passed
    /\ UNCHANGED <<pair, records, shown, call, owed>>

(* After its retries an error leaves the data as they are. *)
FetchFails ==
    /\ fetch # No
    /\ fetch' = No
    /\ passed' = FALSE
    /\ UNCHANGED <<pair, records, shown, cached, valid, old, call, owed, behind>>

-----------------------------------------------------------------------------
(* The mutations *)

Mutate(c) ==
    /\ call[c] = No
    /\ call' = [call EXCEPT ![c] = Sent]
    /\ UNCHANGED <<pair, records, page, history>>

Write(c) ==
    /\ call[c] = Sent
    /\ records < MaxWrites
    /\ records' = records + 1
    /\ call' = [call EXCEPT ![c] = records + 1]
    /\ UNCHANGED <<pair, page, history>>

(* Another officer, or another page, changes the records. *)
Elsewhere ==
    /\ records < MaxWrites
    /\ records' = records + 1
    /\ UNCHANGED <<pair, page, call, history>>

(* The request fails, its answer is lost, or the answer does not parse. *)
MutationFails(c) ==
    /\ call[c] # No
    /\ call' = [call EXCEPT ![c] = No]
    /\ UNCHANGED <<pair, records, page, history>>

(* Mutant: a fetch that is in flight is not sent again. *)
InvalidateWaiting ==
    /\ valid' = (cached = Nothing)
    /\ fetch' = IF shown /\ fetch = No THEN Sent ELSE fetch
    /\ UNCHANGED <<cached, old>>

Invalidate ==
    /\ valid' = (cached = Nothing)
    /\ fetch' = IF shown /\ (cached # Nothing \/ fetch = No) THEN Sent ELSE fetch
    /\ UNCHANGED <<cached, old>>

TellCache(version) ==
    CASE pair.effect = "set" -> Put(version) /\ UNCHANGED fetch
      [] pair.effect = "remove" -> Forget
      [] pair.effect = "invalidate" -> Invalidate
      [] OTHER -> UNCHANGED <<cached, valid, old, fetch>>

(* The fetches that an answer to a mutation leaves under way: any, if it    *)
(* is put into the cache; otherwise the first fetch of a query, and that of *)
(* a query no component uses.                                               *)
LeavesFetch == pair.effect = "set" \/ ~shown \/ cached = Nothing

Mutated(c) ==
    /\ call[c] \in Version
    /\ TellCache(call[c])
    /\ shown' = (shown /\ ~pair.goes)
    /\ call' = [call EXCEPT ![c] = No]
    /\ owed' = IF pair.owes /\ call[c] > owed THEN call[c] ELSE owed
    /\ passed' = /\ fetch' = fetch
                 /\ \/ passed
                    \/ /\ pair.owes /\ LeavesFetch
                       /\ fetch \in Version /\ fetch < call[c]
    /\ behind' = IF pair.effect = "set" THEN call[c] < owed ELSE behind
    /\ UNCHANGED <<pair, records>>

-----------------------------------------------------------------------------
Next ==
    \/ Mount \/ Focus \/ Poll \/ Unmount \/ Age \/ Collect
    \/ Read \/ Fetched \/ FetchFails
    \/ \E c \in Call : Mutate(c) \/ Write(c) \/ MutationFails(c) \/ Mutated(c)
    \/ Elsewhere

Spec == Init /\ [][Next]_vars

(* The interval of a polled query fires, and a request that is sent again  *)
(* and again is answered some time.                                        *)
Fairness == WF_vars(Poll) /\ SF_vars(Read) /\ SF_vars(Fetched)

FairSpec == Spec /\ Fairness

-----------------------------------------------------------------------------
(* Properties *)

(* features/*/hooks, onSuccess: when a mutation has succeeded, what the    *)
(* page takes for valid is no older, in every query that lists what was    *)
(* changed and has the root of its key in common with what the hook tells, *)
(* but for the pairs of Untold.  One thing brings old records back: an     *)
(* answer that was under way at the success and that nothing sends again   *)
(* (see LeavesFetch), or that of an older mutation where the answer itself *)
(* is put into the cache.                                                  *)
Told ==
    owed > 0 /\ cached # Nothing /\ valid /\ ~behind => cached >= owed

(* useCaseTimeline.ts:17, the dashboards: a polled query that stays on the *)
(* screen shows every change in the end, whoever made it.                  *)
CatchesUp == pair.polls /\ <>[]shown => []<>(cached = records)
=============================================================================
