------------------------------ MODULE QueryKeys ------------------------------
(***************************************************************************)
(* The keys of the query cache (services/query/keys/*.ts) and the rule     *)
(* that says which of them go to the disk (services/query/persister.ts).   *)
(* A key is a path; an invalidation names all keys below the one it gives. *)
(* Every identifier in a path is "id" and every set of filters "filters":  *)
(* the models look at one row, and at one query that shows it.             *)
(***************************************************************************)
EXTENDS Sequences, SequencesExt

adminKeys ==
    [health               |-> <<"admin", "health">>,
     readiness            |-> <<"admin", "readiness">>,
     locationList         |-> <<"admin", "locations", "list">>,
     locationListFiltered |-> <<"admin", "locations", "list", "filters">>,
     crimeTypeList         |-> <<"admin", "crime-types", "list">>,
     crimeTypeListFiltered |-> <<"admin", "crime-types", "list", "filters">>]

arrestKeys ==
    [caseArrests    |-> <<"arrests", "case", "id">>,
     caseArrestList |-> <<"arrests", "case", "id", "list", "filters">>,
     detail         |-> <<"arrests", "detail", "id">>]

auditKeys ==
    [caseTimeline           |-> <<"audit", "case", "id">>,
     caseTimelineFiltered   |-> <<"audit", "case", "id", "filters">>,
     globalFiltered         |-> <<"audit", "global", "filters">>,
     officerHistoryFiltered |-> <<"audit", "officer", "id", "filters">>,
     personHistoryFiltered  |-> <<"audit", "person", "id", "filters">>]

authKeys == [session |-> <<"auth", "session">>]

caseKeys ==
    LET part(name) == <<"cases", "detail", "id", name>> IN
    [lists            |-> <<"cases", "list">>,
     list             |-> <<"cases", "list", "filters">>,
     crimeTypes       |-> <<"cases", "crimeTypes">>,
     locations        |-> <<"cases", "locations">>,
     detail           |-> <<"cases", "detail", "id">>,
     timelineFiltered |-> <<"cases", "detail", "id", "timeline", "filters">>,
     summary |-> part("summary"), timeline |-> part("timeline"),
     officers |-> part("officers"), evidence |-> part("evidence"),
     arrests |-> part("arrests"), interrogations |-> part("interrogations"),
     charges |-> part("charges"), courtCase |-> part("courtCase"),
     permissions |-> part("permissions")]

dashboardKeys ==
    [investigator |-> <<"dashboard", "investigator">>,
     deptHead     |-> <<"dashboard", "dept-head">>,
     admin        |-> <<"dashboard", "admin">>,
     legal        |-> <<"dashboard", "legal">>]

departmentKeys ==
    [departmentList         |-> <<"departments", "list">>,
     departmentListFiltered |-> <<"departments", "list", "filters">>,
     department             |-> <<"departments", "detail", "id">>,
     departmentOfficers     |-> <<"departments", "detail", "id", "officers">>]

evidenceKeys ==
    [caseEvidence     |-> <<"evidence", "case", "id">>,
     caseEvidenceList |-> <<"evidence", "case", "id", "list", "filters">>,
     detail           |-> <<"evidence", "detail", "id">>,
     custodyChain     |-> <<"evidence", "detail", "id", "custody">>]

interrogationKeys ==
    [caseInterrogations    |-> <<"interrogations", "case", "id">>,
     caseInterrogationList |-> <<"interrogations", "case", "id", "list", "filters">>]

legalKeys ==
    [courtCaseList         |-> <<"courtCases", "list">>,
     courtCaseListFiltered |-> <<"courtCases", "list", "filters">>,
     courtCase             |-> <<"courtCases", "detail", "id">>,
     courtCaseByCase       |-> <<"courtCases", "byCase", "id">>,
     chargeList            |-> <<"charges", "list", "id">>,
     chargeListFiltered    |-> <<"charges", "list", "id", "filters">>,
     chargeDetail          |-> <<"charges", "detail", "id">>]

personnelKeys ==
    [personList          |-> <<"persons", "list">>,
     personListFiltered  |-> <<"persons", "list", "filters">>,
     person              |-> <<"persons", "detail", "id">>,
     personCases         |-> <<"persons", "detail", "id", "cases">>,
     officerList         |-> <<"officers", "list">>,
     officerListFiltered |-> <<"officers", "list", "filters">>,
     officer             |-> <<"officers", "detail", "id">>,
     officerCases        |-> <<"officers", "detail", "id", "cases">>]

reportKeys ==
    LET report(subject, name) == <<"reports", subject, name, "filters">> IN
    [caseStatusSummary     |-> report("cases", "status-summary"),
     caseVolumeTrend       |-> report("cases", "volume-trend"),
     caseResolution        |-> report("cases", "resolution"),
     evidenceTypeBreakdown |-> report("evidence", "type-breakdown"),
     evidenceVolumeTrend   |-> report("evidence", "volume-trend"),
     unreviewedEvidence    |-> report("evidence", "unreviewed"),
     arrestSummary         |-> report("arrests", "summary"),
     arrestMonthlyTrend    |-> report("arrests", "monthly-trend"),
     officerWorkload       |-> report("officers", "workload"),
     officerActivity       |-> report("officers", "activity"),
     chargeOutcomes        |-> report("legal", "charge-outcomes"),
     convictionRateTrend   |-> report("legal", "conviction-rate-trend"),
     upcomingHearings      |-> report("legal", "upcoming-hearings"),
     deptComparison        |-> report("departments", "comparison"),
     deptCaseDistribution  |-> report("departments", "case-distribution")]

(* queryClient.invalidateQueries({ queryKey }) means the keys below it. *)
Matches(key, prefix) == IsPrefix(prefix, key)

PersistWhitelist ==
    {<<"departments">>, <<"crimeTypes">>, <<"locations">>,
     <<"cases", "list">>, <<"courtCases", "list">>}

PersistBlacklist ==
    {<<"persons">>, <<"officers">>, <<"audit">>, <<"dashboard">>, <<"health">>,
     <<"cases", "detail">>}

ShouldPersist(key) ==
    /\ \A p \in PersistBlacklist : ~Matches(key, p)
    /\ \E p \in PersistWhitelist : Matches(key, p)
=============================================================================
