-------------------------- MODULE QueryCacheProofs --------------------------
(***************************************************************************)
(* What QueryCache promises of every hook and every query, for any number  *)
(* of mutations in flight and any number of writes.                        *)
(***************************************************************************)
EXTENDS QueryCache, SequenceTheorems, TLAPS

(* The hook of the pair tells every query that it owes something to. *)
Tell(p) == Link(p).owes => Link(p).effect # "none"

-----------------------------------------------------------------------------
(* The tables of CacheHooks: every hook tells every query that lists what  *)
(* it changed, if the keys of both have their root in common.              *)

(* A key is below the key it begins with. *)
LEMMA Begins ==
    ASSUME NEW S, NEW s \in Seq(S), NEW t \in Seq(S), Len(s) <= Len(t),
           \A i \in 1..Len(s) : s[i] = t[i]
    PROVE  Matches(t, s)
<1> DEFINE n == Len(s)
<1>1. n \in Nat /\ n <= Len(t)
    OBVIOUS
<1>2. /\ SubSeq(s, 1, n) \in Seq(S) /\ SubSeq(t, 1, n) \in Seq(S)
      /\ Len(SubSeq(s, 1, n)) = Len(SubSeq(t, 1, n))
      /\ \A i \in 1..Len(SubSeq(s, 1, n)) : SubSeq(s, 1, n)[i] = SubSeq(t, 1, n)[i]
    BY <1>1
<1>3. SubSeq(s, 1, n) = SubSeq(t, 1, n)
    BY <1>2, SeqEqual
<1> QED
    BY <1>1, <1>3 DEF Matches, IsPrefix

LEMMA BelowTwo ==
    ASSUME NEW a, NEW b, NEW c PROVE Matches(<<a, b, c>>, <<a, b>>)
<1> DEFINE S == {a, b, c}
           prefix == <<a, b>>
           path == <<a, b, c>>
<1>1. /\ prefix \in Seq(S) /\ path \in Seq(S)
      /\ Len(prefix) = 2 /\ Len(path) = 3
    OBVIOUS
<1>2. \A i \in 1..2 : i = 1 \/ i = 2
    OBVIOUS
<1>3. Len(prefix) <= Len(path) /\ \A i \in 1..Len(prefix) : prefix[i] = path[i]
    BY <1>1, <1>2
<1> HIDE DEF S
<1> QED
    BY <1>1, <1>3, Begins, Zenon

LEMMA BelowThree ==
    ASSUME NEW a, NEW b, NEW c, NEW d PROVE Matches(<<a, b, c, d>>, <<a, b, c>>)
<1> DEFINE S == {a, b, c, d}
           prefix == <<a, b, c>>
           path == <<a, b, c, d>>
<1>1. /\ prefix \in Seq(S) /\ path \in Seq(S)
      /\ Len(prefix) = 3 /\ Len(path) = 4
    OBVIOUS
<1>2. \A i \in 1..3 : i = 1 \/ i = 2 \/ i = 3
    OBVIOUS
<1>3. Len(prefix) <= Len(path) /\ \A i \in 1..Len(prefix) : prefix[i] = path[i]
    BY <1>1, <1>2
<1> HIDE DEF S
<1> QED
    BY <1>1, <1>3, Begins, Zenon

LEMMA FarBelowThree ==
    ASSUME NEW a, NEW b, NEW c, NEW d, NEW e
    PROVE  Matches(<<a, b, c, d, e>>, <<a, b, c>>)
<1> DEFINE S == {a, b, c, d, e}
           prefix == <<a, b, c>>
           path == <<a, b, c, d, e>>
<1>1. /\ prefix \in Seq(S) /\ path \in Seq(S)
      /\ Len(prefix) = 3 /\ Len(path) = 5
    OBVIOUS
<1>2. \A i \in 1..3 : i = 1 \/ i = 2 \/ i = 3
    OBVIOUS
<1>3. Len(prefix) <= Len(path) /\ \A i \in 1..Len(prefix) : prefix[i] = path[i]
    BY <1>1, <1>2
<1> HIDE DEF S
<1> QED
    BY <1>1, <1>3, Begins, Zenon

LEMMA BelowFour ==
    ASSUME NEW a, NEW b, NEW c, NEW d, NEW e
    PROVE  Matches(<<a, b, c, d, e>>, <<a, b, c, d>>)
<1> DEFINE S == {a, b, c, d, e}
           prefix == <<a, b, c, d>>
           path == <<a, b, c, d, e>>
<1>1. /\ prefix \in Seq(S) /\ path \in Seq(S)
      /\ Len(prefix) = 4 /\ Len(path) = 5
    OBVIOUS
<1>2. \A i \in 1..4 : i = 1 \/ i = 2 \/ i = 3 \/ i = 4
    OBVIOUS
<1>3. Len(prefix) <= Len(path) /\ \A i \in 1..Len(prefix) : prefix[i] = path[i]
    BY <1>1, <1>2
<1> HIDE DEF S
<1> QED
    BY <1>1, <1>3, Begins, Zenon

LEMMA Appended ==
    ASSUME NEW a, NEW b, NEW c, NEW d, NEW e
    PROVE  Append(<<a, b, c, d>>, e) = <<a, b, c, d, e>>
<1> DEFINE S == {a, b, c, d, e}
           path == <<a, b, c, d>>
           longer == <<a, b, c, d, e>>
<1>1. path \in Seq(S) /\ longer \in Seq(S) /\ Len(path) = 4 /\ Len(longer) = 5 /\ e
       \in S
    OBVIOUS
<1>2. \A i \in 1..5 : i = 1 \/ i = 2 \/ i = 3 \/ i = 4 \/ i = 5
    OBVIOUS
<1>3. Append(path, e) \in Seq(S) /\ Len(Append(path, e)) = 5
    BY <1>1
<1>4. \A i \in 1..5 : Append(path, e)[i] = longer[i]
    BY <1>1, <1>2
<1> QED
    BY <1>1, <1>3, <1>4, SeqEqual

LEMMA Itself == ASSUME NEW key PROVE Matches(key, key)
BY DEF Matches, IsPrefix

(* The queries, by the roots of their keys, with the records they list.    *)
Root(n) == Queries[n].key[1]
Row(n, root, key, list) ==
    /\ Root(n) = root
    /\ Queries[n].key = key
    /\ Queries[n].call.records = list

LEMMA CaseQueries ==
    /\ Row("useCases", "cases", caseKeys.list, {"case"})
    /\ Row("useCase", "cases", caseKeys.detail, {"case"})
    /\ Row("useCaseOfficers", "cases", caseKeys.officers, {"member"})
    /\ Row("useCaseSummary", "cases", caseKeys.summary, {})
    /\ Row("useCaseTimeline", "cases", caseKeys.timelineFiltered, {"timeline"})
    /\ Row("useCrimeTypes", "cases", caseKeys.crimeTypes, {"crimeType"})
    /\ Row("useLocations", "cases", caseKeys.locations, {"location"})
BY DEF Row, Root, Queries, useCases, useCase, useCaseOfficers, useCaseSummary,
       useCaseTimeline, useCrimeTypes, useLocations, Query, Polled, Live, caseKeys,
       casesService, Get, Counting

LEMMA DepartmentQueries ==
    /\ Row("useDepartments", "departments",
           departmentKeys.departmentList, {"department"})
    /\ Row("useDepartmentList", "departments",
           departmentKeys.departmentListFiltered, {"department"})
    /\ Row("useDepartmentDetail", "departments",
           departmentKeys.department, {"department"})
    /\ Row("useDepartmentOfficers", "departments",
           Append(departmentKeys.departmentOfficers, "params"), {"officer"})
BY DEF Row, Root, Queries, useDepartments, useDepartmentList, useDepartmentDetail,
       useDepartmentOfficers, Query, departmentKeys, departmentsService, Get,
       Counting

LEMMA OfficerQueries ==
    /\ Row("useOfficersSearch", "officers",
           personnelKeys.officerListFiltered, {"officer"})
    /\ Row("useOfficerList", "officers",
           personnelKeys.officerListFiltered, {"officer"})
    /\ Row("useOfficerDetail", "officers", personnelKeys.officer, {"officer"})
    /\ Row("useOfficerCases", "officers", personnelKeys.officerCases, {"case"})
BY DEF Row, Root, Queries, useOfficersSearch, useOfficerList, useOfficerDetail,
       useOfficerCases, Query, personnelKeys, personnelService, Get, Counting

LEMMA ArrestQueries ==
    /\ Row("useArrestList", "arrests", arrestKeys.caseArrestList, {"arrest"})
    /\ Row("useArrest", "arrests", arrestKeys.detail, {"arrest"})
BY DEF Row, Root, Queries, useArrestList, useArrest, Query, arrestKeys,
       arrestsService, Get, Counting

LEMMA InterrogationQueries ==
    /\ Row("useInterrogationList", "interrogations",
           interrogationKeys.caseInterrogationList, {"interrogation"})
BY DEF Row, Root, Queries, useInterrogationList, Query, interrogationKeys,
       interrogationsService, Get, Counting

LEMMA EvidenceQueries ==
    /\ Row("useEvidenceList", "evidence",
           evidenceKeys.caseEvidenceList, {"evidence"})
    /\ Row("useEvidence", "evidence", evidenceKeys.detail, {"evidence", "custody"})
    /\ Row("useCustodyChain", "evidence", evidenceKeys.custodyChain, {"custody"})
BY DEF Row, Root, Queries, useEvidenceList, useEvidence, useCustodyChain, Query,
       evidenceKeys, evidenceService, Get, Counting

LEMMA CourtQueries ==
    /\ Row("useCourtCaseList", "courtCases",
           legalKeys.courtCaseListFiltered, {"courtCase"})
    /\ Row("useCourtCaseByCase", "courtCases",
           legalKeys.courtCaseByCase, {"courtCase", "charge"})
BY DEF Row, Root, Queries, useCourtCaseList, useCourtCaseByCase, Query, legalKeys,
       legalService, Get, Counting

LEMMA ChargeQueries ==
    /\ Row("useChargeList", "charges", legalKeys.chargeListFiltered, {"charge"})
BY DEF Row, Root, Queries, useChargeList, Query, legalKeys, legalService, Get,
       Counting

LEMMA PersonQueries ==
    /\ Row("usePersonList", "persons", personnelKeys.personListFiltered, {"person"})
    /\ Row("usePersonDetail", "persons", personnelKeys.person, {"person"})
    /\ Row("usePersonCases", "persons",
           Append(personnelKeys.personCases, "params"), {"case"})
BY DEF Row, Root, Queries, usePersonList, usePersonDetail, usePersonCases, Query,
       personnelKeys, personnelService, Get, Counting

LEMMA AdminQueries ==
    /\ Row("useLocationList", "admin", adminKeys.locationListFiltered, {"location"})
    /\ Row("useCrimeTypeList", "admin",
           adminKeys.crimeTypeListFiltered, {"crimeType"})
    /\ Row("useSystemHealth", "admin", adminKeys.health, {"health"})
    /\ Row("useSystemReadiness", "admin", adminKeys.readiness, {"health"})
BY DEF Row, Root, Queries, useLocationList, useCrimeTypeList, useSystemHealth,
       useSystemReadiness, Query, Polled, Live, adminKeys, adminService, Get,
       Counting

LEMMA AuditQueries ==
    /\ Row("useAuditTimeline", "audit",
           auditKeys.caseTimelineFiltered, {"timeline"})
    /\ Row("useGlobalAuditLog", "audit", auditKeys.globalFiltered, {"timeline"})
    /\ Row("useOfficerAuditHistory", "audit",
           auditKeys.officerHistoryFiltered, {"timeline"})
    /\ Row("usePersonAuditHistory", "audit",
           auditKeys.personHistoryFiltered, {"timeline"})
BY DEF Row, Root, Queries, useAuditTimeline, useGlobalAuditLog,
       useOfficerAuditHistory, usePersonAuditHistory, Query, Polled, Live,
       auditKeys, auditService, Get, Counting

(* The dashboards and the reports are told by no hook. *)
LEMMA OtherQueries ==
    /\ Root("useInvestigatorDashboard") = "dashboard"
    /\ Root("useDeptHeadDashboard") = "dashboard"
    /\ Root("useAdminDashboard") = "dashboard"
    /\ Root("useLegalDashboard") = "dashboard"
    /\ Root("useCaseStatusSummary") = "reports"
    /\ Root("useCaseVolumeTrend") = "reports"
    /\ Root("useCaseResolutionReport") = "reports"
    /\ Root("useEvidenceTypeBreakdown") = "reports"
    /\ Root("useEvidenceVolumeTrend") = "reports"
    /\ Root("useUnreviewedEvidenceReport") = "reports"
    /\ Root("useArrestSummary") = "reports"
    /\ Root("useArrestMonthlyTrend") = "reports"
    /\ Root("useOfficerWorkloadReport") = "reports"
    /\ Root("useOfficerActivityReport") = "reports"
    /\ Root("useChargeOutcomeReport") = "reports"
    /\ Root("useConvictionRateTrend") = "reports"
    /\ Root("useUpcomingHearingsReport") = "reports"
    /\ Root("useDepartmentComparisonReport") = "reports"
    /\ Root("useDepartmentCaseDistribution") = "reports"
BY DEF Root, Queries, useInvestigatorDashboard, useDeptHeadDashboard,
       useAdminDashboard, useLegalDashboard, useCaseStatusSummary,
       useCaseVolumeTrend, useCaseResolutionReport, useEvidenceTypeBreakdown,
       useEvidenceVolumeTrend, useUnreviewedEvidenceReport, useArrestSummary,
       useArrestMonthlyTrend, useOfficerWorkloadReport, useOfficerActivityReport,
       useChargeOutcomeReport, useConvictionRateTrend, useUpcomingHearingsReport,
       useDepartmentComparisonReport, useDepartmentCaseDistribution, Query, Polled,
       dashboardKeys, reportKeys

LEMMA QueryNames ==
    DOMAIN Queries =
        {"useCases", "useCase", "useCaseOfficers", "useCaseSummary",
         "useCaseTimeline", "useCrimeTypes", "useLocations", "useDepartments",
         "useOfficersSearch", "useArrestList", "useArrest", "useInterrogationList",
         "useEvidenceList", "useEvidence", "useCustodyChain", "useCourtCaseList",
         "useCourtCaseByCase", "useChargeList", "useDepartmentList",
         "useDepartmentDetail", "useDepartmentOfficers", "usePersonList",
         "usePersonDetail", "usePersonCases", "useOfficerList", "useOfficerDetail",
         "useOfficerCases", "useLocationList", "useCrimeTypeList",
         "useSystemHealth", "useSystemReadiness", "useAuditTimeline",
         "useGlobalAuditLog", "useOfficerAuditHistory", "usePersonAuditHistory",
         "useInvestigatorDashboard", "useDeptHeadDashboard", "useAdminDashboard",
         "useLegalDashboard", "useCaseStatusSummary", "useCaseVolumeTrend",
         "useCaseResolutionReport", "useEvidenceTypeBreakdown",
         "useEvidenceVolumeTrend", "useUnreviewedEvidenceReport",
         "useArrestSummary", "useArrestMonthlyTrend", "useOfficerWorkloadReport",
         "useOfficerActivityReport", "useChargeOutcomeReport",
         "useConvictionRateTrend", "useUpcomingHearingsReport",
         "useDepartmentComparisonReport", "useDepartmentCaseDistribution"}
BY DEF Queries

LEMMA QueriesBelow ==
    ASSUME NEW n \in DOMAIN Queries
    PROVE  /\ Root(n) = "cases" =>
              n \in {"useCases", "useCase", "useCaseOfficers", "useCaseSummary",
                     "useCaseTimeline",
                     "useCrimeTypes", "useLocations"}
           /\ Root(n) = "departments" =>
              n \in {"useDepartments", "useDepartmentList", "useDepartmentDetail",
                     "useDepartmentOfficers"}
           /\ Root(n) = "officers" =>
              n \in {"useOfficersSearch", "useOfficerList", "useOfficerDetail",
                     "useOfficerCases"}
           /\ Root(n) = "arrests" =>
              n \in {"useArrestList", "useArrest"}
           /\ Root(n) = "interrogations" =>
              n \in {"useInterrogationList"}
           /\ Root(n) = "evidence" =>
              n \in {"useEvidenceList", "useEvidence", "useCustodyChain"}
           /\ Root(n) = "courtCases" =>
              n \in {"useCourtCaseList", "useCourtCaseByCase"}
           /\ Root(n) = "charges" =>
              n \in {"useChargeList"}
           /\ Root(n) = "persons" =>
              n \in {"usePersonList", "usePersonDetail", "usePersonCases"}
           /\ Root(n) = "admin" =>
              n \in {"useLocationList", "useCrimeTypeList", "useSystemHealth",
                     "useSystemReadiness"}
           /\ Root(n) = "audit" =>
              n \in {"useAuditTimeline", "useGlobalAuditLog",
                     "useOfficerAuditHistory",
                     "usePersonAuditHistory"}
BY QueryNames, OtherQueries, CaseQueries, DepartmentQueries, OfficerQueries,
   ArrestQueries, InterrogationQueries, EvidenceQueries, CourtQueries,
   ChargeQueries, PersonQueries, AdminQueries, AuditQueries DEF Row

(* The keys that the hooks tell: their roots, and the keys below them. *)
LEMMA CaseKeys ==
    /\ caseKeys.arrests[1] = "cases"
    /\ caseKeys.charges[1] = "cases"
    /\ caseKeys.detail[1] = "cases"
    /\ caseKeys.interrogations[1] = "cases"
    /\ caseKeys.lists[1] = "cases"
    /\ caseKeys.summary[1] = "cases"
    /\ caseKeys.timeline[1] = "cases"
    /\ Matches(caseKeys.list, caseKeys.lists)
    /\ Matches(caseKeys.timelineFiltered, caseKeys.timeline)
BY BelowTwo, BelowThree, FarBelowThree, BelowFour DEF caseKeys

LEMMA DepartmentKeys ==
    /\ departmentKeys.department[1] = "departments"
    /\ departmentKeys.departmentList[1] = "departments"
    /\ Matches(departmentKeys.departmentListFiltered, departmentKeys.departmentList)
    /\ Matches(Append(departmentKeys.departmentOfficers, "params"),
               departmentKeys.department)
<1>1. departmentKeys.departmentOfficers = <<"departments", "detail", "id",
       "officers">>
    BY DEF departmentKeys
<1>2. Append(departmentKeys.departmentOfficers, "params") =
        <<"departments", "detail", "id", "officers", "params">>
    BY <1>1, Appended
<1> QED
    BY <1>2, BelowTwo, FarBelowThree DEF departmentKeys

LEMMA PersonKeys ==
    /\ personnelKeys.person[1] = "persons"
    /\ personnelKeys.personList[1] = "persons"
    /\ Matches(personnelKeys.personListFiltered, personnelKeys.personList)
BY BelowTwo, BelowThree, FarBelowThree, BelowFour DEF personnelKeys

LEMMA OfficerKeys ==
    /\ personnelKeys.officer[1] = "officers"
    /\ personnelKeys.officerList[1] = "officers"
    /\ Matches(personnelKeys.officerListFiltered, personnelKeys.officerList)
BY BelowTwo, BelowThree, FarBelowThree, BelowFour DEF personnelKeys

LEMMA ArrestKeys ==
    /\ arrestKeys.caseArrests[1] = "arrests"
    /\ arrestKeys.detail[1] = "arrests"
    /\ Matches(arrestKeys.caseArrestList, arrestKeys.caseArrests)
BY BelowTwo, BelowThree, FarBelowThree, BelowFour DEF arrestKeys

LEMMA InterrogationKeys ==
    /\ interrogationKeys.caseInterrogations[1] = "interrogations"
    /\ Matches(interrogationKeys.caseInterrogationList,
               interrogationKeys.caseInterrogations)
BY BelowTwo, BelowThree, FarBelowThree, BelowFour DEF interrogationKeys

LEMMA EvidenceKeys ==
    /\ evidenceKeys.caseEvidence[1] = "evidence"
    /\ evidenceKeys.custodyChain[1] = "evidence"
    /\ evidenceKeys.detail[1] = "evidence"
    /\ Matches(evidenceKeys.caseEvidenceList, evidenceKeys.caseEvidence)
BY BelowTwo, BelowThree, FarBelowThree, BelowFour DEF evidenceKeys

LEMMA CourtKeys ==
    /\ legalKeys.courtCase[1] = "courtCases"
    /\ legalKeys.courtCaseByCase[1] = "courtCases"
    /\ legalKeys.courtCaseList[1] = "courtCases"
    /\ Matches(legalKeys.courtCaseListFiltered, legalKeys.courtCaseList)
BY BelowTwo, BelowThree, FarBelowThree, BelowFour DEF legalKeys

LEMMA ChargeKeys ==
    /\ legalKeys.chargeDetail[1] = "charges"
    /\ legalKeys.chargeList[1] = "charges"
    /\ Matches(legalKeys.chargeListFiltered, legalKeys.chargeList)
BY BelowTwo, BelowThree, FarBelowThree, BelowFour DEF legalKeys

LEMMA AdminKeys ==
    /\ adminKeys.crimeTypeList[1] = "admin"
    /\ adminKeys.locationList[1] = "admin"
    /\ Matches(adminKeys.locationListFiltered, adminKeys.locationList)
    /\ Matches(adminKeys.crimeTypeListFiltered, adminKeys.crimeTypeList)
BY BelowTwo, BelowThree, FarBelowThree, BelowFour DEF adminKeys

LEMMA AuditKeys ==
    /\ auditKeys.caseTimeline[1] = "audit"
    /\ Matches(auditKeys.caseTimelineFiltered, auditKeys.caseTimeline)
BY BelowTwo, BelowThree, FarBelowThree, BelowFour DEF auditKeys

(* The only query that counts without listing is the summary of a case. *)
LEMMA SummaryCounts ==
    ASSUME NEW n \in DOMAIN Queries, Queries[n].key = caseKeys.summary
    PROVE  Queries[n].call.counts =
             {"evidence", "arrest", "interrogation", "charge", "member"}
<1>1. n = "useCaseSummary"
  <2>1. caseKeys.summary \notin
          {caseKeys.list, caseKeys.detail, caseKeys.officers,
                 caseKeys.timelineFiltered,
           caseKeys.crimeTypes, caseKeys.locations}
      BY DEF caseKeys
  <2> QED
      BY <2>1, QueriesBelow, CaseQueries, CaseKeys DEF Row, Root
<1> QED
    BY <1>1 DEF Queries, useCaseSummary, Query, casesService, Counting

-----------------------------------------------------------------------------
(* What a hook changes and what it tells. *)
Hook(h, changed, told, set, removed) ==
    /\ Mutations[h].call.records = changed
    /\ Mutations[h].invalidates = told
    /\ Mutations[h].sets = set
    /\ Mutations[h].removes = removed

(* The hook tells the query, unless it owes nothing to it. *)
Informs(h, n) ==
    <<h, n>> \notin Untold /\ Akin(Mutations[h], Queries[n])
       => Tells(Mutations[h], Queries[n].key)

(* A hook informs the queries, by the kind of the records that it changes. *)
LEMMA CaseRule ==
    ASSUME NEW h, NEW n \in DOMAIN Queries, NEW told, NEW set,
           Hook(h, {"case"}, told, set, {}),
           {caseKeys.lists} \subseteq told,
           told \subseteq {caseKeys.lists, caseKeys.timeline},
           set \subseteq {caseKeys.detail},
           caseKeys.detail \in set \/ <<h, "useCase">> \in Untold
    PROVE  Informs(h, n)
<1> USE DEF Hook
<1> SUFFICES ASSUME <<h, n>> \notin Untold, Akin(Mutations[h], Queries[n])
             PROVE  Tells(Mutations[h], Queries[n].key)
    BY DEF Informs
<1>1. Root(n) = "cases" /\ ShownBy(Mutations[h], Queries[n])
    BY CaseKeys, SummaryCounts DEF Akin, Root, CountedBy
<1> QED
    BY <1>1, QueriesBelow, CaseQueries, CaseKeys, Itself DEF Row,
       ShownBy, Tells, Invalidates, Sets

LEMMA TimelineRule ==
    ASSUME NEW h, NEW n \in DOMAIN Queries, NEW told,
           Hook(h, {"timeline"}, told, {}, {}),
           told = {caseKeys.timeline}
    PROVE  Informs(h, n)
<1> USE DEF Hook
<1> SUFFICES ASSUME <<h, n>> \notin Untold, Akin(Mutations[h], Queries[n])
             PROVE  Tells(Mutations[h], Queries[n].key)
    BY DEF Informs
<1>1. Root(n) = "cases" /\ ShownBy(Mutations[h], Queries[n])
    BY CaseKeys, SummaryCounts DEF Akin, Root, CountedBy
<1> QED
    BY <1>1, QueriesBelow, CaseQueries, CaseKeys, Itself DEF Row,
       ShownBy, Tells, Invalidates, Sets

LEMMA AuditRule ==
    ASSUME NEW h, NEW n \in DOMAIN Queries, NEW told,
           Hook(h, {"timeline"}, told, {}, {}),
           told = {auditKeys.caseTimeline},
           <<h, "useGlobalAuditLog">> \in Untold,
           <<h, "useOfficerAuditHistory">> \in Untold,
           <<h, "usePersonAuditHistory">> \in Untold
    PROVE  Informs(h, n)
<1> USE DEF Hook
<1> SUFFICES ASSUME <<h, n>> \notin Untold, Akin(Mutations[h], Queries[n])
             PROVE  Tells(Mutations[h], Queries[n].key)
    BY DEF Informs
<1>1. /\ Root(n) = "audit"
      /\ ShownBy(Mutations[h], Queries[n]) \/ Queries[n].key = caseKeys.summary
    BY AuditKeys, CaseKeys DEF Akin, Root
<1>2. CASE Root(n) = "audit"
  <2>1. ShownBy(Mutations[h], Queries[n])
      BY <1>1, <1>2, CaseKeys DEF Root
  <2> QED
      BY <2>1, <1>2, QueriesBelow, AuditQueries, AuditKeys, Itself DEF Row,
         ShownBy, Tells, Invalidates
<1> QED
    BY <1>1, <1>2

LEMMA ArrestRule ==
    ASSUME NEW h, NEW n \in DOMAIN Queries, NEW told,
           Hook(h, {"arrest"}, told, {}, {}),
           {arrestKeys.caseArrests, caseKeys.summary} \subseteq told,
           told \subseteq {arrestKeys.caseArrests, caseKeys.summary,
                           arrestKeys.detail, caseKeys.arrests},
           arrestKeys.detail \in told \/ <<h, "useArrest">> \in Untold
    PROVE  Informs(h, n)
<1> USE DEF Hook
<1> SUFFICES ASSUME <<h, n>> \notin Untold, Akin(Mutations[h], Queries[n])
             PROVE  Tells(Mutations[h], Queries[n].key)
    BY DEF Informs
<1>1. /\ Root(n) \in {"arrests", "cases"}
      /\ ShownBy(Mutations[h], Queries[n]) \/ Queries[n].key = caseKeys.summary
      /\ Root(n) = "cases" => caseKeys.summary \in told
    BY ArrestKeys, CaseKeys DEF Akin, Root
<1>2. CASE Root(n) = "arrests"
  <2>1. ShownBy(Mutations[h], Queries[n])
      BY <1>1, <1>2, CaseKeys DEF Root
  <2> QED
      BY <2>1, <1>2, QueriesBelow, ArrestQueries, ArrestKeys, Itself DEF Row,
         ShownBy, Tells, Invalidates
<1>3. CASE Root(n) = "cases"
    BY <1>1, <1>3, QueriesBelow, CaseQueries, Itself DEF Row, ShownBy, Tells,
           Invalidates
<1> QED
    BY <1>1, <1>2, <1>3

LEMMA InterrogationRule ==
    ASSUME NEW h, NEW n \in DOMAIN Queries, NEW told,
           Hook(h, {"interrogation"}, told, {}, {}),
           {interrogationKeys.caseInterrogations, caseKeys.summary} \subseteq told,
           told \subseteq {interrogationKeys.caseInterrogations, caseKeys.summary,
                           caseKeys.interrogations}
    PROVE  Informs(h, n)
<1> USE DEF Hook
<1> SUFFICES ASSUME <<h, n>> \notin Untold, Akin(Mutations[h], Queries[n])
             PROVE  Tells(Mutations[h], Queries[n].key)
    BY DEF Informs
<1>1. /\ Root(n) \in {"interrogations", "cases"}
      /\ ShownBy(Mutations[h], Queries[n]) \/ Queries[n].key = caseKeys.summary
      /\ Root(n) = "cases" => caseKeys.summary \in told
    BY InterrogationKeys, CaseKeys DEF Akin, Root
<1>2. CASE Root(n) = "interrogations"
  <2>1. ShownBy(Mutations[h], Queries[n])
      BY <1>1, <1>2, CaseKeys DEF Root
  <2> QED
      BY <2>1, <1>2, QueriesBelow, InterrogationQueries, InterrogationKeys,
         Itself DEF Row, ShownBy, Tells, Invalidates
<1>3. CASE Root(n) = "cases"
    BY <1>1, <1>3, QueriesBelow, CaseQueries, Itself DEF Row, ShownBy, Tells,
           Invalidates
<1> QED
    BY <1>1, <1>2, <1>3

LEMMA EvidenceRule ==
    ASSUME NEW h, NEW n \in DOMAIN Queries, NEW told, NEW set,
           Hook(h, {"evidence"}, told, set, {}),
           {evidenceKeys.caseEvidence} \subseteq told,
           told \subseteq {evidenceKeys.caseEvidence, caseKeys.summary},
           set \subseteq {evidenceKeys.detail},
           evidenceKeys.detail \in set \/ <<h, "useEvidence">> \in Untold
    PROVE  Informs(h, n)
<1> USE DEF Hook
<1> SUFFICES ASSUME <<h, n>> \notin Untold, Akin(Mutations[h], Queries[n])
             PROVE  Tells(Mutations[h], Queries[n].key)
    BY DEF Informs
<1>1. /\ Root(n) \in {"evidence", "cases"}
      /\ ShownBy(Mutations[h], Queries[n]) \/ Queries[n].key = caseKeys.summary
      /\ Root(n) = "cases" => caseKeys.summary \in told
    BY EvidenceKeys, CaseKeys DEF Akin, Root
<1>2. CASE Root(n) = "evidence"
  <2>1. ShownBy(Mutations[h], Queries[n])
      BY <1>1, <1>2, CaseKeys DEF Root
  <2> QED
      BY <2>1, <1>2, QueriesBelow, EvidenceQueries, EvidenceKeys, Itself DEF
         Row, ShownBy, Tells, Invalidates, Sets
<1>3. CASE Root(n) = "cases"
    BY <1>1, <1>3, QueriesBelow, CaseQueries, Itself DEF Row, ShownBy, Tells,
           Invalidates
<1> QED
    BY <1>1, <1>2, <1>3

LEMMA CustodyRule ==
    ASSUME NEW h, NEW n \in DOMAIN Queries, NEW told, NEW set,
           Hook(h, {"custody"}, told, set, {}),
           told = {evidenceKeys.custodyChain},
           set \subseteq {evidenceKeys.detail},
           evidenceKeys.detail \in set \/ <<h, "useEvidence">> \in Untold
    PROVE  Informs(h, n)
<1> USE DEF Hook
<1> SUFFICES ASSUME <<h, n>> \notin Untold, Akin(Mutations[h], Queries[n])
             PROVE  Tells(Mutations[h], Queries[n].key)
    BY DEF Informs
<1>1. /\ Root(n) = "evidence"
      /\ ShownBy(Mutations[h], Queries[n]) \/ Queries[n].key = caseKeys.summary
    BY EvidenceKeys, CaseKeys DEF Akin, Root
<1>2. CASE Root(n) = "evidence"
  <2>1. ShownBy(Mutations[h], Queries[n])
      BY <1>1, <1>2, CaseKeys DEF Root
  <2> QED
      BY <2>1, <1>2, QueriesBelow, EvidenceQueries, EvidenceKeys, Itself DEF
         Row, ShownBy, Tells, Invalidates, Sets
<1> QED
    BY <1>1, <1>2

LEMMA CourtRule ==
    ASSUME NEW h, NEW n \in DOMAIN Queries, NEW told,
           Hook(h, {"courtCase"}, told, {}, {}),
           {legalKeys.courtCaseByCase, legalKeys.courtCaseList} \subseteq told,
           told \subseteq {legalKeys.courtCaseByCase, legalKeys.courtCaseList,
                           legalKeys.courtCase, caseKeys.summary}
    PROVE  Informs(h, n)
<1> USE DEF Hook
<1> SUFFICES ASSUME <<h, n>> \notin Untold, Akin(Mutations[h], Queries[n])
             PROVE  Tells(Mutations[h], Queries[n].key)
    BY DEF Informs
<1>1. /\ Root(n) \in {"courtCases", "cases"}
      /\ ShownBy(Mutations[h], Queries[n]) \/ Queries[n].key = caseKeys.summary
      /\ Root(n) = "cases" => caseKeys.summary \in told
    BY CourtKeys, CaseKeys DEF Akin, Root
<1>2. CASE Root(n) = "courtCases"
  <2>1. ShownBy(Mutations[h], Queries[n])
      BY <1>1, <1>2, CaseKeys DEF Root
  <2> QED
      BY <2>1, <1>2, QueriesBelow, CourtQueries, CourtKeys, Itself DEF Row,
         ShownBy, Tells, Invalidates
<1>3. CASE Root(n) = "cases"
    BY <1>1, <1>3, QueriesBelow, CaseQueries, Itself DEF Row, ShownBy, Tells,
           Invalidates
<1> QED
    BY <1>1, <1>2, <1>3

LEMMA ChargeRule ==
    ASSUME NEW h, NEW n \in DOMAIN Queries, NEW told,
           Hook(h, {"charge"}, told, {}, {}),
           {legalKeys.chargeList, legalKeys.courtCaseByCase} \subseteq told,
           told \subseteq {legalKeys.chargeList, legalKeys.courtCaseByCase,
                           legalKeys.chargeDetail, caseKeys.summary,
                           caseKeys.charges},
           caseKeys.charges \in told => caseKeys.summary \in told
    PROVE  Informs(h, n)
<1> USE DEF Hook
<1> SUFFICES ASSUME <<h, n>> \notin Untold, Akin(Mutations[h], Queries[n])
             PROVE  Tells(Mutations[h], Queries[n].key)
    BY DEF Informs
<1>1. /\ Root(n) \in {"courtCases", "charges", "cases"}
      /\ ShownBy(Mutations[h], Queries[n]) \/ Queries[n].key = caseKeys.summary
      /\ Root(n) = "cases" => caseKeys.summary \in told
    BY CourtKeys, ChargeKeys, CaseKeys DEF Akin, Root
<1>2. CASE Root(n) = "courtCases"
  <2>1. ShownBy(Mutations[h], Queries[n])
      BY <1>1, <1>2, CaseKeys DEF Root
  <2> QED
      BY <2>1, <1>2, QueriesBelow, CourtQueries, CourtKeys, Itself DEF Row,
         ShownBy, Tells, Invalidates
<1>3. CASE Root(n) = "charges"
  <2>1. ShownBy(Mutations[h], Queries[n])
      BY <1>1, <1>3, CaseKeys DEF Root
  <2> QED
      BY <2>1, <1>3, QueriesBelow, ChargeQueries, ChargeKeys, Itself DEF Row,
         ShownBy, Tells, Invalidates
<1>4. CASE Root(n) = "cases"
    BY <1>1, <1>4, QueriesBelow, CaseQueries, Itself DEF Row, ShownBy, Tells,
           Invalidates
<1> QED
    BY <1>1, <1>2, <1>3, <1>4

LEMMA DepartmentRule ==
    ASSUME NEW h, NEW n \in DOMAIN Queries, NEW told, NEW changed, NEW removed,
           Hook(h, changed, told, {}, removed),
           changed \subseteq {"department", "officer"},
           {departmentKeys.departmentList} \subseteq told,
           told \subseteq {departmentKeys.departmentList,
                           departmentKeys.department},
           \/ departmentKeys.department \in told \cup removed
           \/ "officer" \notin changed /\ <<h, "useDepartmentDetail">> \in Untold
    PROVE  Informs(h, n)
<1> USE DEF Hook
<1> SUFFICES ASSUME <<h, n>> \notin Untold, Akin(Mutations[h], Queries[n])
             PROVE  Tells(Mutations[h], Queries[n].key)
    BY DEF Informs
<1>1. /\ Root(n) = "departments"
      /\ ShownBy(Mutations[h], Queries[n]) \/ Queries[n].key = caseKeys.summary
    BY DepartmentKeys, CaseKeys DEF Akin, Root
<1>2. CASE Root(n) = "departments"
  <2>1. ShownBy(Mutations[h], Queries[n])
      BY <1>1, <1>2, CaseKeys DEF Root
  <2>2. CASE n \in {"useDepartments", "useDepartmentList"}
      BY <2>2, DepartmentQueries, DepartmentKeys, Itself DEF Row, Tells, Invalidates
  <2>3. CASE n = "useDepartmentDetail"
      BY <2>3, DepartmentQueries, Itself DEF Row, Tells, Invalidates, Removes
  <2>4. CASE n = "useDepartmentOfficers"
      BY <2>1, <2>4, DepartmentQueries, DepartmentKeys
         DEF Row, ShownBy, Tells, Invalidates, Removes
  <2> QED
      BY <1>2, <2>2, <2>3, <2>4, QueriesBelow
<1> QED
    BY <1>1, <1>2

LEMMA OfficerRule ==
    ASSUME NEW h, NEW n \in DOMAIN Queries, NEW told,
           Hook(h, {"officer"}, told, {}, {}),
           {personnelKeys.officerList} \subseteq told,
           told \subseteq {personnelKeys.officerList, personnelKeys.officer},
           personnelKeys.officer \in told \/ <<h, "useOfficerDetail">> \in Untold
    PROVE  Informs(h, n)
<1> USE DEF Hook
<1> SUFFICES ASSUME <<h, n>> \notin Untold, Akin(Mutations[h], Queries[n])
             PROVE  Tells(Mutations[h], Queries[n].key)
    BY DEF Informs
<1>1. /\ Root(n) = "officers"
      /\ ShownBy(Mutations[h], Queries[n]) \/ Queries[n].key = caseKeys.summary
    BY OfficerKeys, CaseKeys DEF Akin, Root
<1>2. CASE Root(n) = "officers"
  <2>1. ShownBy(Mutations[h], Queries[n])
      BY <1>1, <1>2, CaseKeys DEF Root
  <2> QED
      BY <2>1, <1>2, QueriesBelow, OfficerQueries, OfficerKeys, Itself DEF Row,
         ShownBy, Tells, Invalidates
<1> QED
    BY <1>1, <1>2

LEMMA PersonRule ==
    ASSUME NEW h, NEW n \in DOMAIN Queries, NEW told,
           Hook(h, {"person"}, told, {}, {}),
           {personnelKeys.personList} \subseteq told,
           told \subseteq {personnelKeys.personList, personnelKeys.person},
           personnelKeys.person \in told \/ <<h, "usePersonDetail">> \in Untold
    PROVE  Informs(h, n)
<1> USE DEF Hook
<1> SUFFICES ASSUME <<h, n>> \notin Untold, Akin(Mutations[h], Queries[n])
             PROVE  Tells(Mutations[h], Queries[n].key)
    BY DEF Informs
<1>1. /\ Root(n) = "persons"
      /\ ShownBy(Mutations[h], Queries[n]) \/ Queries[n].key = caseKeys.summary
    BY PersonKeys, CaseKeys DEF Akin, Root
<1>2. CASE Root(n) = "persons"
  <2>1. ShownBy(Mutations[h], Queries[n])
      BY <1>1, <1>2, CaseKeys DEF Root
  <2> QED
      BY <2>1, <1>2, QueriesBelow, PersonQueries, PersonKeys, Itself DEF Row,
         ShownBy, Tells, Invalidates
<1> QED
    BY <1>1, <1>2

LEMMA LocationRule ==
    ASSUME NEW h, NEW n \in DOMAIN Queries, NEW told,
           Hook(h, {"location"}, told, {}, {}),
           told = {adminKeys.locationList}
    PROVE  Informs(h, n)
<1> USE DEF Hook
<1> SUFFICES ASSUME <<h, n>> \notin Untold, Akin(Mutations[h], Queries[n])
             PROVE  Tells(Mutations[h], Queries[n].key)
    BY DEF Informs
<1>1. /\ Root(n) = "admin"
      /\ ShownBy(Mutations[h], Queries[n]) \/ Queries[n].key = caseKeys.summary
    BY AdminKeys, CaseKeys DEF Akin, Root
<1>2. CASE Root(n) = "admin"
  <2>1. ShownBy(Mutations[h], Queries[n])
      BY <1>1, <1>2, CaseKeys DEF Root
  <2> QED
      BY <2>1, <1>2, QueriesBelow, AdminQueries, AdminKeys, Itself DEF Row,
         ShownBy, Tells, Invalidates
<1> QED
    BY <1>1, <1>2

LEMMA CrimeTypeRule ==
    ASSUME NEW h, NEW n \in DOMAIN Queries, NEW told,
           Hook(h, {"crimeType"}, told, {}, {}),
           told = {adminKeys.crimeTypeList}
    PROVE  Informs(h, n)
<1> USE DEF Hook
<1> SUFFICES ASSUME <<h, n>> \notin Untold, Akin(Mutations[h], Queries[n])
             PROVE  Tells(Mutations[h], Queries[n].key)
    BY DEF Informs
<1>1. /\ Root(n) = "admin"
      /\ ShownBy(Mutations[h], Queries[n]) \/ Queries[n].key = caseKeys.summary
    BY AdminKeys, CaseKeys DEF Akin, Root
<1>2. CASE Root(n) = "admin"
  <2>1. ShownBy(Mutations[h], Queries[n])
      BY <1>1, <1>2, CaseKeys DEF Root
  <2> QED
      BY <2>1, <1>2, QueriesBelow, AdminQueries, AdminKeys, Itself DEF Row,
         ShownBy, Tells, Invalidates
<1> QED
    BY <1>1, <1>2

-----------------------------------------------------------------------------
(* The mutations, feature by feature. *)
LEMMA UntoldPairs ==
    /\ <<"useDeleteCase", "useCase">> \in Untold
    /\ <<"useBulkUpdateCaseStatus", "useCase">> \in Untold
    /\ <<"useDeleteArrest", "useArrest">> \in Untold
    /\ <<"useCreateArrest", "useArrest">> \in Untold
    /\ <<"useDeleteEvidence", "useEvidence">> \in Untold
    /\ <<"useUploadEvidence", "useEvidence">> \in Untold
    /\ <<"useCreateDepartment", "useDepartmentDetail">> \in Untold
    /\ <<"useCreateOfficer", "useOfficerDetail">> \in Untold
    /\ <<"useCreatePerson", "usePersonDetail">> \in Untold
    /\ <<"useAddAuditNote", "useGlobalAuditLog">> \in Untold
    /\ <<"useAddAuditNote", "useOfficerAuditHistory">> \in Untold
    /\ <<"useAddAuditNote", "usePersonAuditHistory">> \in Untold
BY DEF Untold

LEMMA CaseHookRows ==
    /\ Hook("useCreateCase", {"case"}, {caseKeys.lists}, {caseKeys.detail}, {})
    /\ Hook("useUpdateCase", {"case"}, {caseKeys.lists}, {caseKeys.detail}, {})
    /\ Hook("useTransitionCaseStatus", {"case"}, {caseKeys.lists,
            caseKeys.timeline}, {caseKeys.detail}, {})
    /\ Hook("useBulkUpdateCaseStatus", {"case"}, {caseKeys.lists}, {}, {})
    /\ Hook("useDeleteCase", {"case"}, {caseKeys.lists}, {}, {})
    /\ Hook("useAddCaseNote", {"timeline"}, {caseKeys.timeline}, {}, {})
    /\ Hook("useAddAuditNote", {"timeline"}, {auditKeys.caseTimeline}, {}, {})
BY DEF Hook, Mutations, useCreateCase, useUpdateCase, useTransitionCaseStatus,
       useBulkUpdateCaseStatus, useDeleteCase, useAddCaseNote, useAddAuditNote,
       Mutation, Going, Setting, casesService, Post, Patch, Delete, auditService

LEMMA CaseHooks ==
    ASSUME NEW n \in DOMAIN Queries
    PROVE  /\ Informs("useCreateCase", n)
           /\ Informs("useUpdateCase", n)
           /\ Informs("useTransitionCaseStatus", n)
           /\ Informs("useBulkUpdateCaseStatus", n)
           /\ Informs("useDeleteCase", n)
           /\ Informs("useAddCaseNote", n)
           /\ Informs("useAddAuditNote", n)
<1>1. Informs("useCreateCase", n)
    BY CaseHookRows, CaseRule
<1>2. Informs("useUpdateCase", n)
    BY CaseHookRows, CaseRule
<1>3. Informs("useTransitionCaseStatus", n)
    BY CaseHookRows, CaseRule
<1>4. Informs("useBulkUpdateCaseStatus", n)
    BY CaseHookRows, CaseRule, UntoldPairs
<1>5. Informs("useDeleteCase", n)
    BY CaseHookRows, CaseRule, UntoldPairs
<1>6. Informs("useAddCaseNote", n)
    BY CaseHookRows, TimelineRule
<1>7. Informs("useAddAuditNote", n)
    BY CaseHookRows, AuditRule, UntoldPairs
<1> QED
    BY <1>1, <1>2, <1>3, <1>4, <1>5, <1>6, <1>7

LEMMA ArrestHookRows ==
    /\ Hook("useCreateArrest", {"arrest"}, {arrestKeys.caseArrests,
            caseKeys.arrests, caseKeys.summary}, {}, {})
    /\ Hook("useDeleteArrest", {"arrest"}, {arrestKeys.caseArrests,
            caseKeys.arrests, caseKeys.summary}, {}, {})
    /\ Hook("useUpdateArrest", {"arrest"}, {arrestKeys.detail,
            arrestKeys.caseArrests, caseKeys.arrests, caseKeys.summary}, {}, {})
    /\ Hook("useCreateInterrogation", {"interrogation"},
            {interrogationKeys.caseInterrogations, caseKeys.interrogations,
            caseKeys.summary}, {}, {})
BY DEF Hook, Mutations, useCreateArrest, useDeleteArrest, useUpdateArrest,
       useCreateInterrogation, Mutation, CaseArrests, arrestsService, Post, Delete,
       Patch, interrogationsService

LEMMA ArrestHooks ==
    ASSUME NEW n \in DOMAIN Queries
    PROVE  /\ Informs("useCreateArrest", n)
           /\ Informs("useDeleteArrest", n)
           /\ Informs("useUpdateArrest", n)
           /\ Informs("useCreateInterrogation", n)
<1>1. Informs("useCreateArrest", n)
    BY ArrestHookRows, ArrestRule, UntoldPairs
<1>2. Informs("useDeleteArrest", n)
    BY ArrestHookRows, ArrestRule, UntoldPairs
<1>3. Informs("useUpdateArrest", n)
    BY ArrestHookRows, ArrestRule
<1>4. Informs("useCreateInterrogation", n)
    BY ArrestHookRows, InterrogationRule
<1> QED
    BY <1>1, <1>2, <1>3, <1>4

LEMMA EvidenceHookRows ==
    /\ Hook("useUploadEvidence", {"evidence"}, {evidenceKeys.caseEvidence,
            caseKeys.summary}, {}, {})
    /\ Hook("useDeleteEvidence", {"evidence"}, {evidenceKeys.caseEvidence,
            caseKeys.summary}, {}, {})
    /\ Hook("useUpdateEvidence", {"evidence"}, {evidenceKeys.caseEvidence},
            {evidenceKeys.detail}, {})
    /\ Hook("useRecordCustodyEvent", {"custody"}, {evidenceKeys.custodyChain},
            {evidenceKeys.detail}, {})
BY DEF Hook, Mutations, useUploadEvidence, useDeleteEvidence, useUpdateEvidence,
       useRecordCustodyEvent, Mutation, evidenceService, Post, Delete, Setting,
       Patch

LEMMA EvidenceHooks ==
    ASSUME NEW n \in DOMAIN Queries
    PROVE  /\ Informs("useUploadEvidence", n)
           /\ Informs("useDeleteEvidence", n)
           /\ Informs("useUpdateEvidence", n)
           /\ Informs("useRecordCustodyEvent", n)
<1>1. Informs("useUploadEvidence", n)
    BY EvidenceHookRows, EvidenceRule, UntoldPairs
<1>2. Informs("useDeleteEvidence", n)
    BY EvidenceHookRows, EvidenceRule, UntoldPairs
<1>3. Informs("useUpdateEvidence", n)
    BY EvidenceHookRows, EvidenceRule
<1>4. Informs("useRecordCustodyEvent", n)
    BY EvidenceHookRows, CustodyRule
<1> QED
    BY <1>1, <1>2, <1>3, <1>4

LEMMA CourtHookRows ==
    /\ Hook("useCreateCourtCase", {"courtCase"}, {legalKeys.courtCaseByCase,
            legalKeys.courtCaseList, caseKeys.summary}, {}, {})
    /\ Hook("useUpdateCourtCase", {"courtCase"}, {legalKeys.courtCase,
            legalKeys.courtCaseByCase, legalKeys.courtCaseList}, {}, {})
    /\ Hook("useCreateCharge", {"charge"}, {legalKeys.chargeList,
            legalKeys.courtCaseByCase, caseKeys.summary, caseKeys.charges}, {}, {})
    /\ Hook("useDropCharge", {"charge"}, {legalKeys.chargeList,
            legalKeys.courtCaseByCase, caseKeys.summary, caseKeys.charges}, {}, {})
BY DEF Hook, Mutations, useCreateCourtCase, useUpdateCourtCase, useCreateCharge,
       useDropCharge, Mutation, legalService, Post, Patch, ChargeLists

LEMMA CourtHooks ==
    ASSUME NEW n \in DOMAIN Queries
    PROVE  /\ Informs("useCreateCourtCase", n)
           /\ Informs("useUpdateCourtCase", n)
           /\ Informs("useCreateCharge", n)
           /\ Informs("useDropCharge", n)
<1>1. Informs("useCreateCourtCase", n)
    BY CourtHookRows, CourtRule
<1>2. Informs("useUpdateCourtCase", n)
    BY CourtHookRows, CourtRule
<1>3. Informs("useCreateCharge", n)
    BY CourtHookRows, ChargeRule
<1>4. Informs("useDropCharge", n)
    BY CourtHookRows, ChargeRule
<1> QED
    BY <1>1, <1>2, <1>3, <1>4

LEMMA ChargeHookRows ==
    /\ Hook("useUpdateCharge", {"charge"}, {legalKeys.chargeList,
            legalKeys.courtCaseByCase, legalKeys.chargeDetail, caseKeys.summary,
            caseKeys.charges}, {}, {})
    /\ Hook("useRecordSentence", {"charge"}, {legalKeys.chargeList,
            legalKeys.courtCaseByCase, legalKeys.chargeDetail, caseKeys.summary,
            caseKeys.charges}, {}, {})
    /\ Hook("useAppealCharge", {"charge"}, {legalKeys.chargeList,
            legalKeys.courtCaseByCase, legalKeys.chargeDetail, caseKeys.summary},
            {}, {})
    /\ Hook("useBulkDropCharges", {"charge"}, {legalKeys.chargeList,
            legalKeys.courtCaseByCase, caseKeys.summary}, {}, {})
    /\ Hook("useEditSentence", {"charge"}, {legalKeys.chargeList,
            legalKeys.courtCaseByCase, legalKeys.chargeDetail}, {}, {})
BY DEF Hook, Mutations, useUpdateCharge, useRecordSentence, useAppealCharge,
       useBulkDropCharges, useEditSentence, Mutation, ChargeLists, legalService,
       Patch, Post

LEMMA ChargeHooks ==
    ASSUME NEW n \in DOMAIN Queries
    PROVE  /\ Informs("useUpdateCharge", n)
           /\ Informs("useRecordSentence", n)
           /\ Informs("useAppealCharge", n)
           /\ Informs("useBulkDropCharges", n)
           /\ Informs("useEditSentence", n)
<1>1. Informs("useUpdateCharge", n)
    BY ChargeHookRows, ChargeRule
<1>2. Informs("useRecordSentence", n)
    BY ChargeHookRows, ChargeRule
<1>3. Informs("useAppealCharge", n)
    BY ChargeHookRows, ChargeRule
<1>4. Informs("useBulkDropCharges", n)
    BY ChargeHookRows, ChargeRule
<1>5. Informs("useEditSentence", n)
    BY ChargeHookRows, ChargeRule, ChargeKeys, CourtKeys, CaseKeys
<1> QED
    BY <1>1, <1>2, <1>3, <1>4, <1>5

LEMMA DepartmentHookRows ==
    /\ Hook("useCreateDepartment", {"department"}, {departmentKeys.departmentList},
            {}, {})
    /\ Hook("useUpdateDepartment", {"department"}, {departmentKeys.department,
            departmentKeys.departmentList}, {}, {})
    /\ Hook("useAssignHeadOfficer", {"department", "officer"},
            {departmentKeys.department, departmentKeys.departmentList}, {}, {})
    /\ Hook("useRemoveHeadOfficer", {"department", "officer"},
            {departmentKeys.department, departmentKeys.departmentList}, {}, {})
    /\ Hook("useDeleteDepartment", {"department"}, {departmentKeys.departmentList},
            {}, {departmentKeys.department})
BY DEF Hook, Mutations, useCreateDepartment, useUpdateDepartment,
       useAssignHeadOfficer, useRemoveHeadOfficer, useDeleteDepartment, Mutation,
       departmentsService, Post, DepartmentAndList, Patch, Delete, Going

LEMMA DepartmentHooks ==
    ASSUME NEW n \in DOMAIN Queries
    PROVE  /\ Informs("useCreateDepartment", n)
           /\ Informs("useUpdateDepartment", n)
           /\ Informs("useAssignHeadOfficer", n)
           /\ Informs("useRemoveHeadOfficer", n)
           /\ Informs("useDeleteDepartment", n)
<1>1. Informs("useCreateDepartment", n)
    BY DepartmentHookRows, DepartmentRule, UntoldPairs
<1>2. Informs("useUpdateDepartment", n)
  <2>1. Hook("useUpdateDepartment", {"department"},
             {departmentKeys.department, departmentKeys.departmentList}, {}, {})
      BY DepartmentHookRows
  <2> QED
      BY <2>1, DepartmentRule
<1>3. Informs("useAssignHeadOfficer", n)
    BY DepartmentHookRows, DepartmentRule
<1>4. Informs("useRemoveHeadOfficer", n)
    BY DepartmentHookRows, DepartmentRule
<1>5. Informs("useDeleteDepartment", n)
    BY DepartmentHookRows, DepartmentRule
<1> QED
    BY <1>1, <1>2, <1>3, <1>4, <1>5

LEMMA OfficerHookRows ==
    /\ Hook("useCreateOfficer", {"officer"}, {personnelKeys.officerList}, {}, {})
    /\ Hook("useActivateOfficer", {"officer"}, {personnelKeys.officer,
            personnelKeys.officerList}, {}, {})
    /\ Hook("useDeactivateOfficer", {"officer"}, {personnelKeys.officer,
            personnelKeys.officerList}, {}, {})
    /\ Hook("useResetOfficerPassword", {}, {}, {}, {})
BY DEF Hook, Mutations, useCreateOfficer, useActivateOfficer, useDeactivateOfficer,
       useResetOfficerPassword, Mutation, personnelService, Post, OfficerAndList

LEMMA OfficerHooks ==
    ASSUME NEW n \in DOMAIN Queries
    PROVE  /\ Informs("useCreateOfficer", n)
           /\ Informs("useActivateOfficer", n)
           /\ Informs("useDeactivateOfficer", n)
           /\ Informs("useResetOfficerPassword", n)
<1>1. Informs("useCreateOfficer", n)
    BY OfficerHookRows, OfficerRule, UntoldPairs
<1>2. Informs("useActivateOfficer", n)
    BY OfficerHookRows, OfficerRule
<1>3. Informs("useDeactivateOfficer", n)
    BY OfficerHookRows, OfficerRule
<1>4. Informs("useResetOfficerPassword", n)
    BY OfficerHookRows DEF Informs, Hook, Akin
<1> QED
    BY <1>1, <1>2, <1>3, <1>4

LEMMA PersonHookRows ==
    /\ Hook("useCreatePerson", {"person"}, {personnelKeys.personList}, {}, {})
    /\ Hook("usePromoteToSuspect", {"person"}, {personnelKeys.person,
            personnelKeys.personList}, {}, {})
    /\ Hook("usePromoteToVictim", {"person"}, {personnelKeys.person,
            personnelKeys.personList}, {}, {})
    /\ Hook("usePromoteToWitness", {"person"}, {personnelKeys.person,
            personnelKeys.personList}, {}, {})
    /\ Hook("useDemotePersonRole", {"person"}, {personnelKeys.person,
            personnelKeys.personList}, {}, {})
BY DEF Hook, Mutations, useCreatePerson, usePromoteToSuspect, usePromoteToVictim,
       usePromoteToWitness, useDemotePersonRole, Mutation, personnelService, Post,
       PersonAndList, Delete

LEMMA PersonHooks ==
    ASSUME NEW n \in DOMAIN Queries
    PROVE  /\ Informs("useCreatePerson", n)
           /\ Informs("usePromoteToSuspect", n)
           /\ Informs("usePromoteToVictim", n)
           /\ Informs("usePromoteToWitness", n)
           /\ Informs("useDemotePersonRole", n)
<1>1. Informs("useCreatePerson", n)
    BY PersonHookRows, PersonRule, UntoldPairs
<1>2. Informs("usePromoteToSuspect", n)
    BY PersonHookRows, PersonRule
<1>3. Informs("usePromoteToVictim", n)
    BY PersonHookRows, PersonRule
<1>4. Informs("usePromoteToWitness", n)
    BY PersonHookRows, PersonRule
<1>5. Informs("useDemotePersonRole", n)
    BY PersonHookRows, PersonRule
<1> QED
    BY <1>1, <1>2, <1>3, <1>4, <1>5

LEMMA AdminHookRows ==
    /\ Hook("useCreateLocation", {"location"}, {adminKeys.locationList}, {}, {})
    /\ Hook("useDeleteLocation", {"location"}, {adminKeys.locationList}, {}, {})
    /\ Hook("useCreateCrimeType", {"crimeType"}, {adminKeys.crimeTypeList}, {}, {})
    /\ Hook("useDeleteCrimeType", {"crimeType"}, {adminKeys.crimeTypeList}, {}, {})
BY DEF Hook, Mutations, useCreateLocation, useDeleteLocation, useCreateCrimeType,
       useDeleteCrimeType, Mutation, adminService, Post, Delete

LEMMA AdminHooks ==
    ASSUME NEW n \in DOMAIN Queries
    PROVE  /\ Informs("useCreateLocation", n)
           /\ Informs("useDeleteLocation", n)
           /\ Informs("useCreateCrimeType", n)
           /\ Informs("useDeleteCrimeType", n)
<1>1. Informs("useCreateLocation", n)
    BY AdminHookRows, LocationRule
<1>2. Informs("useDeleteLocation", n)
    BY AdminHookRows, LocationRule
<1>3. Informs("useCreateCrimeType", n)
    BY AdminHookRows, CrimeTypeRule
<1>4. Informs("useDeleteCrimeType", n)
    BY AdminHookRows, CrimeTypeRule
<1> QED
    BY <1>1, <1>2, <1>3, <1>4

LEMMA HooksTell ==
    ASSUME NEW p \in (DOMAIN Mutations) \X (DOMAIN Queries)
    PROVE  Tell(p)
<1>1. DOMAIN Mutations =
        {"useCreateCase", "useUpdateCase", "useTransitionCaseStatus",
         "useBulkUpdateCaseStatus", "useDeleteCase", "useAddCaseNote",
         "useAddAuditNote", "useCreateArrest", "useDeleteArrest", "useUpdateArrest",
         "useCreateInterrogation", "useUploadEvidence", "useDeleteEvidence",
         "useUpdateEvidence", "useRecordCustodyEvent", "useCreateCourtCase",
         "useUpdateCourtCase", "useCreateCharge", "useDropCharge",
         "useUpdateCharge", "useRecordSentence", "useAppealCharge",
         "useBulkDropCharges", "useEditSentence", "useCreateDepartment",
         "useUpdateDepartment", "useAssignHeadOfficer", "useRemoveHeadOfficer",
         "useDeleteDepartment", "useCreateOfficer", "useActivateOfficer",
         "useDeactivateOfficer", "useResetOfficerPassword", "useCreatePerson",
         "usePromoteToSuspect", "usePromoteToVictim", "usePromoteToWitness",
         "useDemotePersonRole", "useCreateLocation", "useDeleteLocation",
         "useCreateCrimeType", "useDeleteCrimeType"}
    BY DEF Mutations
<1>2. Informs(p[1], p[2])
    BY <1>1, CaseHooks, ArrestHooks, EvidenceHooks, CourtHooks, ChargeHooks,
       DepartmentHooks, OfficerHooks, PersonHooks, AdminHooks
<1>3. p = <<p[1], p[2]>>
    OBVIOUS
<1> QED
    BY <1>2, <1>3 DEF Tell, Link, Effect, Informs, Tells

-----------------------------------------------------------------------------
(* A fetch and an answer are about records that were there.  What the fetch *)
(* has read, unless a success has passed it, is no older than what is owed, *)
(* nor is what the cache takes for valid, unless such a fetch brought it.   *)
CacheInv ==
    /\ TypeOK
    /\ \E p \in Pairs : pair = Link(p)
    /\ owed <= records
    /\ fetch \in Version /\ ~passed => owed <= fetch
    /\ cached \in Version /\ valid /\ ~behind => owed <= cached
    /\ \A c \in Call : call[c] \in Version => call[c] <= records
    /\ passed => fetch \in Version

-----------------------------------------------------------------------------
(* A version is no mark, and the marks differ. *)
LEMMA Marks ==
    /\ No \notin Version /\ Sent \notin Version /\ No # Sent
    /\ Nothing \notin Version
    /\ 0 \in Version
    /\ \A v \in Version : v \in Nat
    /\ \A v \in Nat : v < MaxWrites => v + 1 \in Version
    /\ \A v \in Version : v # MaxWrites => v < MaxWrites
BY CacheAssumption DEF Version, No, Sent, Nothing

LEMMA CacheInitial == Init => CacheInv
<1> SUFFICES ASSUME Init PROVE CacheInv
    OBVIOUS
<1> USE DEF Init
<1>1. PICK p \in Pairs : pair = Link(p)
    OBVIOUS
<1>2. p = <<p[1], p[2]>>
    BY CacheAssumption
<1>3. TypeOK
    BY <1>1, <1>2, Marks DEF TypeOK, Flight, Link
<1> QED
    BY <1>1, <1>3, Marks DEF CacheInv, Nothing

-----------------------------------------------------------------------------
(* What the components of the page do: nothing is put into the cache, and  *)
(* a fetch only starts or ends.                                            *)
Asking ==
    /\ shown' \in BOOLEAN /\ old' \in BOOLEAN
    /\ \/ UNCHANGED <<fetch, passed>>
       \/ fetch' = No /\ passed' = FALSE
       \/ fetch = No /\ fetch' = Sent /\ UNCHANGED passed
    /\ \/ UNCHANGED <<cached, valid>>
       \/ cached' = Nothing /\ valid' \in BOOLEAN
    /\ UNCHANGED <<pair, records, call, owed, behind>>

LEMMA AskingStep == ASSUME CacheInv, Asking PROVE CacheInv'
<1> USE DEF CacheInv, Asking
<1>1. fetch' \in Flight /\ passed' \in BOOLEAN
    BY DEF TypeOK, Flight
<1>2. TypeOK'
    BY <1>1 DEF TypeOK
<1>3. fetch' \in Version => UNCHANGED <<fetch, passed>>
    BY Marks
<1>4. cached' \in Version => UNCHANGED <<cached, valid>>
    BY Marks
<1>5. passed' => UNCHANGED <<fetch, passed>>
    BY Marks
<1> QED
    BY <1>2, <1>3, <1>4, <1>5

LEMMA ComponentStep ==
    ASSUME CacheInv, Mount \/ Focus \/ Poll \/ Unmount \/ Age \/ Collect \/
           FetchFails
    PROVE  Asking
<1> USE DEF CacheInv, TypeOK, Asking, history
<1>1. CASE Mount
    BY <1>1 DEF Mount, Refetch
<1>2. CASE Focus
    BY <1>2 DEF Focus, Refetch
<1>3. CASE Poll
    BY <1>3 DEF Poll, Refetch
<1>4. CASE Unmount
    BY <1>4 DEF Unmount
<1>5. CASE Age
    BY <1>5 DEF Age
<1>6. CASE Collect
    BY <1>6 DEF Collect, Forget
<1>7. CASE FetchFails
    BY <1>7 DEF FetchFails
<1> QED
    BY <1>1, <1>2, <1>3, <1>4, <1>5, <1>6, <1>7

(* A fetch reads the newest records, and they are put into the cache.      *)
LEMMA FetchStep == ASSUME CacheInv, Read \/ Fetched PROVE CacheInv'
<1> USE DEF CacheInv, history
<1>1. CASE Read
  <2>1. TypeOK'
      BY <1>1 DEF TypeOK, Flight, Read
  <2>2. ~passed'
      BY <1>1, Marks DEF Read
  <2> QED
      BY <1>1, <2>1, <2>2 DEF Read
<1>2. CASE Fetched
  <2>1. TypeOK'
      BY <1>2 DEF TypeOK, Flight, Fetched, Put
  <2> QED
      BY <1>2, <2>1, Marks DEF Fetched, Put
<1> QED
    BY <1>1, <1>2

-----------------------------------------------------------------------------
(* What is written is newer than anything that is owed.                    *)
LEMMA WriteStep ==
    ASSUME CacheInv, NEW c \in Call, Mutate(c) \/ Write(c) \/ MutationFails(c)
    PROVE  CacheInv'
<1> USE DEF CacheInv, page, history
<1>1. CASE Mutate(c) \/ MutationFails(c)
  <2>1. /\ call' \in [Call -> Flight] /\ UNCHANGED <<pair, records, page, history>>
        /\ \A d \in Call : call'[d] \in Version => call'[d] = call[d]
      BY <1>1, Marks DEF Mutate, MutationFails, TypeOK, Flight
  <2>2. TypeOK'
      BY <2>1 DEF TypeOK
  <2> QED
      BY <2>1, <2>2
<1>2. CASE Write(c)
  <2>1. /\ records' = records + 1 /\ records' \in Version /\ records \in Nat
        /\ owed \in Nat /\ UNCHANGED <<pair, page, history>>
      BY <1>2, Marks DEF Write, TypeOK
  <2>2. /\ call' \in [Call -> Flight]
        /\ \A d \in Call : call'[d] \in Version => call'[d] \in {call[d], records'}
      BY <1>2, <2>1 DEF Write, TypeOK, Flight
  <2>3. TypeOK'
      BY <2>1, <2>2 DEF TypeOK
  <2>4. ASSUME NEW d \in Call, call'[d] \in Version PROVE call'[d] <= records'
    <3>1. call'[d] = records' \/ (call'[d] = call[d] /\ call[d] <= records)
        BY <2>2, <2>4
    <3>2. call'[d] \in Nat
        BY <2>4, Marks
    <3> QED
        BY <2>1, <3>1, <3>2
  <2> QED
      BY <2>1, <2>3, <2>4
<1> QED
    BY <1>1, <1>2

LEMMA ElsewhereStep == ASSUME CacheInv, Elsewhere PROVE CacheInv'
<1> USE DEF CacheInv, page, history, Elsewhere
<1>1. records' = records + 1 /\ records' \in Version /\ records \in Nat /\ owed \in
       Nat
    BY Marks DEF TypeOK
<1>2. TypeOK'
    BY <1>1 DEF TypeOK
<1>3. ASSUME NEW d \in Call, call'[d] \in Version PROVE call'[d] <= records'
  <2>1. call'[d] = call[d] /\ call[d] <= records
      BY <1>3
  <2>2. call'[d] \in Nat
      BY <1>3, Marks
  <2> QED
      BY <1>1, <2>1, <2>2
<1> QED
    BY <1>1, <1>2, <1>3

-----------------------------------------------------------------------------
(* The cache is told of an answer. *)
LEMMA MarkBoolean ==
    ASSUME NEW c, Mutated(c), behind \in BOOLEAN
    PROVE  passed' \in BOOLEAN /\ behind' \in BOOLEAN
<1> DEFINE Left == /\ pair.owes /\ LeavesFetch
                   /\ fetch \in Version /\ fetch < call[c]
           Same == fetch' = fetch
           Older == call[c] < owed
<1>1. /\ passed' = (Same /\ (passed \/ Left))
      /\ behind' = IF pair.effect = "set" THEN Older ELSE behind
    BY DEF Mutated
<1>2. Older \in BOOLEAN
    OBVIOUS
<1> HIDE DEF Left, Same, Older
<1>3. passed' \in BOOLEAN
  <2>1. CASE Same /\ (passed \/ Left)
      BY <1>1, <2>1
  <2>2. CASE ~(Same /\ (passed \/ Left))
      BY <1>1, <2>2
  <2> QED
      BY <2>1, <2>2
<1>4. behind' \in BOOLEAN
    BY <1>1, <1>2
<1> QED
    BY <1>3, <1>4

LEMMA ToldTypes ==
    ASSUME CacheInv, NEW c \in Call, Mutated(c)
    PROVE  /\ TypeOK' /\ call[c] \in Version
           /\ \A d \in Call : call'[d] \in Version => call'[d] = call[d]
<1>0. passed' \in BOOLEAN /\ behind' \in BOOLEAN
    BY MarkBoolean DEF CacheInv, TypeOK
<1> USE DEF CacheInv, TypeOK, Mutated
<1>1. call[c] \in Version /\ shown' \in BOOLEAN /\ owed' \in Version
    OBVIOUS
<1>3. /\ call' \in [Call -> Flight]
      /\ \A d \in Call : call'[d] \in Version => call'[d] = call[d]
    BY Marks DEF Flight
<1>4. /\ valid' \in BOOLEAN /\ old' \in BOOLEAN /\ fetch' \in Flight
      /\ cached' \in Version \cup {Nothing}
  <2>1. CASE pair.effect = "set"
      BY <2>1, <1>1 DEF TellCache, Put
  <2>2. CASE pair.effect = "remove"
      BY <2>2 DEF TellCache, Forget, Flight
  <2>3. CASE pair.effect = "invalidate"
      BY <2>3 DEF TellCache, Invalidate, Flight
  <2>4. CASE pair.effect \notin {"set", "remove", "invalidate"}
      BY <2>4 DEF TellCache
  <2> QED
      BY <2>1, <2>2, <2>3, <2>4
<1> QED
    BY <1>0, <1>1, <1>3, <1>4

(* Where something is owed, the hook does something to the query.          *)
LEMMA OwingTells ==
    ASSUME CacheInv, pair.owes, pair.effect # "set"
    PROVE  pair.effect \in {"remove", "invalidate"}
<1>1. PICK p \in Pairs : pair = Link(p)
    BY DEF CacheInv
<1>2. Tell(p)
    BY HooksTell, CacheAssumption
<1>3. Link(p).effect \in {"set", "remove", "invalidate", "none"}
    BY DEF Link, Effect
<1> QED
    BY <1>1, <1>2, <1>3 DEF Tell

LEMMA ToldStep ==
    ASSUME CacheInv, NEW c \in Call, Mutated(c)
    PROVE  CacheInv'
<1>1. /\ TypeOK' /\ TypeOK /\ call[c] \in Version /\ call[c] <= records
      /\ \A d \in Call : call'[d] \in Version => call'[d] = call[d]
    BY ToldTypes DEF CacheInv
<1>2. /\ UNCHANGED <<pair, records>> /\ TellCache(call[c])
      /\ owed' = IF pair.owes /\ call[c] > owed THEN call[c] ELSE owed
    BY DEF Mutated
<1>3. /\ records \in Nat /\ owed \in Nat /\ call[c] \in Nat /\ owed' \in Nat
      /\ owed' <= records /\ (fetch \in Version => fetch \in Nat)
    BY <1>1, <1>2, Marks DEF TypeOK, CacheInv
<1>4. /\ \E p \in Pairs : pair' = Link(p)
      /\ \A d \in Call : call'[d] \in Version => call'[d] <= records'
    BY <1>1, <1>2 DEF CacheInv
<1>5. passed' => fetch' = fetch /\ fetch \in Version
    BY DEF Mutated, CacheInv
<1>6. /\ cached' \in Version /\ valid' /\ ~behind' => owed' <= cached'
      /\ fetch' \in {fetch, No, Sent}
  <2>1. CASE pair.effect = "set"
    <3>1. cached' = call[c] /\ fetch' = fetch
        BY <1>2, <2>1 DEF TellCache, Put
    <3>2. behind' = (call[c] < owed)
        BY <2>1 DEF Mutated
    <3>3. ~behind' => ~(call[c] < owed)
        BY <3>2
    <3>4. ~(call[c] < owed) => owed' <= call[c]
        BY <1>2, <1>3
    <3> QED
        BY <3>1, <3>3, <3>4
  <2>2. CASE pair.effect = "remove"
      BY <1>2, <2>2, Marks DEF TellCache, Forget
  <2>3. CASE pair.effect = "invalidate"
      BY <1>2, <2>3, Marks DEF TellCache, Invalidate
  <2>4. CASE pair.effect \notin {"set", "remove", "invalidate"}
    <3>1. UNCHANGED <<cached, valid, fetch>>
        BY <1>2, <2>4 DEF TellCache
    <3>2. owed' = owed /\ behind' = behind
        BY <1>2, <2>4, OwingTells DEF Mutated
    <3> QED
        BY <3>1, <3>2 DEF CacheInv
  <2> QED
      BY <2>1, <2>2, <2>3, <2>4
<1>7. ASSUME fetch' \in Version, ~passed' PROVE owed' <= fetch'
  <2>1. fetch' = fetch /\ fetch \in Version
      BY <1>6, <1>7, Marks
  <2>2. ~passed /\ ~(pair.owes /\ LeavesFetch /\ fetch < call[c])
      BY <1>7, <2>1 DEF Mutated
  <2>3. owed <= fetch
      BY <2>1, <2>2 DEF CacheInv
  <2>4. pair.owes => LeavesFetch
    <3>1. CASE pair.effect = "set"
        BY <3>1 DEF LeavesFetch
    <3>2. CASE pair.effect = "remove"
        BY <1>2, <1>7, <3>2, Marks DEF TellCache, Forget
    <3>3. CASE pair.effect = "invalidate"
        BY <1>2, <1>7, <2>1, <3>3, Marks DEF TellCache, Invalidate, LeavesFetch
    <3> QED
        BY <3>1, <3>2, <3>3, OwingTells
  <2> QED
      BY <1>2, <1>3, <2>1, <2>2, <2>3, <2>4
<1> QED
    BY <1>1, <1>2, <1>3, <1>4, <1>5, <1>6, <1>7 DEF CacheInv

LEMMA CacheStep ==
    ASSUME CacheInv, [Next]_vars PROVE CacheInv'
<1>1. CASE Mount \/ Focus \/ Poll \/ Unmount \/ Age \/ Collect \/ FetchFails
    BY <1>1, ComponentStep, AskingStep
<1>2. CASE Read \/ Fetched
    BY <1>2, FetchStep
<1>3. ASSUME NEW c \in Call, Mutate(c) \/ Write(c) \/ MutationFails(c) PROVE
       CacheInv'
    BY <1>3, WriteStep
<1>4. ASSUME NEW c \in Call, Mutated(c) PROVE CacheInv'
    BY <1>4, ToldStep
<1>5. CASE Elsewhere
    BY <1>5, ElsewhereStep
<1>6. CASE UNCHANGED vars
    BY <1>6 DEF CacheInv, vars, TypeOK
<1> QED
    BY <1>1, <1>2, <1>3, <1>4, <1>5, <1>6 DEF Next

LEMMA CacheInvariance == Spec => []CacheInv
BY CacheInitial, CacheStep, PTL DEF Spec

(* When a mutation has succeeded, what the page takes for valid is no      *)
(* older in any query that lists what the hook changed, the pairs of       *)
(* Untold apart, whatever else is fetched, written and told in between     *)
(* (onSuccess in features/*/hooks), unless it is `behind': brought by an   *)
(* answer that was under way and that nothing sends again.                 *)
THEOREM CacheTold == Spec => []Told
<1>1. CacheInv => Told
    BY Marks DEF CacheInv, TypeOK, Told
<1> QED
    BY <1>1, CacheInvariance, PTL

=============================================================================
