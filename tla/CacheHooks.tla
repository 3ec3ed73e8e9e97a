----------------------------- MODULE CacheHooks -----------------------------
(***************************************************************************)
(* The hooks of features/*/hooks: the queries, which read records into the *)
(* query cache, and the mutations, which change records and then tell the  *)
(* cache.  Toasts are left out.                                            *)
(*                                                                         *)
(* A query has a key and a service call, ages at once ("now") or after     *)
(* minutes ("later"), and may be fetched again at an interval.  A mutation *)
(* has a service call and, when it succeeded, keys below which it          *)
(* invalidates, keys it sets to the answer, keys below which it removes,   *)
(* and the page it goes to.                                                *)
(***************************************************************************)
EXTENDS QueryKeys, DomainServices

Query(key, call) == [key |-> key, call |-> call, ages |-> "later", polls |-> FALSE]

Polled(key, call) == [Query(key, call) EXCEPT !.polls = TRUE]

Live(key, call) == [Polled(key, call) EXCEPT !.ages = "now"]

Mutation(call, invalidated) ==
    [call |-> call, invalidates |-> invalidated, sets |-> {}, removes |-> {},
     goes |-> FALSE]

Setting(call, set, invalidated) == [Mutation(call, invalidated) EXCEPT !.sets = set]

Going(mutation) == [mutation EXCEPT !.goes = TRUE]

-----------------------------------------------------------------------------
(* Queries of features/cases, arrests, interrogations and evidence *)

useCases == Query(caseKeys.list, casesService.getCases)
useCase == Query(caseKeys.detail, casesService.getCase)
useCaseOfficers == Query(caseKeys.officers, casesService.getCaseMembers)
useCaseSummary == Query(caseKeys.summary, casesService.getCaseSummary)
useCaseTimeline == Live(caseKeys.timelineFiltered, casesService.getCaseTimeline)
useCrimeTypes == Query(caseKeys.crimeTypes, casesService.getCrimeTypes)
useLocations == Query(caseKeys.locations, casesService.getLocations)
useDepartments ==
    Query(departmentKeys.departmentList, departmentsService.getDepartments)
useOfficersSearch ==
    Query(personnelKeys.officerListFiltered, personnelService.searchOfficers)
useArrestList == Query(arrestKeys.caseArrestList, arrestsService.getCaseArrests)
useArrest == Query(arrestKeys.detail, arrestsService.getArrest)
useInterrogationList ==
    Query(interrogationKeys.caseInterrogationList,
          interrogationsService.getCaseInterrogations)
useEvidenceList == Query(evidenceKeys.caseEvidenceList, evidenceService.getCaseEvidence)
useEvidence == Query(evidenceKeys.detail, evidenceService.getEvidence)
useCustodyChain == Query(evidenceKeys.custodyChain, evidenceService.getCustodyChain)

(* Queries of features/legal, departments, personnel, admin and audit *)

useCourtCaseList == Query(legalKeys.courtCaseListFiltered, legalService.getCourtCases)
useCourtCaseByCase == Query(legalKeys.courtCaseByCase, legalService.getCourtCaseByCase)
useChargeList == Query(legalKeys.chargeListFiltered, legalService.getCharges)
useDepartmentList ==
    Query(departmentKeys.departmentListFiltered, departmentsService.getDepartments)
useDepartmentDetail == Query(departmentKeys.department, departmentsService.getDepartment)
useDepartmentOfficers ==
    Query(Append(departmentKeys.departmentOfficers, "params"),
          departmentsService.getDepartmentOfficers)
usePersonList == Query(personnelKeys.personListFiltered, personnelService.getPersons)
usePersonDetail == Query(personnelKeys.person, personnelService.getPerson)
usePersonCases ==
    Query(Append(personnelKeys.personCases, "params"), personnelService.getPersonCases)
useOfficerList == Query(personnelKeys.officerListFiltered, personnelService.getOfficers)
useOfficerDetail == Query(personnelKeys.officer, personnelService.getOfficer)
useOfficerCases == Query(personnelKeys.officerCases, personnelService.getOfficerCases)
useLocationList == Query(adminKeys.locationListFiltered, adminService.getLocations)
useCrimeTypeList == Query(adminKeys.crimeTypeListFiltered, adminService.getCrimeTypes)
useSystemHealth == Live(adminKeys.health, adminService.getSystemHealth)
useSystemReadiness == Live(adminKeys.readiness, adminService.getSystemReadiness)
useAuditTimeline == Live(auditKeys.caseTimelineFiltered, auditService.getCaseTimeline)
useGlobalAuditLog == Query(auditKeys.globalFiltered, auditService.getGlobalAuditLog)
useOfficerAuditHistory ==
    Query(auditKeys.officerHistoryFiltered, auditService.getOfficerAuditHistory)
usePersonAuditHistory ==
    Query(auditKeys.personHistoryFiltered, auditService.getPersonAuditHistory)

(* Queries of features/dashboard and reports *)

useInvestigatorDashboard ==
    Polled(dashboardKeys.investigator, dashboardService.getInvestigatorDashboard)
useDeptHeadDashboard ==
    Polled(dashboardKeys.deptHead, dashboardService.getDeptHeadDashboard)
useAdminDashboard == Polled(dashboardKeys.admin, dashboardService.getAdminDashboard)
useLegalDashboard == Polled(dashboardKeys.legal, dashboardService.getLegalDashboard)
useCaseStatusSummary ==
    Query(reportKeys.caseStatusSummary, reportsService.getCaseStatusSummary)
useCaseVolumeTrend == Query(reportKeys.caseVolumeTrend, reportsService.getCaseVolumeTrend)
useCaseResolutionReport ==
    Query(reportKeys.caseResolution, reportsService.getCaseResolutionReport)
useEvidenceTypeBreakdown ==
    Query(reportKeys.evidenceTypeBreakdown, reportsService.getEvidenceTypeBreakdown)
useEvidenceVolumeTrend ==
    Query(reportKeys.evidenceVolumeTrend, reportsService.getEvidenceVolumeTrend)
useUnreviewedEvidenceReport ==
    Query(reportKeys.unreviewedEvidence, reportsService.getUnreviewedEvidenceReport)
useArrestSummary == Query(reportKeys.arrestSummary, reportsService.getArrestSummary)
useArrestMonthlyTrend ==
    Query(reportKeys.arrestMonthlyTrend, reportsService.getArrestMonthlyTrend)
useOfficerWorkloadReport ==
    Query(reportKeys.officerWorkload, reportsService.getOfficerWorkloadReport)
useOfficerActivityReport ==
    Query(reportKeys.officerActivity, reportsService.getOfficerActivityReport)
useChargeOutcomeReport ==
    Query(reportKeys.chargeOutcomes, reportsService.getChargeOutcomeReport)
useConvictionRateTrend ==
    Query(reportKeys.convictionRateTrend, reportsService.getConvictionRateTrend)
useUpcomingHearingsReport ==
    Query(reportKeys.upcomingHearings, reportsService.getUpcomingHearingsReport)
useDepartmentComparisonReport ==
    Query(reportKeys.deptComparison, reportsService.getDepartmentComparisonReport)
useDepartmentCaseDistribution ==
    Query(reportKeys.deptCaseDistribution, reportsService.getDepartmentCaseDistribution)

-----------------------------------------------------------------------------
(* Mutations of features/cases *)

useCreateCase ==
    Going(Setting(casesService.createCase, {caseKeys.detail}, {caseKeys.lists}))
useUpdateCase == Setting(casesService.updateCase, {caseKeys.detail}, {caseKeys.lists})
useTransitionCaseStatus ==
    Setting(casesService.transitionCaseStatus, {caseKeys.detail},
            {caseKeys.lists, caseKeys.timeline})
useBulkUpdateCaseStatus == Mutation(casesService.bulkUpdateCaseStatus, {caseKeys.lists})
useDeleteCase == Going(Mutation(casesService.deleteCase, {caseKeys.lists}))
useAddCaseNote == Mutation(casesService.addCaseNote, {caseKeys.timeline})
useAddAuditNote == Mutation(auditService.addCaseNote, {auditKeys.caseTimeline})

(* Mutations of features/arrests, interrogations and evidence *)

CaseArrests == {arrestKeys.caseArrests, caseKeys.arrests, caseKeys.summary}

useCreateArrest == Mutation(arrestsService.createArrest, CaseArrests)
useDeleteArrest == Mutation(arrestsService.deleteArrest, CaseArrests)
useUpdateArrest ==
    Mutation(arrestsService.updateArrest, {arrestKeys.detail} \cup CaseArrests)
useCreateInterrogation ==
    Mutation(interrogationsService.createInterrogation,
             {interrogationKeys.caseInterrogations, caseKeys.interrogations,
              caseKeys.summary})
useUploadEvidence ==
    Mutation(evidenceService.createEvidence, {evidenceKeys.caseEvidence, caseKeys.summary})
useDeleteEvidence ==
    Mutation(evidenceService.deleteEvidence, {evidenceKeys.caseEvidence, caseKeys.summary})
useUpdateEvidence ==
    Setting(evidenceService.updateEvidence, {evidenceKeys.detail},
            {evidenceKeys.caseEvidence})
useRecordCustodyEvent ==
    Setting(evidenceService.recordCustodyEvent, {evidenceKeys.detail},
            {evidenceKeys.custodyChain})

(* Mutations of features/legal *)

ChargeLists == {legalKeys.chargeList, legalKeys.courtCaseByCase}

useCreateCourtCase ==
    Mutation(legalService.createCourtCase,
             {legalKeys.courtCaseByCase, legalKeys.courtCaseList, caseKeys.summary})
useUpdateCourtCase ==
    Mutation(legalService.updateCourtCase,
             {legalKeys.courtCase, legalKeys.courtCaseByCase, legalKeys.courtCaseList})
useCreateCharge ==
    Mutation(legalService.createCharge, ChargeLists \cup {caseKeys.summary, caseKeys.charges})
useDropCharge ==
    Mutation(legalService.updateCharge, ChargeLists \cup {caseKeys.summary, caseKeys.charges})
useUpdateCharge ==
    Mutation(legalService.updateCharge,
             ChargeLists \cup {legalKeys.chargeDetail, caseKeys.summary, caseKeys.charges})
useRecordSentence ==
    Mutation(legalService.recordSentence,
             ChargeLists \cup {legalKeys.chargeDetail, caseKeys.summary, caseKeys.charges})
useAppealCharge ==
    Mutation(legalService.appealCharge,
             ChargeLists \cup {legalKeys.chargeDetail, caseKeys.summary})
useBulkDropCharges ==
    Mutation(legalService.bulkDropCharges, ChargeLists \cup {caseKeys.summary})
useEditSentence ==
    Mutation(legalService.editSentence, ChargeLists \cup {legalKeys.chargeDetail})

(* Mutations of features/departments *)

DepartmentAndList == {departmentKeys.department, departmentKeys.departmentList}

useCreateDepartment ==
    Mutation(departmentsService.createDepartment, {departmentKeys.departmentList})
useUpdateDepartment == Mutation(departmentsService.updateDepartment, DepartmentAndList)
useAssignHeadOfficer == Mutation(departmentsService.assignHeadOfficer, DepartmentAndList)
useRemoveHeadOfficer == Mutation(departmentsService.removeHeadOfficer, DepartmentAndList)
useDeleteDepartment ==
    Going([Mutation(departmentsService.deleteDepartment, {departmentKeys.departmentList})
           EXCEPT !.removes = {departmentKeys.department}])

(* Mutations of features/personnel and admin *)

OfficerAndList == {personnelKeys.officer, personnelKeys.officerList}
PersonAndList == {personnelKeys.person, personnelKeys.personList}

useCreateOfficer == Mutation(personnelService.createOfficer, {personnelKeys.officerList})
useActivateOfficer == Mutation(personnelService.activateOfficer, OfficerAndList)
useDeactivateOfficer == Mutation(personnelService.deactivateOfficer, OfficerAndList)
useResetOfficerPassword == Mutation(personnelService.resetOfficerPassword, {})
useCreatePerson == Mutation(personnelService.createPerson, {personnelKeys.personList})
usePromoteToSuspect == Mutation(personnelService.promoteToSuspect, PersonAndList)
usePromoteToVictim == Mutation(personnelService.promoteToVictim, PersonAndList)
usePromoteToWitness == Mutation(personnelService.promoteToWitness, PersonAndList)
useDemotePersonRole == Mutation(personnelService.demotePersonRole, PersonAndList)
useCreateLocation == Mutation(adminService.createLocation, {adminKeys.locationList})
useDeleteLocation == Mutation(adminService.deleteLocation, {adminKeys.locationList})
useCreateCrimeType == Mutation(adminService.createCrimeType, {adminKeys.crimeTypeList})
useDeleteCrimeType == Mutation(adminService.deleteCrimeType, {adminKeys.crimeTypeList})

-----------------------------------------------------------------------------
Queries ==
    [useCases |-> useCases, useCase |-> useCase, useCaseOfficers |-> useCaseOfficers,
     useCaseSummary |-> useCaseSummary, useCaseTimeline |-> useCaseTimeline,
     useCrimeTypes |-> useCrimeTypes, useLocations |-> useLocations,
     useDepartments |-> useDepartments, useOfficersSearch |-> useOfficersSearch,
     useArrestList |-> useArrestList, useArrest |-> useArrest,
     useInterrogationList |-> useInterrogationList,
     useEvidenceList |-> useEvidenceList, useEvidence |-> useEvidence,
     useCustodyChain |-> useCustodyChain, useCourtCaseList |-> useCourtCaseList,
     useCourtCaseByCase |-> useCourtCaseByCase, useChargeList |-> useChargeList,
     useDepartmentList |-> useDepartmentList,
     useDepartmentDetail |-> useDepartmentDetail,
     useDepartmentOfficers |-> useDepartmentOfficers, usePersonList |-> usePersonList,
     usePersonDetail |-> usePersonDetail, usePersonCases |-> usePersonCases,
     useOfficerList |-> useOfficerList, useOfficerDetail |-> useOfficerDetail,
     useOfficerCases |-> useOfficerCases, useLocationList |-> useLocationList,
     useCrimeTypeList |-> useCrimeTypeList, useSystemHealth |-> useSystemHealth,
     useSystemReadiness |-> useSystemReadiness, useAuditTimeline |-> useAuditTimeline,
     useGlobalAuditLog |-> useGlobalAuditLog,
     useOfficerAuditHistory |-> useOfficerAuditHistory,
     usePersonAuditHistory |-> usePersonAuditHistory,
     useInvestigatorDashboard |-> useInvestigatorDashboard,
     useDeptHeadDashboard |-> useDeptHeadDashboard,
     useAdminDashboard |-> useAdminDashboard, useLegalDashboard |-> useLegalDashboard,
     useCaseStatusSummary |-> useCaseStatusSummary,
     useCaseVolumeTrend |-> useCaseVolumeTrend,
     useCaseResolutionReport |-> useCaseResolutionReport,
     useEvidenceTypeBreakdown |-> useEvidenceTypeBreakdown,
     useEvidenceVolumeTrend |-> useEvidenceVolumeTrend,
     useUnreviewedEvidenceReport |-> useUnreviewedEvidenceReport,
     useArrestSummary |-> useArrestSummary,
     useArrestMonthlyTrend |-> useArrestMonthlyTrend,
     useOfficerWorkloadReport |-> useOfficerWorkloadReport,
     useOfficerActivityReport |-> useOfficerActivityReport,
     useChargeOutcomeReport |-> useChargeOutcomeReport,
     useConvictionRateTrend |-> useConvictionRateTrend,
     useUpcomingHearingsReport |-> useUpcomingHearingsReport,
     useDepartmentComparisonReport |-> useDepartmentComparisonReport,
     useDepartmentCaseDistribution |-> useDepartmentCaseDistribution]

Mutations ==
    [useCreateCase |-> useCreateCase, useUpdateCase |-> useUpdateCase,
     useTransitionCaseStatus |-> useTransitionCaseStatus,
     useBulkUpdateCaseStatus |-> useBulkUpdateCaseStatus,
     useDeleteCase |-> useDeleteCase, useAddCaseNote |-> useAddCaseNote,
     useAddAuditNote |-> useAddAuditNote, useCreateArrest |-> useCreateArrest,
     useDeleteArrest |-> useDeleteArrest, useUpdateArrest |-> useUpdateArrest,
     useCreateInterrogation |-> useCreateInterrogation,
     useUploadEvidence |-> useUploadEvidence, useDeleteEvidence |-> useDeleteEvidence,
     useUpdateEvidence |-> useUpdateEvidence,
     useRecordCustodyEvent |-> useRecordCustodyEvent,
     useCreateCourtCase |-> useCreateCourtCase,
     useUpdateCourtCase |-> useUpdateCourtCase, useCreateCharge |-> useCreateCharge,
     useDropCharge |-> useDropCharge, useUpdateCharge |-> useUpdateCharge,
     useRecordSentence |-> useRecordSentence, useAppealCharge |-> useAppealCharge,
     useBulkDropCharges |-> useBulkDropCharges, useEditSentence |-> useEditSentence,
     useCreateDepartment |-> useCreateDepartment,
     useUpdateDepartment |-> useUpdateDepartment,
     useAssignHeadOfficer |-> useAssignHeadOfficer,
     useRemoveHeadOfficer |-> useRemoveHeadOfficer,
     useDeleteDepartment |-> useDeleteDepartment,
     useCreateOfficer |-> useCreateOfficer, useActivateOfficer |-> useActivateOfficer,
     useDeactivateOfficer |-> useDeactivateOfficer,
     useResetOfficerPassword |-> useResetOfficerPassword,
     useCreatePerson |-> useCreatePerson, usePromoteToSuspect |-> usePromoteToSuspect,
     usePromoteToVictim |-> usePromoteToVictim,
     usePromoteToWitness |-> usePromoteToWitness,
     useDemotePersonRole |-> useDemotePersonRole,
     useCreateLocation |-> useCreateLocation, useDeleteLocation |-> useDeleteLocation,
     useCreateCrimeType |-> useCreateCrimeType,
     useDeleteCrimeType |-> useDeleteCrimeType]

(* What a mutation that succeeded does to a key. *)
Invalidates(m, key) == \E k \in m.invalidates : Matches(key, k)
Sets(m, key) == key \in m.sets
Removes(m, key) == \E k \in m.removes : Matches(key, k)
Tells(m, key) == Invalidates(m, key) \/ Sets(m, key) \/ Removes(m, key)

(* The mutation changes what the query lists, or what it counts. *)
ShownBy(m, q) == m.call.records \cap q.call.records # {}
CountedBy(m, q) == m.call.records \cap q.call.counts # {}
=============================================================================
