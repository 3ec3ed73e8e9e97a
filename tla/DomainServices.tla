--------------------------- MODULE DomainServices ---------------------------
(***************************************************************************)
(* The functions of services/domain/*.service.ts that read and write       *)
(* records of the server: for each of them the verb of its request, the    *)
(* records that the answer lists or the request changes, and the records   *)
(* that the answer only counts or names beside them.  How filters become   *)
(* query strings and how answers are parsed is left out; a parser that     *)
(* refuses an answer is a failure of the call.                             *)
(***************************************************************************)

Record == {"case", "timeline", "member", "arrest", "interrogation", "courtCase",
           "charge", "evidence", "custody", "department", "person", "officer",
           "crimeType", "location", "health", "session"}

Counting(shown, counted) == [verb |-> "GET", records |-> shown, counts |-> counted]
Get(shown) == Counting(shown, {})
Post(changed) == [verb |-> "POST", records |-> changed, counts |-> {}]
Patch(changed) == [verb |-> "PATCH", records |-> changed, counts |-> {}]
Delete(changed) == [verb |-> "DELETE", records |-> changed, counts |-> {}]

casesService ==
    [getCases             |-> Counting({"case"}, {"evidence", "arrest"}),
     getCase              |-> Counting({"case"}, {"evidence", "arrest", "charge", "member"}),
     createCase           |-> Post({"case"}),
     updateCase           |-> Patch({"case"}),
     deleteCase           |-> Delete({"case"}),
     transitionCaseStatus |-> Patch({"case"}),
     getCaseTimeline      |-> Get({"timeline"}),
     addCaseNote          |-> Post({"timeline"}),
     getCaseMembers       |-> Get({"member"}),
     getCaseSummary       |-> Counting({}, {"evidence", "arrest", "interrogation",
                                            "charge", "member"}),
     getCrimeTypes        |-> Get({"crimeType"}),
     getLocations         |-> Get({"location"}),
     bulkUpdateCaseStatus |-> Patch({"case"})]

arrestsService ==
    [getCaseArrests |-> Get({"arrest"}),
     getArrest      |-> Get({"arrest"}),
     createArrest   |-> Post({"arrest"}),
     updateArrest   |-> Patch({"arrest"}),
     deleteArrest   |-> Delete({"arrest"})]

interrogationsService ==
    [getCaseInterrogations |-> Get({"interrogation"}),
     createInterrogation   |-> Post({"interrogation"})]

evidenceService ==
    [getCaseEvidence    |-> Counting({"evidence"}, {"custody"}),
     getEvidence        |-> Get({"evidence", "custody"}),
     getCustodyChain    |-> Get({"custody"}),
     createEvidence     |-> Post({"evidence"}),
     updateEvidence     |-> Patch({"evidence"}),
     deleteEvidence     |-> Delete({"evidence"}),
     recordCustodyEvent |-> Post({"custody"}),
     bulkExportEvidence |-> Get({"evidence"})]

(* The court cases are read with their charges. *)
legalService ==
    [getCourtCases      |-> Counting({"courtCase"}, {"charge"}),
     getCourtCaseByCase |-> Get({"courtCase", "charge"}),
     createCourtCase    |-> Post({"courtCase"}),
     updateCourtCase    |-> Patch({"courtCase"}),
     getCharges         |-> Get({"charge"}),
     createCharge       |-> Post({"charge"}),
     updateCharge       |-> Patch({"charge"}),
     recordSentence     |-> Post({"charge"}),
     bulkDropCharges    |-> Post({"charge"}),
     editSentence       |-> Patch({"charge"}),
     appealCharge       |-> Post({"charge"})]

departmentsService ==
    [getDepartments        |-> Counting({"department"}, {"officer", "case"}),
     getDepartment         |-> Counting({"department"}, {"officer", "case"}),
     getDepartmentOfficers |-> Get({"officer"}),
     createDepartment      |-> Post({"department"}),
     updateDepartment      |-> Patch({"department"}),
     deleteDepartment      |-> Delete({"department"}),
     assignHeadOfficer     |-> Post({"department", "officer"}),
     removeHeadOfficer     |-> Delete({"department", "officer"})]

personnelService ==
    [getPersons           |-> Get({"person"}),
     getPerson            |-> Get({"person"}),
     createPerson         |-> Post({"person"}),
     promoteToSuspect     |-> Post({"person"}),
     promoteToVictim      |-> Post({"person"}),
     promoteToWitness     |-> Post({"person"}),
     demotePersonRole     |-> Delete({"person"}),
     getPersonCases       |-> Get({"case"}),
     getOfficers          |-> Get({"officer"}),
     getOfficer           |-> Counting({"officer"}, {"case"}),
     createOfficer        |-> Post({"officer"}),
     activateOfficer      |-> Post({"officer"}),
     deactivateOfficer    |-> Post({"officer"}),
     resetOfficerPassword |-> Post({}),
     getOfficerCases      |-> Get({"case"}),
     searchOfficers       |-> Get({"officer"})]

adminService ==
    [getSystemHealth    |-> Get({"health"}),
     getSystemReadiness |-> Get({"health"}),
     getLocations       |-> Get({"location"}),
     createLocation     |-> Post({"location"}),
     deleteLocation     |-> Delete({"location"}),
     getCrimeTypes      |-> Get({"crimeType"}),
     createCrimeType    |-> Post({"crimeType"}),
     deleteCrimeType    |-> Delete({"crimeType"})]

auditService ==
    [getCaseTimeline        |-> Get({"timeline"}),
     addCaseNote            |-> Post({"timeline"}),
     getGlobalAuditLog      |-> Get({"timeline"}),
     getOfficerAuditHistory |-> Get({"timeline"}),
     getPersonAuditHistory  |-> Get({"timeline"}),
     downloadAuditCsv       |-> Get({"timeline"})]

dashboardService ==
    [getInvestigatorDashboard |-> Counting({"case", "evidence"}, {"custody"}),
     getDeptHeadDashboard     |-> Counting({"timeline"}, {"case", "arrest", "officer"}),
     getAdminDashboard        |-> Counting({"timeline", "department"},
                                           {"case", "officer", "evidence", "health"}),
     getLegalDashboard        |-> Counting({"courtCase", "charge"}, {})]

reportsService ==
    [getCaseStatusSummary          |-> Counting({}, {"case"}),
     getCaseVolumeTrend            |-> Counting({}, {"case"}),
     getCaseResolutionReport       |-> Counting({}, {"case"}),
     getEvidenceTypeBreakdown      |-> Counting({}, {"evidence"}),
     getEvidenceVolumeTrend        |-> Counting({}, {"evidence"}),
     getUnreviewedEvidenceReport   |-> Get({"evidence"}),
     getArrestSummary              |-> Counting({}, {"arrest"}),
     getArrestMonthlyTrend         |-> Counting({}, {"arrest"}),
     getOfficerWorkloadReport      |-> Counting({"officer"}, {"case"}),
     getOfficerActivityReport      |-> Counting({"officer"}, {"evidence", "interrogation",
                                                 "arrest"}),
     getChargeOutcomeReport        |-> Counting({}, {"charge"}),
     getConvictionRateTrend        |-> Counting({}, {"charge"}),
     getUpcomingHearingsReport     |-> Get({"courtCase"}),
     getDepartmentComparisonReport |-> Counting({"department"}, {"case", "officer"}),
     getDepartmentCaseDistribution |-> Counting({"department"}, {"case"})]
=============================================================================
