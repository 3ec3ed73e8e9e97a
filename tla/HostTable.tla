----------------------------- MODULE HostTable -----------------------------
(***************************************************************************)
(* The pages that open dialogs for a record the officer chooses, with      *)
(* their dialogs under the names of FormTable: where each is opened, for   *)
(* which statuses of the record, and which variable of the page says what  *)
(* record it is about.                                                     *)
(***************************************************************************)
EXTENDS FormTable, Mappers

AnyStatus == UNION {{mapItem(k, row) : row \in RowStates[k]} : k \in DOMAIN RowStates}

(* A dialog of a page.  Its record is kept in a variable of its own, in    *)
(* one of all dialogs of the page that closing clears (shared) or keeps    *)
(* (kept), or it is the record of the page or of the row it is part of.    *)
Own ==
    [at      |-> "own",
     offered |-> AnyStatus,  \* the statuses for which it is offered
     from    |-> {"page"},   \* where: on the page, or in another dialog
     stacks  |-> FALSE,      \* that one stays open
     sends   |-> TRUE,       \* it sends requests
     closes  |-> {}]         \* what else the success of its request closes

Shared(statuses) == [Own EXCEPT !.at = "shared", !.offered = statuses]
Kept(statuses) == [Own EXCEPT !.at = "kept", !.offered = statuses]
OfPage(statuses) == [Own EXCEPT !.at = "page", !.offered = statuses]
InRow == [Own EXCEPT !.at = "row"]
Also(d, other) == [d EXCEPT !.from = @ \cup {other}]
View == [Own EXCEPT !.sends = FALSE]

OfficersListDialogs ==
    [ActivateOfficerDialog   |-> Shared({"INACTIVE"}),
     DeactivateOfficerDialog |-> Shared(AnyStatus \ {"INACTIVE"}),
     ResetPasswordDialog     |-> Shared(AnyStatus)]

OfficerDetail ==
    [ActivateOfficerDialog   |-> OfPage(AnyStatus \ {"ACTIVE"}),
     DeactivateOfficerDialog |-> OfPage({"ACTIVE"}),
     ResetPasswordDialog     |-> OfPage(AnyStatus)]

DepartmentsListDialogs ==
    [UpdateDepartmentDrawer  |-> Shared(AnyStatus),
     AssignHeadOfficerDrawer |-> Shared(AnyStatus),
     DeleteDepartmentDialog  |-> Shared(AnyStatus)]

DepartmentDetail ==
    [UpdateDepartmentDrawer  |-> OfPage(AnyStatus),
     AssignHeadOfficerDrawer |-> OfPage(AnyStatus),
     RemoveHeadOfficerDialog |-> OfPage({"headOfficer"}),
     DeleteDepartmentDialog  |-> OfPage(AnyStatus)]

(* The record of the first dialog is the role to take from the person.     *)
(* Which roles the person has, and so which are offered, is left out.      *)
PersonDetail ==
    [DemotePersonRoleDialog |-> Own,
     PromoteToSuspectDrawer |-> OfPage(AnyStatus),
     PromoteToVictimDrawer  |-> OfPage(AnyStatus),
     PromoteToWitnessDrawer |-> OfPage(AnyStatus)]

CrimeTypesListDialogs == [DeleteCrimeTypeDialog |-> Own]
LocationsListDialogs == [DeleteLocationDialog |-> Own]

CasesListDialogs ==
    [CaseStatusTransitionDrawer |-> Own, useCaseColumns |-> InRow]

CaseHeader ==
    [CaseStatusTransitionDrawer |-> OfPage(AnyStatus),
     CaseHeaderCard |-> OfPage(AnyStatus)]

ArrestsTabDialogs ==
    [ArrestDetailDrawer |-> Own,
     UpdateArrestDrawer |-> Also(Own, "ArrestDetailDrawer"),
     useArrestColumns   |-> InRow]

InterrogationsTabDialogs == [InterrogationDetailDrawer |-> View]

EvidenceTabDialogs ==
    [EvidenceDetailDrawer     |-> View,
     RecordCustodyEventDrawer |-> Also(Own, "EvidenceDetailDrawer"),
     useEvidenceColumns       |-> InRow]

(* LegalTab and the table of charges that is part of it *)
LegalTab ==
    [UpdateChargeStatusDrawer |-> Kept({s \in AnyStatus : ~isChargeTerminal(s)} \ {"gone"}),
     DropChargeDialog         |-> Kept({s \in AnyStatus : ~isChargeTerminal(s)} \ {"gone"}),
     ViewSentenceDrawer       |-> [Kept({"CONVICTED"}) EXCEPT !.sends = FALSE],
     EditSentenceDrawer       |-> [Kept({}) EXCEPT
                                     !.from = {"ViewSentenceDrawer"},
                                     !.stacks = TRUE,
                                     !.closes = {"ViewSentenceDrawer"}],
     AppealChargeDrawer       |-> [Own EXCEPT !.offered = {"CONVICTED", "ACQUITTED"}]]

Host(kind, dialogs) == [kind |-> kind, dialogs |-> dialogs]

HostTable ==
    [OfficersList |-> Host("officer", OfficersListDialogs),
     OfficerDetail |-> Host("officer", OfficerDetail),
     DepartmentsList |-> Host("department", DepartmentsListDialogs),
     DepartmentDetail |-> Host("department", DepartmentDetail),
     PersonDetail |-> Host("other", PersonDetail),
     CrimeTypesList |-> Host("other", CrimeTypesListDialogs),
     LocationsList |-> Host("other", LocationsListDialogs),
     CasesListView |-> Host("other", CasesListDialogs),
     CaseHeaderCard |-> Host("other", CaseHeader),
     ArrestsTab |-> Host("other", ArrestsTabDialogs),
     InterrogationsTab |-> Host("other", InterrogationsTabDialogs),
     EvidenceTab |-> Host("other", EvidenceTabDialogs),
     LegalTab |-> Host("charge", LegalTab)]
=============================================================================
