----------------------------- MODULE FormTable -----------------------------
(***************************************************************************)
(* The forms and dialogs of features/*/components, each under the name of  *)
(* its component: how long it is mounted, what empties its inputs, and     *)
(* what its request's success does.  Inputs and their validation are left  *)
(* out, but for whether something must be entered at all.                  *)
(***************************************************************************)

(* A drawer that is mounted while it is open and closed by the code that   *)
(* awaits its request, whatever is open in its place by then.              *)
Drawer ==
    [stays   |-> FALSE,      \* it stays mounted while it is closed
     empties |-> TRUE,       \* opening it empties its inputs
     follows |-> FALSE,      \* a new version of its record fills them again
     asks    |-> FALSE,      \* closing it with entries asks first
     blank   |-> FALSE,      \* nothing has to be entered
     shuts   |-> FALSE,      \* submitting it closes it
     locks   |-> FALSE,      \* its inputs are disabled while a request runs
     waits   |-> FALSE,      \* a rate limit disables it for some time
     hook    |-> "own",      \* whose mutation hook it uses: own, parent
     success |-> "close"]    \* close, closeOwn: only if it is still mounted,
                             \* or clear: empty the inputs and go on

Staying(f) == [f EXCEPT !.stays = TRUE]
Refilled(f) == [f EXCEPT !.follows = TRUE]
Asking(f) == [f EXCEPT !.asks = TRUE]
Blank(f) == [f EXCEPT !.blank = TRUE]
Following(f) == Blank(Refilled(f))
Told(f) == [f EXCEPT !.success = "closeOwn"]
OfParent(f) == [f EXCEPT !.hook = "parent"]
Locking(f) == [f EXCEPT !.locks = TRUE]

(* shared/components: the dialog that wants a phrase typed before it can   *)
(* be confirmed, and the one that is over when it is confirmed.            *)
DestructiveConfirmDialog == Drawer
ConfirmDialog == [Blank(Drawer) EXCEPT !.shuts = TRUE]

(* A form that is part of a page, and open as long as the page is shown. *)
Inline == [Drawer EXCEPT !.success = "clear"]

-----------------------------------------------------------------------------
(* features/auth *)
LoginForm == [Locking(Inline) EXCEPT !.success = "close", !.waits = TRUE]
ForgotPasswordForm == Locking([Inline EXCEPT !.success = "closeOwn"])
ResetPasswordForm == Locking([Inline EXCEPT !.success = "close"])

(* features/cases *)
CaseStatusTransitionDrawer == Told(Refilled(Drawer))
BulkStatusUpdateDialog == Told(Drawer)
CaseHeaderCard == OfParent(Told(DestructiveConfirmDialog))
useCaseColumns == OfParent(Told(DestructiveConfirmDialog))
CaseTimelineTab == Inline
AddCaseNoteForm == Inline

(* features/arrests, interrogations and evidence *)
CreateArrestDrawer == Asking(Drawer)
UpdateArrestDrawer == Told(Following(Drawer))
ArrestDetailDrawer == Told(DestructiveConfirmDialog)
useArrestColumns == OfParent(Told(DestructiveConfirmDialog))
CreateInterrogationDrawer == Drawer
EvidenceUploadDrawer == Told(Asking(Drawer))
RecordCustodyEventDrawer == Told(Drawer)
useEvidenceColumns == OfParent(Told(DestructiveConfirmDialog))

(* features/legal: LegalTab keeps the first five mounted. *)
CreateCourtCaseDrawer == Asking(Staying(Drawer))
UpdateCourtCaseDrawer == Following(Staying(Drawer))
AddChargeDrawer == Staying(Drawer)
UpdateChargeStatusDrawer == Staying(Drawer)
DropChargeDialog == Staying(Blank(DestructiveConfirmDialog))
BulkDropChargesDialog == Told(Blank(DestructiveConfirmDialog))
EditSentenceDrawer == Asking(Following(Drawer))
AppealChargeDrawer == Asking(Drawer)

(* features/personnel *)
CreateOfficerDrawer == Asking(Drawer)
DeactivateOfficerDialog == DestructiveConfirmDialog
ActivateOfficerDialog == ConfirmDialog
ResetPasswordDialog == ConfirmDialog
CreatePersonDrawer == Asking(Drawer)
PromoteToSuspectDrawer == Drawer
PromoteToVictimDrawer == Blank(Drawer)
PromoteToWitnessDrawer == Blank(Drawer)
DemotePersonRoleDialog == Told(DestructiveConfirmDialog)

(* features/departments and admin *)
CreateDepartmentDrawer == Asking(Drawer)
UpdateDepartmentDrawer == Asking(Following(Drawer))
AssignHeadOfficerDrawer == Asking(Drawer)
RemoveHeadOfficerDialog == DestructiveConfirmDialog
DeleteDepartmentDialog == DestructiveConfirmDialog
CreateCrimeTypeDrawer == Asking(Drawer)
DeleteCrimeTypeDialog == DestructiveConfirmDialog
CreateLocationDrawer == Asking(Drawer)
DeleteLocationDialog == DestructiveConfirmDialog

(* The forms by their names. *)
FormTable ==
    [LoginForm |-> LoginForm, ForgotPasswordForm |-> ForgotPasswordForm,
     ResetPasswordForm |-> ResetPasswordForm,
     CaseStatusTransitionDrawer |-> CaseStatusTransitionDrawer,
     BulkStatusUpdateDialog |-> BulkStatusUpdateDialog,
     CaseHeaderCard |-> CaseHeaderCard, useCaseColumns |-> useCaseColumns,
     CaseTimelineTab |-> CaseTimelineTab, AddCaseNoteForm |-> AddCaseNoteForm,
     CreateArrestDrawer |-> CreateArrestDrawer,
     UpdateArrestDrawer |-> UpdateArrestDrawer,
     ArrestDetailDrawer |-> ArrestDetailDrawer,
     useArrestColumns |-> useArrestColumns,
     useEvidenceColumns |-> useEvidenceColumns,
     CreateInterrogationDrawer |-> CreateInterrogationDrawer,
     EvidenceUploadDrawer |-> EvidenceUploadDrawer,
     RecordCustodyEventDrawer |-> RecordCustodyEventDrawer,
     CreateCourtCaseDrawer |-> CreateCourtCaseDrawer,
     UpdateCourtCaseDrawer |-> UpdateCourtCaseDrawer,
     AddChargeDrawer |-> AddChargeDrawer,
     UpdateChargeStatusDrawer |-> UpdateChargeStatusDrawer,
     DropChargeDialog |-> DropChargeDialog,
     BulkDropChargesDialog |-> BulkDropChargesDialog,
     EditSentenceDrawer |-> EditSentenceDrawer,
     AppealChargeDrawer |-> AppealChargeDrawer,
     CreateOfficerDrawer |-> CreateOfficerDrawer,
     DeactivateOfficerDialog |-> DeactivateOfficerDialog,
     ActivateOfficerDialog |-> ActivateOfficerDialog,
     ResetPasswordDialog |-> ResetPasswordDialog,
     CreatePersonDrawer |-> CreatePersonDrawer,
     PromoteToSuspectDrawer |-> PromoteToSuspectDrawer,
     PromoteToVictimDrawer |-> PromoteToVictimDrawer,
     PromoteToWitnessDrawer |-> PromoteToWitnessDrawer,
     DemotePersonRoleDialog |-> DemotePersonRoleDialog,
     CreateDepartmentDrawer |-> CreateDepartmentDrawer,
     UpdateDepartmentDrawer |-> UpdateDepartmentDrawer,
     AssignHeadOfficerDrawer |-> AssignHeadOfficerDrawer,
     RemoveHeadOfficerDialog |-> RemoveHeadOfficerDialog,
     DeleteDepartmentDialog |-> DeleteDepartmentDialog,
     CreateCrimeTypeDrawer |-> CreateCrimeTypeDrawer,
     DeleteCrimeTypeDialog |-> DeleteCrimeTypeDialog,
     CreateLocationDrawer |-> CreateLocationDrawer,
     DeleteLocationDialog |-> DeleteLocationDialog]
=============================================================================
