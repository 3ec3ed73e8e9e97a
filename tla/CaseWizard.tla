----------------------------- MODULE CaseWizard -----------------------------
(***************************************************************************)
(* features/cases/components/CreateCaseWizard.tsx: a new case is entered   *)
(* in three steps.  Each step has a form of its own, which keeps its       *)
(* inputs while another step is shown; Next copies the inputs of the first *)
(* two into the state that the last one sends.  The inputs of a step are   *)
(* one entry.                                                              *)
(***************************************************************************)
EXTENDS Naturals

CONSTANTS
    Entry,      \* what can be entered in a step and is accepted by its schema
    Missing,      \* what is not accepted: required inputs are missing
    Officer

ASSUME WizardAssumption == Missing \notin Entry \cup Officer

VARIABLES
    currentStep,           \* 1, 2 or 3; 0: the officer is on another page
    entered,               \* the inputs of the first two steps
    stepData,              \* step1Data and step2Data, copied by Next
    leadOfficerId,         \* the inputs of the third step
    additionalOfficerIds,
    isFormDirty,
    isCancelDialogOpen,
    leaving,               \* router.push was called, the next page loads
    payload                \* the request in flight

inputs == <<entered, leadOfficerId, additionalOfficerIds>>
wizardVars == <<currentStep, inputs, stepData, isFormDirty, isCancelDialogOpen,
                leaving, payload>>

NoPayload == [basics |-> Missing, crime |-> Missing, lead |-> Missing, additional |-> {}]

WizardTypeOK ==
    /\ currentStep \in 0..3
    /\ entered \in [{1, 2} -> Entry \cup {Missing}]
    /\ stepData \in [{1, 2} -> Entry \cup {Missing}]
    /\ leadOfficerId \in Officer \cup {Missing}
    /\ additionalOfficerIds \subseteq Officer
    /\ isFormDirty \in BOOLEAN /\ isCancelDialogOpen \in BOOLEAN
    /\ leaving \in BOOLEAN
    /\ payload = NoPayload
       \/ payload \in [basics : Entry, crime : Entry, lead : Officer,
                       additional : SUBSET Officer]

WizardInit ==
    /\ currentStep = 1
    /\ entered = [s \in {1, 2} |-> Missing]
    /\ stepData = [s \in {1, 2} |-> Missing]
    /\ leadOfficerId = Missing
    /\ additionalOfficerIds = {}
    /\ isFormDirty = FALSE
    /\ isCancelDialogOpen = FALSE
    /\ leaving = FALSE
    /\ payload = NoPayload

Creating == payload # NoPayload

(* The step is shown, and no dialog is in front of it. *)
OnStep(s) == currentStep = s /\ ~isCancelDialogOpen

-----------------------------------------------------------------------------
(* The inputs; those of the last step stay enabled while a request runs. *)

EnterStep(s, e) ==
    /\ OnStep(s)
    /\ entered' = [entered EXCEPT ![s] = e]
    /\ UNCHANGED <<currentStep, stepData, leadOfficerId, additionalOfficerIds,
                   isFormDirty, isCancelDialogOpen, leaving, payload>>

ChooseLead(o) ==
    /\ OnStep(3)
    /\ leadOfficerId' = o
    /\ additionalOfficerIds' = additionalOfficerIds \ {o}
    /\ UNCHANGED <<currentStep, entered, stepData, isFormDirty,
                   isCancelDialogOpen, leaving, payload>>

(* The lead officer is not among the options. *)
AddOfficer(o) ==
    /\ OnStep(3)
    /\ o # leadOfficerId
    /\ additionalOfficerIds' = additionalOfficerIds \cup {o}
    /\ UNCHANGED <<currentStep, entered, stepData, leadOfficerId, isFormDirty,
                   isCancelDialogOpen, leaving, payload>>

RemoveOfficer(o) ==
    /\ OnStep(3)
    /\ additionalOfficerIds' = additionalOfficerIds \ {o}
    /\ UNCHANGED <<currentStep, entered, stepData, leadOfficerId, isFormDirty,
                   isCancelDialogOpen, leaving, payload>>

-----------------------------------------------------------------------------
(* The buttons *)

(* Mutant: the inputs are copied the first time only. *)
Next12Once(s) ==
    /\ OnStep(s)
    /\ entered[s] # Missing
    /\ stepData' = IF stepData[s] = Missing
                   THEN [stepData EXCEPT ![s] = entered[s]] ELSE stepData
    /\ isFormDirty' = TRUE
    /\ currentStep' = s + 1
    /\ UNCHANGED <<inputs, isCancelDialogOpen, leaving, payload>>

(* onStep1Submit and onStep2Submit *)
Next12(s) ==
    /\ OnStep(s)
    /\ entered[s] # Missing
    /\ stepData' = [stepData EXCEPT ![s] = entered[s]]
    /\ isFormDirty' = TRUE
    /\ currentStep' = s + 1
    /\ UNCHANGED <<inputs, isCancelDialogOpen, leaving, payload>>

handleBack ==
    /\ OnStep(2) \/ OnStep(3)
    /\ ~Creating
    /\ currentStep' = currentStep - 1
    /\ UNCHANGED <<inputs, stepData, isFormDirty, isCancelDialogOpen, leaving,
                   payload>>

onStep3Submit ==
    /\ OnStep(3)
    /\ ~Creating
    /\ leadOfficerId # Missing
    /\ payload' = [basics |-> stepData[1], crime |-> stepData[2],
                   lead |-> leadOfficerId, additional |-> additionalOfficerIds]
    /\ isFormDirty' = FALSE
    /\ UNCHANGED <<currentStep, inputs, stepData, isCancelDialogOpen, leaving>>

(* Entries that no Next has copied yet are not taken for unsaved, nor are  *)
(* those of a request, which may fail.                                     *)
handleCancelClick ==
    /\ \E s \in 1..3 : OnStep(s)
    /\ ~Creating
    /\ IF isFormDirty
       THEN isCancelDialogOpen' = TRUE /\ UNCHANGED leaving
       ELSE leaving' = TRUE /\ UNCHANGED isCancelDialogOpen
    /\ UNCHANGED <<currentStep, inputs, stepData, isFormDirty, payload>>

confirmCancel ==
    /\ isCancelDialogOpen
    /\ isCancelDialogOpen' = FALSE
    /\ isFormDirty' = FALSE
    /\ leaving' = TRUE
    /\ UNCHANGED <<currentStep, inputs, stepData, payload>>

ContinueEditing ==
    /\ isCancelDialogOpen
    /\ isCancelDialogOpen' = FALSE
    /\ UNCHANGED <<currentStep, inputs, stepData, isFormDirty, leaving, payload>>

-----------------------------------------------------------------------------
(* What comes back: useCreateCase goes to the page of the new case, and    *)
(* until it is there the wizard can be used.                               *)

CreateFails ==
    /\ Creating
    /\ payload' = NoPayload
    /\ UNCHANGED <<currentStep, inputs, stepData, isFormDirty,
                   isCancelDialogOpen, leaving>>

CreateSucceeds ==
    /\ Creating
    /\ payload' = NoPayload
    /\ leaving' = TRUE
    /\ UNCHANGED <<currentStep, inputs, stepData, isFormDirty, isCancelDialogOpen>>

Leave ==
    /\ leaving
    /\ currentStep' = 0
    /\ isCancelDialogOpen' = FALSE
    /\ UNCHANGED <<inputs, stepData, isFormDirty, leaving, payload>>

WizardNext ==
    \/ \E s \in {1, 2} : \/ \E e \in Entry \cup {Missing} : EnterStep(s, e)
                         \/ Next12(s)
    \/ \E o \in Officer : ChooseLead(o) \/ AddOfficer(o) \/ RemoveOfficer(o)
    \/ handleBack \/ onStep3Submit
    \/ handleCancelClick \/ confirmCancel \/ ContinueEditing
    \/ CreateFails \/ CreateSucceeds \/ Leave

WizardSpec == WizardInit /\ [][WizardNext]_wizardVars

-----------------------------------------------------------------------------
(* Properties *)

(* Why the last step may send what Next copied: a step that was left       *)
(* forwards still holds what was copied from it.                           *)
CopiesCurrent ==
    /\ currentStep \in {2, 3} => stepData[1] = entered[1]
    /\ currentStep = 3 => stepData[2] = entered[2]

(* CreateCaseWizard.tsx:121-140: while a request runs, and its answer      *)
(* decides about what is on the screen, it carries what was last entered   *)
(* in the first two steps, and its lead officer is not an additional one.  *)
SendsShown ==
    Creating => /\ payload.basics = entered[1]
                /\ payload.crime = entered[2]
                /\ payload.lead \notin payload.additional
=============================================================================
