----------------------------- MODULE FormsProofs -----------------------------
(* Proofs about Forms: for every form of FormTable, any number of requests  *)
(* and any number of openings.                                              *)
EXTENDS Forms, TLAPS

Form == [stays : BOOLEAN, empties : {TRUE}, follows : BOOLEAN, asks : BOOLEAN,
         blank : BOOLEAN, shuts : BOOLEAN, locks : BOOLEAN, waits : BOOLEAN,
         hook : {"own", "parent"}, success : {"close", "closeOwn", "clear"}]

(* The forms that neither their submission closes nor its success empties,  *)
(* and those that do not ask: each form of the table is one or the other.   *)
Plain == {f \in Form : ~f.shuts /\ f.success # "clear"}
Silent == {f \in Form : ~f.asks}

LEMMA BasePlain == Drawer \in Plain /\ Inline \in Silent /\ ConfirmDialog \in Silent
BY DEF Drawer, Inline, ConfirmDialog, Blank, Plain, Silent, Form

LEMMA ModifiersPlain ==
    ASSUME NEW f \in Plain
    PROVE  /\ Staying(f) \in Plain /\ Refilled(f) \in Plain /\ Asking(f) \in Plain
           /\ Blank(f) \in Plain /\ Following(f) \in Plain /\ Told(f) \in Plain
           /\ OfParent(f) \in Plain /\ Locking(f) \in Plain
BY DEF Staying, Refilled, Asking, Blank, Following, Told, OfParent, Locking, Plain, Form

LEMMA TableForms == \A n \in DOMAIN FormTable : FormTable[n] \in Plain \cup Silent
<1>1. DestructiveConfirmDialog \in Plain
  BY BasePlain DEF DestructiveConfirmDialog
<1>2. LoginForm \in Plain /\ ForgotPasswordForm \in Plain /\ ResetPasswordForm \in Plain
  BY DEF LoginForm, ForgotPasswordForm, ResetPasswordForm, Inline, Drawer, Locking,
         Plain, Form
<1>3. ActivateOfficerDialog \in Silent /\ ResetPasswordDialog \in Silent
  BY BasePlain DEF ActivateOfficerDialog, ResetPasswordDialog
<1>5. CaseTimelineTab \in Silent /\ AddCaseNoteForm \in Silent
  BY BasePlain DEF CaseTimelineTab, AddCaseNoteForm
<1>4. {CaseStatusTransitionDrawer, BulkStatusUpdateDialog, CaseHeaderCard,
       useCaseColumns, CreateArrestDrawer,
       UpdateArrestDrawer, ArrestDetailDrawer, useArrestColumns,
       useEvidenceColumns, CreateInterrogationDrawer, EvidenceUploadDrawer,
       RecordCustodyEventDrawer, CreateCourtCaseDrawer,
       UpdateCourtCaseDrawer, AddChargeDrawer, UpdateChargeStatusDrawer,
       DropChargeDialog, BulkDropChargesDialog, EditSentenceDrawer, AppealChargeDrawer,
       CreateOfficerDrawer, DeactivateOfficerDialog, CreatePersonDrawer,
       PromoteToSuspectDrawer, PromoteToVictimDrawer, PromoteToWitnessDrawer,
       DemotePersonRoleDialog, CreateDepartmentDrawer,
       UpdateDepartmentDrawer, AssignHeadOfficerDrawer,
       RemoveHeadOfficerDialog, DeleteDepartmentDialog,
       CreateCrimeTypeDrawer, DeleteCrimeTypeDialog, CreateLocationDrawer,
       DeleteLocationDialog} \subseteq Plain
  BY BasePlain, <1>1, ModifiersPlain
  DEF CaseStatusTransitionDrawer, BulkStatusUpdateDialog, CaseHeaderCard,
      useCaseColumns, CreateArrestDrawer,
      UpdateArrestDrawer, ArrestDetailDrawer, useArrestColumns,
      useEvidenceColumns, CreateInterrogationDrawer, EvidenceUploadDrawer,
      RecordCustodyEventDrawer, CreateCourtCaseDrawer, UpdateCourtCaseDrawer,
      AddChargeDrawer, UpdateChargeStatusDrawer, DropChargeDialog, BulkDropChargesDialog,
      EditSentenceDrawer, AppealChargeDrawer, CreateOfficerDrawer,
      DeactivateOfficerDialog, CreatePersonDrawer, PromoteToSuspectDrawer,
      PromoteToVictimDrawer, PromoteToWitnessDrawer, DemotePersonRoleDialog,
      CreateDepartmentDrawer, UpdateDepartmentDrawer,
      AssignHeadOfficerDrawer, RemoveHeadOfficerDialog,
      DeleteDepartmentDialog, CreateCrimeTypeDrawer, DeleteCrimeTypeDialog,
      CreateLocationDrawer, DeleteLocationDialog
<1>. QED
  BY <1>2, <1>3, <1>4, <1>5 DEF FormTable
-----------------------------------------------------------------------------
(* The inductive invariant.  A form that is unmounted holds nothing, and    *)
(* one that is open holds at most what was entered in this opening, and     *)
(* takes it for unsaved.  Requests carry entries of one opening.  Where the *)
(* hook outlives the opening, all requests in flight are its own.           *)
Outlives == form.stays \/ form.hook = "parent"

OfTable == form \in Plain \cup Silent

HoldsOwn == /\ open => entries \subseteq {opening} /\ opening \in Opening
            /\ ~open /\ ~form.stays => entries = {}

KnowsDirty == open /\ opening \in entries => dirty

StaysOwn == Outlives => \A r \in InFlight : sent[r].own

FormInv == /\ FormTypeOK /\ OfTable /\ HoldsOwn /\ KnowsDirty
           /\ OwnEntries /\ StaysOwn /\ OneAtATime

LEMMA FormInitInv == FormInit => FormInv
<1>. SUFFICES ASSUME FormInit PROVE FormInv
  OBVIOUS
<1>1. form \in {FormTable[n] : n \in FormNames} /\ OfTable
  BY FormsAssumption, TableForms DEF FormInit, OfTable
<1>2. InFlight = {}
  BY DEF FormInit, InFlight
<1>3. sent \in [Request -> Submission \cup {NoRequest}]
  BY DEF FormInit
<1>4. /\ open = FALSE /\ dirty = FALSE /\ asking = FALSE /\ limited = FALSE
      /\ opening \in 0..MaxOpenings /\ entries = {}
  BY FormsAssumption DEF FormInit
<1>5. FormTypeOK
  BY <1>1, <1>3, <1>4 DEF FormTypeOK
<1>. QED
  BY <1>1, <1>2, <1>4, <1>5
  DEF FormInv, HoldsOwn, KnowsDirty, OwnEntries, StaysOwn, OneAtATime

LEMMA NotSubmitted == NoRequest \notin Submission
BY FormsAssumption DEF NoRequest, Submission, Opening

LEMMA OrphanedRequests ==
    ASSUME NEW requests \in [Request -> Submission \cup {NoRequest}]
    PROVE  /\ Orphaned(requests) \in [Request -> Submission \cup {NoRequest}]
           /\ \A r \in Request :
                 /\ Orphaned(requests)[r] = NoRequest <=> requests[r] = NoRequest
                 /\ Orphaned(requests)[r].of = requests[r].of
                 /\ Orphaned(requests)[r].holds = requests[r].holds
                 /\ Outlives => Orphaned(requests)[r] = requests[r]
<1>1. CASE Outlives
  BY <1>1 DEF Orphaned, Outlives
<1>2. CASE ~Outlives
  <2>1. \A r \in Request : Orphaned(requests)[r] =
            [of |-> requests[r].of, holds |-> requests[r].holds, own |-> FALSE]
    BY <1>2 DEF Orphaned, Outlives
  <2>2. /\ Orphaned(requests) = [r \in Request |-> Orphaned(requests)[r]]
        /\ ~Outlives
    BY <1>2 DEF Orphaned, Outlives
  <2>3. ASSUME NEW q \in Submission \cup {NoRequest}, NEW o,
               o = [of |-> q.of, holds |-> q.holds, own |-> FALSE]
        PROVE  /\ o \in Submission \cup {NoRequest}
               /\ o = NoRequest <=> q = NoRequest
               /\ o.of = q.of /\ o.holds = q.holds
    <3>1. o.of = q.of /\ o.holds = q.holds
      BY <2>3
    <3>2. CASE q = NoRequest
      <4>1. q.of = 0 /\ q.holds = {}
        BY <3>2 DEF NoRequest
      <4>2. o = NoRequest
        BY <2>3, <4>1 DEF NoRequest
      <4>. QED
        BY <3>1, <3>2, <4>2
    <3>3. CASE q # NoRequest
      <4>1. q.of \in Opening /\ q.holds \in SUBSET Opening
        BY <3>3 DEF Submission
      <4>2. o \in Submission
        BY <2>3, <4>1 DEF Submission
      <4>. QED
        BY <3>1, <3>3, <4>2, NotSubmitted
    <3>. QED
      BY <3>2, <3>3
  <2>4. \A r \in Request :
           /\ Orphaned(requests)[r] \in Submission \cup {NoRequest}
           /\ Orphaned(requests)[r] = NoRequest <=> requests[r] = NoRequest
           /\ Orphaned(requests)[r].of = requests[r].of
           /\ Orphaned(requests)[r].holds = requests[r].holds
    BY <2>1, <2>3
  <2>5. Orphaned(requests) \in [Request -> Submission \cup {NoRequest}]
    BY <2>2, <2>4
  <2>. QED
    BY <2>2, <2>4, <2>5
<1>. QED
  BY <1>1, <1>2

(* What is left to show of a step: its own conjuncts, variable by variable. *)
LEMMA Assemble ==
    ASSUME FormInv, UNCHANGED form, opening' \in 0..MaxOpenings, entries' \subseteq Opening,
           open' \in BOOLEAN, dirty' \in BOOLEAN, asking' \in BOOLEAN, limited' \in BOOLEAN,
           sent' \in [Request -> Submission \cup {NoRequest}],
           asking' => form.asks /\ (open' \/ form.stays),
           HoldsOwn', KnowsDirty', OwnEntries', StaysOwn', OneAtATime'
    PROVE  FormInv'
BY DEF FormInv, FormTypeOK, OfTable

(* The requests after a step, as far as the invariant looks at them.        *)
LEMMA RequestsKept ==
    ASSUME FormInv, UNCHANGED form,
           sent' \in [Request -> Submission \cup {NoRequest}],
           \A r \in Request : \/ sent'[r] = NoRequest
                              \/ /\ r \in InFlight
                                 /\ sent'[r].of = sent[r].of
                                 /\ sent'[r].holds = sent[r].holds
                                 /\ Outlives => sent'[r].own = sent[r].own
    PROVE  OwnEntries' /\ StaysOwn' /\ OneAtATime'
<1>1. InFlight' \subseteq InFlight
  BY DEF InFlight
<1>2. \A r \in InFlight' : /\ sent'[r].of = sent[r].of /\ sent'[r].holds = sent[r].holds
                           /\ Outlives => sent'[r].own = sent[r].own
  BY DEF InFlight
<1>. QED
  BY <1>1, <1>2 DEF FormInv, OwnEntries, StaysOwn, OneAtATime, Outlives

LEMMA ShutStep ==
    ASSUME FormInv, NEW requests \in [Request -> Submission \cup {NoRequest}], Shut(requests)
    PROVE  /\ sent' \in [Request -> Submission \cup {NoRequest}]
           /\ open' = FALSE /\ asking' \in BOOLEAN /\ (asking' => form.asks /\ form.stays)
           /\ dirty' \in BOOLEAN /\ entries' \subseteq Opening
           /\ UNCHANGED <<form, opening>> /\ OfTable' /\ HoldsOwn' /\ KnowsDirty'
BY OrphanedRequests
DEF Shut, FormInv, FormTypeOK, OfTable, HoldsOwn, KnowsDirty

LEMMA FormStepInv == FormInv /\ [FormNext]_formVars => FormInv'
<1>. SUFFICES ASSUME FormInv, [FormNext]_formVars PROVE FormInv'
  OBVIOUS
<1>0. /\ sent \in [Request -> Submission \cup {NoRequest}]
      /\ \A r \in Request : r \in InFlight <=> sent[r] # NoRequest
      /\ InFlight \subseteq Request
  BY DEF FormInv, FormTypeOK, InFlight
<1>same. ASSUME UNCHANGED <<form, sent>> PROVE OwnEntries' /\ StaysOwn' /\ OneAtATime'
  BY <1>same, <1>0, RequestsKept
<1>1. CASE OpenForm
  <2>1. UNCHANGED <<form, sent>> /\ form.empties = TRUE
    BY <1>1 DEF OpenForm, FormInv, OfTable, Plain, Silent, Form
  <2>2. opening' \in Opening /\ entries' = {} /\ ~asking
    BY <1>1, <2>1, FormsAssumption DEF OpenForm, FormInv, FormTypeOK, Opening
  <2>3. /\ open' = TRUE /\ dirty' = FALSE /\ UNCHANGED <<asking, limited>>
        /\ limited \in BOOLEAN /\ asking \in BOOLEAN
    BY <1>1 DEF OpenForm, FormInv, FormTypeOK
  <2>4. HoldsOwn' /\ KnowsDirty'
    BY <2>1, <2>2, <2>3 DEF HoldsOwn, KnowsDirty
  <2>5. opening' \in 0..MaxOpenings /\ entries' \subseteq Opening
    BY <2>2, FormsAssumption DEF Opening
  <2>6. OwnEntries' /\ StaysOwn' /\ OneAtATime'
    BY <2>1, <1>same
  <2>. QED
    BY <2>1, <2>2, <2>3, <2>4, <2>5, <2>6, <1>0, Assemble
<1>2. CASE Enter
  <2>1. UNCHANGED <<form, sent>>
    BY <1>2 DEF Enter
  <2>. QED
    BY <1>2, <2>1, <1>same
    DEF Enter, FormInv, FormTypeOK, OfTable, HoldsOwn, KnowsDirty
<1>3. ASSUME NEW requests \in [Request -> Submission \cup {NoRequest}],
             Shut(requests), limited' \in BOOLEAN, OwnEntries', StaysOwn', OneAtATime'
      PROVE  FormInv'
  BY <1>3, ShutStep DEF FormInv, FormTypeOK
<1>4. ASSUME NEW requests \in [Request -> Submission \cup {NoRequest}],
             Shut(requests), limited' \in BOOLEAN,
             \A r \in Request : requests[r] \in {NoRequest, sent[r]}
      PROVE  FormInv'
  <2>1. sent' = Orphaned(requests) /\ UNCHANGED form
    BY <1>4 DEF Shut
  <2>2. OwnEntries' /\ StaysOwn' /\ OneAtATime'
    BY <1>4, <2>1, <1>0, OrphanedRequests, RequestsKept
  <2>. QED
    BY <1>4, <1>3, <2>2
<1>5. CASE CloseRequest
  <2>1. CASE form.asks /\ dirty
    BY <1>5, <2>1, <1>same
    DEF CloseRequest, FormInv, FormTypeOK, OfTable, HoldsOwn, KnowsDirty
  <2>2. CASE ~(form.asks /\ dirty)
    BY <1>5, <2>2, <1>4, <1>0 DEF CloseRequest, FormInv, FormTypeOK
  <2>. QED
    BY <2>1, <2>2
<1>6. CASE Discard
  <2>1. /\ sent' = Orphaned(sent) /\ UNCHANGED <<form, opening, limited>>
        /\ open' = FALSE /\ entries' = {} /\ dirty' = FALSE /\ asking' = FALSE
    BY <1>6 DEF Discard
  <2>2. sent' \in [Request -> Submission \cup {NoRequest}]
    BY <2>1, <1>0, OrphanedRequests
  <2>3. OwnEntries' /\ StaysOwn' /\ OneAtATime'
    BY <2>1, <2>2, <1>0, OrphanedRequests, RequestsKept
  <2>. QED
    BY <2>1, <2>2, <2>3 DEF FormInv, FormTypeOK, OfTable, HoldsOwn, KnowsDirty
<1>7. CASE KeepEditing
  <2>1. UNCHANGED <<form, sent>>
    BY <1>7 DEF KeepEditing
  <2>. QED
    BY <1>7, <2>1, <1>same
    DEF KeepEditing, FormInv, FormTypeOK, OfTable, HoldsOwn, KnowsDirty
<1>14. CASE RecordArrives
  <2>1. UNCHANGED <<form, sent>>
    BY <1>14 DEF RecordArrives
  <2>. QED
    BY <1>14, <2>1, <1>same
    DEF RecordArrives, FormInv, FormTypeOK, OfTable, HoldsOwn, KnowsDirty
<1>15. CASE CountDown
  <2>1. UNCHANGED <<form, sent>>
    BY <1>15 DEF CountDown
  <2>. QED
    BY <1>15, <2>1, <1>same
    DEF CountDown, FormInv, FormTypeOK, OfTable, HoldsOwn, KnowsDirty
<1>8. ASSUME NEW r \in Request
      PROVE  /\ Answered(r) \in [Request -> Submission \cup {NoRequest}]
             /\ \A q \in Request : Answered(r)[q] \in {NoRequest, sent[q]}
  BY <1>0 DEF Answered
<1>9. ASSUME NEW r \in Request, sent' = Answered(r), UNCHANGED form
      PROVE  OwnEntries' /\ StaysOwn' /\ OneAtATime'
  <2>1. /\ sent' \in [Request -> Submission \cup {NoRequest}]
        /\ \A q \in Request : sent'[q] \in {NoRequest, sent[q]}
    BY <1>9, <1>8
  <2>. QED
    BY <1>9, <2>1, <1>0, RequestsKept
<1>still. ASSUME UNCHANGED <<form, open, opening, entries, dirty, asking>>,
                 limited' \in BOOLEAN,
                 sent' \in [Request -> Submission \cup {NoRequest}],
                 OwnEntries', StaysOwn', OneAtATime'
          PROVE  FormInv'
  BY <1>still DEF FormInv, FormTypeOK, OfTable, HoldsOwn, KnowsDirty
<1>10. ASSUME NEW r \in Request, Fails(r) \/ Limit(r) PROVE FormInv'
  <2>1. sent' = Answered(r) /\ UNCHANGED form
    BY <1>10 DEF Fails, Limit
  <2>2. /\ UNCHANGED <<open, opening, entries, dirty, asking>> /\ limited' \in BOOLEAN
        /\ sent' \in [Request -> Submission \cup {NoRequest}]
    BY <1>10, <2>1, <1>8 DEF Fails, Limit, FormInv, FormTypeOK
  <2>3. OwnEntries' /\ StaysOwn' /\ OneAtATime'
    BY <2>1, <1>9
  <2>. QED
    BY <2>1, <2>2, <2>3, <1>still
<1>11. ASSUME NEW r \in Request, Succeeds(r) PROVE FormInv'
  <2>1. CASE Shut(Answered(r))
    <3>1. limited' \in BOOLEAN
      BY <1>11 DEF Succeeds, FormInv, FormTypeOK
    <3>. QED
      BY <2>1, <3>1, <1>4, <1>8
  <2>2. CASE ~Shut(Answered(r))
    <3>1. /\ sent' = Answered(r) /\ UNCHANGED <<form, open, opening, asking, limited>>
          /\ \/ entries' = {} /\ dirty' = FALSE /\ form.success = "clear"
             \/ UNCHANGED <<entries, dirty>>
      BY <1>11, <2>2 DEF Succeeds
    <3>2. sent' \in [Request -> Submission \cup {NoRequest}] /\ limited' \in BOOLEAN
      BY <3>1, <1>8 DEF FormInv, FormTypeOK
    <3>3. OwnEntries' /\ StaysOwn' /\ OneAtATime'
      BY <3>1, <1>9
    <3>4. CASE UNCHANGED <<entries, dirty>>
      BY <3>1, <3>2, <3>3, <3>4, <1>still
    <3>5. CASE entries' = {} /\ dirty' = FALSE /\ form.success = "clear"
      <4>1. asking = FALSE /\ UNCHANGED <<open, asking, opening>>
        BY <3>1, <3>5 DEF FormInv, FormTypeOK, OfTable, Plain, Silent
      <4>2. HoldsOwn' /\ KnowsDirty'
        BY <3>1, <3>5, <4>1 DEF FormInv, HoldsOwn, KnowsDirty
      <4>3. open \in BOOLEAN /\ opening \in 0..MaxOpenings
        BY DEF FormInv, FormTypeOK
      <4>. QED
        BY <3>1, <3>2, <3>3, <3>5, <4>1, <4>2, <4>3, Assemble
    <3>. QED
      BY <3>1, <3>4, <3>5
  <2>. QED
    BY <2>1, <2>2
<1>12. ASSUME NEW r \in Request, Submit(r) PROVE FormInv'
  <2>. DEFINE q == [of |-> opening, holds |-> entries, own |-> TRUE]
  <2>. DEFINE requests == [sent EXCEPT ![r] = q]
  <2>1. q \in Submission /\ q.holds \subseteq {q.of} /\ (form.blank \/ q.of \in q.holds)
    BY <1>12 DEF Submit, Submission, FormInv, FormTypeOK, HoldsOwn
  <2>2. requests \in [Request -> Submission \cup {NoRequest}]
    BY <2>1, <1>0
  <2>3. UNCHANGED <<form, limited>> /\ (Shut(requests) \/ sent' = requests)
    BY <1>12 DEF Submit, Shut
  <2>. HIDE DEF requests
  <2>4. /\ sent' \in [Request -> Submission \cup {NoRequest}]
        /\ \A s \in Request : /\ sent'[s] = NoRequest <=> requests[s] = NoRequest
                              /\ sent'[s].of = requests[s].of
                              /\ sent'[s].holds = requests[s].holds
                              /\ Outlives => sent'[s] = requests[s]
    BY <2>2, <2>3, OrphanedRequests DEF Shut
  <2>5. requests[r] = q /\ \A s \in Request \ {r} : requests[s] = sent[s]
    BY <1>0 DEF requests
  <2>6. InFlight' = InFlight \cup {r}
    BY <2>1, <2>4, <2>5, NotSubmitted DEF InFlight
  <2>7. OwnEntries'
    BY <2>1, <2>3, <2>4, <2>5, <2>6, <1>0 DEF OwnEntries, FormInv
  <2>8. StaysOwn'
    BY <2>3, <2>4, <2>5, <2>6, <1>0 DEF StaysOwn, Outlives, FormInv
  <2>9. Outlives => InFlight = {}
    BY <1>12 DEF Submit, Pending, FormInv, StaysOwn
  <2>10. OneAtATime'
    BY <2>3, <2>6, <2>9 DEF OneAtATime, Outlives
  <2>11. CASE Shut(requests)
    BY <2>2, <2>3, <2>7, <2>8, <2>10, <2>11, <1>3 DEF FormInv, FormTypeOK
  <2>12. CASE ~Shut(requests)
    <3>1. sent' = requests /\ UNCHANGED <<form, open, opening, entries, dirty, asking, limited>>
      BY <1>12, <2>12 DEF Submit, requests
    <3>. QED
      BY <3>1, <2>2, <2>7, <2>8, <2>10
      DEF FormInv, FormTypeOK, OfTable, HoldsOwn, KnowsDirty
  <2>. QED
    BY <2>11, <2>12
<1>13. CASE UNCHANGED formVars
  BY <1>13, <1>same
  DEF formVars, FormInv, FormTypeOK, OfTable, HoldsOwn, KnowsDirty
<1>. QED
  BY <1>1, <1>2, <1>5, <1>6, <1>7, <1>10, <1>11, <1>12, <1>13, <1>14, <1>15
  DEF FormNext

LEMMA FormInvariance == FormSpec => []FormInv
<1>. QED
  BY FormInitInv, FormStepInv, PTL DEF FormSpec
-----------------------------------------------------------------------------
(* Every variable keeps its type, and the question whether to discard is    *)
(* that of a form that asks: one that is open, or one that stays mounted    *)
(* and has been closed behind its question by an answer.                    *)
THEOREM FormTypeCorrect == FormSpec => []FormTypeOK
<1>1. FormInv => FormTypeOK
  BY DEF FormInv
<1>. QED
  BY <1>1, FormInvariance, PTL

(* The effects on `open' of the forms and the way they are mounted: no      *)
(* request carries what was entered in another opening.                     *)
THEOREM FormsSendOwn == FormSpec => []OwnEntries
<1>1. FormInv => OwnEntries
  BY DEF FormInv
<1>. QED
  BY <1>1, FormInvariance, PTL

(* Forms whose hook outlives the opening: closed and opened again, they do  *)
(* not send their request a second time while it runs.                      *)
THEOREM FormsSendOnce == FormSpec => []OneAtATime
<1>1. FormInv => OneAtATime
  BY DEF FormInv
<1>. QED
  BY <1>1, FormInvariance, PTL

LEMMA AsksBeforeLoss ==
    ASSUME FormInv, [FormNext]_formVars, form.asks, Holding, ~Holding'
    PROVE  \/ asking
           \/ \E r \in InFlight : sent'[r] = NoRequest
           \/ open' /\ form.follows
<1>1. ~form.shuts /\ form.success # "clear" /\ dirty /\ open /\ opening \in entries
  BY DEF FormInv, OfTable, Plain, Silent, KnowsDirty, Holding
<1>2. ~(open' = open /\ opening' = opening /\ entries \subseteq entries')
  BY DEF Holding
<1>3. ~OpenForm /\ ~Enter /\ ~KeepEditing /\ ~CountDown /\ ~UNCHANGED formVars
  BY <1>1, <1>2 DEF OpenForm, Enter, KeepEditing, CountDown, formVars
<1>4. ~CloseRequest
  BY <1>1, <1>2 DEF CloseRequest
<1>5. ASSUME NEW r \in Request PROVE ~Submit(r) /\ ~Fails(r) /\ ~Limit(r)
  BY <1>1, <1>2 DEF Submit, Fails, Limit
<1>6. CASE Discard
  BY <1>6 DEF Discard
<1>7. CASE RecordArrives
  BY <1>1, <1>7 DEF RecordArrives
<1>8. ASSUME NEW r \in Request, Succeeds(r) PROVE \E q \in InFlight : sent'[q] = NoRequest
  <2>1. Answered(r) \in [Request -> Submission \cup {NoRequest}] /\ Answered(r)[r] = NoRequest
    BY DEF FormInv, FormTypeOK, Answered
  <2>2. r \in InFlight /\ (sent' = Answered(r) \/ sent' = Orphaned(Answered(r)))
    BY <1>8 DEF Succeeds, Shut
  <2>3. sent'[r] = NoRequest
    BY <2>1, <2>2, OrphanedRequests
  <2>. QED
    BY <2>2, <2>3
<1>. QED
  BY <1>3, <1>4, <1>5, <1>6, <1>7, <1>8 DEF FormNext

(* handleCloseRequest: whatever happens to a drawer with a discard dialog,  *)
(* its entries are lost by an answer to the question, by that of a request, *)
(* or by a new version of its record.                                       *)
THEOREM FormsAskFirst == FormSpec => AskedFirst
<1>1. FormInv /\ [FormNext]_formVars
        => [(form.asks /\ Holding /\ ~Holding')
             => \/ asking
                \/ \E r \in InFlight : sent'[r] = NoRequest
                \/ open' /\ form.follows]_formVars
  BY AsksBeforeLoss
<1>. QED
  BY <1>1, FormInvariance, PTL DEF FormSpec, AskedFirst
=============================================================================
