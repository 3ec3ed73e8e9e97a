---------------------------- MODULE ScreensProofs ----------------------------
(* Proofs about CaseWizard and Dialogs, for any entries, officers, records  *)
(* and requests and for every page of HostTable, and about MCScreens, which *)
(* puts them beside the forms and lists.                                    *)
EXTENDS MCScreens, FormsProofs, ListsProofs, TLAPS

(* The wizard *)

(* The lead officer that is shown is not an additional one; what a request  *)
(* carries is what is shown in the first two steps; and one that runs was   *)
(* started on the last step, which only its answer or a cancel leaves.      *)
LeadApart == leadOfficerId \notin additionalOfficerIds

SentFromLast == Creating => currentStep \in {0, 3}

StepsFilled == /\ currentStep \in {2, 3} => stepData[1] # Missing
               /\ currentStep = 3 => stepData[2] # Missing

WizardInv == WizardTypeOK /\ CopiesCurrent /\ StepsFilled /\ LeadApart /\ SentFromLast /\ SendsShown

LEMMA WizardInitInv == WizardInit => WizardInv
<1>. SUFFICES ASSUME WizardInit PROVE WizardInv
  OBVIOUS
<1>1. ~Creating
  BY DEF WizardInit, Creating
<1>2. WizardTypeOK
  <2>1. payload = NoPayload
    BY DEF WizardInit
  <2>2. /\ currentStep \in 0..3
        /\ entered \in [{1, 2} -> Entry \cup {Missing}]
        /\ stepData \in [{1, 2} -> Entry \cup {Missing}]
        /\ leadOfficerId \in Officer \cup {Missing}
        /\ additionalOfficerIds \subseteq Officer
    BY DEF WizardInit
  <2>3. isFormDirty \in BOOLEAN /\ isCancelDialogOpen \in BOOLEAN /\ leaving \in BOOLEAN
    BY DEF WizardInit
  <2>. QED
    BY <2>1, <2>2, <2>3 DEF WizardTypeOK
<1>3. LeadApart
  BY DEF WizardInit, LeadApart
<1>4. currentStep \notin {2, 3} /\ currentStep # 3
  BY DEF WizardInit
<1>. QED
  BY <1>1, <1>2, <1>3, <1>4
  DEF WizardInv, CopiesCurrent, StepsFilled, SentFromLast, SendsShown

(* Closing the wizard or a dialog, or the answer of a request.              *)
LEMMA NoInput ==
    ASSUME WizardInv, UNCHANGED <<inputs, stepData>>,
           payload' = payload \/ payload' = NoPayload,
           currentStep' = currentStep \/ currentStep' = 0,
           isFormDirty' \in BOOLEAN, isCancelDialogOpen' \in BOOLEAN, leaving' \in BOOLEAN
    PROVE  WizardInv'
BY DEF WizardInv, WizardTypeOK, CopiesCurrent, StepsFilled, LeadApart, SentFromLast, SendsShown,
       Creating, NoPayload, inputs

LEMMA WizardStepInv == WizardInv /\ [WizardNext]_wizardVars => WizardInv'
<1>. SUFFICES ASSUME WizardInv, [WizardNext]_wizardVars PROVE WizardInv'
  OBVIOUS
<1>. USE WizardAssumption
     DEF WizardInv, WizardTypeOK, CopiesCurrent, StepsFilled, LeadApart, SentFromLast, SendsShown,
         OnStep
<1>1. ASSUME NEW s \in {1, 2}, NEW e \in Entry \cup {Missing}, EnterStep(s, e)
      PROVE  WizardInv'
  <2>1. ~Creating
    BY <1>1 DEF EnterStep
  <2>. QED
    BY <1>1, <2>1 DEF EnterStep, Creating
<1>2. ASSUME NEW s \in {1, 2}, Next12(s) PROVE WizardInv'
  <2>1. ~Creating
    BY <1>2 DEF Next12
  <2>. QED
    BY <1>2, <2>1 DEF Next12, Creating, inputs
<1>3. ASSUME NEW o \in Officer, ChooseLead(o) \/ AddOfficer(o) \/ RemoveOfficer(o)
      PROVE  WizardInv'
  BY <1>3 DEF ChooseLead, AddOfficer, RemoveOfficer, Creating
<1>4. CASE handleBack
  BY <1>4 DEF handleBack, Creating, inputs
<1>5. CASE onStep3Submit
  <2>1. /\ currentStep = 3 /\ UNCHANGED <<currentStep, inputs, stepData>>
        /\ payload' = [basics |-> stepData[1], crime |-> stepData[2],
                       lead |-> leadOfficerId, additional |-> additionalOfficerIds]
        /\ isFormDirty' = FALSE /\ UNCHANGED <<isCancelDialogOpen, leaving>>
        /\ leadOfficerId \in Officer
    BY <1>5 DEF onStep3Submit
  <2>2. stepData[1] = entered[1] /\ stepData[2] = entered[2]
    BY <2>1
  <2>. QED
    BY <2>1, <2>2 DEF Creating, inputs
<1>6. CASE handleCancelClick \/ confirmCancel \/ ContinueEditing \/ CreateFails
           \/ CreateSucceeds \/ Leave
  BY <1>6, NoInput
  DEF handleCancelClick, confirmCancel, ContinueEditing, CreateFails, CreateSucceeds, Leave
<1>7. CASE UNCHANGED wizardVars
  BY <1>7, NoInput DEF wizardVars
<1>. QED
  BY <1>1, <1>2, <1>3, <1>4, <1>5, <1>6, <1>7 DEF WizardNext

(* CreateCaseWizard.tsx:111-139: whatever the officer enters, goes back to  *)
(* and cancels, the request carries what the first two steps show.          *)
THEOREM WizardSendsShown == WizardSpec => [](WizardTypeOK /\ SendsShown)
<1>1. WizardInv => WizardTypeOK /\ SendsShown
  BY DEF WizardInv
<1>. QED
  BY WizardInitInv, WizardStepInv, <1>1, PTL DEF WizardSpec
-----------------------------------------------------------------------------
(* The dialogs of a page *)

PageVariables == {"page", "kept", "shared"}

(* A dialog that is opened on the page only, and closes only itself. *)
Simple(o) ==
    /\ o.at \in {"own", "row"} \cup PageVariables
    /\ o.from = {"page"} /\ o.stacks = FALSE /\ o.closes = {}
    /\ o.sends \in BOOLEAN

(* What the dialogs of a page have in common: one that stacks stands on    *)
(* one about the same record that sends nothing and that only it closes,   *)
(* and one that takes the place of another has a record of its own.        *)
FormedDialog(h, d) ==
    LET dialogs == DOMAIN h.dialogs
        o == h.dialogs[d]
    IN
    /\ d \notin PageVariables
    /\ o.at \in {"own", "row"} \cup PageVariables
    /\ o.stacks \in BOOLEAN /\ o.sends \in BOOLEAN
    /\ o.stacks => o.at = "kept" /\ "page" \notin o.from
    /\ \A e \in o.from \cap dialogs :
          IF o.stacks
          THEN h.dialogs[e].at = "kept" /\ ~h.dialogs[e].stacks /\ ~h.dialogs[e].sends
          ELSE h.dialogs[e].at = "own" /\ o.at = "own" /\ e # d
    /\ o.closes \subseteq dialogs
    /\ \A e \in o.closes, x \in dialogs :
          h.dialogs[x].stacks /\ e \in h.dialogs[x].from => x = d

Formed(h) == \A d \in DOMAIN h.dialogs : FormedDialog(h, d)

(* Every raised dialog is about the record it was opened for. *)
Chosen == \A d \in raised : picked[d] \in Subject /\ TargetOf(d) = picked[d]

UnderStacked ==
    \A d \in raised : Opened(d).stacks => \E e \in Opened(d).from : e \in raised

AsMeant == \A p \in Posted : posted[p].about = posted[p].meant

Senders == \A p \in Posted : Opened(posted[p].by).sends

DialogInv ==
    /\ DialogTypeOK
    /\ Formed(host)
    /\ Senders
    /\ KeepsApart => Chosen /\ UnderStacked /\ AsMeant

-----------------------------------------------------------------------------
(* The pages of HostTable *)

LEMMA BaseSimple ==
    /\ Simple(Own) /\ Own.at = "own"
    /\ Simple(InRow) /\ Simple(View) /\ View.at = "own"
    /\ \A s : Simple(Shared(s)) /\ Simple(Kept(s)) /\ Simple(OfPage(s))
BY DEF Simple, PageVariables, Own, Shared, Kept, OfPage, InRow, View

LEMMA SimplePage ==
    ASSUME NEW h, \A d \in DOMAIN h.dialogs : Simple(h.dialogs[d]) /\ d \notin PageVariables
    PROVE  Formed(h)
<1> SUFFICES ASSUME NEW d \in DOMAIN h.dialogs PROVE FormedDialog(h, d)
    BY DEF Formed
<1>1. h.dialogs[d].from \cap DOMAIN h.dialogs = {} /\ h.dialogs[d].closes = {}
    BY DEF Simple, PageVariables
<1> QED
    BY <1>1 DEF Simple, FormedDialog

LEMMA SimplePages ==
    ASSUME NEW kind
    PROVE  /\ Formed(Host(kind, OfficersListDialogs))
           /\ Formed(Host(kind, OfficerDetail))
           /\ Formed(Host(kind, DepartmentsListDialogs))
           /\ Formed(Host(kind, DepartmentDetail))
           /\ Formed(Host(kind, PersonDetail))
           /\ Formed(Host(kind, CrimeTypesListDialogs))
           /\ Formed(Host(kind, LocationsListDialogs))
           /\ Formed(Host(kind, CasesListDialogs))
           /\ Formed(Host(kind, CaseHeader))
           /\ Formed(Host(kind, InterrogationsTabDialogs))
<1> DEFINE AllSimple(p) == \A d \in DOMAIN p : Simple(p[d]) /\ d \notin PageVariables
<1>1. \A p : AllSimple(p) => Formed(Host(kind, p))
    BY SimplePage DEF Host
<1> USE BaseSimple DEF PageVariables
<1>2. AllSimple(OfficersListDialogs)
    BY DEF OfficersListDialogs
<1>3. AllSimple(OfficerDetail)
    BY DEF OfficerDetail
<1>4. AllSimple(DepartmentsListDialogs)
    BY DEF DepartmentsListDialogs
<1>5. AllSimple(DepartmentDetail)
    BY DEF DepartmentDetail
<1>6. AllSimple(PersonDetail)
    BY DEF PersonDetail
<1>7. AllSimple(CrimeTypesListDialogs) /\ AllSimple(LocationsListDialogs)
    BY DEF CrimeTypesListDialogs, LocationsListDialogs
<1>8. AllSimple(CasesListDialogs) /\ AllSimple(CaseHeader)
    BY DEF CasesListDialogs, CaseHeader
<1>9. AllSimple(InterrogationsTabDialogs)
    BY DEF InterrogationsTabDialogs
<1> HIDE DEF AllSimple
<1> QED
    BY <1>1, <1>2, <1>3, <1>4, <1>5, <1>6, <1>7, <1>8, <1>9

(* The details of an arrest hand over to its update, and those of a piece  *)
(* of evidence to a custody event.                                         *)
LEMMA HandingPage ==
    ASSUME NEW h, NEW d \in DOMAIN h.dialogs, NEW e \in DOMAIN h.dialogs, e # d,
           \A x \in DOMAIN h.dialogs : x \notin PageVariables,
           \A x \in DOMAIN h.dialogs : x # d => Simple(h.dialogs[x]),
           h.dialogs[e].at = "own", h.dialogs[d] = Also(Own, e)
    PROVE  Formed(h)
<1>1. /\ h.dialogs[d].at = "own" /\ h.dialogs[d].from = {"page", e}
      /\ h.dialogs[d].stacks = FALSE /\ h.dialogs[d].closes = {} /\ h.dialogs[d].sends
    BY DEF Also, Own
<1> SUFFICES ASSUME NEW x \in DOMAIN h.dialogs PROVE FormedDialog(h, x)
    BY DEF Formed
<1>2. CASE x = d
    BY <1>1, <1>2 DEF FormedDialog, PageVariables
<1>3. CASE x # d
  <2>1. h.dialogs[x].from \cap DOMAIN h.dialogs = {} /\ h.dialogs[x].closes = {}
      BY <1>3 DEF Simple, PageVariables
  <2> QED
      BY <1>3, <2>1 DEF FormedDialog, Simple
<1> QED
    BY <1>2, <1>3

LEMMA HandingPages ==
    ASSUME NEW kind
    PROVE  Formed(Host(kind, ArrestsTabDialogs)) /\ Formed(Host(kind, EvidenceTabDialogs))
<1>1. Formed(Host(kind, ArrestsTabDialogs))
  <2> DEFINE h == Host(kind, ArrestsTabDialogs)
  <2>1. /\ DOMAIN h.dialogs = {"ArrestDetailDrawer", "UpdateArrestDrawer", "useArrestColumns"}
        /\ h.dialogs["ArrestDetailDrawer"] = Own /\ h.dialogs["useArrestColumns"] = InRow
        /\ h.dialogs["UpdateArrestDrawer"] = Also(Own, "ArrestDetailDrawer")
      BY DEF Host, ArrestsTabDialogs
  <2> HIDE DEF h
  <2> QED
      BY <2>1, HandingPage, BaseSimple DEF PageVariables, h
<1>2. Formed(Host(kind, EvidenceTabDialogs))
  <2> DEFINE h == Host(kind, EvidenceTabDialogs)
  <2>1. /\ DOMAIN h.dialogs =
              {"EvidenceDetailDrawer", "RecordCustodyEventDrawer", "useEvidenceColumns"}
        /\ h.dialogs["EvidenceDetailDrawer"] = View /\ h.dialogs["useEvidenceColumns"] = InRow
        /\ h.dialogs["RecordCustodyEventDrawer"] = Also(Own, "EvidenceDetailDrawer")
      BY DEF Host, EvidenceTabDialogs
  <2> HIDE DEF h
  <2> QED
      BY <2>1, HandingPage, BaseSimple DEF PageVariables, h
<1> QED
    BY <1>1, <1>2

(* The sentence that is edited is the one that is viewed below. *)
LEMMA LegalPage == ASSUME NEW kind PROVE Formed(Host(kind, LegalTab))
<1> DEFINE h == Host(kind, LegalTab)
           view == h.dialogs["ViewSentenceDrawer"]
           edit == h.dialogs["EditSentenceDrawer"]
<1>1. /\ DOMAIN h.dialogs = {"UpdateChargeStatusDrawer", "DropChargeDialog", "ViewSentenceDrawer",
                             "EditSentenceDrawer", "AppealChargeDrawer"}
      /\ Simple(h.dialogs["UpdateChargeStatusDrawer"])
      /\ Simple(h.dialogs["DropChargeDialog"])
      /\ view = [Kept({"CONVICTED"}) EXCEPT !.sends = FALSE]
      /\ edit = [Kept({}) EXCEPT !.from = {"ViewSentenceDrawer"}, !.stacks = TRUE,
                                 !.closes = {"ViewSentenceDrawer"}]
      /\ h.dialogs["AppealChargeDrawer"] = [Own EXCEPT !.offered = {"CONVICTED", "ACQUITTED"}]
    BY BaseSimple DEF Host, LegalTab
<1> HIDE DEF h
<1>2. Simple(view) /\ view.at = "kept" /\ view.sends = FALSE
    BY <1>1 DEF Simple, Kept, Own, PageVariables
<1>3. /\ edit.at = "kept" /\ edit.from = {"ViewSentenceDrawer"} /\ edit.stacks = TRUE
      /\ edit.closes = {"ViewSentenceDrawer"} /\ edit.sends = TRUE
    BY <1>1 DEF Kept, Own
<1>4. Simple(h.dialogs["AppealChargeDrawer"])
    BY <1>1 DEF Simple, Own, PageVariables
<1>5. \A d \in DOMAIN h.dialogs : d # "EditSentenceDrawer" => Simple(h.dialogs[d])
    BY <1>1, <1>2, <1>4
<1>6. \A d \in DOMAIN h.dialogs : d \notin PageVariables
    BY <1>1 DEF PageVariables
<1>7. FormedDialog(h, "EditSentenceDrawer")
    BY <1>1, <1>2, <1>3, <1>5, <1>6 DEF FormedDialog, Simple, PageVariables
<1>8. ASSUME NEW d \in DOMAIN h.dialogs, d # "EditSentenceDrawer" PROVE FormedDialog(h, d)
  <2>1. h.dialogs[d].from \cap DOMAIN h.dialogs = {} /\ h.dialogs[d].closes = {}
      BY <1>5, <1>6, <1>8 DEF Simple, PageVariables
  <2> QED
      BY <1>5, <1>6, <1>8, <2>1 DEF FormedDialog, Simple
<1> QED
    BY <1>7, <1>8 DEF Formed, h

LEMMA TablePages == \A n \in DOMAIN HostTable : Formed(HostTable[n])
<1> SUFFICES ASSUME NEW n \in DOMAIN HostTable PROVE Formed(HostTable[n])
    OBVIOUS
<1>1. HostTable[n] \in
        UNION {{Host(kind, OfficersListDialogs), Host(kind, OfficerDetail),
                Host(kind, DepartmentsListDialogs), Host(kind, DepartmentDetail),
                Host(kind, PersonDetail), Host(kind, CrimeTypesListDialogs),
                Host(kind, LocationsListDialogs), Host(kind, CasesListDialogs),
                Host(kind, CaseHeader), Host(kind, InterrogationsTabDialogs),
                Host(kind, ArrestsTabDialogs), Host(kind, EvidenceTabDialogs),
                Host(kind, LegalTab)} : kind \in {"officer", "department", "other", "charge"}}
    BY DEF HostTable
<1> QED
    BY <1>1, SimplePages, HandingPages, LegalPage

-----------------------------------------------------------------------------
(* The variables of a page *)

PostRecord == [by : Dialog, about : Subject, meant : Subject \cup {Nobody}, own : BOOLEAN]

LEMMA VariablesOfPage ==
    ASSUME DialogInv
    PROVE  /\ \A d \in Dialog : Variable(d) \in DOMAIN target
           /\ target \in [{Variable(d) : d \in Dialog} -> Subject \cup {Nobody}]
           /\ \A d \in Dialog : TargetOf(d) \in Subject \cup {Nobody}
BY DEF DialogInv, DialogTypeOK, TargetOf

(* No two dialogs have a variable of their own in common. *)
LEMMA OwnVariables ==
    ASSUME DialogInv, KeepsApart
    PROVE  /\ \A d \in Dialog : Opened(d).at \in {"own", "row", "page", "kept"}
           /\ \A d \in Dialog : Opened(d).at \in {"own", "row"} => Variable(d) = d
           /\ \A d \in Dialog : Opened(d).at = "kept" => Variable(d) = "kept"
           /\ \A d \in Dialog : Opened(d).at = "page" => Variable(d) = "page"
           /\ \A d \in Dialog : d \notin {"page", "kept"}
<1> USE DEF DialogInv, Formed, FormedDialog, Variable, Dialog, Opened, PageVariables, KeepsApart
<1>1. \A d \in Dialog : Opened(d).at \in {"own", "row", "page", "kept"}
    OBVIOUS
<1> QED
    BY <1>1

(* A step that orphans requests leaves what they are about. *)
OrphanedPosts(posts, gone) ==
    [p \in Post |-> [posts[p] EXCEPT !.own = @ /\ posts[p].by \in gone]]

LEMMA OrphanKeeps ==
    ASSUME NEW posts \in [Post -> PostRecord \cup {NoPost}], NEW gone,
           NEW after, after = OrphanedPosts(posts, gone)
    PROVE  /\ after \in [Post -> PostRecord \cup {NoPost}]
           /\ \A p \in Post : (after[p] # NoPost) <=> (posts[p] # NoPost)
           /\ \A p \in Post : /\ after[p].by = posts[p].by
                              /\ after[p].about = posts[p].about
                              /\ after[p].meant = posts[p].meant
<1>1. ASSUME NEW p \in Post
      PROVE  /\ after[p] \in PostRecord \cup {NoPost}
             /\ (after[p] # NoPost) <=> (posts[p] # NoPost)
             /\ after[p].by = posts[p].by
             /\ after[p].about = posts[p].about
             /\ after[p].meant = posts[p].meant
  <2>1. after[p] = [posts[p] EXCEPT !.own = @ /\ posts[p].by \in gone]
      BY DEF OrphanedPosts
  <2>2. CASE posts[p] = NoPost
    <3>1. (NoPost.own /\ posts[p].by \in gone) = FALSE
        BY DEF NoPost
    <3>2. after[p] = [NoPost EXCEPT !.own = FALSE]
        BY <2>1, <2>2, <3>1, Zenon
    <3>3. after[p] = NoPost
        BY <3>2 DEF NoPost
    <3> QED
        BY <2>2, <3>3
  <2>3. CASE posts[p] # NoPost
    <3>1. posts[p] \in [by : Dialog, about : Subject, meant : Subject \cup {Nobody}, own : BOOLEAN]
        BY <2>3 DEF PostRecord
    <3>2. (posts[p].own /\ posts[p].by \in gone) \in BOOLEAN
        BY <3>1
    <3>3. /\ after[p] \in [by : Dialog, about : Subject, meant : Subject \cup {Nobody}, own : BOOLEAN]
          /\ after[p].by = posts[p].by
          /\ after[p].about = posts[p].about
          /\ after[p].meant = posts[p].meant
        BY <2>1, <3>1, <3>2
    <3>4. NoPost.about = Nobody
        BY Zenon DEF NoPost
    <3>5. after[p] # NoPost
        BY <3>3, <3>4, DialogsAssumption
    <3> QED
        BY <2>3, <3>3, <3>5 DEF PostRecord
  <2> QED
      BY <2>2, <2>3
<1> QED
    BY <1>1 DEF OrphanedPosts

(* The requests in flight do what they did, and may be orphaned. *)
PostsKept == \A p \in Post : p \in Posted' =>
                /\ p \in Posted
                /\ posted'[p].by = posted[p].by
                /\ posted'[p].about = posted[p].about
                /\ posted'[p].meant = posted[p].meant

LEMMA PostsAfter ==
    ASSUME DialogInv, UNCHANGED host,
           posted' \in [Post -> PostRecord \cup {NoPost}], PostsKept
    PROVE  /\ Senders'
           /\ KeepsApart /\ AsMeant => AsMeant'
BY DEF DialogInv, Senders, AsMeant, PostsKept, Opened, Posted

LEMMA OrphanPosted ==
    ASSUME DialogInv, Orphan(posted)
    PROVE  posted' \in [Post -> PostRecord \cup {NoPost}] /\ PostsKept
<1>1. posted \in [Post -> PostRecord \cup {NoPost}]
    BY DEF DialogInv, DialogTypeOK, PostRecord
<1>2. PICK gone : posted' = OrphanedPosts(posted, gone)
    BY DEF Orphan, OrphanedPosts
<1> QED
    BY <1>1, <1>2, OrphanKeeps DEF PostsKept, Posted

LEMMA OrphanAnswered ==
    ASSUME DialogInv, NEW q \in Post, Orphan([posted EXCEPT ![q] = NoPost])
    PROVE  posted' \in [Post -> PostRecord \cup {NoPost}] /\ PostsKept
<1> DEFINE posts == [posted EXCEPT ![q] = NoPost]
<1>1. /\ posts \in [Post -> PostRecord \cup {NoPost}]
      /\ \A p \in Post : posts[p] # NoPost => p # q /\ posts[p] = posted[p] /\ posted[p] # NoPost
    BY DEF DialogInv, DialogTypeOK, PostRecord
<1> DEFINE gone == {d \in Dialog : Mounted(d)'}
<1>2. posted' = OrphanedPosts(posts, gone)
    BY DEF Orphan, OrphanedPosts
<1> HIDE DEF gone
<1> HIDE DEF posts
<1> QED
    BY <1>1, <1>2, OrphanKeeps DEF PostsKept, Posted

-----------------------------------------------------------------------------
(* A page stays the page it is. *)
LEMMA SamePage ==
    ASSUME UNCHANGED host
    PROVE  /\ Dialog' = Dialog
           /\ \A d : Opened(d)' = Opened(d) /\ Variable(d)' = Variable(d)
           /\ \A d : TargetOf(d)' = target'[Variable(d)]
           /\ Formed(host)' = Formed(host)
           /\ KeepsApart' = KeepsApart
           /\ PostRecord' = PostRecord
BY DEF Dialog, Opened, Variable, TargetOf, KeepsApart, PostRecord, Formed, FormedDialog

LEMMA Assembled ==
    ASSUME DialogInv, UNCHANGED host,
           rows' \in [Subject -> RowStates[host.kind]],
           raised' \subseteq Dialog,
           target' \in [{Variable(d) : d \in Dialog} -> Subject \cup {Nobody}],
           picked' \in [Dialog -> Subject \cup {Nobody}],
           posted' \in [Post -> PostRecord \cup {NoPost}],
           Senders',
           KeepsApart => Chosen' /\ UnderStacked' /\ AsMeant'
    PROVE  DialogInv'
<1>1. DialogTypeOK'
    BY SamePage DEF DialogInv, DialogTypeOK, PostRecord
<1> QED
    BY <1>1, SamePage DEF DialogInv

(* What is about something else stays so when dialogs close. *)
LEMMA ClosingTypes ==
    ASSUME DialogInv, NEW C \in SUBSET Dialog, CloseAll(C)
    PROVE  /\ raised' \subseteq Dialog
           /\ target' \in [{Variable(d) : d \in Dialog} -> Subject \cup {Nobody}]
           /\ picked' \in [Dialog -> Subject \cup {Nobody}]
BY DEF DialogInv, DialogTypeOK, CloseAll

(* No dialog that stays stands on one that closes. *)
Steady(C) == \A d \in raised \ C : Opened(d).stacks =>
                \A e \in Opened(d).from : e \in raised => e \notin C

LEMMA ClosingKeeps ==
    ASSUME DialogInv, KeepsApart, NEW C \in SUBSET Dialog, CloseAll(C), Steady(C), UNCHANGED host
    PROVE  Chosen' /\ UnderStacked'
<1>1. Chosen'
  <2> SUFFICES ASSUME NEW d \in raised'
               PROVE  picked'[d] \in Subject /\ target'[Variable(d)] = picked'[d]
      BY SamePage DEF Chosen
  <2>1. d \in Dialog /\ d \in raised /\ d \notin C
      BY DEF CloseAll, DialogInv, DialogTypeOK
  <2>2. picked'[d] = picked[d]
      BY <2>1 DEF CloseAll
  <2>3. Variable(d) \notin Cleared(C)
    <3> SUFFICES ASSUME NEW e \in C, Opened(e).at \notin {"kept", "page"}, Variable(d) = Variable(e)
                 PROVE  FALSE
        BY DEF Cleared
    <3>1. e \in Dialog /\ Variable(e) = e /\ e \notin {"page", "kept"}
        BY OwnVariables
    <3> QED
        BY <2>1, <3>1, OwnVariables
  <2>4. target'[Variable(d)] = TargetOf(d)
      BY <2>1, <2>3, VariablesOfPage DEF CloseAll, TargetOf
  <2> QED
      BY <2>1, <2>2, <2>4 DEF DialogInv, Chosen
<1>2. UnderStacked'
    BY SamePage DEF UnderStacked, Steady, CloseAll, DialogInv
<1> QED
    BY <1>1, <1>2

(* One that is on top has no other standing on it. *)
LEMMA TopSteady ==
    ASSUME DialogInv, KeepsApart, NEW d \in Dialog, OnTop(d)
    PROVE  Steady({d})
<1> SUFFICES ASSUME NEW x \in raised \ {d}, Opened(x).stacks, d \in Opened(x).from
             PROVE  FALSE
    BY DEF Steady
<1>1. x \in Dialog /\ Opened(x).at = "kept"
    BY DEF DialogInv, DialogTypeOK, Formed, FormedDialog, Opened, Dialog
<1>2. Known(x) /\ Known(d)
    BY <1>1 DEF DialogInv, Chosen, Known, OnTop, Shown
<1>3. Shown(x)
    BY <1>2 DEF Shown
<1> QED
    BY <1>1, <1>3 DEF OnTop

LEMMA TopIsAbout ==
    ASSUME DialogInv, NEW d \in Dialog, OnTop(d)
    PROVE  /\ d \in raised /\ TargetOf(d) \in Subject
           /\ KeepsApart => picked[d] = TargetOf(d)
BY DEF DialogInv, Chosen, OnTop, Shown, Known

LEMMA PickedType ==
    ASSUME DialogInv, NEW d \in Dialog PROVE picked[d] \in Subject \cup {Nobody}
BY DEF DialogInv, DialogTypeOK

-----------------------------------------------------------------------------
LEMMA DismissStep == ASSUME DialogInv, NEW d \in Dialog, Dismiss(d) PROVE DialogInv'
<1>1. CloseAll({d}) /\ UNCHANGED <<host, rows>> /\ Orphan(posted) /\ OnTop(d)
    BY DEF Dismiss
<1>2. rows' \in [Subject -> RowStates[host.kind]]
    BY <1>1 DEF DialogInv, DialogTypeOK
<1>3. KeepsApart => Chosen' /\ UnderStacked'
    BY <1>1, TopSteady, ClosingKeeps
<1> QED
    BY <1>1, <1>2, <1>3, ClosingTypes, OrphanPosted, PostsAfter, Assembled DEF DialogInv

LEMMA FailsStep == ASSUME DialogInv, NEW p \in Post, PostFails(p) PROVE DialogInv'
<1>1. /\ UNCHANGED <<host, rows, raised, target, picked>>
      /\ Orphan([posted EXCEPT ![p] = NoPost])
    BY DEF PostFails
<1>2. /\ rows' \in [Subject -> RowStates[host.kind]]
      /\ raised' \subseteq Dialog
      /\ target' \in [{Variable(d) : d \in Dialog} -> Subject \cup {Nobody}]
      /\ picked' \in [Dialog -> Subject \cup {Nobody}]
    BY <1>1 DEF DialogInv, DialogTypeOK
<1>3. KeepsApart => Chosen' /\ UnderStacked'
    BY <1>1, SamePage DEF DialogInv, Chosen, UnderStacked, TargetOf
<1> QED
    BY <1>1, <1>2, <1>3, OrphanAnswered, PostsAfter, Assembled DEF DialogInv

LEMMA SucceedsStep == ASSUME DialogInv, NEW p \in Post, PostSucceeds(p) PROVE DialogInv'
<1> DEFINE d == posted[p].by
           C == {d} \cup Opened(d).closes
<1>1. /\ p \in Posted /\ UNCHANGED <<host, rows>> /\ Orphan([posted EXCEPT ![p] = NoPost])
      /\ CloseAll(C) \/ UNCHANGED <<raised, target, picked>>
    BY DEF PostSucceeds
<1>2. d \in Dialog
    BY <1>1 DEF DialogInv, DialogTypeOK, Posted
<1>3. Opened(d).sends /\ C \in SUBSET Dialog
    BY <1>1, <1>2 DEF DialogInv, Senders, Formed, FormedDialog, Opened, Dialog
<1>4. rows' \in [Subject -> RowStates[host.kind]]
    BY <1>1 DEF DialogInv, DialogTypeOK
<1>5. /\ raised' \subseteq Dialog
      /\ target' \in [{Variable(x) : x \in Dialog} -> Subject \cup {Nobody}]
      /\ picked' \in [Dialog -> Subject \cup {Nobody}]
  <2>1. CASE CloseAll(C)
      BY <1>3, <2>1, ClosingTypes
  <2>2. CASE UNCHANGED <<raised, target, picked>>
      BY <2>2 DEF DialogInv, DialogTypeOK
  <2> QED
      BY <1>1, <2>1, <2>2
<1>6. ASSUME KeepsApart PROVE Chosen' /\ UnderStacked'
  <2>1. CASE CloseAll(C)
    <3>1. Steady(C)
      <4> SUFFICES ASSUME NEW x \in raised \ C, Opened(x).stacks,
                          NEW e \in Opened(x).from, e \in raised, e \in C
                   PROVE  FALSE
          BY DEF Steady
      <4>1. x \in Dialog /\ e \in Dialog
          BY DEF DialogInv, DialogTypeOK
      <4>2. e # d
          BY <1>2, <1>3, <4>1 DEF DialogInv, Formed, FormedDialog, Opened, Dialog
      <4>3. e \in Opened(d).closes
          BY <4>2
      <4> QED
          BY <1>2, <4>1, <4>3 DEF DialogInv, Formed, FormedDialog, Opened, Dialog
    <3> QED
        BY <1>1, <1>3, <1>6, <2>1, <3>1, ClosingKeeps
  <2>2. CASE UNCHANGED <<raised, target, picked>>
      BY <1>1, <1>6, <2>2, SamePage DEF DialogInv, Chosen, UnderStacked, TargetOf
  <2> QED
      BY <1>1, <2>1, <2>2
<1> QED
    BY <1>1, <1>4, <1>5, <1>6, OrphanAnswered, PostsAfter, Assembled DEF DialogInv

(* Where no dialog is shown none is raised that keeps its record in the    *)
(* variable that is not cleared.                                           *)
LEMMA NoneKept ==
    ASSUME DialogInv, KeepsApart, NoneShown, NEW x \in raised
    PROVE  Opened(x).at # "kept"
<1> SUFFICES ASSUME Opened(x).at = "kept" PROVE FALSE
    OBVIOUS
<1>1. x \in Dialog
    BY DEF DialogInv, DialogTypeOK
<1>2. Known(x)
    BY DEF DialogInv, Chosen, Known
<1>3. CASE Opened(x).stacks
  <2>1. PICK e \in Opened(x).from : e \in raised
      BY <1>3 DEF DialogInv, UnderStacked
  <2>2. e \in Dialog
      BY <2>1 DEF DialogInv, DialogTypeOK
  <2>3. Opened(e).at = "kept" /\ ~Opened(e).stacks
      BY <1>1, <1>3, <2>1, <2>2 DEF DialogInv, Formed, FormedDialog, Opened, Dialog
  <2>4. Known(e)
      BY <2>1, <2>3 DEF DialogInv, Chosen, Known
  <2> QED
      BY <2>2, <2>3, <2>4 DEF NoneShown, Shown
<1>4. CASE ~Opened(x).stacks
    BY <1>1, <1>2, <1>4 DEF NoneShown, Shown
<1> QED
    BY <1>3, <1>4

LEMMA ChooseStep ==
    ASSUME DialogInv, NEW d \in Dialog, NEW r \in Subject, Choose(d, r)
    PROVE  DialogInv'
<1>1. /\ NoneShown /\ "page" \in Opened(d).from
      /\ Opened(d).at = "page" => r = target["page"]
      /\ raised' = raised \cup {d}
      /\ target' = [target EXCEPT ![Variable(d)] = r]
      /\ picked' = [picked EXCEPT ![d] = r]
      /\ UNCHANGED <<host, rows>> /\ Orphan(posted)
    BY DEF Choose
<1>2. /\ rows' \in [Subject -> RowStates[host.kind]]
      /\ raised' \subseteq Dialog
      /\ target' \in [{Variable(x) : x \in Dialog} -> Subject \cup {Nobody}]
      /\ picked' \in [Dialog -> Subject \cup {Nobody}]
    BY <1>1 DEF DialogInv, DialogTypeOK
<1>3. ~Opened(d).stacks
    BY <1>1 DEF DialogInv, Formed, FormedDialog, Opened, Dialog
<1>4. ASSUME KeepsApart PROVE Chosen' /\ UnderStacked'
  <2>1. /\ target'[Variable(d)] = r /\ picked'[d] = r
        /\ \A x \in Dialog : Variable(x) # Variable(d) => target'[Variable(x)] = TargetOf(x)
        /\ \A x \in Dialog : x # d => picked'[x] = picked[x]
      BY <1>1, VariablesOfPage DEF TargetOf, DialogInv, DialogTypeOK
  <2>2. ASSUME NEW x \in raised, x # d
        PROVE  picked'[x] \in Subject /\ target'[Variable(x)] = picked'[x]
    <3>1. /\ x \in Dialog /\ picked[x] \in Subject /\ TargetOf(x) = picked[x]
          /\ Opened(x).at # "kept"
        BY <1>1, <1>4, NoneKept DEF DialogInv, DialogTypeOK, Chosen
    <3>2. CASE Variable(x) = Variable(d)
      <4>1. Opened(x).at = "page" /\ Opened(d).at = "page" /\ Variable(x) = "page"
          BY <1>4, <2>2, <3>1, <3>2, OwnVariables
      <4>2. r = TargetOf(x)
          BY <1>1, <4>1 DEF TargetOf
      <4> QED
          BY <2>1, <2>2, <3>1, <3>2, <4>2
    <3>3. CASE Variable(x) # Variable(d)
        BY <2>1, <2>2, <3>1, <3>3
    <3> QED
        BY <3>2, <3>3
  <2>3. Chosen'
      BY <1>1, <2>1, <2>2, SamePage DEF Chosen
  <2>4. UnderStacked'
      BY <1>1, <1>3, <1>4, SamePage DEF DialogInv, UnderStacked
  <2> QED
      BY <2>3, <2>4
<1> QED
    BY <1>1, <1>2, <1>4, OrphanPosted, PostsAfter, Assembled DEF DialogInv

LEMMA HandOverStep ==
    ASSUME DialogInv, NEW d \in Dialog, NEW e \in Dialog, HandOver(e, d)
    PROVE  DialogInv'
<1> DEFINE over == [target EXCEPT ![Variable(d)] = TargetOf(e)]
           closed == IF Opened(d).stacks THEN {} ELSE {e}
<1>1. /\ OnTop(e) /\ e \in Opened(d).from
      /\ raised' = (raised \ closed) \cup {d}
      /\ target' = [v \in DOMAIN target |-> IF v \in Cleared(closed) THEN Nobody ELSE over[v]]
      /\ picked' = [x \in Dialog |-> IF x = d THEN picked[e]
                                     ELSE IF x \in closed THEN Nobody ELSE picked[x]]
      /\ UNCHANGED <<host, rows>> /\ Orphan(posted)
    BY DEF HandOver
<1>2. e \in raised /\ TargetOf(e) \in Subject /\ (KeepsApart => picked[e] = TargetOf(e))
    BY <1>1, TopIsAbout
<1>3. over \in [{Variable(x) : x \in Dialog} -> Subject \cup {Nobody}]
    BY <1>2 DEF DialogInv, DialogTypeOK
<1>4. /\ rows' \in [Subject -> RowStates[host.kind]]
      /\ raised' \subseteq Dialog
      /\ target' \in [{Variable(x) : x \in Dialog} -> Subject \cup {Nobody}]
      /\ picked' \in [Dialog -> Subject \cup {Nobody}]
    BY <1>1, <1>3 DEF DialogInv, DialogTypeOK
<1>5. ASSUME KeepsApart PROVE Chosen' /\ UnderStacked'
  <2>0. /\ \A x \in Dialog : Variable(x) \in DOMAIN target
        /\ over[Variable(d)] = TargetOf(e)
        /\ \A x \in Dialog : Variable(x) # Variable(d) => over[Variable(x)] = TargetOf(x)
      BY VariablesOfPage DEF TargetOf
  <2> HIDE DEF over
  <2>1. CASE Opened(d).stacks
    <3>1. Opened(d).at = "kept" /\ Opened(e).at = "kept"
        BY <1>1, <2>1 DEF DialogInv, Formed, FormedDialog, Opened, Dialog
    <3>2. Variable(d) = Variable(e)
        BY <1>5, <3>1, OwnVariables
    <3>3. closed = {} /\ Cleared(closed) = {}
        BY <2>1 DEF Cleared
    <3>4. \A x \in Dialog : target'[Variable(x)] = TargetOf(x)
        BY <1>1, <2>0, <3>2, <3>3 DEF TargetOf
    <3>5. \A x \in Dialog : picked'[x] = IF x = d THEN TargetOf(e) ELSE picked[x]
        BY <1>1, <1>2, <1>5, <3>3
    <3>6. TargetOf(d) = TargetOf(e) /\ raised' = raised \cup {d}
        BY <1>1, <3>2, <3>3 DEF TargetOf
    <3>7. Chosen'
        BY <1>1, <1>2, <1>5, <3>4, <3>5, <3>6, SamePage DEF DialogInv, DialogTypeOK, Chosen
    <3>8. UnderStacked'
        BY <1>1, <1>2, <1>5, <3>6, SamePage DEF DialogInv, UnderStacked
    <3> QED
        BY <3>7, <3>8
  <2>2. CASE ~Opened(d).stacks
    <3>1. Opened(d).at = "own" /\ Opened(e).at = "own" /\ e # d
        BY <1>1, <2>2 DEF DialogInv, Formed, FormedDialog, Opened, Dialog
    <3>2. Variable(d) = d /\ Variable(e) = e
        BY <1>5, <3>1, OwnVariables
    <3>3. closed = {e} /\ Cleared(closed) = {e}
        BY <2>2, <3>1, <3>2 DEF Cleared
    <3>4. \A x \in Dialog : x # e => target'[Variable(x)] = over[Variable(x)]
      <4>1. \A x \in Dialog : x # e => Variable(x) # e
          BY <1>5, <3>2, OwnVariables
      <4> QED
          BY <1>1, <2>0, <3>3, <4>1
    <3>5. \A x \in Dialog : x # d => Variable(x) # Variable(d)
        BY <1>5, <3>2, OwnVariables
    <3>6. /\ \A x \in Dialog : x # e /\ x # d =>
                target'[Variable(x)] = TargetOf(x) /\ picked'[x] = picked[x]
          /\ target'[Variable(d)] = TargetOf(e) /\ picked'[d] = TargetOf(e)
        BY <1>1, <1>2, <1>5, <2>0, <3>1, <3>3, <3>4, <3>5
    <3>7. raised' = (raised \ {e}) \cup {d}
        BY <1>1, <3>3
    <3>8. Chosen'
      <4> SUFFICES ASSUME NEW x \in raised'
                   PROVE  picked'[x] \in Subject /\ target'[Variable(x)] = picked'[x]
          BY <1>1, SamePage DEF Chosen
      <4>1. CASE x = d
          BY <1>2, <3>6, <4>1
      <4>2. CASE x # d
        <5>1. x \in raised /\ x # e /\ x \in Dialog
            BY <3>7, <4>2 DEF DialogInv, DialogTypeOK
        <5> QED
            BY <1>5, <3>6, <4>2, <5>1 DEF DialogInv, Chosen
      <4> QED
          BY <4>1, <4>2
    <3>9. UnderStacked'
      <4> SUFFICES ASSUME NEW x \in raised', Opened(x).stacks
                   PROVE  \E y \in Opened(x).from : y \in raised'
          BY <1>1, SamePage DEF UnderStacked
      <4>1. x \in raised /\ x \in Dialog
          BY <2>2, <3>7 DEF DialogInv, DialogTypeOK
      <4>2. PICK y \in Opened(x).from : y \in raised
          BY <1>5, <4>1 DEF DialogInv, UnderStacked
      <4>3. y # e
          BY <3>1, <4>1, <4>2 DEF DialogInv, DialogTypeOK, Formed, FormedDialog, Opened, Dialog
      <4> QED
          BY <3>7, <4>2, <4>3
    <3> QED
        BY <3>8, <3>9
  <2> QED
      BY <2>1, <2>2
<1> QED
    BY <1>1, <1>4, <1>5, OrphanPosted, PostsAfter, Assembled DEF DialogInv

LEMMA ConfirmStep ==
    ASSUME DialogInv, NEW d \in Dialog, NEW p \in Post, Confirm(d, p)
    PROVE  DialogInv'
<1> DEFINE post == [by |-> d, about |-> TargetOf(d), meant |-> picked[d], own |-> TRUE]
           posts == [posted EXCEPT ![p] = post]
           gone == {x \in Dialog : Mounted(x)'}
<1>1. /\ OnTop(d) /\ Opened(d).sends
      /\ CloseAll({d}) \/ UNCHANGED <<raised, target, picked>>
      /\ UNCHANGED <<host, rows>>
    BY DEF Confirm
<1>2. posted' = OrphanedPosts(posts, gone)
    BY DEF Confirm, Orphan, OrphanedPosts
<1>3. TargetOf(d) \in Subject /\ picked[d] \in Subject \cup {Nobody}
    BY <1>1, TopIsAbout, PickedType
<1>4. post \in PostRecord
    BY <1>3 DEF PostRecord
<1>5. /\ posts \in [Post -> PostRecord \cup {NoPost}]
      /\ \A q \in Post : posts[q] = IF q = p THEN post ELSE posted[q]
    BY <1>4 DEF DialogInv, DialogTypeOK, PostRecord
<1>6. post.by = d /\ post.about = TargetOf(d) /\ post.meant = picked[d]
    OBVIOUS
<1> HIDE DEF gone, posts, post
<1>7. /\ posted' \in [Post -> PostRecord \cup {NoPost}]
      /\ \A q \in Post : q \in Posted' => q = p \/ q \in Posted
      /\ \A q \in Post : LET r == IF q = p THEN post ELSE posted[q]
                         IN  /\ posted'[q].by = r.by /\ posted'[q].about = r.about
                             /\ posted'[q].meant = r.meant
    BY <1>2, <1>5, OrphanKeeps DEF Posted
<1>8. Senders'
    BY <1>1, <1>6, <1>7, SamePage DEF DialogInv, Senders, Posted
<1>9. ASSUME KeepsApart PROVE AsMeant'
    BY <1>1, <1>6, <1>7, <1>9, TopIsAbout DEF DialogInv, AsMeant, Posted
<1>10. rows' \in [Subject -> RowStates[host.kind]]
    BY <1>1 DEF DialogInv, DialogTypeOK
<1>11. /\ raised' \subseteq Dialog
       /\ target' \in [{Variable(x) : x \in Dialog} -> Subject \cup {Nobody}]
       /\ picked' \in [Dialog -> Subject \cup {Nobody}]
  <2>1. CASE CloseAll({d})
      BY <2>1, ClosingTypes
  <2>2. CASE UNCHANGED <<raised, target, picked>>
      BY <2>2 DEF DialogInv, DialogTypeOK
  <2> QED
      BY <1>1, <2>1, <2>2
<1>12. ASSUME KeepsApart PROVE Chosen' /\ UnderStacked'
  <2>1. CASE CloseAll({d})
      BY <1>1, <1>12, <2>1, TopSteady, ClosingKeeps
  <2>2. CASE UNCHANGED <<raised, target, picked>>
      BY <1>1, <1>12, <2>2, SamePage DEF DialogInv, Chosen, UnderStacked, TargetOf
  <2> QED
      BY <1>1, <2>1, <2>2
<1> QED
    BY <1>1, <1>7, <1>8, <1>9, <1>10, <1>11, <1>12, Assembled

(* A request whose row is made anew is orphaned, and no more.              *)
LEMMA RowsChangeStep ==
    ASSUME DialogInv, NEW r \in Subject, NEW row \in RowStates[host.kind], RowsChange(r, row)
    PROVE  DialogInv'
<1> DEFINE inRows == {d \in Dialog : Opened(d).at = "row"}
           C == inRows \cap raised
           posts == [p \in Post |-> [posted[p] EXCEPT !.own = @ /\ posted[p].by \notin inRows]]
           gone == {x \in Dialog : Mounted(x)'}
<1>1. /\ rows' = [rows EXCEPT ![r] = row]
      /\ CloseAll(C) /\ UNCHANGED host
    BY DEF RowsChange
<1>2. posted' = OrphanedPosts(posts, gone)
    BY DEF RowsChange, Orphan, OrphanedPosts
<1>3. posted \in [Post -> PostRecord \cup {NoPost}]
    BY DEF DialogInv, DialogTypeOK, PostRecord
<1>4. posts = OrphanedPosts(posted, {posted[p].by : p \in Post} \ inRows)
  <2>1. \A p \in Post : posted[p].by \notin inRows
                        <=> posted[p].by \in {posted[q].by : q \in Post} \ inRows
      OBVIOUS
  <2> QED
      BY <2>1, Zenon DEF OrphanedPosts
<1> HIDE DEF posts, gone
<1>5. /\ posts \in [Post -> PostRecord \cup {NoPost}]
      /\ \A p \in Post : /\ (posts[p] # NoPost) <=> (posted[p] # NoPost)
                         /\ posts[p].by = posted[p].by /\ posts[p].about = posted[p].about
                         /\ posts[p].meant = posted[p].meant
    BY <1>3, <1>4, OrphanKeeps
<1>6. posted' \in [Post -> PostRecord \cup {NoPost}] /\ PostsKept
    BY <1>2, <1>5, OrphanKeeps DEF PostsKept, Posted
<1>7. rows' \in [Subject -> RowStates[host.kind]]
    BY <1>1 DEF DialogInv, DialogTypeOK
<1>8. ASSUME KeepsApart PROVE Chosen' /\ UnderStacked'
  <2>1. Steady(C)
    <3> SUFFICES ASSUME NEW x \in raised \ C, Opened(x).stacks, NEW e \in Opened(x).from,
                        e \in raised, e \in C
                 PROVE  FALSE
        BY DEF Steady
    <3> QED
        BY DEF DialogInv, DialogTypeOK, Formed, FormedDialog, Opened, Dialog
  <2> QED
      BY <1>1, <1>8, <2>1, ClosingKeeps
<1> QED
    BY <1>1, <1>6, <1>7, <1>8, ClosingTypes, PostsAfter, Assembled DEF DialogInv

LEMMA DialogInitInv == DialogInit => DialogInv
<1> SUFFICES ASSUME DialogInit PROVE DialogInv
    OBVIOUS
<1>1. PICK n \in HostNames : host = HostTable[n]
    BY DEF DialogInit
<1>2. Formed(host)
    BY <1>1, TablePages, DialogsAssumption
<1>3. raised = {} /\ Posted = {}
    BY DEF DialogInit, Posted
<1>4. \A d \in Dialog : Variable(d) \in {Variable(x) : x \in Dialog}
    OBVIOUS
<1>5. DialogTypeOK
  <2>1. target \in [{Variable(d) : d \in Dialog} -> Subject \cup {Nobody}]
      BY DEF DialogInit
  <2>2. picked \in [Dialog -> Subject \cup {Nobody}] /\ rows \in [Subject -> RowStates[host.kind]]
      BY DEF DialogInit
  <2>3. \A p \in Post : NoPost \in PostRecord \cup {NoPost}
      OBVIOUS
  <2>4. posted \in [Post -> PostRecord \cup {NoPost}]
      BY <2>3 DEF DialogInit
  <2> QED
      BY <1>1, <1>3, <2>1, <2>2, <2>4 DEF DialogTypeOK, PostRecord
<1> QED
    BY <1>2, <1>3, <1>5 DEF DialogInv, Senders, Chosen, UnderStacked, AsMeant

LEMMA DialogStepInv == DialogInv /\ [DialogNext]_dialogVars => DialogInv'
<1> SUFFICES ASSUME DialogInv, [DialogNext]_dialogVars PROVE DialogInv'
    OBVIOUS
<1>1. CASE UNCHANGED dialogVars
  <2>1. UNCHANGED <<host, rows, raised, target, picked, posted>>
      BY <1>1 DEF dialogVars
  <2>2. Posted' = Posted
      BY <2>1 DEF Posted
  <2>3. Senders' /\ (KeepsApart => Chosen' /\ UnderStacked' /\ AsMeant')
      BY <2>1, <2>2, SamePage
      DEF DialogInv, Senders, Chosen, UnderStacked, AsMeant, TargetOf
  <2> QED
      BY <2>1, <2>3, Assembled DEF DialogInv, DialogTypeOK, PostRecord
<1>2. CASE DialogNext
    BY <1>2, ChooseStep, HandOverStep, DismissStep, ConfirmStep, SucceedsStep, FailsStep,
       RowsChangeStep DEF DialogNext
<1> QED
    BY <1>1, <1>2

LEMMA InvActs == DialogInv => ActsOnChosen
<1> SUFFICES ASSUME DialogInv, KeepsApart
             PROVE  /\ \A d \in Dialog : Shown(d) => TargetOf(d) = picked[d]
                    /\ \A p \in Posted : posted[p].about = posted[p].meant
    BY DEF ActsOnChosen
<1> QED
    BY DEF DialogInv, Chosen, AsMeant, Shown, Known

(* ArrestsTab.tsx, LegalTab.tsx, the details: where dialogs do not share    *)
(* the variable of their record, whatever is chosen, handed over, closed    *)
(* and answered in between, a dialog that is shown and a request in flight  *)
(* are about the record the officer opened the dialog for.                  *)
THEOREM DialogsActOnChosen == DialogSpec => [](DialogTypeOK /\ ActsOnChosen)
<1>1. DialogInv => DialogTypeOK /\ ActsOnChosen
    BY InvActs DEF DialogInv
<1> QED
    BY DialogInitInv, DialogStepInv, <1>1, PTL DEF DialogSpec
-----------------------------------------------------------------------------
(* The screens together: a step of one leaves the variables of the others.  *)

LEMMA ScreenStep ==
    ASSUME [Next]_vars
    PROVE  /\ [FormNext]_formVars /\ [ListNext]_listVars
           /\ [WizardNext]_wizardVars /\ [DialogNext]_dialogVars
BY DEF Next, vars

ScreensInv == FormInv /\ PageInv /\ WizardInv /\ DialogInv

(* Every variable of the four modules keeps its type, for any of the        *)
(* screens, forms, lists and pages that a behaviour follows.                *)
THEOREM ScreensTyped == Spec => []ScreensTypeOK
<1>1. Init => ScreensInv
    BY FormInitInv, PageInit, WizardInitInv, DialogInitInv DEF Init, ScreensInv
<1>2. ScreensInv /\ [Next]_vars => ScreensInv'
    BY ScreenStep, FormStepInv, PageStep, WizardStepInv, DialogStepInv DEF ScreensInv
<1>3. ScreensInv => ScreensTypeOK
    BY DEF ScreensInv, ScreensTypeOK, FormInv, PageInv, WizardInv, DialogInv
<1> QED
    BY <1>1, <1>2, <1>3, PTL DEF Spec
=============================================================================
