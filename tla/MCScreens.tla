----------------------------- MODULE MCScreens -----------------------------
(***************************************************************************)
(* One screen at a time: a behaviour follows a form, a list, the wizard or *)
(* the dialogs of a page, and the others stay as they began.  None of them *)
(* reads the state of another, so that nothing is lost by not interleaving *)
(* them.                                                                   *)
(***************************************************************************)
EXTENDS Forms, Lists, CaseWizard, Dialogs

VARIABLE screen    \* what this behaviour follows

vars == <<screen, formVars, listVars, wizardVars, dialogVars>>

FormsAll == DOMAIN FormTable
ListsAll == DOMAIN ListTable
HostsAll == DOMAIN HostTable
TextHits == [t \in Text |-> IF t = "" THEN Row ELSE {11, 12}]

IdlePage == HostTable.InterrogationsTab

Init ==
    /\ screen \in {"form", "list", "wizard", "dialogs"}
    /\ FormInit /\ ListInit /\ WizardInit /\ DialogInit
    /\ screen # "form" => form = Drawer
    /\ screen # "list" => list = UrlList
    /\ screen # "dialogs" => host = IdlePage

Next ==
    \/ /\ screen = "form" /\ FormNext
       /\ UNCHANGED <<screen, listVars, wizardVars, dialogVars>>
    \/ /\ screen = "list" /\ ListNext
       /\ UNCHANGED <<screen, formVars, wizardVars, dialogVars>>
    \/ /\ screen = "wizard" /\ WizardNext
       /\ UNCHANGED <<screen, formVars, listVars, dialogVars>>
    \/ /\ screen = "dialogs" /\ DialogNext
       /\ UNCHANGED <<screen, formVars, listVars, wizardVars>>

Spec == Init /\ [][Next]_vars /\ ListFairness

(* Every variable of the four modules keeps its type. *)
ScreensTypeOK == FormTypeOK /\ ListTypeOK /\ WizardTypeOK /\ DialogTypeOK
=============================================================================
