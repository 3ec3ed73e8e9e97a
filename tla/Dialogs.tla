------------------------------ MODULE Dialogs ------------------------------
(***************************************************************************)
(* A page of HostTable.  Which of its dialogs are raised, and which record *)
(* each is about, is state of the page; a dialog is shown if it is raised  *)
(* and its record is known.  When a request succeeds, the dialog that sent *)
(* it closes itself, whatever the page shows by then.  What happens inside *)
(* of a dialog is in Forms.                                                *)
(***************************************************************************)
EXTENDS HostTable

CONSTANTS
    Subject,     \* records
    Nobody,      \* no record
    Post,        \* the requests that may be in flight together
    HostNames    \* the pages to look at

ASSUME DialogsAssumption ==
    /\ Nobody \notin Subject
    /\ HostNames \subseteq DOMAIN HostTable

VARIABLES
    host,      \* the page of this behaviour
    rows,      \* the states of the records
    raised,    \* the dialogs that are raised
    target,    \* what the variables of the page name
    picked,    \* for each dialog the record the officer last opened it for
    posted     \* requests in flight

dialogVars == <<host, rows, raised, target, picked, posted>>

Dialog == DOMAIN host.dialogs
Opened(d) == host.dialogs[d]

(* The variable that says what record a dialog is about. *)
Variable(d) == IF Opened(d).at \in {"own", "row"} THEN d ELSE Opened(d).at
TargetOf(d) == target[Variable(d)]

(* A dialog whose record is looked up among the rows goes with it, and one *)
(* that is part of another dialog goes with that.                          *)
Known(d) == /\ d \in raised
            /\ TargetOf(d) \in Subject
            /\ Opened(d).at = "own" => rows[TargetOf(d)] # "gone"
Shown(d) == Known(d) /\ (Opened(d).stacks => \E e \in Opened(d).from : Known(e))
OnTop(d) == Shown(d) /\ ~\E e \in Dialog : Shown(e) /\ Opened(e).stacks /\ d \in Opened(e).from
NoneShown == \A d \in Dialog : ~Shown(d)

Status(r) == mapItem(host.kind, rows[r])

NoPost == [by |-> "", about |-> Nobody, meant |-> Nobody, own |-> FALSE]
Posted == {p \in Post : posted[p] # NoPost}

DialogTypeOK ==
    /\ host \in {HostTable[n] : n \in HostNames}
    /\ rows \in [Subject -> RowStates[host.kind]]
    /\ raised \subseteq Dialog
    /\ target \in [{Variable(d) : d \in Dialog} -> Subject \cup {Nobody}]
    /\ picked \in [Dialog -> Subject \cup {Nobody}]
    /\ posted \in [Post -> [by : Dialog, about : Subject,
                            meant : Subject \cup {Nobody}, own : BOOLEAN]
                           \cup {NoPost}]

DialogInit ==
    /\ \E n \in HostNames : host = HostTable[n]
    /\ rows \in [Subject -> RowStates[host.kind]]
    /\ raised = {}
    /\ \E r \in Subject :
          target = [v \in {Variable(d) : d \in Dialog} |->
                      IF v = "page" THEN r ELSE Nobody]
    /\ picked = [d \in Dialog |-> Nobody]
    /\ posted = [p \in Post |-> NoPost]

-----------------------------------------------------------------------------
(* Closing a dialog, as its onClose or onOpenChange does it. *)
Cleared(dialogs) == {Variable(d) : d \in {e \in dialogs : Opened(e).at \notin {"kept", "page"}}}

CloseAll(dialogs) ==
    /\ raised' = raised \ dialogs
    /\ target' = [v \in DOMAIN target |-> IF v \in Cleared(dialogs) THEN Nobody ELSE target[v]]
    /\ picked' = [d \in Dialog |-> IF d \in dialogs THEN Nobody ELSE picked[d]]

(* The hook of a request tells a dialog that is unmounted no more. *)
Mounted(d) ==
    /\ Opened(d).sends
    /\ FormTable[d].stays \/ FormTable[d].hook = "parent" \/ Shown(d)
Orphan(posts) ==
    LET mounted == {d \in Dialog : Mounted(d)'}
    IN  posted' = [p \in Post |-> [posts[p] EXCEPT !.own = @ /\ posts[p].by \in mounted]]

(* Mutant: a dialog that is shown does not keep the page from opening one. *)
ChooseBehind(d, r) ==
    /\ "page" \in Opened(d).from
    /\ Opened(d).at = "page" => r = target["page"]
    /\ Status(r) \in Opened(d).offered \ {"gone"}
    /\ raised' = raised \cup {d}
    /\ target' = [target EXCEPT ![Variable(d)] = r]
    /\ picked' = [picked EXCEPT ![d] = r]
    /\ UNCHANGED <<host, rows>>
    /\ Orphan(posted)

(* The officer opens a dialog on the page, where none is in the way. *)
Choose(d, r) ==
    /\ NoneShown
    /\ "page" \in Opened(d).from
    /\ Opened(d).at = "page" => r = target["page"]
    /\ Status(r) \in Opened(d).offered \ {"gone"}
    /\ raised' = raised \cup {d}
    /\ target' = [target EXCEPT ![Variable(d)] = r]
    /\ picked' = [picked EXCEPT ![d] = r]
    /\ UNCHANGED <<host, rows>>
    /\ Orphan(posted)

(* A dialog opens another for its own record. *)
HandOver(e, d) ==
    LET over == [target EXCEPT ![Variable(d)] = TargetOf(e)]
        closed == IF Opened(d).stacks THEN {} ELSE {e}
    IN
    /\ OnTop(e)
    /\ e \in Opened(d).from
    /\ raised' = (raised \ closed) \cup {d}
    /\ target' = [v \in DOMAIN target |-> IF v \in Cleared(closed) THEN Nobody ELSE over[v]]
    /\ picked' = [x \in Dialog |-> IF x = d THEN picked[e]
                                   ELSE IF x \in closed THEN Nobody ELSE picked[x]]
    /\ UNCHANGED <<host, rows>>
    /\ Orphan(posted)

Dismiss(d) ==
    /\ OnTop(d)
    /\ CloseAll({d})
    /\ UNCHANGED <<host, rows>>
    /\ Orphan(posted)

(* A dialog that is over when it is confirmed is closed by the same click. *)
Confirm(d, p) ==
    /\ OnTop(d)
    /\ Opened(d).sends
    /\ p \notin Posted
    /\ \A q \in Posted : ~(posted[q].by = d /\ posted[q].own)
    /\ IF FormTable[d].shuts THEN CloseAll({d}) ELSE UNCHANGED <<raised, target, picked>>
    /\ UNCHANGED <<host, rows>>
    /\ Orphan([posted EXCEPT ![p] = [by |-> d, about |-> TargetOf(d),
                                     meant |-> picked[d], own |-> TRUE]])

(* The code that awaited the request closes its dialog and, for some,      *)
(* others; a callback of the hook is dropped with its component.           *)
PostSucceeds(p) ==
    LET d == posted[p].by IN
    /\ p \in Posted
    /\ IF FormTable[d].success = "close" \/ posted[p].own
       THEN CloseAll({d} \cup Opened(d).closes)
       ELSE UNCHANGED <<raised, target, picked>>
    /\ UNCHANGED <<host, rows>>
    /\ Orphan([posted EXCEPT ![p] = NoPost])

PostFails(p) ==
    /\ p \in Posted
    /\ UNCHANGED <<host, rows, raised, target, picked>>
    /\ Orphan([posted EXCEPT ![p] = NoPost])

(* The list is read again.  Its columns are made anew, and with them the   *)
(* menus of its rows, so that their dialogs and hooks are gone.            *)
RowsChange(r, row) ==
    LET inRows == {d \in Dialog : Opened(d).at = "row"} IN
    /\ row \in RowStates[host.kind]
    /\ rows' = [rows EXCEPT ![r] = row]
    /\ CloseAll(inRows \cap raised)
    /\ UNCHANGED host
    /\ Orphan([p \in Post |-> [posted[p] EXCEPT !.own = @ /\ posted[p].by \notin inRows]])

DialogNext ==
    \/ \E d \in Dialog : \/ \E r \in Subject : Choose(d, r)
                         \/ \E e \in Dialog : HandOver(e, d)
                         \/ Dismiss(d)
                         \/ \E p \in Post : Confirm(d, p)
    \/ \E p \in Post : PostSucceeds(p) \/ PostFails(p)
    \/ \E r \in Subject : \E row \in RowStates[host.kind] : RowsChange(r, row)

DialogSpec == DialogInit /\ [][DialogNext]_dialogVars

-----------------------------------------------------------------------------
(* Properties *)

(* OfficersList.tsx and DepartmentsList.tsx: closing a dialog clears the   *)
(* record of all of them, so that one that a late answer leaves without a  *)
(* record is shown again for the next that is chosen, whatever for.        *)
KeepsApart == \A d \in Dialog : Opened(d).at # "shared"

(* The pages with dialogs of their own records (ArrestsTab, LegalTab, the  *)
(* details): a dialog is shown for the record it was opened for, and a     *)
(* request names that one, whatever answers come in between.               *)
ActsOnChosen ==
    KeepsApart =>
       /\ \A d \in Dialog : Shown(d) => TargetOf(d) = picked[d]
       /\ \A p \in Posted : posted[p].about = posted[p].meant
=============================================================================
