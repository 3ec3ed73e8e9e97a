------------------------------- MODULE Lists -------------------------------
(***************************************************************************)
(* A list of records with its search box, filters, pages and selection, as *)
(* features/*/components has one for each kind of record.  The filters are *)
(* the parameters of the URL (nuqs); a list asks the service for the page  *)
(* they name and goes on showing the last answer until the next is there.  *)
(* All filters but the search are one switch, and sorting is left out: it  *)
(* changes neither what is listed nor the page.                            *)
(***************************************************************************)
EXTENDS Integers, FiniteSets

CONSTANTS
    Row,         \* the ids of the records, in the order of the list
    Text,        \* what can be in the search box, "" among it
    Hits,        \* the records that each text finds
    Narrowed,    \* the records that the other filters leave
    PageSize,    \* records on a page
    ListNames    \* the lists to look at

(* A list as it differs from the others. *)
UrlList ==
    [box      |-> "url",     \* the box shows the URL; debounced: it is copied
                             \* there after 300 ms; none: there is no box
     narrows  |-> TRUE,      \* it has filters besides the search
     defers   |-> FALSE,     \* filters change in transitions of React
     selects  |-> FALSE,     \* rows can be selected for a bulk request
     resolves |-> FALSE]     \* the request names rows found by their ids

Debounced(l) == [l EXCEPT !.box = "debounced", !.defers = TRUE]

CasesListView == [UrlList EXCEPT !.selects = TRUE]
OfficersList == UrlList
PersonsList == UrlList
DepartmentsList == UrlList
CrimeTypesList == UrlList
LocationsList == [UrlList EXCEPT !.narrows = FALSE]
GlobalAuditLog == UrlList
PersonCasesTable == [UrlList EXCEPT !.box = "none", !.narrows = FALSE]
EvidenceTab == [UrlList EXCEPT !.defers = TRUE, !.selects = TRUE]
ArrestsTab == Debounced(UrlList)
CourtCasesList == Debounced(UrlList)
InterrogationsTab == Debounced(UrlList)
ChargesTable == [Debounced(UrlList) EXCEPT !.selects = TRUE, !.resolves = TRUE]

ListTable ==
    [CasesListView |-> CasesListView, OfficersList |-> OfficersList,
     PersonsList |-> PersonsList, DepartmentsList |-> DepartmentsList,
     CrimeTypesList |-> CrimeTypesList, LocationsList |-> LocationsList,
     GlobalAuditLog |-> GlobalAuditLog, PersonCasesTable |-> PersonCasesTable,
     EvidenceTab |-> EvidenceTab, ArrestsTab |-> ArrestsTab,
     CourtCasesList |-> CourtCasesList, InterrogationsTab |-> InterrogationsTab,
     ChargesTable |-> ChargesTable]

(* The positions of rows on a page: table.getRowModel numbers them from 0, *)
(* and no id of a record is such a number.                                 *)
Position == 0..(PageSize - 1)

ASSUME ListsAssumption ==
    /\ Row \subseteq Nat /\ IsFiniteSet(Row) /\ Row \cap Position = {}
    /\ "" \in Text
    /\ Hits \in [Text -> SUBSET Row] /\ Hits[""] = Row
    /\ Narrowed \subseteq Row
    /\ PageSize \in Nat \ {0}
    /\ ListNames \subseteq DOMAIN ListTable

VARIABLES
    list,       \* the list of this behaviour
    box,        \* the text in the search box
    timer,      \* the 300 ms since the last change of the box still run
    filters,    \* the filters on the screen
    queued,     \* the filters a pending transition will show, or nothing
    records,    \* the records the service has
    table,      \* the last answer: the rows of the page, and how many in all
    ticked,     \* the positions of the selected rows
    chosen,     \* the records the officer selected by them
    bulk,       \* what the last bulk request named
    cleared     \* the officer cleared the search, and has not typed since

listVars == <<list, box, timer, filters, queued, records, table, ticked,
              chosen, bulk, cleared>>

Filters == [search : Text, narrow : BOOLEAN, page : Nat]
NoTransition == [search |-> "", narrow |-> FALSE, page |-> 0]
Waiting == queued # NoTransition

ListTypeOK ==
    /\ list \in {ListTable[n] : n \in ListNames}
    /\ box \in Text /\ timer \in BOOLEAN /\ cleared \in BOOLEAN
    /\ filters \in Filters /\ filters.page > 0
    /\ queued \in Filters
    /\ records \subseteq Row /\ chosen \subseteq Row
    /\ table.rows \subseteq Row /\ table.total \in Nat
    /\ Cardinality(table.rows) <= PageSize
    /\ ticked \subseteq Position
    /\ bulk \subseteq Row \cup Position

(* modules/*/service.py: the records a filter leaves, and those of a page. *)
Found(f) == records \cap Hits[f.search] \cap (IF f.narrow THEN Narrowed ELSE Row)
OnPage(f) ==
    LET before(r) == Cardinality({q \in Found(f) : q < r})
    IN  {r \in Found(f) : before(r) \div PageSize = f.page - 1}
Pages(total) ==
    IF total = 0 THEN 1 ELSE (total + PageSize - 1) \div PageSize

ListInit ==
    /\ \E n \in ListNames : list = ListTable[n]
    /\ box = ""
    /\ timer = (list.box = "debounced")
    /\ filters = [search |-> "", narrow |-> FALSE, page |-> 1]
    /\ queued = NoTransition
    /\ records = Row
    /\ table = [rows |-> {}, total |-> 0]
    /\ ticked = {} /\ chosen = {} /\ bulk = {}
    /\ cleared = FALSE

-----------------------------------------------------------------------------
(* A change of the filters.  In a transition it is added to what waits     *)
(* there; outside it is on the screen at once, and what waits is added to  *)
(* the new filters.  Effects of the debounced lists: a new search in the   *)
(* filters overwrites the box, and a change of either starts the timer.    *)
Wanted == IF Waiting THEN queued ELSE filters

Later(Patch(_)) ==
    /\ queued' = Patch(Wanted)
    /\ UNCHANGED filters

Now(Patch(_)) ==
    /\ filters' = Patch(filters)
    /\ queued' = IF Waiting THEN Patch(queued) ELSE queued

SetFilters(Patch(_)) == IF list.defers THEN Later(Patch) ELSE Now(Patch)

(* The box after its own change to `text', if there is one.  *)
BoxFollows(text) ==
    /\ box' = IF filters'.search # filters.search THEN filters'.search ELSE text
    /\ timer' = IF list.box = "debounced"
                   /\ (box' # box \/ filters'.search # filters.search)
                THEN TRUE ELSE timer

Screen == <<list, records, table, ticked, chosen, bulk>>

(* The officer *)

Type(text) ==
    LET Search(f) == [f EXCEPT !.search = text, !.page = 1]
    IN
    /\ list.box # "none" /\ text # box
    /\ IF list.box = "url" THEN Now(Search) ELSE UNCHANGED <<filters, queued>>
    /\ BoxFollows(text)
    /\ cleared' = FALSE
    /\ UNCHANGED Screen

(* Lists that change their filters in transitions change some outside of    *)
(* one: all of them but ChargesTable when a chip is removed, and            *)
(* EvidenceTab in two of its filters as well.                               *)
AtOnce == list = EvidenceTab \/ (filters.narrow /\ list # ChargesTable)

(* Mutant: the page stays. *)
NarrowOnPage ==
    LET Toggled(f) == [f EXCEPT !.narrow = ~filters.narrow]
    IN
    /\ list.narrows
    /\ SetFilters(Toggled) \/ (AtOnce /\ Now(Toggled))
    /\ BoxFollows(box)
    /\ UNCHANGED <<Screen, cleared>>

Narrow ==
    LET Toggled(f) == [f EXCEPT !.narrow = ~filters.narrow, !.page = 1]
    IN
    /\ list.narrows
    /\ SetFilters(Toggled) \/ (AtOnce /\ Now(Toggled))
    /\ BoxFollows(box)
    /\ UNCHANGED <<Screen, cleared>>

(* The chip of the search is removed, outside of a transition. *)
RemoveSearch ==
    LET Unsearched(f) == [f EXCEPT !.search = "", !.page = 1]
    IN
    /\ filters.search # ""
    /\ Now(Unsearched)
    /\ BoxFollows("")
    /\ cleared' = TRUE
    /\ UNCHANGED Screen

(* Mutant: the text stays in a debounced box. *)
ClearAllButBox ==
    LET Clean(f) == [search |-> "", narrow |-> FALSE, page |-> 1]
    IN
    /\ filters.search # "" \/ filters.narrow
    /\ SetFilters(Clean)
    /\ BoxFollows(box)
    /\ cleared' = TRUE
    /\ UNCHANGED Screen

ClearAllFilters ==
    LET Clean(f) == [search |-> "", narrow |-> FALSE, page |-> 1]
    IN
    /\ filters.search # "" \/ filters.narrow
    /\ SetFilters(Clean)
    /\ BoxFollows(IF list.box = "debounced" THEN "" ELSE box)
    /\ cleared' = TRUE
    /\ UNCHANGED Screen

(* TablePagination: the number of pages is that of the last answer. *)
Turn(page) ==
    LET Turned(f) == [f EXCEPT !.page = page]
    IN
    /\ table.total > 0
    /\ SetFilters(Turned)
    /\ BoxFollows(box)
    /\ UNCHANGED <<Screen, cleared>>

NextPage == filters.page < Pages(table.total) /\ Turn(filters.page + 1)
PreviousPage == filters.page > 1 /\ Turn(filters.page - 1)

(* A row is known to the selection by its position in the table, for lists *)
(* give the table no getRowId; the selection stays when the rows change.   *)
At(position) ==
    {r \in table.rows : Cardinality({q \in table.rows : q < r}) = position}

Tick(position) ==
    /\ list.selects
    /\ position \notin ticked /\ At(position) # {}
    /\ ticked' = ticked \cup {position}
    /\ chosen' = chosen \cup At(position)
    /\ UNCHANGED <<list, box, timer, filters, queued, records, table, bulk,
                   cleared>>

ClearSelection ==
    /\ ticked # {}
    /\ ticked' = {} /\ chosen' = {}
    /\ UNCHANGED <<list, box, timer, filters, queued, records, table, bulk,
                   cleared>>

Targets == IF list.resolves THEN ticked \cap table.rows ELSE ticked

BulkRequest ==
    /\ Targets # {}
    /\ bulk' = Targets
    /\ ticked' = {} /\ chosen' = {}
    /\ UNCHANGED <<list, box, timer, filters, queued, records, table, cleared>>

-----------------------------------------------------------------------------
(* The browser and the service *)

(* Mutant: nothing is copied while a transition is pending. *)
FireUnlessPending ==
    LET Search(f) == [f EXCEPT !.search = box, !.page = 1]
    IN
    /\ timer
    /\ timer' = FALSE
    /\ IF box = filters.search \/ Waiting
       THEN UNCHANGED <<filters, queued>> ELSE Later(Search)
    /\ UNCHANGED <<Screen, box, cleared>>

Fire ==
    LET Search(f) == [f EXCEPT !.search = box, !.page = 1]
    IN
    /\ timer
    /\ timer' = FALSE
    /\ IF box = filters.search THEN UNCHANGED <<filters, queued>> ELSE Later(Search)
    /\ UNCHANGED <<Screen, box, cleared>>

Commit ==
    /\ Waiting
    /\ filters' = queued
    /\ queued' = NoTransition
    /\ BoxFollows(box)
    /\ UNCHANGED <<Screen, cleared>>

Answer ==
    /\ table' = [rows |-> OnPage(filters), total |-> Cardinality(Found(filters))]
    /\ UNCHANGED <<list, box, timer, filters, queued, records, ticked, chosen,
                   bulk, cleared>>

RecordsChange(r) ==
    /\ records' = IF r \in records THEN records \ {r} ELSE records \cup {r}
    /\ UNCHANGED <<list, box, timer, filters, queued, table, ticked, chosen,
                   bulk, cleared>>

ListNext ==
    \/ \E text \in Text : Type(text)
    \/ Narrow \/ RemoveSearch \/ ClearAllFilters \/ NextPage \/ PreviousPage
    \/ \E p \in Position : Tick(p)
    \/ ClearSelection \/ BulkRequest
    \/ Fire \/ Commit \/ Answer
    \/ \E r \in Row : RecordsChange(r)

ListSpec == ListInit /\ [][ListNext]_listVars

(* The timer fires and React commits its transitions. *)
ListFairness == WF_listVars(Fire) /\ WF_listVars(Commit)

-----------------------------------------------------------------------------
(* Properties *)

(* The two effects of the debounced lists (ArrestsTab.tsx:60-71): a text   *)
(* that is left in the box is what the list searches for from some time on.*)
SearchSettles ==
    \A text \in Text : <>[](box = text) => <>[](filters.search = text)

(* clearAllFilters and the chips (ArrestsTab.tsx:133, :271): a search that *)
(* was cleared does not come back by a timer or a transition that was on   *)
(* its way, until the officer types again.                                 *)
ClearedStaysClear == cleared => Wanted.search = ""

Beyond == filters.page > Pages(Cardinality(Found(filters)))

(* The setters of the filters, all with page 1: the page on the screen     *)
(* goes past the last one only if records went, or if it was turned, on    *)
(* the page count of an answer to other filters.                           *)
PageExists ==
    [][(~Beyond /\ Beyond' /\ records \subseteq records')
        => filters'.page # filters.page]_listVars

(* Instruction.md:245, the bulk actions: what a bulk request names was     *)
(* selected by the officer.                                                *)
BulkTargets == [][bulk' # bulk => bulk' \subseteq chosen]_listVars
=============================================================================
