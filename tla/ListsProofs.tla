----------------------------- MODULE ListsProofs -----------------------------
(* Proofs about Lists: for every list of ListTable, any texts and records.  *)
EXTENDS Lists, FiniteSetTheorems, TLAPS

ListShape == [box : {"url", "debounced", "none"}, narrows : BOOLEAN, defers : BOOLEAN,
              selects : BOOLEAN, resolves : BOOLEAN]

(* Every list with a debounced box changes its filters in transitions. *)
Deferring == {l \in ListShape : l.box = "debounced" => l.defers}

LEMMA BaseDeferring == UrlList \in Deferring /\ UrlList.box = "url"
BY DEF UrlList, Deferring, ListShape

LEMMA ModifiersDeferring ==
    ASSUME NEW l \in Deferring
    PROVE  /\ Debounced(l) \in Deferring
           /\ [l EXCEPT !.selects = TRUE] \in Deferring
           /\ [l EXCEPT !.narrows = FALSE] \in Deferring
           /\ [l EXCEPT !.box = "none", !.narrows = FALSE] \in Deferring
           /\ [l EXCEPT !.defers = TRUE, !.selects = TRUE] \in Deferring
           /\ [l EXCEPT !.selects = TRUE, !.resolves = TRUE] \in Deferring
BY DEF Debounced, Deferring, ListShape

LEMMA TableLists == \A n \in DOMAIN ListTable : ListTable[n] \in Deferring
<1>1. {CasesListView, OfficersList, PersonsList, DepartmentsList, CrimeTypesList,
       LocationsList, GlobalAuditLog, PersonCasesTable, EvidenceTab} \subseteq Deferring
  BY BaseDeferring, ModifiersDeferring
  DEF CasesListView, OfficersList, PersonsList, DepartmentsList, CrimeTypesList,
      LocationsList, GlobalAuditLog, PersonCasesTable, EvidenceTab
<1>2. Debounced(UrlList) \in Deferring
  BY BaseDeferring, ModifiersDeferring
<1>3. {ArrestsTab, CourtCasesList, InterrogationsTab, ChargesTable} \subseteq Deferring
  BY <1>2, ModifiersDeferring DEF ArrestsTab, CourtCasesList, InterrogationsTab, ChargesTable
<1>. QED
  BY <1>1, <1>3 DEF ListTable

(* Filters have a page, so that filters that wait are told from none; the   *)
(* timer is that of a debounced box; and after a clear neither the filters, *)
(* nor those that wait, nor a box that will be copied there hold a text.    *)
ClearInv ==
    /\ list \in Deferring
    /\ filters \in Filters /\ filters.page > 0
    /\ queued \in Filters /\ (Waiting => queued.page > 0)
    /\ box \in Text
    /\ (timer => list.box = "debounced")
    /\ (cleared => Wanted.search = "")
    /\ (cleared /\ list.box = "debounced" => box = "")

Paged(f) == f \in Filters /\ f.page > 0

LEMMA CleanPaged ==
    /\ "" \in Text
    /\ Paged([search |-> "", narrow |-> FALSE, page |-> 1])
<1>1. "" \in Text
  BY ListsAssumption
<1>2. \A text \in Text : [search |-> text, narrow |-> FALSE, page |-> 1] \in Filters
  BY DEF Filters
<1>3. [search |-> "", narrow |-> FALSE, page |-> 1].page > 0
  OBVIOUS
<1>. QED
  BY <1>1, <1>2, <1>3 DEF Paged

LEMMA ClearInit == ListInit => ClearInv
<1>. SUFFICES ASSUME ListInit PROVE ClearInv
  OBVIOUS
<1>1. list \in Deferring
  BY TableLists, ListsAssumption DEF ListInit
<1>2. filters \in Filters /\ filters.page > 0
  <2>1. filters = [search |-> "", narrow |-> FALSE, page |-> 1]
    BY DEF ListInit
  <2>. QED
    BY <2>1, CleanPaged DEF Paged
<1>3. queued \in Filters /\ ~Waiting
  BY ListsAssumption DEF ListInit, Filters, Waiting, NoTransition
<1>4. box \in Text /\ ~cleared /\ (timer => list.box = "debounced")
  BY ListsAssumption DEF ListInit
<1>. QED
  BY <1>1, <1>2, <1>3, <1>4 DEF ClearInv
-----------------------------------------------------------------------------
(* What a change of the filters does to the wanted ones, by what it does    *)
(* to the search of any filters.                                            *)
LEMMA PagedWaits == ASSUME NEW f, Paged(f) PROVE f # NoTransition
<1>1. NoTransition.page = 0
  BY DEF NoTransition
<1>. QED
  BY <1>1 DEF Paged

LEMMA NarrowedPaged ==
    ASSUME NEW f, Paged(f), NEW b \in BOOLEAN
    PROVE  /\ Paged([f EXCEPT !.narrow = b, !.page = 1])
           /\ [f EXCEPT !.narrow = b, !.page = 1].search = f.search
<1>. DEFINE g == [f EXCEPT !.narrow = b, !.page = 1]
<1>1. g \in Filters
  BY DEF Paged, Filters
<1>2. g.page = 1 /\ g.search = f.search
  BY DEF Paged, Filters
<1>. QED
  BY <1>1, <1>2 DEF Paged

LEMMA SearchedPaged ==
    ASSUME NEW f, Paged(f), NEW text \in Text
    PROVE  /\ Paged([f EXCEPT !.search = text, !.page = 1])
           /\ [f EXCEPT !.search = text, !.page = 1].search = text
<1>. DEFINE g == [f EXCEPT !.search = text, !.page = 1]
<1>1. g \in Filters
  BY DEF Paged, Filters
<1>2. g.page = 1 /\ g.search = text
  BY DEF Paged, Filters
<1>. QED
  BY <1>1, <1>2 DEF Paged

LEMMA WantedPaged == ClearInv => Paged(Wanted) /\ Paged(filters)
BY DEF ClearInv, Wanted, Paged

(* A step in which filters and those that wait come to `shown' and `next'.  *)
LEMMA FiltersKept ==
    ASSUME ClearInv, UNCHANGED list, Paged(filters'),
           queued' = NoTransition \/ Paged(queued'),
           box' \in Text, timer' => list.box = "debounced",
           cleared' => Wanted'.search = "",
           cleared' /\ list.box = "debounced" => box' = ""
    PROVE  ClearInv'
<1>1. NoTransition \in Filters
  BY ListsAssumption DEF NoTransition, Filters
<1>. QED
  BY <1>1 DEF ClearInv, Paged, Waiting

(* The box after a step: the new search if there is one, or the text it was *)
(* given; and a timer only for a debounced box.                             *)
LEMMA BoxAfter ==
    ASSUME ClearInv, NEW text \in Text, BoxFollows(text), Paged(filters')
    PROVE  /\ box' \in Text /\ (timer' => list.box = "debounced")
           /\ filters'.search = filters.search => box' = text
           /\ filters'.search # filters.search => box' = filters'.search
BY DEF BoxFollows, ClearInv, Paged, Filters

LEMMA NarrowStep == ASSUME ClearInv, Narrow PROVE ClearInv'
<1>. DEFINE T(f) == [f EXCEPT !.narrow = ~filters.narrow, !.page = 1]
<1>1. ASSUME NEW f, Paged(f) PROVE Paged(T(f)) /\ T(f).search = f.search
  <2>1. (~filters.narrow) = TRUE \/ (~filters.narrow) = FALSE
    OBVIOUS
  <2>. QED
    BY <1>1, <2>1, NarrowedPaged
<1>2. /\ UNCHANGED <<list, cleared>> /\ BoxFollows(box)
      /\ \/ queued' = T(Wanted) /\ UNCHANGED filters
         \/ filters' = T(filters) /\ queued' = IF Waiting THEN T(queued) ELSE queued
  BY DEF Narrow, SetFilters, Later, Now, Screen
<1>. HIDE DEF T
<1>3. Paged(filters') /\ filters'.search = filters.search
  BY <1>1, <1>2, WantedPaged
<1>4. queued' = NoTransition \/ Paged(queued')
  BY <1>1, <1>2, WantedPaged DEF Waiting, Wanted
<1>5. Wanted'.search = Wanted.search
  BY <1>1, <1>2, WantedPaged, PagedWaits DEF Waiting, Wanted
<1>6. box' = box /\ box \in Text /\ (timer' => list.box = "debounced")
  BY <1>2, <1>3, BoxAfter DEF ClearInv
<1>. QED
  BY <1>2, <1>3, <1>4, <1>5, <1>6, FiltersKept DEF ClearInv

LEMMA TurnStep == ASSUME ClearInv, NEW n \in Nat, n > 0, Turn(n) PROVE ClearInv'
<1>. DEFINE T(f) == [f EXCEPT !.page = n]
<1>1. ASSUME NEW f, Paged(f) PROVE Paged(T(f)) /\ T(f).search = f.search
  BY <1>1 DEF Paged, Filters
<1>2. /\ UNCHANGED <<list, cleared>> /\ BoxFollows(box)
      /\ \/ queued' = T(Wanted) /\ UNCHANGED filters
         \/ filters' = T(filters) /\ queued' = IF Waiting THEN T(queued) ELSE queued
  BY DEF Turn, SetFilters, Later, Now, Screen
<1>. HIDE DEF T
<1>3. Paged(filters') /\ filters'.search = filters.search
  BY <1>1, <1>2, WantedPaged
<1>4. queued' = NoTransition \/ Paged(queued')
  BY <1>1, <1>2, WantedPaged DEF Waiting, Wanted
<1>5. Wanted'.search = Wanted.search
  BY <1>1, <1>2, WantedPaged, PagedWaits DEF Waiting, Wanted
<1>6. box' = box /\ box \in Text /\ (timer' => list.box = "debounced")
  BY <1>2, <1>3, BoxAfter DEF ClearInv
<1>. QED
  BY <1>2, <1>3, <1>4, <1>5, <1>6, FiltersKept DEF ClearInv

LEMMA TypeStep == ASSUME ClearInv, NEW text \in Text, Type(text) PROVE ClearInv'
<1>. DEFINE T(f) == [f EXCEPT !.search = text, !.page = 1]
<1>1. ASSUME NEW f, Paged(f) PROVE Paged(T(f))
  BY <1>1, SearchedPaged
<1>2. /\ UNCHANGED list /\ BoxFollows(text) /\ cleared' = FALSE
      /\ \/ UNCHANGED <<filters, queued>>
         \/ filters' = T(filters) /\ queued' = IF Waiting THEN T(queued) ELSE queued
  BY DEF Type, Now, Screen
<1>. HIDE DEF T
<1>3. Paged(filters')
  BY <1>1, <1>2, WantedPaged
<1>4. queued' = NoTransition \/ Paged(queued')
  BY <1>1, <1>2, WantedPaged DEF Waiting, Wanted
<1>5. box' \in Text /\ (timer' => list.box = "debounced")
  BY <1>2, <1>3, BoxAfter DEF Paged, Filters
<1>. QED
  BY <1>2, <1>3, <1>4, <1>5, FiltersKept

LEMMA RemoveSearchStep == ASSUME ClearInv, RemoveSearch PROVE ClearInv'
<1>. DEFINE T(f) == [f EXCEPT !.search = "", !.page = 1]
<1>1. ASSUME NEW f, Paged(f) PROVE Paged(T(f)) /\ T(f).search = ""
  BY <1>1, SearchedPaged, CleanPaged
<1>2. /\ UNCHANGED list /\ BoxFollows("")
      /\ filters' = T(filters) /\ queued' = IF Waiting THEN T(queued) ELSE queued
  BY DEF RemoveSearch, Now, Screen
<1>. HIDE DEF T
<1>3. Paged(filters') /\ filters'.search = ""
  BY <1>1, <1>2, WantedPaged
<1>4. queued' = NoTransition \/ Paged(queued')
  BY <1>1, <1>2, WantedPaged DEF Waiting, Wanted
<1>5. Wanted'.search = ""
  BY <1>1, <1>2, <1>3, WantedPaged, PagedWaits DEF Waiting, Wanted
<1>6. box' = "" /\ "" \in Text /\ (timer' => list.box = "debounced")
  BY <1>2, <1>3, BoxAfter, ListsAssumption
<1>. QED
  BY <1>2, <1>3, <1>4, <1>5, <1>6, FiltersKept

LEMMA ClearAllStep == ASSUME ClearInv, ClearAllFilters PROVE ClearInv'
<1>. DEFINE clean == [search |-> "", narrow |-> FALSE, page |-> 1]
<1>1. Paged(clean) /\ clean.search = ""
  BY CleanPaged
<1>2. /\ UNCHANGED list
      /\ BoxFollows(IF list.box = "debounced" THEN "" ELSE box)
      /\ \/ queued' = clean /\ UNCHANGED filters
         \/ filters' = clean /\ queued' = IF Waiting THEN clean ELSE queued
  BY DEF ClearAllFilters, SetFilters, Later, Now, Screen
<1>. HIDE DEF clean
<1>3. Paged(filters')
  BY <1>1, <1>2, WantedPaged
<1>4. queued' = NoTransition \/ Paged(queued')
  BY <1>1, <1>2, WantedPaged DEF Waiting, Wanted
<1>5. Wanted'.search = ""
  BY <1>1, <1>2, <1>3, WantedPaged, PagedWaits DEF Waiting, Wanted
<1>6. "" \in Text /\ box \in Text
  BY ListsAssumption DEF ClearInv
<1>7. /\ box' \in Text /\ (timer' => list.box = "debounced")
      /\ (list.box = "debounced" => box' = "")
  <2>1. CASE list.box = "debounced"
    <3>1. BoxFollows("")
      BY <1>2, <2>1
    <3>2. filters'.search = filters.search \/ filters'.search = ""
      BY <1>1, <1>2
    <3>. QED
      BY <1>3, <1>6, <2>1, <3>1, <3>2, BoxAfter
  <2>2. CASE list.box # "debounced"
    <3>1. BoxFollows(box)
      BY <1>2, <2>2
    <3>. QED
      BY <1>3, <1>6, <2>2, <3>1, BoxAfter DEF Paged, Filters
  <2>. QED
    BY <2>1, <2>2
<1>. QED
  BY <1>2, <1>3, <1>4, <1>5, <1>7, FiltersKept

LEMMA FireStep == ASSUME ClearInv, Fire PROVE ClearInv'
<1>. DEFINE T(f) == [f EXCEPT !.search = box, !.page = 1]
<1>1. ASSUME NEW f, Paged(f) PROVE Paged(T(f)) /\ T(f).search = box
  BY <1>1, SearchedPaged DEF ClearInv
<1>2. /\ UNCHANGED <<list, box, cleared, filters>> /\ timer /\ timer' = FALSE
      /\ queued' = queued \/ queued' = T(Wanted)
  BY DEF Fire, Later, Screen
<1>. HIDE DEF T
<1>3. Paged(filters') /\ (queued' = NoTransition \/ Paged(queued'))
  BY <1>1, <1>2, WantedPaged DEF Waiting, Wanted
<1>4. Wanted'.search = Wanted.search \/ Wanted'.search = box
  BY <1>1, <1>2, WantedPaged, PagedWaits DEF Waiting, Wanted
<1>. QED
  BY <1>2, <1>3, <1>4, FiltersKept DEF ClearInv

LEMMA CommitStep == ASSUME ClearInv, Commit PROVE ClearInv'
<1>1. /\ UNCHANGED <<list, cleared>> /\ BoxFollows(box)
      /\ filters' = Wanted /\ queued' = NoTransition
  BY DEF Commit, Screen, Wanted
<1>2. Paged(filters') /\ Wanted' = Wanted
  BY <1>1, WantedPaged DEF Wanted, Waiting
<1>3. /\ box \in Text /\ box' \in Text /\ (timer' => list.box = "debounced")
      /\ box' = box \/ box' = Wanted.search
  BY <1>1, <1>2, BoxAfter DEF ClearInv, Paged, Filters
<1>. QED
  BY <1>1, <1>2, <1>3, FiltersKept DEF ClearInv

LEMMA ClearStepInv == ClearInv /\ [ListNext]_listVars => ClearInv'
<1>. SUFFICES ASSUME ClearInv, [ListNext]_listVars PROVE ClearInv'
  OBVIOUS
<1>1. CASE UNCHANGED <<list, box, timer, filters, queued, cleared>>
  BY <1>1 DEF ClearInv, Wanted, Waiting
<1>2. CASE NextPage \/ PreviousPage
  <2>1. filters.page \in Nat /\ filters.page > 0
    BY WantedPaged DEF Paged, Filters
  <2>. QED
    BY <1>2, <2>1, TurnStep DEF NextPage, PreviousPage
<1>3. CASE \E n \in Position : Tick(n)
  BY <1>1, <1>3 DEF Tick
<1>4. CASE ClearSelection \/ BulkRequest \/ Answer \/ \E r \in Row : RecordsChange(r)
  BY <1>1, <1>4 DEF ClearSelection, BulkRequest, Answer, RecordsChange
<1>5. CASE UNCHANGED listVars
  BY <1>1, <1>5 DEF listVars
<1>. QED
  BY <1>2, <1>3, <1>4, <1>5, TypeStep, NarrowStep, RemoveSearchStep, ClearAllStep, FireStep,
     CommitStep DEF ListNext
-----------------------------------------------------------------------------
(* Pages.  A page is a range of the records by how many come before each,  *)
(* so that it holds no more than PageSize, and more records make no fewer  *)
(* pages.                                                                  *)
LEMMA Quotient ==
    ASSUME NEW m \in Nat, NEW n \in Nat, NEW size \in Nat \ {0},
           m \div size = n \div size, m % size = n % size
    PROVE  m = n
<1>1. m = size * (m \div size) + (m % size) /\ n = size * (n \div size) + (n % size)
    OBVIOUS
<1> QED
    BY <1>1

LEMMA PagesGrow ==
    ASSUME NEW m \in Nat, NEW n \in Nat, m <= n
    PROVE  Pages(m) \in Nat /\ Pages(m) >= 1 /\ Pages(m) <= Pages(n)
<1> DEFINE size == PageSize
           q(k) == (k + size - 1) \div size
<1>1. size \in Nat \ {0}
    BY ListsAssumption
<1> HIDE DEF size
<1>2. ASSUME NEW a \in Nat, NEW b \in Nat, a <= b PROVE a \div size <= b \div size
  <2>1. /\ a = size * (a \div size) + (a % size) /\ (a % size) < size /\ (a % size) >= 0
        /\ b = size * (b \div size) + (b % size) /\ (b % size) < size /\ (b % size) >= 0
        /\ a \div size \in Int /\ b \div size \in Int
      BY <1>1
  <2>2. SUFFICES ASSUME a \div size >= (b \div size) + 1 PROVE FALSE
      BY <2>1
  <2>3. size * (a \div size) >= size * ((b \div size) + 1)
      BY <1>1, <2>1, <2>2
  <2>4. size * ((b \div size) + 1) = size * (b \div size) + size
      BY <1>1, <2>1
  <2> QED
      BY <1>1, <1>2, <2>1, <2>3, <2>4
<1>3. size \div size = 1
    BY <1>1
<1>4. \A k \in Nat : k > 0 => q(k) >= 1 /\ q(k) \in Int
    BY <1>1, <1>2, <1>3
<1>5. m > 0 => q(m) <= q(n)
    BY <1>1, <1>2
<1>6. Pages(m) = (IF m = 0 THEN 1 ELSE q(m)) /\ Pages(n) = (IF n = 0 THEN 1 ELSE q(n))
    BY DEF Pages, size
<1> HIDE DEF q
<1> QED
    BY <1>4, <1>5, <1>6

LEMMA RowsFinite ==
    ASSUME NEW S \in SUBSET Row
    PROVE  IsFiniteSet(S) /\ Cardinality(S) \in Nat /\ S \subseteq Nat
BY ListsAssumption, FS_Subset, FS_CardinalityType

(* No two records have as many before them. *)
LEMMA BeforeDiffers ==
    ASSUME NEW S \in SUBSET Row, NEW r \in S, NEW s \in S, r < s
    PROVE  Cardinality({q \in S : q < r}) # Cardinality({q \in S : q < s})
<1> DEFINE before == {q \in S : q < r}
           after == {q \in S : q < s}
<1>1. S \subseteq Nat /\ after \in SUBSET Row
    BY RowsFinite
<1>2. before \in SUBSET after /\ r \in after /\ r \notin before
  <2>1. \A q \in S : q \in Nat
      BY <1>1
  <2> QED
      BY <2>1
<1>3. IsFiniteSet(after)
    BY <1>1, RowsFinite
<1> HIDE DEF before, after
<1>4. Cardinality(after) = Cardinality(before) => after = before
    BY <1>2, <1>3, FS_Subset
<1> QED
    BY <1>2, <1>4 DEF before, after

LEMMA PageBounded ==
    ASSUME NEW S \in SUBSET Row, NEW k
    PROVE  Cardinality({r \in S : Cardinality({q \in S : q < r}) \div PageSize = k}) <= PageSize
<1> DEFINE before(r) == Cardinality({q \in S : q < r})
           page == {r \in S : before(r) \div PageSize = k}
           place == [r \in page |-> before(r) % PageSize]
<1>1. PageSize \in Nat \ {0}
    BY ListsAssumption
<1>2. \A r \in S : before(r) \in Nat /\ r \in Nat
  <2> SUFFICES ASSUME NEW r \in S PROVE before(r) \in Nat /\ r \in Nat
      OBVIOUS
  <2>1. {q \in S : q < r} \in SUBSET Row
      OBVIOUS
  <2> QED
      BY <2>1, RowsFinite
<1>3. \A r, s \in S : before(r) = before(s) => r = s
  <2> SUFFICES ASSUME NEW r \in S, NEW s \in S, r # s PROVE before(r) # before(s)
      OBVIOUS
  <2>1. r \in Nat /\ s \in Nat
      BY <1>2
  <2>2. r < s \/ s < r
      BY <2>1
  <2> QED
      BY <2>2, BeforeDiffers
<1> HIDE DEF before
<1>4. place \in [page -> 0..(PageSize - 1)]
    BY <1>1, <1>2
<1>5. \A r, s \in page : place[r] = place[s] => r = s
    BY <1>1, <1>2, <1>3, Quotient
<1>6. page \in SUBSET Row
    OBVIOUS
<1>7. IsFiniteSet(0..(PageSize - 1)) /\ Cardinality(0..(PageSize - 1)) = PageSize
    BY <1>1, FS_Interval
<1> DEFINE places == 0..(PageSize - 1)
<1> HIDE DEF place, page, places
<1>8. IsFiniteSet(page) /\ Cardinality(page) \in Nat
    BY <1>6, RowsFinite
<1>9. Cardinality(page) <= PageSize
  <2> SUFFICES ASSUME PageSize < Cardinality(page) PROVE FALSE
      BY <1>1, <1>8
  <2>1. /\ IsFiniteSet(places) /\ Cardinality(places) < Cardinality(page)
        /\ place \in [page -> places]
      BY <1>4, <1>7 DEF places
  <2>2. \E r, s \in page : r # s /\ place[r] = place[s]
      BY <1>8, <2>1, FS_PigeonHole
  <2> QED
      BY <1>5, <2>2
<1> QED
    BY <1>9 DEF page, before

LEMMA FoundRows ==
    ASSUME ListTypeOK, NEW f \in Filters
    PROVE  /\ Found(f) \in SUBSET Row /\ OnPage(f) \in SUBSET Row
           /\ Cardinality(Found(f)) \in Nat
           /\ Cardinality(OnPage(f)) <= PageSize
<1>1. Found(f) \in SUBSET Row
    BY DEF ListTypeOK, Found
<1>2. OnPage(f) =
        {r \in Found(f) : Cardinality({q \in Found(f) : q < r}) \div PageSize = f.page - 1}
    BY DEF OnPage
<1> QED
    BY <1>1, <1>2, RowsFinite, PageBounded

-----------------------------------------------------------------------------
(* A transition that turns the page was begun on the page that is shown,   *)
(* and what else waits in one is on the first page.                        *)
TurnsAway == Waiting => list.defers /\ (queued.page = 1 \/ queued.page # filters.page)

PageInv == ClearInv /\ ListTypeOK /\ TurnsAway

LEMMA PageInit == ListInit => PageInv
<1> SUFFICES ASSUME ListInit PROVE PageInv
    OBVIOUS
<1>1. ClearInv
    BY ClearInit
<1>2. ~Waiting /\ list \in {ListTable[n] : n \in ListNames}
    BY DEF ListInit, Waiting
<1>3. /\ timer \in BOOLEAN /\ cleared \in BOOLEAN /\ records \subseteq Row /\ chosen \subseteq Row
      /\ table.rows = {} /\ table.total = 0 /\ ticked \subseteq Position
      /\ bulk \subseteq Row \cup Position
    BY DEF ListInit
<1>4. Cardinality(table.rows) <= PageSize
  <2>1. PageSize \in Nat
      BY ListsAssumption
  <2> QED
      BY <1>3, <2>1, FS_EmptySet
<1>5. box \in Text /\ filters \in Filters /\ filters.page > 0 /\ queued \in Filters
    BY <1>1 DEF ClearInv
<1>6. table.rows \subseteq Row /\ table.total \in Nat
    BY <1>3
<1>7. ListTypeOK
    BY <1>2, <1>3, <1>4, <1>5, <1>6 DEF ListTypeOK
<1> QED
    BY <1>1, <1>2, <1>7 DEF PageInv, TurnsAway

(* A step on the filters: those that it shows, and those that wait then.   *)
LEMMA FiltersStep ==
    ASSUME PageInv, ClearInv', UNCHANGED Screen, timer' \in BOOLEAN, cleared' \in BOOLEAN, TurnsAway'
    PROVE  PageInv'
BY DEF PageInv, ClearInv, ListTypeOK, Screen

(* Page 1 in all filters that change. *)
LEMMA FirstPage ==
    ASSUME PageInv, UNCHANGED list,
           \/ UNCHANGED <<filters, queued>>
           \/ UNCHANGED filters /\ queued'.page = 1 /\ list.defers
           \/ filters'.page = 1 /\ IF Waiting THEN queued'.page = 1 ELSE UNCHANGED queued
    PROVE  TurnsAway'
<1>1. CASE UNCHANGED <<filters, queued>>
    BY <1>1 DEF PageInv, TurnsAway, Waiting
<1>2. CASE UNCHANGED filters /\ queued'.page = 1 /\ list.defers
    BY <1>2 DEF TurnsAway
<1>3. CASE filters'.page = 1 /\ IF Waiting THEN queued'.page = 1 ELSE UNCHANGED queued
    BY <1>3 DEF PageInv, TurnsAway, Waiting
<1> QED
    BY <1>1, <1>2, <1>3
(* Filters that change are on the first page or on another than before. *)
ShowsPage == \/ UNCHANGED filters
             \/ filters'.page = 1
             \/ filters'.page # filters.page

LEMMA FilterSteps ==
    ASSUME PageInv,
           \/ \E text \in Text : Type(text)
           \/ Narrow \/ RemoveSearch \/ ClearAllFilters \/ Fire
    PROVE  /\ UNCHANGED Screen /\ timer' \in BOOLEAN /\ cleared' \in BOOLEAN
           /\ TurnsAway' /\ ShowsPage
<1>0. /\ timer \in BOOLEAN /\ cleared \in BOOLEAN /\ Paged(filters)
      /\ (Waiting => Paged(queued)) /\ Paged(Wanted)
    BY WantedPaged DEF PageInv, ListTypeOK, ClearInv, Paged
<1>1. ASSUME NEW text \in Text, Type(text)
      PROVE  /\ UNCHANGED Screen /\ timer' \in BOOLEAN /\ cleared' \in BOOLEAN
             /\ TurnsAway' /\ ShowsPage
  <2> DEFINE T(f) == [f EXCEPT !.search = text, !.page = 1]
  <2>1. ASSUME NEW f, Paged(f) PROVE T(f).page = 1
      BY <2>1 DEF Paged, Filters
  <2>2. /\ UNCHANGED Screen /\ BoxFollows(text) /\ cleared' = FALSE
        /\ \/ UNCHANGED <<filters, queued>>
           \/ filters' = T(filters) /\ queued' = IF Waiting THEN T(queued) ELSE queued
      BY <1>1 DEF Type, Now
  <2> HIDE DEF T
  <2>3. TurnsAway'
      BY <1>0, <2>1, <2>2, FirstPage DEF Screen
  <2> QED
      BY <1>0, <2>1, <2>2, <2>3 DEF ShowsPage, BoxFollows
<1>2. CASE Narrow
  <2> DEFINE T(f) == [f EXCEPT !.narrow = ~filters.narrow, !.page = 1]
  <2>1. ASSUME NEW f, Paged(f) PROVE T(f).page = 1
      BY <2>1 DEF Paged, Filters
  <2>2. /\ UNCHANGED <<Screen, cleared>> /\ BoxFollows(box)
        /\ \/ list.defers /\ queued' = T(Wanted) /\ UNCHANGED filters
           \/ filters' = T(filters) /\ queued' = IF Waiting THEN T(queued) ELSE queued
      BY <1>2 DEF Narrow, SetFilters, Later, Now
  <2> HIDE DEF T
  <2>3. TurnsAway'
      BY <1>0, <2>1, <2>2, FirstPage DEF Screen
  <2> QED
      BY <1>0, <2>1, <2>2, <2>3 DEF ShowsPage, BoxFollows
<1>3. CASE RemoveSearch
  <2> DEFINE T(f) == [f EXCEPT !.search = "", !.page = 1]
  <2>1. ASSUME NEW f, Paged(f) PROVE T(f).page = 1
      BY <2>1 DEF Paged, Filters
  <2>2. /\ UNCHANGED Screen /\ cleared' = TRUE
        /\ filters' = T(filters) /\ queued' = IF Waiting THEN T(queued) ELSE queued
      BY <1>3 DEF RemoveSearch, Now
  <2>3. timer' \in BOOLEAN
      BY <1>0, <1>3 DEF RemoveSearch, BoxFollows
  <2> HIDE DEF T
  <2>4. TurnsAway'
      BY <1>0, <2>1, <2>2, FirstPage DEF Screen
  <2> QED
      BY <1>0, <2>1, <2>2, <2>3, <2>4 DEF ShowsPage
<1>4. CASE ClearAllFilters
  <2> DEFINE clean == [search |-> "", narrow |-> FALSE, page |-> 1]
  <2>1. clean.page = 1
      OBVIOUS
  <2>2. /\ UNCHANGED Screen /\ cleared' = TRUE
        /\ \/ list.defers /\ queued' = clean /\ UNCHANGED filters
           \/ filters' = clean /\ queued' = IF Waiting THEN clean ELSE queued
      BY <1>4 DEF ClearAllFilters, SetFilters, Later, Now
  <2>3. timer' \in BOOLEAN
      BY <1>0, <1>4 DEF ClearAllFilters, BoxFollows
  <2> HIDE DEF clean
  <2>4. TurnsAway'
      BY <1>0, <2>1, <2>2, FirstPage DEF Screen
  <2> QED
      BY <1>0, <2>1, <2>2, <2>3, <2>4 DEF ShowsPage
<1>5. CASE Fire
  <2> DEFINE T(f) == [f EXCEPT !.search = box, !.page = 1]
  <2>1. ASSUME NEW f, Paged(f) PROVE T(f).page = 1
      BY <2>1 DEF Paged, Filters
  <2>2. /\ UNCHANGED <<Screen, cleared, filters>> /\ timer' = FALSE
        /\ UNCHANGED queued \/ queued' = T(Wanted)
      BY <1>5 DEF Fire, Later
  <2> HIDE DEF T
  <2>3. list.defers
      BY <1>5 DEF Fire, PageInv, ClearInv, Deferring
  <2>4. TurnsAway'
      BY <1>0, <2>1, <2>2, <2>3, FirstPage DEF Screen
  <2> QED
      BY <1>0, <2>1, <2>2, <2>4 DEF ShowsPage
<1> QED
    BY <1>1, <1>2, <1>3, <1>4, <1>5

(* The page that is shown is turned to the next or the one before. *)
LEMMA TurnSteps ==
    ASSUME PageInv, NextPage \/ PreviousPage
    PROVE  /\ UNCHANGED Screen /\ timer' \in BOOLEAN /\ cleared' \in BOOLEAN
           /\ TurnsAway' /\ ShowsPage
<1>1. filters.page \in Nat /\ Paged(Wanted) /\ Paged(filters) /\ timer \in BOOLEAN /\ cleared \in BOOLEAN
    BY WantedPaged DEF PageInv, ListTypeOK, Paged, Filters
<1>2. PICK n \in Nat : n # filters.page /\ Turn(n)
    BY <1>1 DEF NextPage, PreviousPage
<1> DEFINE T(f) == [f EXCEPT !.page = n]
<1>3. ASSUME NEW f, Paged(f) PROVE T(f).page = n
    BY <1>3 DEF Paged, Filters
<1>4. /\ UNCHANGED <<Screen, cleared>> /\ BoxFollows(box)
      /\ \/ list.defers /\ queued' = T(Wanted) /\ UNCHANGED filters
         \/ /\ ~list.defers /\ filters' = T(filters)
            /\ queued' = IF Waiting THEN T(queued) ELSE queued
    BY <1>2 DEF Turn, SetFilters, Later, Now
<1> HIDE DEF T
<1>5. TurnsAway'
  <2>1. CASE list.defers /\ queued' = T(Wanted) /\ UNCHANGED filters
      BY <1>1, <1>2, <1>3, <1>4, <2>1 DEF TurnsAway, Screen
  <2>2. CASE ~list.defers /\ queued' = IF Waiting THEN T(queued) ELSE queued
      BY <2>2 DEF PageInv, TurnsAway, Waiting
  <2> QED
      BY <1>4, <2>1, <2>2
<1> QED
    BY <1>1, <1>2, <1>3, <1>4, <1>5 DEF ShowsPage, BoxFollows

LEMMA CommitSteps ==
    ASSUME PageInv, Commit
    PROVE  /\ UNCHANGED Screen /\ timer' \in BOOLEAN /\ cleared' \in BOOLEAN
           /\ TurnsAway' /\ ShowsPage
<1>1. /\ Waiting /\ filters' = queued /\ queued' = NoTransition
      /\ BoxFollows(box) /\ UNCHANGED <<Screen, cleared>>
    BY DEF Commit
<1>2. TurnsAway' /\ ShowsPage
    BY <1>1 DEF PageInv, TurnsAway, Waiting, ShowsPage
<1> QED
    BY <1>1, <1>2 DEF PageInv, ListTypeOK, BoxFollows

LEMMA SelectionSteps ==
    ASSUME PageInv,
           \/ \E p \in Position : Tick(p)
           \/ ClearSelection \/ BulkRequest \/ Answer
           \/ \E r \in Row : RecordsChange(r)
    PROVE  /\ ListTypeOK' /\ UNCHANGED <<list, box, timer, filters, queued, cleared>>
<1> USE DEF PageInv
<1>1. ASSUME NEW p \in Position, Tick(p)
      PROVE  ListTypeOK' /\ UNCHANGED <<list, box, timer, filters, queued, cleared>>
  <2>1. At(p) \subseteq Row
      BY DEF At, ListTypeOK
  <2> QED
      BY <1>1, <2>1 DEF Tick, ListTypeOK, Position
<1>2. CASE ClearSelection
    BY <1>2 DEF ClearSelection, ListTypeOK, Position
<1>3. CASE BulkRequest
  <2>1. Targets \subseteq Row \cup Position
      BY DEF Targets, ListTypeOK
  <2> QED
      BY <1>3, <2>1 DEF BulkRequest, ListTypeOK, Position
<1>4. CASE Answer
  <2>1. filters \in Filters
      BY DEF ListTypeOK
  <2>2. /\ table'.rows = OnPage(filters) /\ table'.total = Cardinality(Found(filters))
        /\ UNCHANGED <<list, box, timer, filters, queued, records, ticked, chosen, bulk, cleared>>
      BY <1>4 DEF Answer
  <2>3. /\ table'.rows \subseteq Row /\ table'.total \in Nat
        /\ Cardinality(table'.rows) <= PageSize
      BY <2>1, <2>2, FoundRows
  <2> QED
      BY <2>2, <2>3 DEF ListTypeOK, Position
<1>5. CASE \E r \in Row : RecordsChange(r)
    BY <1>5 DEF RecordsChange, ListTypeOK, Position
<1> QED
    BY <1>1, <1>2, <1>3, <1>4, <1>5

LEMMA PageStep == PageInv /\ [ListNext]_listVars => PageInv' /\ ShowsPage
<1> SUFFICES ASSUME PageInv, [ListNext]_listVars PROVE PageInv' /\ ShowsPage
    OBVIOUS
<1>1. ClearInv'
    BY ClearStepInv DEF PageInv
<1>2. CASE \/ \E text \in Text : Type(text)
           \/ Narrow \/ RemoveSearch \/ ClearAllFilters \/ Fire
    BY <1>1, <1>2, FilterSteps, FiltersStep
<1>3. CASE NextPage \/ PreviousPage
    BY <1>1, <1>3, TurnSteps, FiltersStep
<1>4. CASE Commit
    BY <1>1, <1>4, CommitSteps, FiltersStep
<1>5. ASSUME ListTypeOK', UNCHANGED <<list, filters, queued>>
      PROVE  PageInv' /\ ShowsPage
    BY <1>1, <1>5 DEF PageInv, TurnsAway, Waiting, ShowsPage
<1>6. CASE \/ \E p \in Position : Tick(p)
           \/ ClearSelection \/ BulkRequest \/ Answer
           \/ \E r \in Row : RecordsChange(r)
    BY <1>5, <1>6, SelectionSteps
<1>7. CASE UNCHANGED listVars
    BY <1>5, <1>7 DEF listVars, PageInv, ListTypeOK
<1> QED
    BY <1>2, <1>3, <1>4, <1>6, <1>7 DEF ListNext

(* More records make no fewer pages. *)
LEMMA MorePages ==
    ASSUME PageInv, PageInv', UNCHANGED filters, records \subseteq records', Beyond'
    PROVE  Beyond
<1>1. filters \in Filters /\ filters.page \in Nat
    BY DEF PageInv, ListTypeOK, Filters
<1>2. Found(filters) \subseteq Found(filters)'
    BY DEF Found
<1>3. Found(filters) \in SUBSET Row /\ Found(filters)' \in SUBSET Row
    BY <1>1, FoundRows DEF PageInv, ListTypeOK, Found
<1>4. /\ Cardinality(Found(filters)) <= Cardinality(Found(filters)')
      /\ Cardinality(Found(filters)) \in Nat /\ Cardinality(Found(filters)') \in Nat
  <2>1. IsFiniteSet(Found(filters)')
      BY <1>3, RowsFinite
  <2> QED
      BY <1>2, <1>3, <2>1, RowsFinite, FS_Subset
<1>5. /\ Pages(Cardinality(Found(filters))) <= Pages(Cardinality(Found(filters)'))
      /\ Pages(Cardinality(Found(filters))) \in Nat /\ Pages(Cardinality(Found(filters)')) \in Nat
    BY <1>4, PagesGrow
<1>6. filters.page > Pages(Cardinality(Found(filters)'))
    BY DEF Beyond
<1> QED
    BY <1>1, <1>5, <1>6 DEF Beyond

LEMMA StaysInside ==
    ASSUME PageInv, PageInv', ShowsPage, ~Beyond, Beyond', records \subseteq records'
    PROVE  filters'.page # filters.page
<1>1. CASE UNCHANGED filters
    BY <1>1, MorePages
<1>2. CASE filters'.page = 1
  <2>1. filters' \in Filters /\ Found(filters)' \in SUBSET Row
      BY FoundRows DEF PageInv, ListTypeOK, Found
  <2>2. Pages(Cardinality(Found(filters)')) >= 1 /\ Pages(Cardinality(Found(filters)')) \in Nat
      BY <2>1, RowsFinite, PagesGrow
  <2>3. filters'.page > Pages(Cardinality(Found(filters)'))
      BY DEF Beyond
  <2> QED
      BY <1>2, <2>2, <2>3
<1> QED
    BY <1>1, <1>2 DEF ShowsPage

(* modules/*/service.py and the tables: what is listed are records, no more *)
(* than a page of them; the filters name a page, and what is selected are   *)
(* places on a page.                                                        *)
THEOREM ListsTyped == ListSpec => []ListTypeOK
<1>1. PageInv => ListTypeOK
    BY DEF PageInv
<1> QED
    BY <1>1, PageInit, PageStep, PTL DEF ListSpec

(* The setters of the filters of every list: the page on the screen goes    *)
(* past the last one only if records went or the officer turned it, for     *)
(* whatever is on its way in a transition either names the first page or    *)
(* another than the one on the screen.                                      *)
THEOREM ListPagesExist == ListSpec => PageExists
<1>1. PageInv /\ PageInv' /\ [ListNext]_listVars =>
        [(~Beyond /\ Beyond' /\ records \subseteq records')
            => filters'.page # filters.page]_listVars
    BY PageStep, StaysInside
<1> QED
    BY <1>1, PageInit, PageStep, PTL DEF ListSpec, PageExists

-----------------------------------------------------------------------------
(* clearAllFilters and the chips: however the timer of the box and the      *)
(* transitions of the filters interleave, a search that was cleared stays   *)
(* cleared until the officer types.                                         *)
THEOREM ListsStayCleared == ListSpec => []ClearedStaysClear
<1>1. ClearInv => ClearedStaysClear
  BY DEF ClearInv, ClearedStaysClear
<1>. QED
  BY <1>1, ClearInit, ClearStepInv, PTL DEF ListSpec
=============================================================================
