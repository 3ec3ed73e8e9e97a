\* Every form, list, page and the wizard, one of them in each behaviour; fairness of the lists.
CONSTANTS
    Request = {r1, r2}
    MaxOpenings = 3
    FormNames <- FormsAll
    Row = {11, 12, 13}
    Text = {"", "a"}
    Hits <- TextHits
    Narrowed = {12, 13}
    PageSize = 1
    ListNames <- ListsAll
    Entry = {e1, e2}
    Missing = Missing
    Officer = {o1, o2}
    Subject = {s1, s2}
    Nobody = Nobody
    Post = {p1, p2}
    HostNames <- HostsAll
SPECIFICATION Spec
INVARIANTS
    ScreensTypeOK
    OwnEntries
    OneAtATime
    ClearedStaysClear
    SendsShown
    ActsOnChosen
PROPERTIES
    AskedFirst
    SearchSettles
    PageExists
CHECK_DEADLOCK FALSE
