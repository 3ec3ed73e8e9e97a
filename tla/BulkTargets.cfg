\* The lists, with bulk requests on the rows that were selected.
CONSTANTS
    Request = {r1, r2}
    MaxOpenings = 3
    FormNames <- FormsAll
    Row = {11, 12, 13}
    Text = {"", "a"}
    Hits <- TextHits
    Narrowed = {12, 13}
    PageSize = 1
    ListNames <- ListsAll
    Entry = {e1, e2}
    Missing = Missing
    Officer = {o1, o2}
    Subject = {s1, s2}
    Nobody = Nobody
    Post = {p1, p2}
    HostNames <- HostsAll
SPECIFICATION Spec
PROPERTY BulkTargets
CHECK_DEADLOCK FALSE
