\* One tab of a device, on which two officers log in one after the other.
CONSTANTS
    None = None
    t1 = t1
    c1 = c1
    c2 = c2
    Tab = {t1}
    Call = {c1}
    TabOf <- OneCall
    Expires = {}
    MaxLogins = 2
    MaxTokens = 1
SPECIFICATION Spec
INVARIANT OwnLists
CHECK_DEADLOCK FALSE
