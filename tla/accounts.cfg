SPECIFICATION Spec
CONSTANTS
    c1 = c1
    c2 = c2
    c3 = c3
    first = first
    second = second
    Call = {c1, c2, c3}
    EmailOf <- SharedEmail
    Session = {s1, s2}
    Key = {k1}
    None = None
    MaxFailures = 1
    MaxChanges = 1
SYMMETRY Alike
INVARIANTS
    TypeOK
    OrphansNeedFailure
    TokenNamesMembership
PROPERTIES
    RevocationIsFinal
    KeysChangedByMembers
    KeysLiveOnce
CHECK_DEADLOCK FALSE
