SPECIFICATION Spec
CONSTANTS
    Snaps = {1, 2, 3}
    Clients = {a, b}
    ClientOf <- OneTool
    Want <- Wanted
    ScopeOf <- Scopes
    DataOf <- TwoData
    Resources = {r1}
    Children = {m1, e1}
    KindOf <- Kinds
    ParentOf <- Parents
    Requests = {1}
    Spoiled = {}
    Times = {1, 2}
    MaxDirect = 1
    Absent = absent
    a = a
    b = b
    r1 = r1
    m1 = m1
    e1 = e1
    d1 = d1
    d2 = d2
INVARIANTS
    NewestWins
    RemovedIsExplained
    CurrentIsNewest
PROPERTIES
    ImplementsStore
CHECK_DEADLOCK FALSE
