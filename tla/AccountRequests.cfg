SPECIFICATION Spec
CONSTANTS
    Accounts = {ann, ben, cid}
    Members = {ann}
    Sids = {1, 2}
    Legacy <- OneLegacy
    Roles = {viewer, discord}
    Perms = {p}
    KeyRole = viewer
    KeyPerms = {p}
    Requests = {q1, q2}
    MaxUses = 2
    MaxTries = 1
    MaxWrites = 4
    NoOne = none
    ann = ann
    ben = ben
    cid = cid
    q1 = q1
    q2 = q2
INVARIANTS
    UsesAreCounted
    OutboxTellsAll
    SessionsAreCurrent
    VerifiedIsProven
SYMMETRY Alike
CHECK_DEADLOCK FALSE
