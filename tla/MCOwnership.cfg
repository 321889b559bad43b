SPECIFICATION Spec
CONSTANTS
    Objects = {o1, o2, o3}
    Lists = {l}
    Requests = {r}
    Transactions = {t}
    ObjectGuards = {g1, g2}
    ListGuards = {gl}
    RequestGuards = {gr}
    TransactionGuards = {gt}
    Wrappers = {w}
    NULL = NULL
    Out = Out
SYMMETRY Symmetry
INVARIANTS
    NothingLost
    OneOwner
    NothingDangles
    DeletedOnce
