SPECIFICATION SchedulerSpec
CONSTANTS
    Txs = {t1, t2}
    Nil = Nil
    Users = {u1}
    Elections = {e1}
    Candidates = {c1}
    Governorates = {g1}
    VoteIds = {v1}
    Ticks = {p1}
    Requests = {r1}
SYMMETRY Symmetry
INVARIANTS
    SchedulerTypeOK
    SavedTallyIsComplete
    SchedulerIInv
PROPERTIES
    ClosedForGood
    PublishedFromEnded
