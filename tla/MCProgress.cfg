SPECIFICATION FairPreparedSpec
CONSTANTS
    Txs = {t1}
    Nil = Nil
    Users = {u1}
    Elections = {e1, e2}
    Candidates = {c1}
    Governorates = {g1}
    VoteIds = {}
    Ticks = {p1, p2}
    Requests = {}
PROPERTIES
    OnTime
    ElectionsClose
