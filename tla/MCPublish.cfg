SPECIFICATION PreparedSpec
CONSTANTS
    Txs = {t1, t2}
    Nil = Nil
    Users = {u1}
    Elections = {e1}
    Candidates = {c1}
    Governorates = {g1}
    VoteIds = {}
    Ticks = {p1, p2}
    Requests = {r1}
PROPERTIES
    PublishedFromEnded
