SPECIFICATION AccountSpec
CONSTANTS
    Txs = {t1}
    Nil = Nil
    Users = {u1, u2}
    Elections = {}
    Candidates = {}
    Governorates = {g1}
    VoteIds = {}
    Persons = {p1, h1}
    Phones = {n1, n2}
    HashLike = {h1}
    Codes = {}
    Revocations = {}
INVARIANTS
    NationalIdsAreUnique
