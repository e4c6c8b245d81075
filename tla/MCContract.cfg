SPECIFICATION Spec
CONSTANTS
    Txs = {t1, t2}
    Nil = Nil
    Users = {u1}
    Elections = {e1}
    Candidates = {c1}
    Governorates = {g1}
    VoteIds = {v1}
SYMMETRY Symmetry
INVARIANTS
    TypeOK
PROPERTIES
    IdentitiesAreFixed
    VotesAreAdmissible
    ImplementsBallot
