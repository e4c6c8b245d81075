SPECIFICATION PreparedSpec
CONSTANTS
    Txs = {t1, t2}
    Nil = Nil
    Users = {u1, u2}
    Elections = {e1}
    Candidates = {c1, c2}
    Governorates = {g1}
    VoteIds = {v1, v2}
    Ticks = {p1}
    Requests = {}
    Auditors = {a1}
    StreamBound = 2
SYMMETRY Symmetry
INVARIANTS
    SystemTypeOK
    RecountIInv
    MirroredVotesAreCommitted
    LiveTallyNeverOvercounts
    CaughtUpAnswersAreExact
    AnswersAreBacked
    TalliesCountVoters
    DiscrepanciesAreNewVotes
PROPERTIES
    CountsNeverDrop
