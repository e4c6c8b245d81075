SPECIFICATION VotingSpec
CONSTANTS
    Txs = {t1, t2}
    Nil = Nil
    Users = {u1, u2}
    Elections = {e1, e2}
    Candidates = {c1}
    Governorates = {g1}
    VoteIds = {v1, v2}
SYMMETRY Symmetry
INVARIANTS
    IInv
    OneVotePerElection
    VotedMarksMatchVotes
    SuspensionIsRecorded
PROPERTIES
    VotesAreAdmissible
    VotesArePermanent
