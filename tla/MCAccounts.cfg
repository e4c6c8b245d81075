SPECIFICATION FewerSpec
CONSTANTS
    Txs = {t1}
    Nil = Nil
    Users = {u1, u2}
    Elections = {}
    Candidates = {}
    Governorates = {g1}
    VoteIds = {}
    Persons = {p1, h1}
    Phones = {n1, h1}
    HashLike = {h1}
    Codes = {c1}
    Revocations = {r1}
SYMMETRY Symmetry
INVARIANTS
    AccountTypeOK
    AccountIInv
    OneIdentityPerPerson
    LedgerUsersAreDocumented
    ActiveUsersCanReturn
    OfficialsWereInvited
PROPERTIES
    AdminWalletIsFinal
