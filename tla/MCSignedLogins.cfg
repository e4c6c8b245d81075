SPECIFICATION SecretsSpec
CONSTANTS
    Accounts = {u1}
    Numbers = {}
    Values = {s1}
    OneTimeCodes = {}
    Empty = Empty
INVARIANTS
    SignersGetTokens
CHECK_DEADLOCK FALSE
