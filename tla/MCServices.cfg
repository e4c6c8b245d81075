SPECIFICATION PartSpec
CONSTANTS
    Signers = {u1, u2}
    Clients = {k1, k2}
    SigningCalls = {r1, r2}
    Accounts = {u1}
    Numbers = {n1}
    Values = {s1, s2, s3}
    OneTimeCodes = {o1, o2}
    Empty = Empty
    Voters = {w1, w2}
    Choices = {"c1", "c2"}
    w1 = w1
    w2 = w2
    People <- Electorate
    Ratings = {4}
    Feedbacks = {f1, f2}
    Readings = {a1, a2}
    Absent = Absent
    OverlapBound = 2
INVARIANTS
    ServicesIInv
    HandlersAreWaiting
    NewestCodeIsStored
    AnalyticsDescribeThePast
    FeedbackIsCountedAtMostTwice
PROPERTIES
    RequestsEnd
    ImplementsSingleUse
CHECK_DEADLOCK FALSE
