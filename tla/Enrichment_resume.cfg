SPECIFICATION FairSpec
CONSTANTS
    s1 = s1
    s2 = s2
    s3 = s3
    u1 = u1
    u2 = u2
    u3 = u3
    u4 = u4
    u5 = u5
    Source = {s1, s2, s3}
    Inputs = {{s1}, {s2, s3}}
    Unit = {u1, u2, u3, u4, u5}
    Owner <- MCOwner
    MaxConcurrent = 2
    MaxRuns = 2
    Limit <- MCLimit
    Fault = {"fatal", "write", "interrupt", "kill"}
INVARIANTS KeptIsReusable InterruptKeepsAnswers DocumentHasReceipts
PROPERTIES CommandEnds
CHECK_DEADLOCK FALSE
