SPECIFICATION Spec
CONSTANTS
    s1 = s1
    s2 = s2
    s3 = s3
    u1 = u1
    u2 = u2
    u3 = u3
    u4 = u4
    u5 = u5
    Source = {s2, s3}
    Inputs = {{s2, s3}}
    Unit = {u3, u4}
    Owner <- MCOwner
    MaxConcurrent = 2
    MaxRuns = 2
    Limit <- MCRuns
    Fault = {}
INVARIANTS SuccessIsReusable
CHECK_DEADLOCK FALSE
