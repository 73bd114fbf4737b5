SPECIFICATION FairSpec
CONSTANTS
    r1 = r1
    r2 = r2
    q1 = q1
    q2 = q2
    None = None
    Rows = {r1}
    Requests = {q1, q2}
    Retries = 1
    Failures = {"refused", "limit", "lost", "unanswered", "torn", "write", "crash"}
    MaxFailures = 2
\* All rows may be written and all orders settled.
CHECK_DEADLOCK FALSE
INVARIANTS
    Inv
    
PROPERTY CallsEnd
