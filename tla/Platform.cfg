SPECIFICATION MCSpec
CONSTANTS
    r1 = r1
    r2 = r2
    s = s
    d = d
    u = u
    p = p
    c = c
    ev = ev
    Writers = {w1, w2, w3}
    Retention = 2
    MaxRows = 5
    Accounts = {1, 2}
    Requests = {r1, r2}
    NoRequest = NoRequest
    Owners = {1}
    Operators = {1, 2}
    Signals = {s}
    Submissions = {u}
    Discussions = {d}
    Author <- MCAuthor
    Proposals = {p}
    Deliberations = {c}
    Evidence = {ev}
    Reasons = {"spam"}
    Visible = Visible
    MaxRecords = 3
    Candidate = 2
    FirstAdmin = {1}
    Tool = Tool
    NoRow = NoRow
    Components = {"restore"}
    Nobody = Nobody
    Throttle = 1
    MaxAge = 0
    MaxNow = 1
    MaxChanges = 1
    MaxLost = 1
SYMMETRY Alike
INVARIANTS
    ModerationIsRecorded
    BufferStaysBounded
PROPERTIES
    ClosedStaysClosed
CHECK_DEADLOCK FALSE
