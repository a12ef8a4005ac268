SPECIFICATION RowsSpec
CONSTANTS
    Findings = {f1, f2}
    Twins = {f1, f2}
    Rules = {r1, r2}
    Admins = {a1, a2}
    Scans = {s1, h1}
    Hooks = {h1}
    NoRule = NoRule
    MaxScans = 2
    MaxRequests = 2
    TicketFindings = {f1, f2}
    TicketScans = {t1, t2}
    Unscanned = Unscanned
    Boards = {jira, servicenow}
    Keyed = {jira, servicenow}
    MaxRetries = 1
    MaxUpsets = 1
SYMMETRY RowsSymmetry
INVARIANTS
    SuppressionInv TicketInv DuplicateNeedsLoss
PROPERTIES
    ReasonsAreOwn
CHECK_DEADLOCK FALSE
