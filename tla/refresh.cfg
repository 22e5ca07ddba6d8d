SPECIFICATION SessionSpec
CONSTANTS
    AuditActions <- CommittedActions
    Calls = {p1, p2}
INVARIANT SessionOutlivesAccessToken
CHECK_DEADLOCK FALSE
