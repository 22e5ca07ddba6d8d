\* One user and one request at a time: no race over the counter.
SPECIFICATION LockoutSpec
CONSTANTS
    AuditActions <- CommittedActions
    Emails = {e1}
    Slugs = {s1}
    ApiKeys = {}
    AccountRequests = {a1}
INVARIANT LockedAfterFailures
CHECK_DEADLOCK FALSE
