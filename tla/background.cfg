SPECIFICATION EitherSpec
CONSTANTS
    Periods = {1, 2}
    Messages = {m1, m2}
    Workers = {w1, w2}
    max_retries = 1
    time_limit = 1
    exclusive_ttl_seconds = 2
    REDELIVERY_RETRY_MARGIN_SECONDS = 1
    Demos = {w1, w2}
    Batch <- MCBatch
    Qty = 2
    OwnerRunLimit = 1
    OwnerLease = 2
    Task = task
    Missing = None
    NotStated = NotStated
    None = None
    NoOne = None
    Ticks = {loop, operator}
    Loop = loop
    Writers = {task, flatten}
    EntryOf <- MCEntryOf
    Locking = {task}
    Interval = 1
    Backoff = 2
    LastTime = 2
    MaxRuns = 2
    Nobody = None
    Plans = {1, 2}
    PlanPolicies <- MCPolicies
    Snapshots <- MCSnapshots
    min_cash_reserve = 1
    dip_buy_multiplier = 2
    LastPlanDay = 2
    Jobs = {"single", "portfolio"}
    DatasetRequests = {"r1", "r2"}
    RequestsOf <- MCRequestsOf
    DateRanges = 2
    MaxVersion = 2
    MaxDamages = 1
    NoReference = None
CONSTRAINT FewAtOnce
SYMMETRY SymmetricRuns
CHECK_DEADLOCK FALSE
INVARIANTS RunsAreKept OwnersWorkAlone PlanKeepsItsBooks ScheduleIsTrue ResultsAreSound
PROPERTIES KnownIsNotTakenBack
