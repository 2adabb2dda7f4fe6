SPECIFICATION EitherSpec
CONSTANTS
    Tickers = {1,2}
    InitialShares <- MCInitial
    TargetShares <- MCTarget
    InitialCash = 1
    Slots = {o1,o2}
    Claims = {0,1}
    PeriodOf <- MCPeriodOf
    MAX_CASH_BLOCKED_ATTEMPTS = 2
    ORDER_SETTLE_TIME = 2
    CLOCK_TOLERANCE = 1
    RunLimit = 1
    Lag = 1
    LastBar = 2
    EntryShares = 2
    MaxOrders = 3
    EntryTickers = {1,2}
    EntryCandidates <- MCCandidates
    ManualRequests = {q1,q2}
    Regimes = {"trending_up", "trending_down", "risk_off"}
    FreeCash = {1,2}
    BASE_GROSS_EXPOSURE = 4
    VOLATILE_GROSS_EXPOSURE = 3
    RISK_OFF_GROSS_EXPOSURE = 1
    TRENDING_DOWN_GROSS = 2
    MAX_SYMBOL_EXPOSURE = 2
    MAX_RUN_RISK = 3
    RISK_OFF_RUN_RISK = 1
    VOLATILE_RUN_RISK = 2
    max_sector = 2
    max_position_size = 2
    max_portfolio_heat = 2
    max_open_positions = 2
    max_trades_per_day = 1
    max_daily_loss = 1
    stop_after_consecutive_losses = 1
    MaxDayOrders = 4
    Sessions = {w1,w2}
    DecisionOutcomes = {"filled", "blocked"}
    MIN_DRY_RUN_SIGNALS = 1
    MIN_DEMO_ORDERS = 1
    MIN_DEMO_FILL_RATE = 50
    MAX_DEMO_ERROR_RATE = 50
    MAX_DEMO_RISK_BLOCK_RATE = 50
    MaxDecisions = 3
CONSTRAINT FewAtOnce
SYMMETRY Symmetric
CHECK_DEADLOCK FALSE
INVARIANTS StaysWithinBounds DecisionsAreKept LimitsHoldTogether PromotionHolds
PROPERTIES PeriodsAreTraded NoEntryOverAnother
