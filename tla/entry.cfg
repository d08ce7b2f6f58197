\* Two entries of two contracts; a kill after a part fill is reported
\* partially_filled (TradeStation). Writes and calls fail for one of them.
CONSTANTS
    s1 = s1
    s2 = s2
    Signals <- MCSignals
    NoSignal = NoSignal
    Qty = 2
    PartialState = "partially_filled"
    LivePartial = FALSE
    Throwing = {s1}
    Lossy = {s1}
SPECIFICATION EntryFairSpec
INVARIANTS
    EntryTypeOK
    OneRealOrder
    NoInvisibleExposure
    NoDoubleBooking
PROPERTIES
    UnknownIsResolved
CHECK_DEADLOCK FALSE
