\* PANIC beside a signal and a manual order that both see the daily loss of one account,
\* while another account holds a position; one failure, and the user may lift a halt.
CONSTANTS
    acct = acct
    other = other
    held = held
    kept = kept
    sig = sig
    man = man
    p1 = p1
    Accounts = {acct, other}
    Entries = {kept, sig, man}
    Panics = {p1}
    NoOne = NoOne
    AccountOf <- MCAccountOf
    Manual = {man}
    Held = {kept}
    ReduceOnly = {acct, other}
    MaxLosses = 1
    MaxFaults = 1
    MaxResumes = 1
SPECIFICATION FairSpec
INVARIANTS
    TypeOK
    OneLocalTrip
    FlattensCleanly
PROPERTIES
    FlattenReports
\* Every entry answered and every flatten reported: nothing is left to do.
CHECK_DEADLOCK FALSE
