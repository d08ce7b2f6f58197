\* Four operations on two chains, one of which hangs on a call that is never answered;
\* a fan-out and PANIC order on a second venue outside its queue.
CONSTANTS
    open = open
    close = close
    fanout = fanout
    blank = blank
    panic = panic
    deribit = deribit
    bybit = bybit
    global = global
    Ops <- MCOps
    NoOp = NoOp
    Lanes <- MCLanes
    NoLane = NoLane
    Canon <- MCCanon
    Key <- MCKey
    Work <- MCWork
    Unlocked = {panic}
    Early = {close}
    Stalled = {blank}
SPECIFICATION FairSpec
INVARIANTS
    TypeOK
    NoStaleGuard
PROPERTIES
    ImplementsQueues
    EveryOpSettles
CHECK_DEADLOCK FALSE
