---------------------------- MODULE MCOrderLock ----------------------------
(* Operations for the order lock: an open and a manual close, whose sizes  *)
(* are read before the lock, under two spellings of one exchange, and a    *)
(* fan-out queued there that orders on a second exchange too; one          *)
(* under a blank key that falls back to the shared chain, and PANIC's      *)
(* flatten, which orders on that second exchange without any lock.         *)
EXTENDS OrderLock, TLC

CONSTANTS open, close, fanout, blank, panic, deribit, bybit, global

MCOps   == {open, close, fanout, blank, panic}
MCLanes == {deribit, bybit, global}

MCCanon == "Deribit" :> deribit @@ " deribit" :> deribit @@ "bybit" :> bybit @@ "" :> global

MCKey ==
    open :> "Deribit" @@ close :> " deribit" @@ fanout :> "Deribit"
        @@ panic :> "bybit" @@ blank :> ""

MCWork ==
    open :> {deribit} @@ close :> {deribit} @@ fanout :> {deribit, bybit}
        @@ panic :> {bybit} @@ blank :> {}
=============================================================================
