---------------------------- MODULE MCCloseFlow ----------------------------
(* Small instances of CloseFlow for TLC: entries of one bot or of two, and *)
(* what may go wrong with their closes.                                    *)
EXTENDS CloseFlow

CONSTANTS c1, c2, botA, botB

TwoCloses == {c1, c2}

TradeStation == [partial |-> "partially_filled", acks |-> FALSE, dedup |-> "none"]
Bybit        == [partial |-> "cancelled", acks |-> TRUE, dedup |-> "ever"]
Binance      == [partial |-> "cancelled", acks |-> TRUE, dedup |-> "open"]

\* Two bots share a position; each closes once, one of them half of its entry.
TwoBots ==
    [size |-> <<2, 2>>, entryBot |-> <<botA, botB>>,
     closeBot |-> [c \in TwoCloses |-> IF c = c1 THEN botA ELSE botB],
     halves |-> {c1}, adapters |-> {TradeStation},
     faults |-> {"kill", "part", "refuse"}, maxFaults |-> 3, maxDeliveries |-> 2]

\* An entry and its smaller add, a half and a full close, everything may go
\* wrong, on any of three venues.
EntryAndAdd ==
    [size |-> <<2, 1>>, entryBot |-> <<botA, botA>>,
     closeBot |-> [c \in TwoCloses |-> botA],
     halves |-> {c1}, adapters |-> {TradeStation, Bybit, Binance},
     faults |-> Faulty, maxFaults |-> 2, maxDeliveries |-> 2]

Stories == {TwoBots, EntryAndAdd}
=============================================================================
