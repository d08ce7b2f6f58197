-------------------------- MODULE PanicHalt_proof --------------------------
(***************************************************************************)
(* Proofs about PANIC and the daily-loss trip, for every set of accounts,  *)
(* entries and flattens.                                                   *)
(***************************************************************************)
EXTENDS PanicHalt, TLAPS, FiniteSetTheorems

(* What the proofs need of the types: positions are integers.              *)
Step     == {"idle", "gated", "tripping", "cleared", "sent", "filled", "held", "refused"}
Row      == [status : {"none", "open", "closed", "error"}, opened : Nat, closed : Nat]
Flatten  == [phase : {"idle", "tripped", "placing", "booking", "done"},
             scope : SUBSET Accounts, todo : SUBSET Accounts,
             at : Accounts \cup {NoOne}, size : Int,
             placed : SUBSET Accounts, failed : BOOLEAN, states : SUBSET Entries]
Close    == [state : {"none", "working", "filled", "cancelled"}, size : Int, fill : Int]

TypeInv ==
    /\ accountHalt \subseteq Accounts
    /\ lock \in [Accounts -> Entries \cup {NoOne}]
    /\ step \in [Entries -> Step]
    /\ row \in [Entries -> Row]
    /\ net \in [Accounts -> Int]
    /\ fl \in [Flattens -> Flatten]
    /\ order \in [Flattens -> [Accounts -> Close]]
    /\ managed \subseteq Entries
    /\ trips \in [Accounts -> Nat]
    /\ faults \in Nat

(* An account that was tripped is halted until its halt is lifted.         *)
TripInv == \A a \in Accounts : trips[a] <= 1 /\ (trips[a] = 1 => a \in accountHalt)

(* A flatten has closes only on the accounts of its scope, one on each,    *)
(* and a close is placed where the flatten has not been yet.               *)
FlattenOk(f) ==
    /\ fl[f].todo \subseteq fl[f].scope /\ fl[f].placed \subseteq fl[f].scope
    /\ fl[f].phase \in {"idle", "tripped"} =>
        /\ fl[f].todo = {} /\ fl[f].placed = {}
        /\ \A a \in Accounts : order[f][a].state = "none"
    /\ fl[f].at # NoOne =>
        /\ fl[f].phase = "placing" /\ fl[f].at \in fl[f].scope \ fl[f].todo
        /\ order[f][fl[f].at].state = "none"
    /\ fl[f].phase = "placing" => \A a \in fl[f].todo : order[f][a].state = "none"
    /\ fl[f].phase = "booking" => fl[f].todo \subseteq fl[f].placed
    /\ fl[f].phase = "done" => fl[f].todo = {}
    /\ \A a \in fl[f].placed : order[f][a].state # "none"
    /\ \A a \in Accounts : order[f][a].state # "none" => a \in fl[f].scope
FlattenInv == \A f \in Flattens : FlattenOk(f)

(* An entry trips at most once, and flattens its own account.              *)
EntryOk(e) ==
    /\ e \in Held => step[e] = "held"
    /\ step[e] \in {"idle", "gated"} => fl[e].phase = "idle"
    /\ fl[e].phase # "idle" => fl[e].scope = {AccountOf[e]}
EntryInv == \A e \in Entries : EntryOk(e)

(* Without a PANIC, flattens and halts are on accounts past their limit.   *)
Local ==
    /\ \A e \in Entries : fl[e].phase # "idle" => AccountOf[e] \in breached
    /\ \A a \in Accounts \ breached : a \notin accountHalt /\ net[a] = Bought(a)
LocalInv == (\A f \in Panics : fl[f].phase = "idle") => Local

(* No entry has added to the account.                                      *)
Calm(a) == \A e \in On(a) \ Held : step[e] \notin {"filled", "held"}

(* Where nothing fails and nothing is added, a flatten takes off at least  *)
(* what is there by the time its close is filled.                          *)
CalmOk(f, a) ==
    /\ fl[f].at = a => fl[f].size >= net[a]
    /\ order[f][a].state = "working" => order[f][a].size >= net[a]
    /\ order[f][a].state \in {"filled", "cancelled"} => net[a] = 0
    /\ fl[f].phase = "placing" /\ a \in fl[f].scope \ (fl[f].todo \cup fl[f].placed)
           /\ fl[f].at # a => net[a] = 0
    /\ fl[f].phase \in {"booking", "done"} /\ a \in fl[f].scope \ fl[f].todo => net[a] = 0
CalmInv ==
    faults = 0 => \A a \in ReduceOnly, f \in Flattens : Calm(a) => CalmOk(f, a)

(* A row whose account has no confirmed close is as its entry left it.     *)
Unconfirmed(a) == \A f \in Flattens : order[f][a].state # "filled"
Untouched(e) ==
    /\ row[e] = [status |-> "open", opened |-> 1, closed |-> 0]
    /\ step[e] = "held" => e \in armed /\ e \in managed
UntouchedInv ==
    \A e \in Tracked :
        step[e] \in {"sent", "filled", "held"} /\ Unconfirmed(AccountOf[e]) => Untouched(e)

----------------------------------------------------------------------------
(* Types.                                                                  *)
LEMMA TypePreserved ==
    ASSUME TypeInv, [Next]_vars
    PROVE  TypeInv'
<1>a. accountHalt \subseteq Accounts
    BY DEF TypeInv
<1>b. lock \in [Accounts -> Entries \cup {NoOne}]
    BY DEF TypeInv
<1>c. step \in [Entries -> Step]
    BY DEF TypeInv
<1>d. row \in [Entries -> Row]
    BY DEF TypeInv
<1>e. net \in [Accounts -> Int]
    BY DEF TypeInv
<1>f. fl \in [Flattens -> Flatten]
    BY DEF TypeInv
<1>g. order \in [Flattens -> [Accounts -> Close]]
    BY DEF TypeInv
<1>h. managed \subseteq Entries
    BY DEF TypeInv
<1>i. trips \in [Accounts -> Nat]
    BY DEF TypeInv
<1>j. faults \in Nat
    BY DEF TypeInv
<1>s. Entries \subseteq Flattens /\ Panics \subseteq Flattens
    BY DEF Flattens
<1>1. ASSUME Resume PROVE TypeInv'
    <2>1. (accountHalt \subseteq Accounts)'
        BY <1>1, <1>a, <1>s, PanicAssumption
           DEF Resume, haltVars, entryVars, bookVars, panicVars
    <2>2. (trips \in [Accounts -> Nat])'
        BY <1>1, <1>i, <1>s, PanicAssumption
           DEF Resume, haltVars, entryVars, bookVars, panicVars
    <2>3. UNCHANGED <<lock, step, row, net, fl, order, managed, faults>>
        BY <1>1 DEF Resume, haltVars, entryVars, bookVars, panicVars
    <2> QED
        BY <2>1, <2>2, <2>3, <1>b, <1>c, <1>d, <1>e, <1>f, <1>g, <1>h, <1>j
           DEF TypeInv
<1>2. ASSUME NEW e \in Entries, VenueFillsEntry(e) PROVE TypeInv'
    <2>1. (net \in [Accounts -> Int])'
        BY <1>2, <1>e, <1>s, PanicAssumption
           DEF VenueFillsEntry, Becomes, haltVars, entryVars, bookVars,
               panicVars
    <2>2. (step \in [Entries -> Step])'
        BY <1>2, <1>c, <1>s, PanicAssumption
           DEF VenueFillsEntry, Becomes, Step, haltVars, entryVars, bookVars,
               panicVars
    <2>3. UNCHANGED <<accountHalt, lock, row, fl, order, managed, trips, faults>>
        BY <1>2
           DEF VenueFillsEntry, Becomes, haltVars, entryVars, bookVars,
               panicVars
    <2> QED
        BY <2>1, <2>2, <2>3, <1>a, <1>b, <1>d, <1>f, <1>g, <1>h, <1>i, <1>j
           DEF TypeInv
<1>3. ASSUME NEW f \in Flattens, NEW a \in Accounts, VenueFillsClose(f, a) PROVE TypeInv'
    <2>1. (net \in [Accounts -> Int])'
        BY <1>3, <1>e, <1>g, <1>s, PanicAssumption
           DEF VenueFillsClose, Reducible, MagnitudeMin, Close, haltVars,
               entryVars, bookVars, panicVars
    <2>2. (order \in [Flattens -> [Accounts -> Close]])'
        <3>1. order[f][a].size \in Int /\ net[a] \in Int /\ f \in Flattens
            BY <1>e, <1>g DEF Close
        <3>2. PICK qty \in Int : qty = Reducible(a, order[f][a].size)
            BY <3>1 DEF Reducible, MagnitudeMin
        <3>3. PICK st \in {"cancelled", "filled"} : st = IF qty = 0 THEN "cancelled" ELSE "filled"
            OBVIOUS
        <3>4. order' = [order EXCEPT ![f][a].state = st, ![f][a].fill = qty]
            BY <1>3, <3>2, <3>3 DEF VenueFillsClose
        <3>5. order[f][a] \in Close
            BY <1>g, <3>1
        <3>6. PICK new \in Close : new = [order[f][a] EXCEPT !.state = st, !.fill = qty]
            BY <3>5 DEF Close
        <3>7. PICK all \in [Accounts -> Close] : all = [order[f] EXCEPT ![a] = new]
            BY <1>g, <3>1
        <3>8. order' = [order EXCEPT ![f] = all]
            BY <1>g, <3>1, <3>4, <3>6, <3>7
        <3> QED
            BY <1>g, <3>8
    <2>3. UNCHANGED <<accountHalt, lock, step, row, fl, managed, trips, faults>>
        BY <1>3 DEF VenueFillsClose, haltVars, entryVars, bookVars, panicVars
    <2> QED
        BY <2>1, <2>2, <2>3, <1>a, <1>b, <1>c, <1>d, <1>f, <1>h, <1>i, <1>j
           DEF TypeInv
<1>4. ASSUME NEW a \in Accounts, LossHits(a) PROVE TypeInv'
    <2>1. UNCHANGED <<accountHalt, lock, step, row, net, fl, order, managed, trips, faults>>
        BY <1>4 DEF LossHits, haltVars, entryVars, bookVars, panicVars
    <2> QED
        BY <2>1, <1>a, <1>b, <1>c, <1>d, <1>e, <1>f, <1>g, <1>h, <1>i, <1>j
           DEF TypeInv
<1>5. ASSUME NEW e \in Entries, PassGate(e) PROVE TypeInv'
    <2>1. (lock \in [Accounts -> Entries \cup {NoOne}])'
        BY <1>5, <1>b, <1>s, PanicAssumption
           DEF PassGate, Becomes, haltVars, entryVars, bookVars, panicVars
    <2>2. (step \in [Entries -> Step])'
        BY <1>5, <1>c, <1>s, PanicAssumption
           DEF PassGate, Becomes, Step, haltVars, entryVars, bookVars,
               panicVars
    <2>3. UNCHANGED <<accountHalt, row, net, fl, order, managed, trips, faults>>
        BY <1>5 DEF PassGate, Becomes, haltVars, entryVars, bookVars, panicVars
    <2> QED
        BY <2>1, <2>2, <2>3, <1>a, <1>d, <1>e, <1>f, <1>g, <1>h, <1>i, <1>j
           DEF TypeInv
<1>6. ASSUME NEW e \in Entries, RefuseHalted(e) PROVE TypeInv'
    <2>1. (step \in [Entries -> Step])'
        BY <1>6, <1>c, <1>s, PanicAssumption
           DEF RefuseHalted, Becomes, Step, haltVars, entryVars, bookVars,
               panicVars
    <2>2. UNCHANGED <<accountHalt, lock, row, net, fl, order, managed, trips, faults>>
        BY <1>6
           DEF RefuseHalted, Becomes, haltVars, entryVars, bookVars, panicVars
    <2> QED
        BY <2>1, <2>2, <1>a, <1>b, <1>d, <1>e, <1>f, <1>g, <1>h, <1>i, <1>j
           DEF TypeInv
<1>7. ASSUME NEW e \in Entries, RailClear(e) PROVE TypeInv'
    <2>1. (step \in [Entries -> Step])'
        BY <1>7, <1>c, <1>s, PanicAssumption
           DEF RailClear, Becomes, Step, haltVars, entryVars, bookVars,
               panicVars
    <2>2. UNCHANGED <<accountHalt, lock, row, net, fl, order, managed, trips, faults>>
        BY <1>7
           DEF RailClear, Becomes, haltVars, entryVars, bookVars, panicVars
    <2> QED
        BY <2>1, <2>2, <1>a, <1>b, <1>d, <1>e, <1>f, <1>g, <1>h, <1>i, <1>j
           DEF TypeInv
<1>8. ASSUME NEW e \in Entries, DailyLossRail(e) PROVE TypeInv'
    <2>1. (step \in [Entries -> Step])'
        BY <1>8, <1>c, <1>s, PanicAssumption
           DEF DailyLossRail, Becomes, Release, Trips, Step, haltVars,
               entryVars, bookVars, panicVars
    <2>2. (lock \in [Accounts -> Entries \cup {NoOne}])'
        BY <1>8, <1>b, <1>s, PanicAssumption
           DEF DailyLossRail, Becomes, Release, Trips, haltVars, entryVars,
               bookVars, panicVars
    <2>3. (accountHalt \subseteq Accounts)'
        BY <1>8, <1>a, <1>s, PanicAssumption
           DEF DailyLossRail, Becomes, Release, Trips, haltVars, entryVars,
               bookVars, panicVars
    <2>4. (trips \in [Accounts -> Nat])'
        BY <1>8, <1>i, <1>s, PanicAssumption
           DEF DailyLossRail, Becomes, Release, Trips, haltVars, entryVars,
               bookVars, panicVars
    <2>5. (fl \in [Flattens -> Flatten])'
        BY <1>8, <1>f, <1>s, PanicAssumption
           DEF DailyLossRail, Becomes, Release, Trips, Flatten, haltVars,
               entryVars, bookVars, panicVars
    <2>6. UNCHANGED <<row, net, order, managed, faults>>
        BY <1>8
           DEF DailyLossRail, Becomes, Release, Trips, haltVars, entryVars,
               bookVars, panicVars
    <2> QED
        BY <2>1, <2>2, <2>3, <2>4, <2>5, <2>6, <1>d, <1>e, <1>g, <1>h, <1>j
           DEF TypeInv
<1>9. ASSUME NEW e \in Entries, TripDone(e) PROVE TypeInv'
    <2>1. (step \in [Entries -> Step])'
        BY <1>9, <1>c, <1>s, PanicAssumption
           DEF TripDone, Becomes, Release, Step, haltVars, entryVars, bookVars,
               panicVars
    <2>2. (lock \in [Accounts -> Entries \cup {NoOne}])'
        BY <1>9, <1>b, <1>s, PanicAssumption
           DEF TripDone, Becomes, Release, haltVars, entryVars, bookVars,
               panicVars
    <2>3. UNCHANGED <<accountHalt, row, net, fl, order, managed, trips, faults>>
        BY <1>9
           DEF TripDone, Becomes, Release, haltVars, entryVars, bookVars,
               panicVars
    <2> QED
        BY <2>1, <2>2, <2>3, <1>a, <1>d, <1>e, <1>f, <1>g, <1>h, <1>i, <1>j
           DEF TypeInv
<1>10. ASSUME NEW e \in Entries, SendEntry(e) PROVE TypeInv'
    <2>1. (lock \in [Accounts -> Entries \cup {NoOne}])'
        BY <1>10, <1>b, <1>s, PanicAssumption
           DEF SendEntry, Becomes, haltVars, entryVars, bookVars, panicVars
    <2>2. (row \in [Entries -> Row])'
        BY <1>10, <1>d, <1>s, PanicAssumption
           DEF SendEntry, Becomes, Row, haltVars, entryVars, bookVars,
               panicVars
    <2>3. (step \in [Entries -> Step])'
        BY <1>10, <1>c, <1>s, PanicAssumption
           DEF SendEntry, Becomes, Step, haltVars, entryVars, bookVars,
               panicVars
    <2>4. UNCHANGED <<accountHalt, net, fl, order, managed, trips, faults>>
        BY <1>10
           DEF SendEntry, Becomes, haltVars, entryVars, bookVars, panicVars
    <2> QED
        BY <2>1, <2>2, <2>3, <2>4, <1>a, <1>e, <1>f, <1>g, <1>h, <1>i, <1>j
           DEF TypeInv
<1>11. ASSUME NEW e \in Entries, SettleEntry(e) PROVE TypeInv'
    <2>1. (step \in [Entries -> Step])'
        BY <1>11, <1>c, <1>s, PanicAssumption
           DEF SettleEntry, Becomes, Release, Step, haltVars, entryVars,
               bookVars, panicVars
    <2>2. (lock \in [Accounts -> Entries \cup {NoOne}])'
        BY <1>11, <1>b, <1>s, PanicAssumption
           DEF SettleEntry, Becomes, Release, haltVars, entryVars, bookVars,
               panicVars
    <2>3. (row \in [Entries -> Row])'
        BY <1>11, <1>d, <1>s, PanicAssumption
           DEF SettleEntry, Becomes, Release, Row, haltVars, entryVars,
               bookVars, panicVars
    <2>4. (managed \subseteq Entries)'
        BY <1>11, <1>h, <1>s, PanicAssumption
           DEF SettleEntry, Becomes, Release, haltVars, entryVars, bookVars,
               panicVars
    <2>5. UNCHANGED <<accountHalt, net, fl, order, trips, faults>>
        BY <1>11
           DEF SettleEntry, Becomes, Release, haltVars, entryVars, bookVars,
               panicVars
    <2> QED
        BY <2>1, <2>2, <2>3, <2>4, <2>5, <1>a, <1>e, <1>f, <1>g, <1>i, <1>j
           DEF TypeInv
<1>12. ASSUME NEW e \in Entries, RejectEntry(e) PROVE TypeInv'
    <2>1. (step \in [Entries -> Step])'
        BY <1>12, <1>c, <1>s, PanicAssumption
           DEF RejectEntry, Becomes, Release, Fault, Step, haltVars, entryVars,
               bookVars, panicVars
    <2>2. (lock \in [Accounts -> Entries \cup {NoOne}])'
        BY <1>12, <1>b, <1>s, PanicAssumption
           DEF RejectEntry, Becomes, Release, Fault, haltVars, entryVars,
               bookVars, panicVars
    <2>3. (row \in [Entries -> Row])'
        BY <1>12, <1>d, <1>s, PanicAssumption
           DEF RejectEntry, Becomes, Release, Fault, Row, haltVars, entryVars,
               bookVars, panicVars
    <2>4. (faults \in Nat)'
        BY <1>12, <1>j, <1>s, PanicAssumption
           DEF RejectEntry, Becomes, Release, Fault, haltVars, entryVars,
               bookVars, panicVars
    <2>5. UNCHANGED <<accountHalt, net, fl, order, managed, trips>>
        BY <1>12
           DEF RejectEntry, Becomes, Release, Fault, haltVars, entryVars,
               bookVars, panicVars
    <2> QED
        BY <2>1, <2>2, <2>3, <2>4, <2>5, <1>a, <1>e, <1>f, <1>g, <1>h, <1>i
           DEF TypeInv
<1>13. ASSUME NEW f \in Flattens, NEW halt \in BOOLEAN, PanicCloseAll(f, halt) PROVE TypeInv'
    <2>1. (fl \in [Flattens -> Flatten])'
        <3>1. fl[f] \in Flatten
            BY <1>f
        <3>2. [fl[f] EXCEPT !.phase = "placing", !.scope = Accounts, !.todo = Accounts] \in Flatten
            BY <3>1 DEF Flatten
        <3>3. fl' = [fl EXCEPT ![f] = [fl[f] EXCEPT !.phase = "placing", !.scope = Accounts, !.todo = Accounts]]
            BY <1>13, <1>f DEF PanicCloseAll, Begin
        <3> QED
            BY <3>2, <3>3, <1>f
    <2>2. UNCHANGED <<accountHalt, lock, step, row, net, order, managed, trips, faults>>
        BY <1>13
           DEF PanicCloseAll, Begin, haltVars, entryVars, bookVars, panicVars
    <2> QED
        BY <2>1, <2>2, <1>a, <1>b, <1>c, <1>d, <1>e, <1>g, <1>h, <1>i, <1>j
           DEF TypeInv
<1>14. ASSUME NEW f \in Flattens, PanicCloseAccount(f) PROVE TypeInv'
    <2>1. (accountHalt \subseteq Accounts)'
        BY <1>14, <1>a, <1>f, <1>s, PanicAssumption
           DEF PanicCloseAccount, Begin, Flatten, haltVars, entryVars,
               bookVars, panicVars
    <2>2. (fl \in [Flattens -> Flatten])'
        <3>1. fl[f] \in Flatten
            BY <1>f
        <3>2. fl[f].scope \in SUBSET Accounts
            BY <1>f DEF Flatten
        <3>3. [fl[f] EXCEPT !.phase = "placing", !.scope = fl[f].scope, !.todo = fl[f].scope] \in Flatten
            BY <3>1, <3>2 DEF Flatten
        <3>4. fl' = [fl EXCEPT ![f] = [fl[f] EXCEPT !.phase = "placing", !.scope = fl[f].scope, !.todo = fl[f].scope]]
            BY <1>14, <1>f DEF PanicCloseAccount, Begin
        <3> QED
            BY <3>3, <3>4, <1>f
    <2>3. UNCHANGED <<lock, step, row, net, order, managed, trips, faults>>
        BY <1>14
           DEF PanicCloseAccount, Begin, haltVars, entryVars, bookVars,
               panicVars
    <2> QED
        BY <2>1, <2>2, <2>3, <1>b, <1>c, <1>d, <1>e, <1>g, <1>h, <1>i, <1>j
           DEF TypeInv
<1>15. ASSUME NEW f \in Flattens, PlaceClose(f) PROVE TypeInv'
    <2>1. (order \in [Flattens -> [Accounts -> Close]])'
        <3>1. fl[f].at \in Accounts /\ fl[f].size \in Int
            BY <1>15, <1>f DEF PlaceClose, Flatten
        <3>2. [state |-> "working", size |-> fl[f].size, fill |-> 0] \in Close
            BY <3>1 DEF Close
        <3>3. order' = [order EXCEPT ![f][fl[f].at] = [state |-> "working", size |-> fl[f].size, fill |-> 0]]
            BY <1>15, <1>g DEF PlaceClose
        <3> QED
            BY <3>2, <3>3, <3>1, <1>g
    <2>2. (fl \in [Flattens -> Flatten])'
        <3>1. fl[f] \in Flatten
            BY <1>f
        <3>2. fl[f].at \in Accounts
            BY <1>15, <1>f DEF PlaceClose, Flatten
        <3>3. [fl[f] EXCEPT !.at = NoOne, !.placed = @ \cup {fl[f].at}] \in Flatten
            BY <3>1, <3>2 DEF Flatten
        <3>4. fl' = [fl EXCEPT ![f] = [fl[f] EXCEPT !.at = NoOne, !.placed = @ \cup {fl[f].at}]]
            BY <1>15, <1>f DEF PlaceClose
        <3> QED
            BY <3>3, <3>4, <1>f
    <2>3. UNCHANGED <<accountHalt, lock, step, row, net, managed, trips, faults>>
        BY <1>15 DEF PlaceClose, haltVars, entryVars, bookVars, panicVars
    <2> QED
        BY <2>1, <2>2, <2>3, <1>a, <1>b, <1>c, <1>d, <1>e, <1>h, <1>i, <1>j
           DEF TypeInv
<1>16. ASSUME NEW f \in Flattens, PlaceCloseFails(f) PROVE TypeInv'
    <2>1. (order \in [Flattens -> [Accounts -> Close]])'
        <3>1. fl[f].at \in Accounts /\ fl[f].size \in Int
            BY <1>16, <1>f DEF PlaceCloseFails, Flatten
        <3>2. [state |-> "working", size |-> fl[f].size, fill |-> 0] \in Close
            BY <3>1 DEF Close
        <3>3. \/ order' = order
              \/ order' = [order EXCEPT ![f][fl[f].at] = [state |-> "working", size |-> fl[f].size, fill |-> 0]]
            BY <1>16, <1>g DEF PlaceCloseFails
        <3> QED
            BY <3>2, <3>3, <3>1, <1>g
    <2>2. (fl \in [Flattens -> Flatten])'
        <3>1. fl[f] \in Flatten
            BY <1>f
        <3>2. [fl[f] EXCEPT !.at = NoOne, !.failed = TRUE] \in Flatten
            BY <3>1 DEF Flatten
        <3>3. fl' = [fl EXCEPT ![f] = [fl[f] EXCEPT !.at = NoOne, !.failed = TRUE]]
            BY <1>16, <1>f DEF PlaceCloseFails
        <3> QED
            BY <3>2, <3>3, <1>f
    <2>3. (faults \in Nat)'
        BY <1>16, <1>j, <1>s, PanicAssumption
           DEF PlaceCloseFails, Fault, haltVars, entryVars, bookVars, panicVars
    <2>4. UNCHANGED <<accountHalt, lock, step, row, net, managed, trips>>
        BY <1>16
           DEF PlaceCloseFails, Fault, haltVars, entryVars, bookVars, panicVars
    <2> QED
        BY <2>1, <2>2, <2>3, <2>4, <1>a, <1>b, <1>c, <1>d, <1>e, <1>h, <1>i
           DEF TypeInv
<1>17. ASSUME NEW f \in Flattens, NEW a \in Accounts, SkipSession(f, a) PROVE TypeInv'
    <2>1. (fl \in [Flattens -> Flatten])'
        <3>1. fl[f] \in Flatten
            BY <1>f
        <3>2. [fl[f] EXCEPT !.todo = @ \ {a}] \in Flatten
            BY <3>1 DEF Flatten
        <3>3. fl' = [fl EXCEPT ![f] = [fl[f] EXCEPT !.todo = @ \ {a}]]
            BY <1>17, <1>f DEF SkipSession
        <3> QED
            BY <3>2, <3>3, <1>f
    <2>2. (faults \in Nat)'
        BY <1>17, <1>j, <1>s, PanicAssumption
           DEF SkipSession, Fault, Flattening, haltVars, entryVars, bookVars,
               panicVars
    <2>3. UNCHANGED <<accountHalt, lock, step, row, net, order, managed, trips>>
        BY <1>17
           DEF SkipSession, Fault, Flattening, haltVars, entryVars, bookVars,
               panicVars
    <2> QED
        BY <2>1, <2>2, <2>3, <1>a, <1>b, <1>c, <1>d, <1>e, <1>g, <1>h, <1>i
           DEF TypeInv
<1>18. ASSUME NEW f \in Flattens, NEW a \in Accounts, ReadPosition(f, a) PROVE TypeInv'
    <2>1. (fl \in [Flattens -> Flatten])'
        <3>1. fl[f] \in Flatten
            BY <1>f
        <3>2. net[a] \in Int
            BY <1>e
        <3>3. [fl[f] EXCEPT !.todo = @ \ {a}, !.at = IF net[a] = 0 THEN NoOne ELSE a, !.size = net[a]] \in Flatten
            BY <3>1, <3>2 DEF Flatten
        <3>4. fl' = [fl EXCEPT ![f] = [fl[f] EXCEPT !.todo = @ \ {a}, !.at = IF net[a] = 0 THEN NoOne ELSE a, !.size = net[a]]]
            BY <1>18, <1>f DEF ReadPosition
        <3> QED
            BY <3>3, <3>4, <1>f
    <2>2. UNCHANGED <<accountHalt, lock, step, row, net, order, managed, trips, faults>>
        BY <1>18
           DEF ReadPosition, Flattening, haltVars, entryVars, bookVars,
               panicVars
    <2> QED
        BY <2>1, <2>2, <1>a, <1>b, <1>c, <1>d, <1>e, <1>g, <1>h, <1>i, <1>j
           DEF TypeInv
<1>19. ASSUME NEW f \in Flattens, BeginBooking(f) PROVE TypeInv'
    <2>1. (fl \in [Flattens -> Flatten])'
        <3>1. fl[f] \in Flatten
            BY <1>f
        <3>2. fl[f].placed \in SUBSET Accounts
            BY <1>f DEF Flatten
        <3>3. managed \in SUBSET Entries
            BY <1>h
        <3>4. [fl[f] EXCEPT !.phase = "booking", !.todo = fl[f].placed,
               !.states = {e \in managed : AccountOf[e] \in fl[f].placed /\ row[e].status = "open"}] \in Flatten
            BY <3>1, <3>2, <3>3 DEF Flatten
        <3>5. fl' = [fl EXCEPT ![f] = [fl[f] EXCEPT !.phase = "booking", !.todo = fl[f].placed,
               !.states = {e \in managed : AccountOf[e] \in fl[f].placed /\ row[e].status = "open"}]]
            BY <1>19, <1>f DEF BeginBooking
        <3> QED
            BY <3>4, <3>5, <1>f
    <2>2. UNCHANGED <<accountHalt, lock, step, row, net, order, managed, trips, faults>>
        BY <1>19 DEF BeginBooking, haltVars, entryVars, bookVars, panicVars
    <2> QED
        BY <2>1, <2>2, <1>a, <1>b, <1>c, <1>d, <1>e, <1>g, <1>h, <1>i, <1>j
           DEF TypeInv
<1>20. ASSUME NEW f \in Flattens, NEW a \in Accounts, BookClose(f, a) PROVE TypeInv'
    <2>1. (row \in [Entries -> Row])'
        <3>1. PICK C : row' = [e \in Entries |-> IF e \in C
                THEN [row[e] EXCEPT !.status = "closed", !.closed = row[e].closed + 1] ELSE row[e]]
            BY <1>20 DEF BookClose, Book
        <3>2. \A r \in Row, n \in Nat : [r EXCEPT !.status = "closed", !.closed = n] \in Row
            BY DEF Row
        <3>3. \A r \in Row : r.closed + 1 \in Nat
            BY DEF Row
        <3> QED
            BY <3>1, <3>2, <3>3, <1>d
    <2>2. (managed \subseteq Entries)'
        BY <1>20, <1>h, <1>s, PanicAssumption
           DEF BookClose, Book, Fault, Attributed, On, haltVars, entryVars,
               bookVars, panicVars
    <2>3. (fl \in [Flattens -> Flatten])'
        <3>1. fl[f] \in Flatten
            BY <1>f
        <3>2. [fl[f] EXCEPT !.todo = @ \ {a}] \in Flatten
            BY <3>1 DEF Flatten
        <3>3. fl' = [fl EXCEPT ![f] = [fl[f] EXCEPT !.todo = @ \ {a}]]
            BY <1>20, <1>f DEF BookClose
        <3> QED
            BY <3>2, <3>3, <1>f
    <2>4. (faults \in Nat)'
        <3>1. faults' = faults \/ faults' = faults + 1
            BY <1>20 DEF BookClose, Book, Fault
        <3> QED
            BY <3>1, <1>j
    <2>5. UNCHANGED <<accountHalt, lock, step, net, order, trips>>
        BY <1>20
           DEF BookClose, Book, Fault, Attributed, On, haltVars, entryVars,
               bookVars, panicVars
    <2> QED
        BY <2>1, <2>2, <2>3, <2>4, <2>5, <1>a, <1>b, <1>c, <1>e, <1>g, <1>i
           DEF TypeInv
<1>21. ASSUME NEW f \in Flattens, NEW a \in Accounts, LeaveUnconfirmed(f, a) PROVE TypeInv'
    <2>1. (fl \in [Flattens -> Flatten])'
        BY <1>21, <1>f, <1>s, PanicAssumption
           DEF LeaveUnconfirmed, Fault, Flatten, haltVars, entryVars, bookVars,
               panicVars
    <2>2. (faults \in Nat)'
        BY <1>21, <1>j, <1>s, PanicAssumption
           DEF LeaveUnconfirmed, Fault, haltVars, entryVars, bookVars,
               panicVars
    <2>3. UNCHANGED <<accountHalt, lock, step, row, net, order, managed, trips>>
        BY <1>21
           DEF LeaveUnconfirmed, Fault, haltVars, entryVars, bookVars,
               panicVars
    <2> QED
        BY <2>1, <2>2, <2>3, <1>a, <1>b, <1>c, <1>d, <1>e, <1>g, <1>h, <1>i
           DEF TypeInv
<1>22. ASSUME NEW f \in Flattens, NEW a \in Accounts, VenueRejectsClose(f, a) PROVE TypeInv'
    <2>1. (order \in [Flattens -> [Accounts -> Close]])'
        <3>1. order[f][a] \in Close
            BY <1>g
        <3>2. [order[f][a] EXCEPT !.state = "cancelled"] \in Close
            BY <3>1 DEF Close
        <3>3. order' = [order EXCEPT ![f][a] = [order[f][a] EXCEPT !.state = "cancelled"]]
            BY <1>22, <1>g DEF VenueRejectsClose
        <3> QED
            BY <3>2, <3>3, <3>1, <1>g
    <2>2. (faults \in Nat)'
        BY <1>22, <1>j, <1>s, PanicAssumption
           DEF VenueRejectsClose, Fault, haltVars, entryVars, bookVars,
               panicVars
    <2>3. UNCHANGED <<accountHalt, lock, step, row, net, fl, managed, trips>>
        BY <1>22
           DEF VenueRejectsClose, Fault, haltVars, entryVars, bookVars,
               panicVars
    <2> QED
        BY <2>1, <2>2, <2>3, <1>a, <1>b, <1>c, <1>d, <1>e, <1>f, <1>h, <1>i
           DEF TypeInv
<1>23. ASSUME NEW f \in Flattens, Report(f) PROVE TypeInv'
    <2>1. (fl \in [Flattens -> Flatten])'
        BY <1>23, <1>f, <1>s, PanicAssumption
           DEF Report, Flatten, haltVars, entryVars, bookVars, panicVars
    <2>2. UNCHANGED <<accountHalt, lock, step, row, net, order, managed, trips, faults>>
        BY <1>23 DEF Report, haltVars, entryVars, bookVars, panicVars
    <2> QED
        BY <2>1, <2>2, <1>a, <1>b, <1>c, <1>d, <1>e, <1>g, <1>h, <1>i, <1>j
           DEF TypeInv
<1>24. CASE UNCHANGED vars
    BY <1>24 DEF vars, TypeInv, haltVars, entryVars, bookVars, panicVars
<1> QED
    BY <1>1, <1>2, <1>3, <1>4, <1>5, <1>6, <1>7, <1>8, <1>9, <1>10, <1>11,
       <1>12, <1>13, <1>14, <1>15, <1>16, <1>17, <1>18, <1>19, <1>20,
       <1>21, <1>22, <1>23, <1>24
    DEF Next, EntryStep, FlattenStep, VenueStep

(* A step of flatten f leaves the other flattens alone.                    *)
Elsewhere(f) == \A g \in Flattens \ {f} : fl'[g] = fl[g]

(* A step of the close of flatten f on account a leaves the others alone.  *)
OtherCloses(f, a) ==
    \A g \in Flattens, b \in Accounts : g # f \/ b # a => order'[g][b] = order[g][b]

(* What each step of a flatten does, field by field.                       *)
LEMMA PanicCloseAllEffect ==
    ASSUME TypeInv, NEW f \in Flattens, NEW halt \in BOOLEAN, PanicCloseAll(f, halt)
    PROVE  /\ f \in Panics /\ fl[f].phase = "idle"
           /\ fl'[f].phase = "placing"
           /\ fl'[f].scope = Accounts
           /\ fl'[f].todo = Accounts
           /\ fl'[f].at = fl[f].at
           /\ fl'[f].placed = fl[f].placed
           /\ fl'[f].size = fl[f].size
           /\ Elsewhere(f)
           /\ UNCHANGED <<accountHalt, trips, breached, entryVars, bookVars, net, order, faults>>
<1>1. fl[f] \in Flatten /\ order[f] \in [Accounts -> Close]
    BY DEF TypeInv
<1>2. /\ f \in Panics /\ fl[f].phase = "idle"
      /\ UNCHANGED <<accountHalt, trips, breached, entryVars, bookVars, net, order, faults>>
    BY <1>1 DEF PanicCloseAll, Begin
<1>3. /\ Elsewhere(f)
      /\ fl'[f] = [fl[f] EXCEPT !.phase = "placing", !.scope = Accounts, !.todo = Accounts]
    BY DEF TypeInv, Elsewhere, PanicCloseAll, Begin
<1>4. /\ fl'[f].phase = "placing"
      /\ fl'[f].scope = Accounts
      /\ fl'[f].todo = Accounts
      /\ fl'[f].at = fl[f].at
      /\ fl'[f].placed = fl[f].placed
      /\ fl'[f].size = fl[f].size
    BY <1>1, <1>3 DEF Flatten
<1> QED
    BY <1>2, <1>3, <1>4

LEMMA PanicCloseAccountEffect ==
    ASSUME TypeInv, NEW f \in Flattens, PanicCloseAccount(f)
    PROVE  /\ fl[f].phase = "tripped"
           /\ accountHalt' = accountHalt \cup fl[f].scope
           /\ fl'[f].phase = "placing"
           /\ fl'[f].scope = fl[f].scope
           /\ fl'[f].todo = fl[f].scope
           /\ fl'[f].at = fl[f].at
           /\ fl'[f].placed = fl[f].placed
           /\ fl'[f].size = fl[f].size
           /\ Elsewhere(f)
           /\ UNCHANGED <<trips, breached, entryVars, bookVars, net, order, faults>>
<1>1. fl[f] \in Flatten /\ order[f] \in [Accounts -> Close]
    BY DEF TypeInv
<1>2. /\ fl[f].phase = "tripped"
      /\ accountHalt' = accountHalt \cup fl[f].scope
      /\ UNCHANGED <<trips, breached, entryVars, bookVars, net, order, faults>>
    BY <1>1 DEF PanicCloseAccount, Begin
<1>3. /\ Elsewhere(f)
      /\ fl'[f] = [fl[f] EXCEPT !.phase = "placing", !.scope = fl[f].scope, !.todo = fl[f].scope]
    BY DEF TypeInv, Elsewhere, PanicCloseAccount, Begin
<1>4. /\ fl'[f].phase = "placing"
      /\ fl'[f].scope = fl[f].scope
      /\ fl'[f].todo = fl[f].scope
      /\ fl'[f].at = fl[f].at
      /\ fl'[f].placed = fl[f].placed
      /\ fl'[f].size = fl[f].size
    BY <1>1, <1>3 DEF Flatten
<1> QED
    BY <1>2, <1>3, <1>4

LEMMA SkipSessionEffect ==
    ASSUME TypeInv, NEW f \in Flattens, NEW a \in Accounts, SkipSession(f, a)
    PROVE  /\ fl[f].phase = "placing" /\ fl[f].at = NoOne /\ a \in fl[f].todo
           /\ faults' = faults + 1
           /\ fl'[f].phase = fl[f].phase
           /\ fl'[f].scope = fl[f].scope
           /\ fl'[f].todo = fl[f].todo \ {a}
           /\ fl'[f].at = fl[f].at
           /\ fl'[f].placed = fl[f].placed
           /\ fl'[f].size = fl[f].size
           /\ Elsewhere(f)
           /\ UNCHANGED <<haltVars, breached, entryVars, bookVars, net, order>>
<1>1. fl[f] \in Flatten /\ order[f] \in [Accounts -> Close]
    BY DEF TypeInv
<1>2. /\ fl[f].phase = "placing" /\ fl[f].at = NoOne /\ a \in fl[f].todo
      /\ faults' = faults + 1
      /\ UNCHANGED <<haltVars, breached, entryVars, bookVars, net, order>>
    BY <1>1 DEF SkipSession, Fault, Flattening
<1>3. /\ Elsewhere(f)
      /\ fl'[f] = [fl[f] EXCEPT !.todo = @ \ {a}]
    BY DEF TypeInv, Elsewhere, SkipSession, Fault, Flattening
<1>4. /\ fl'[f].phase = fl[f].phase
      /\ fl'[f].scope = fl[f].scope
      /\ fl'[f].todo = fl[f].todo \ {a}
      /\ fl'[f].at = fl[f].at
      /\ fl'[f].placed = fl[f].placed
      /\ fl'[f].size = fl[f].size
    BY <1>1, <1>3 DEF Flatten
<1> QED
    BY <1>2, <1>3, <1>4

LEMMA ReadPositionEffect ==
    ASSUME TypeInv, NEW f \in Flattens, NEW a \in Accounts, ReadPosition(f, a)
    PROVE  /\ fl[f].phase = "placing" /\ fl[f].at = NoOne /\ a \in fl[f].todo
           /\ fl'[f].phase = fl[f].phase
           /\ fl'[f].scope = fl[f].scope
           /\ fl'[f].todo = fl[f].todo \ {a}
           /\ fl'[f].at = (IF net[a] = 0 THEN NoOne ELSE a)
           /\ fl'[f].placed = fl[f].placed
           /\ fl'[f].size = net[a]
           /\ Elsewhere(f)
           /\ UNCHANGED <<haltVars, breached, entryVars, bookVars, net, order, faults>>
<1>1. fl[f] \in Flatten /\ order[f] \in [Accounts -> Close]
    BY DEF TypeInv
<1>2. /\ fl[f].phase = "placing" /\ fl[f].at = NoOne /\ a \in fl[f].todo
      /\ UNCHANGED <<haltVars, breached, entryVars, bookVars, net, order, faults>>
    BY <1>1 DEF ReadPosition, Flattening
<1>3. /\ Elsewhere(f)
      /\ \E x : /\ x = IF net[a] = 0 THEN NoOne ELSE a
                /\ fl'[f] = [fl[f] EXCEPT !.todo = @ \ {a}, !.at = x, !.size = net[a]]
    BY DEF TypeInv, Elsewhere, ReadPosition, Flattening
<1>4. /\ fl'[f].phase = fl[f].phase
      /\ fl'[f].scope = fl[f].scope
      /\ fl'[f].todo = fl[f].todo \ {a}
      /\ fl'[f].at = (IF net[a] = 0 THEN NoOne ELSE a)
      /\ fl'[f].placed = fl[f].placed
      /\ fl'[f].size = net[a]
    BY <1>1, <1>3 DEF Flatten
<1> QED
    BY <1>2, <1>3, <1>4

LEMMA PlaceCloseEffect ==
    ASSUME TypeInv, NEW f \in Flattens, PlaceClose(f)
    PROVE  /\ fl[f].at \in Accounts
           /\ fl'[f].phase = fl[f].phase
           /\ fl'[f].scope = fl[f].scope
           /\ fl'[f].todo = fl[f].todo
           /\ fl'[f].at = NoOne
           /\ fl'[f].placed = fl[f].placed \cup {fl[f].at}
           /\ fl'[f].size = fl[f].size
           /\ Elsewhere(f)
           /\ order'[f][fl[f].at].state = "working"
           /\ order'[f][fl[f].at].size = fl[f].size
           /\ OtherCloses(f, fl[f].at)
           /\ UNCHANGED <<haltVars, breached, entryVars, bookVars, net, faults>>
<1>1. fl[f] \in Flatten /\ order[f] \in [Accounts -> Close]
    BY DEF TypeInv
<1>2. /\ fl[f].at \in Accounts
      /\ UNCHANGED <<haltVars, breached, entryVars, bookVars, net, faults>>
    BY <1>1 DEF PlaceClose, Flatten
<1>3. /\ Elsewhere(f)
      /\ fl'[f] = [fl[f] EXCEPT !.at = NoOne, !.placed = @ \cup {fl[f].at}]
    BY DEF TypeInv, Elsewhere, PlaceClose
<1>4. /\ fl'[f].phase = fl[f].phase
      /\ fl'[f].scope = fl[f].scope
      /\ fl'[f].todo = fl[f].todo
      /\ fl'[f].at = NoOne
      /\ fl'[f].placed = fl[f].placed \cup {fl[f].at}
      /\ fl'[f].size = fl[f].size
    BY <1>1, <1>3 DEF Flatten
<1>5. OtherCloses(f, fl[f].at)
    BY <1>2 DEF TypeInv, OtherCloses, PlaceClose
<1>6. /\ order'[f][fl[f].at].state = "working"
      /\ order'[f][fl[f].at].size = fl[f].size
    BY <1>1, <1>2 DEF TypeInv, Close, PlaceClose
<1> QED
    BY <1>2, <1>3, <1>4, <1>5, <1>6

LEMMA PlaceCloseFailsEffect ==
    ASSUME TypeInv, NEW f \in Flattens, PlaceCloseFails(f)
    PROVE  /\ fl[f].at \in Accounts
           /\ faults' = faults + 1
           /\ fl'[f].phase = fl[f].phase
           /\ fl'[f].scope = fl[f].scope
           /\ fl'[f].todo = fl[f].todo
           /\ fl'[f].at = NoOne
           /\ fl'[f].placed = fl[f].placed
           /\ fl'[f].size = fl[f].size
           /\ Elsewhere(f)
           /\ \/ order' = order
              \/ order'[f][fl[f].at].state = "working" /\ order'[f][fl[f].at].size = fl[f].size /\ OtherCloses(f, fl[f].at)
           /\ UNCHANGED <<haltVars, breached, entryVars, bookVars, net>>
<1>1. fl[f] \in Flatten /\ order[f] \in [Accounts -> Close]
    BY DEF TypeInv
<1>2. /\ fl[f].at \in Accounts
      /\ faults' = faults + 1
      /\ UNCHANGED <<haltVars, breached, entryVars, bookVars, net>>
    BY <1>1 DEF PlaceCloseFails, Fault, Flatten
<1>3. /\ Elsewhere(f)
      /\ fl'[f] = [fl[f] EXCEPT !.at = NoOne, !.failed = TRUE]
    BY DEF TypeInv, Elsewhere, PlaceCloseFails, Fault
<1>4. /\ fl'[f].phase = fl[f].phase
      /\ fl'[f].scope = fl[f].scope
      /\ fl'[f].todo = fl[f].todo
      /\ fl'[f].at = NoOne
      /\ fl'[f].placed = fl[f].placed
      /\ fl'[f].size = fl[f].size
    BY <1>1, <1>3 DEF Flatten
<1>5. \/ order' = order
      \/ order' = [order EXCEPT ![f][fl[f].at] = [state |-> "working", size |-> fl[f].size, fill |-> 0]]
    BY DEF PlaceCloseFails, Fault
<1>6. \/ order' = order
      \/ order'[f][fl[f].at].state = "working" /\ order'[f][fl[f].at].size = fl[f].size /\ OtherCloses(f, fl[f].at)
    BY <1>2, <1>5 DEF TypeInv, OtherCloses
<1> QED
    BY <1>2, <1>3, <1>4, <1>6

LEMMA VenueFillsCloseEffect ==
    ASSUME TypeInv, NEW f \in Flattens, NEW a \in Accounts, VenueFillsClose(f, a)
    PROVE  /\ order[f][a].state = "working"
           /\ net' = [net EXCEPT ![a] = @ - Reducible(a, order[f][a].size)]
           /\ order'[f][a].state = (IF Reducible(a, order[f][a].size) = 0 THEN "cancelled" ELSE "filled")
           /\ order'[f][a].size = order[f][a].size
           /\ OtherCloses(f, a)
           /\ UNCHANGED <<haltVars, breached, entryVars, bookVars, fl, faults>>
<1>1. fl[f] \in Flatten /\ order[f] \in [Accounts -> Close]
    BY DEF TypeInv
<1>2. /\ order[f][a].state = "working"
      /\ net' = [net EXCEPT ![a] = @ - Reducible(a, order[f][a].size)]
      /\ UNCHANGED <<haltVars, breached, entryVars, bookVars, fl, faults>>
    BY <1>1 DEF VenueFillsClose
<1>3. OtherCloses(f, a)
    BY <1>2 DEF TypeInv, OtherCloses, VenueFillsClose
<1>4. /\ order'[f][a].state = (IF Reducible(a, order[f][a].size) = 0 THEN "cancelled" ELSE "filled")
      /\ order'[f][a].size = order[f][a].size
    BY <1>1, <1>2 DEF TypeInv, Close, VenueFillsClose
<1> QED
    BY <1>2, <1>3, <1>4

LEMMA VenueRejectsCloseEffect ==
    ASSUME TypeInv, NEW f \in Flattens, NEW a \in Accounts, VenueRejectsClose(f, a)
    PROVE  /\ order[f][a].state = "working"
           /\ faults' = faults + 1
           /\ order'[f][a].state = "cancelled"
           /\ order'[f][a].size = order[f][a].size
           /\ OtherCloses(f, a)
           /\ UNCHANGED <<haltVars, breached, entryVars, bookVars, net, fl>>
<1>1. fl[f] \in Flatten /\ order[f] \in [Accounts -> Close]
    BY DEF TypeInv
<1>2. /\ order[f][a].state = "working"
      /\ faults' = faults + 1
      /\ UNCHANGED <<haltVars, breached, entryVars, bookVars, net, fl>>
    BY <1>1 DEF VenueRejectsClose, Fault
<1>3. OtherCloses(f, a)
    BY <1>2 DEF TypeInv, OtherCloses, VenueRejectsClose, Fault
<1>4. /\ order'[f][a].state = "cancelled"
      /\ order'[f][a].size = order[f][a].size
    BY <1>1, <1>2 DEF TypeInv, Close, VenueRejectsClose, Fault
<1> QED
    BY <1>2, <1>3, <1>4

LEMMA BeginBookingEffect ==
    ASSUME TypeInv, NEW f \in Flattens, BeginBooking(f)
    PROVE  /\ fl[f].phase = "placing" /\ fl[f].todo = {} /\ fl[f].at = NoOne
           /\ fl'[f].phase = "booking"
           /\ fl'[f].scope = fl[f].scope
           /\ fl'[f].todo = fl[f].placed
           /\ fl'[f].at = fl[f].at
           /\ fl'[f].placed = fl[f].placed
           /\ fl'[f].size = fl[f].size
           /\ Elsewhere(f)
           /\ UNCHANGED <<haltVars, breached, entryVars, bookVars, net, order, faults>>
<1>1. fl[f] \in Flatten /\ order[f] \in [Accounts -> Close]
    BY DEF TypeInv
<1>2. /\ fl[f].phase = "placing" /\ fl[f].todo = {} /\ fl[f].at = NoOne
      /\ UNCHANGED <<haltVars, breached, entryVars, bookVars, net, order, faults>>
    BY <1>1 DEF BeginBooking
<1>3. /\ Elsewhere(f)
      /\ \E S : fl'[f] = [fl[f] EXCEPT !.phase = "booking", !.todo = fl[f].placed, !.states = S]
    BY DEF TypeInv, Elsewhere, BeginBooking
<1>4. /\ fl'[f].phase = "booking"
      /\ fl'[f].scope = fl[f].scope
      /\ fl'[f].todo = fl[f].placed
      /\ fl'[f].at = fl[f].at
      /\ fl'[f].placed = fl[f].placed
      /\ fl'[f].size = fl[f].size
    BY <1>1, <1>3 DEF Flatten
<1> QED
    BY <1>2, <1>3, <1>4

LEMMA BookCloseEffect ==
    ASSUME TypeInv, NEW f \in Flattens, NEW a \in Accounts, BookClose(f, a)
    PROVE  /\ fl[f].phase = "booking" /\ a \in fl[f].todo /\ order[f][a].state = "filled"
           /\ fl'[f].phase = fl[f].phase
           /\ fl'[f].scope = fl[f].scope
           /\ fl'[f].todo = fl[f].todo \ {a}
           /\ fl'[f].at = fl[f].at
           /\ fl'[f].placed = fl[f].placed
           /\ fl'[f].size = fl[f].size
           /\ Elsewhere(f)
           /\ UNCHANGED <<haltVars, breached, entryVars, born, net, order>>
<1>1. fl[f] \in Flatten /\ order[f] \in [Accounts -> Close]
    BY DEF TypeInv
<1>2. /\ fl[f].phase = "booking" /\ a \in fl[f].todo /\ order[f][a].state = "filled"
      /\ UNCHANGED <<haltVars, breached, entryVars, born, net, order>>
    BY <1>1 DEF BookClose
<1>3. /\ Elsewhere(f)
      /\ fl'[f] = [fl[f] EXCEPT !.todo = @ \ {a}]
    BY DEF TypeInv, Elsewhere, BookClose
<1>4. /\ fl'[f].phase = fl[f].phase
      /\ fl'[f].scope = fl[f].scope
      /\ fl'[f].todo = fl[f].todo \ {a}
      /\ fl'[f].at = fl[f].at
      /\ fl'[f].placed = fl[f].placed
      /\ fl'[f].size = fl[f].size
    BY <1>1, <1>3 DEF Flatten
<1> QED
    BY <1>2, <1>3, <1>4

LEMMA LeaveUnconfirmedEffect ==
    ASSUME TypeInv, NEW f \in Flattens, NEW a \in Accounts, LeaveUnconfirmed(f, a)
    PROVE  /\ fl[f].phase = "booking" /\ a \in fl[f].todo /\ order[f][a].state # "filled"
           /\ fl'[f].phase = fl[f].phase
           /\ fl'[f].scope = fl[f].scope
           /\ fl'[f].todo = fl[f].todo \ {a}
           /\ fl'[f].at = fl[f].at
           /\ fl'[f].placed = fl[f].placed
           /\ fl'[f].size = fl[f].size
           /\ Elsewhere(f)
           /\ UNCHANGED <<haltVars, breached, entryVars, bookVars, net, order>>
<1>1. fl[f] \in Flatten /\ order[f] \in [Accounts -> Close]
    BY DEF TypeInv
<1>2. /\ fl[f].phase = "booking" /\ a \in fl[f].todo /\ order[f][a].state # "filled"
      /\ UNCHANGED <<haltVars, breached, entryVars, bookVars, net, order>>
    BY <1>1 DEF LeaveUnconfirmed
<1>3. /\ Elsewhere(f)
      /\ fl'[f] = [fl[f] EXCEPT !.todo = @ \ {a}]
    BY DEF TypeInv, Elsewhere, LeaveUnconfirmed
<1>4. /\ fl'[f].phase = fl[f].phase
      /\ fl'[f].scope = fl[f].scope
      /\ fl'[f].todo = fl[f].todo \ {a}
      /\ fl'[f].at = fl[f].at
      /\ fl'[f].placed = fl[f].placed
      /\ fl'[f].size = fl[f].size
    BY <1>1, <1>3 DEF Flatten
<1> QED
    BY <1>2, <1>3, <1>4

LEMMA ReportEffect ==
    ASSUME TypeInv, NEW f \in Flattens, Report(f)
    PROVE  /\ fl[f].phase = "booking" /\ fl[f].todo = {}
           /\ fl'[f].phase = "done"
           /\ fl'[f].scope = fl[f].scope
           /\ fl'[f].todo = fl[f].todo
           /\ fl'[f].at = fl[f].at
           /\ fl'[f].placed = fl[f].placed
           /\ fl'[f].size = fl[f].size
           /\ Elsewhere(f)
           /\ UNCHANGED <<haltVars, breached, entryVars, bookVars, net, order, faults>>
<1>1. fl[f] \in Flatten /\ order[f] \in [Accounts -> Close]
    BY DEF TypeInv
<1>2. /\ fl[f].phase = "booking" /\ fl[f].todo = {}
      /\ UNCHANGED <<haltVars, breached, entryVars, bookVars, net, order, faults>>
    BY <1>1 DEF Report
<1>3. /\ Elsewhere(f)
      /\ fl'[f] = [fl[f] EXCEPT !.phase = "done"]
    BY DEF TypeInv, Elsewhere, Report
<1>4. /\ fl'[f].phase = "done"
      /\ fl'[f].scope = fl[f].scope
      /\ fl'[f].todo = fl[f].todo
      /\ fl'[f].at = fl[f].at
      /\ fl'[f].placed = fl[f].placed
      /\ fl'[f].size = fl[f].size
    BY <1>1, <1>3 DEF Flatten
<1> QED
    BY <1>2, <1>3, <1>4

LEMMA DailyLossRailEffect ==
    ASSUME TypeInv, NEW e \in Entries, DailyLossRail(e)
    PROVE  /\ step[e] = "gated" /\ AccountOf[e] \in breached
           /\ \/ step' = [step EXCEPT ![e] = "refused"] /\ UNCHANGED <<fl, accountHalt, trips>>
              \/ /\ step' = [step EXCEPT ![e] = "tripping"]
                 /\ AccountOf[e] \notin accountHalt
                 /\ accountHalt' = accountHalt \cup {AccountOf[e]}
                 /\ trips' = [trips EXCEPT ![AccountOf[e]] = @ + 1]
                 /\ fl'[e] = [fl[e] EXCEPT !.phase = "tripped", !.scope = {AccountOf[e]}]
                 /\ Elsewhere(e)
           /\ UNCHANGED <<breached, bookVars, net, order, faults>>
<1>1. fl \in [Flattens -> Flatten] /\ e \in Flattens
    BY DEF TypeInv, Flattens
<1> QED
    BY <1>1 DEF DailyLossRail, Trips, Becomes, Elsewhere

----------------------------------------------------------------------------
(* A flatten whose record and closes a step leaves alone stays in order.   *)
LEMMA FlattenKept ==
    ASSUME TypeInv, FlattenInv, NEW g \in Flattens, fl'[g] = fl[g],
           \A a \in Accounts : order'[g][a] = order[g][a]
    PROVE  FlattenOk(g)'
<1>1. FlattenOk(g) /\ fl[g].at \in Accounts \cup {NoOne} /\ fl[g].scope \subseteq Accounts
    BY DEF TypeInv, Flatten, FlattenInv
<1> QED
    BY <1>1 DEF FlattenOk

(* What an entry's trip is depends on its step and its flatten's scope.    *)
LEMMA EntryKept ==
    ASSUME EntryInv, UNCHANGED step,
           \A e \in Entries : /\ fl'[e].phase = "idle" <=> fl[e].phase = "idle"
                              /\ fl'[e].scope = fl[e].scope
    PROVE  EntryInv'
BY DEF EntryInv, EntryOk

LEMMA LocalKept ==
    ASSUME LocalInv, UNCHANGED <<step, net, accountHalt, breached>>,
           \A f \in Flattens : fl'[f].phase = "idle" <=> fl[f].phase = "idle"
    PROVE  LocalInv'
<1>1. \A a \in Accounts : Bought(a)' = Bought(a)
    BY DEF Bought, On
<1> QED
    BY <1>1 DEF LocalInv, Local, Flattens

LEMMA CalmKept ==
    ASSUME CalmInv, NEW g \in Flattens, NEW a \in ReduceOnly, faults = 0, Calm(a),
           fl'[g] = fl[g], order'[g][a] = order[g][a], net'[a] = net[a]
    PROVE  CalmOk(g, a)'
BY DEF CalmInv, CalmOk

LEMMA UntouchedKept ==
    ASSUME UntouchedInv, UNCHANGED <<entryVars, bookVars>>,
           \A f \in Flattens, a \in Accounts :
               order[f][a].state = "filled" => order'[f][a].state = "filled"
    PROVE  UntouchedInv'
<1>1. \A e \in Tracked : Unconfirmed(AccountOf[e])' => Unconfirmed(AccountOf[e])
    BY PanicAssumption DEF Unconfirmed, Tracked
<1> QED
    BY <1>1 DEF UntouchedInv, Untouched, entryVars, bookVars

(* A flatten's sessions, closes and phases go together.                    *)
LEMMA FlattenPreserved ==
    ASSUME TypeInv, FlattenInv, EntryInv, [Next]_vars
    PROVE  FlattenInv'
<1>e. \A e \in Entries : step[e] = "gated" => fl[e].phase = "idle"
    BY DEF EntryInv, EntryOk
<1>1. ASSUME Resume PROVE FlattenInv'
    BY <1>1
       DEF Resume, FlattenInv, FlattenOk, haltVars, entryVars, bookVars,
           panicVars
<1>2. ASSUME NEW e \in Entries, VenueFillsEntry(e) PROVE FlattenInv'
    BY <1>2
       DEF VenueFillsEntry, Becomes, FlattenInv, FlattenOk, haltVars,
           entryVars, bookVars, panicVars
<1>3. ASSUME NEW f \in Flattens, NEW a \in Accounts, VenueFillsClose(f, a) PROVE FlattenInv'
    <2> SUFFICES ASSUME NEW g \in Flattens PROVE FlattenOk(g)'
        BY DEF FlattenInv
    <2>1. FlattenOk(f) /\ fl[f].at \in Accounts \cup {NoOne} /\ fl[f].scope \subseteq Accounts
        BY DEF TypeInv, Flatten, FlattenInv
    <2>2. CASE g = f
        BY <1>3, <2>1, <2>2, VenueFillsCloseEffect, PanicAssumption
           DEF FlattenOk, OtherCloses, panicVars
    <2>3. CASE g # f
        BY <1>3, <2>3, VenueFillsCloseEffect, FlattenKept
           DEF Elsewhere, OtherCloses, panicVars
    <2> QED
        BY <2>2, <2>3
<1>4. ASSUME NEW a \in Accounts, LossHits(a) PROVE FlattenInv'
    BY <1>4
       DEF LossHits, FlattenInv, FlattenOk, haltVars, entryVars, bookVars,
           panicVars
<1>5. ASSUME NEW e \in Entries, PassGate(e) PROVE FlattenInv'
    BY <1>5
       DEF PassGate, Becomes, FlattenInv, FlattenOk, haltVars, entryVars,
           bookVars, panicVars
<1>6. ASSUME NEW e \in Entries, RefuseHalted(e) PROVE FlattenInv'
    BY <1>6
       DEF RefuseHalted, Becomes, FlattenInv, FlattenOk, haltVars, entryVars,
           bookVars, panicVars
<1>7. ASSUME NEW e \in Entries, RailClear(e) PROVE FlattenInv'
    BY <1>7
       DEF RailClear, Becomes, FlattenInv, FlattenOk, haltVars, entryVars,
           bookVars, panicVars
<1>8. ASSUME NEW e \in Entries, DailyLossRail(e) PROVE FlattenInv'
    <2> SUFFICES ASSUME NEW g \in Flattens PROVE FlattenOk(g)'
        BY DEF FlattenInv
    <2>0. e \in Flattens /\ fl[e] \in Flatten /\ fl[g] \in Flatten /\ FlattenOk(e) /\ FlattenOk(g)
        BY DEF TypeInv, FlattenInv, Flattens
    <2>1. /\ step[e] = "gated"
          /\ \/ UNCHANGED fl
             \/ fl'[e] = [fl[e] EXCEPT !.phase = "tripped", !.scope = {AccountOf[e]}] /\ Elsewhere(e)
          /\ UNCHANGED order
        BY <1>8, DailyLossRailEffect
    <2>2. CASE UNCHANGED fl
        BY <2>0, <2>1, <2>2 DEF FlattenOk
    <2>3. CASE fl'[e] = [fl[e] EXCEPT !.phase = "tripped", !.scope = {AccountOf[e]}] /\ g = e
        BY <2>0, <2>1, <2>3, <1>e, PanicAssumption DEF FlattenOk, Flatten
    <2>4. CASE Elsewhere(e) /\ g # e
        BY <2>0, <2>1, <2>4 DEF FlattenOk, Elsewhere
    <2> QED
        BY <2>1, <2>2, <2>3, <2>4
<1>9. ASSUME NEW e \in Entries, TripDone(e) PROVE FlattenInv'
    BY <1>9
       DEF TripDone, Becomes, Release, FlattenInv, FlattenOk, haltVars,
           entryVars, bookVars, panicVars
<1>10. ASSUME NEW e \in Entries, SendEntry(e) PROVE FlattenInv'
    BY <1>10
       DEF SendEntry, Becomes, FlattenInv, FlattenOk, haltVars, entryVars,
           bookVars, panicVars
<1>11. ASSUME NEW e \in Entries, SettleEntry(e) PROVE FlattenInv'
    BY <1>11
       DEF SettleEntry, Becomes, Release, FlattenInv, FlattenOk, haltVars,
           entryVars, bookVars, panicVars
<1>12. ASSUME NEW e \in Entries, RejectEntry(e) PROVE FlattenInv'
    BY <1>12
       DEF RejectEntry, Becomes, Release, Fault, FlattenInv, FlattenOk,
           haltVars, entryVars, bookVars, panicVars
<1>13. ASSUME NEW f \in Flattens, NEW halt \in BOOLEAN, PanicCloseAll(f, halt) PROVE FlattenInv'
    <2> SUFFICES ASSUME NEW g \in Flattens PROVE FlattenOk(g)'
        BY DEF FlattenInv
    <2>1. FlattenOk(f) /\ fl[f].at \in Accounts \cup {NoOne} /\ fl[f].scope \subseteq Accounts
        BY DEF TypeInv, Flatten, FlattenInv
    <2>2. CASE g = f
        BY <1>13, <2>1, <2>2, PanicCloseAllEffect, PanicAssumption
           DEF FlattenOk, OtherCloses, panicVars
    <2>3. CASE g # f
        BY <1>13, <2>3, PanicCloseAllEffect, FlattenKept
           DEF Elsewhere, OtherCloses, panicVars
    <2> QED
        BY <2>2, <2>3
<1>14. ASSUME NEW f \in Flattens, PanicCloseAccount(f) PROVE FlattenInv'
    <2> SUFFICES ASSUME NEW g \in Flattens PROVE FlattenOk(g)'
        BY DEF FlattenInv
    <2>1. FlattenOk(f) /\ fl[f].at \in Accounts \cup {NoOne} /\ fl[f].scope \subseteq Accounts
        BY DEF TypeInv, Flatten, FlattenInv
    <2>2. CASE g = f
        BY <1>14, <2>1, <2>2, PanicCloseAccountEffect, PanicAssumption
           DEF FlattenOk, OtherCloses, panicVars
    <2>3. CASE g # f
        BY <1>14, <2>3, PanicCloseAccountEffect, FlattenKept
           DEF Elsewhere, OtherCloses, panicVars
    <2> QED
        BY <2>2, <2>3
<1>15. ASSUME NEW f \in Flattens, PlaceClose(f) PROVE FlattenInv'
    <2> SUFFICES ASSUME NEW g \in Flattens PROVE FlattenOk(g)'
        BY DEF FlattenInv
    <2>1. FlattenOk(f) /\ fl[f].at \in Accounts \cup {NoOne} /\ fl[f].scope \subseteq Accounts
        BY DEF TypeInv, Flatten, FlattenInv
    <2>2. CASE g = f
        BY <1>15, <2>1, <2>2, PlaceCloseEffect, PanicAssumption
           DEF FlattenOk, OtherCloses, panicVars
    <2>3. CASE g # f
        BY <1>15, <2>3, PlaceCloseEffect, FlattenKept
           DEF Elsewhere, OtherCloses, panicVars
    <2> QED
        BY <2>2, <2>3
<1>16. ASSUME NEW f \in Flattens, PlaceCloseFails(f) PROVE FlattenInv'
    <2> SUFFICES ASSUME NEW g \in Flattens PROVE FlattenOk(g)'
        BY DEF FlattenInv
    <2>1. FlattenOk(f) /\ fl[f].at \in Accounts \cup {NoOne} /\ fl[f].scope \subseteq Accounts
        BY DEF TypeInv, Flatten, FlattenInv
    <2>2. CASE g = f
        BY <1>16, <2>1, <2>2, PlaceCloseFailsEffect, PanicAssumption
           DEF FlattenOk, OtherCloses, panicVars
    <2>3. CASE g # f
        BY <1>16, <2>3, PlaceCloseFailsEffect, FlattenKept
           DEF Elsewhere, OtherCloses, panicVars
    <2> QED
        BY <2>2, <2>3
<1>17. ASSUME NEW f \in Flattens, NEW a \in Accounts, SkipSession(f, a) PROVE FlattenInv'
    <2> SUFFICES ASSUME NEW g \in Flattens PROVE FlattenOk(g)'
        BY DEF FlattenInv
    <2>1. FlattenOk(f) /\ fl[f].at \in Accounts \cup {NoOne} /\ fl[f].scope \subseteq Accounts
        BY DEF TypeInv, Flatten, FlattenInv
    <2>2. CASE g = f
        BY <1>17, <2>1, <2>2, SkipSessionEffect, PanicAssumption
           DEF FlattenOk, OtherCloses, panicVars
    <2>3. CASE g # f
        BY <1>17, <2>3, SkipSessionEffect, FlattenKept
           DEF Elsewhere, OtherCloses, panicVars
    <2> QED
        BY <2>2, <2>3
<1>18. ASSUME NEW f \in Flattens, NEW a \in Accounts, ReadPosition(f, a) PROVE FlattenInv'
    <2> SUFFICES ASSUME NEW g \in Flattens PROVE FlattenOk(g)'
        BY DEF FlattenInv
    <2>1. FlattenOk(f) /\ fl[f].at \in Accounts \cup {NoOne} /\ fl[f].scope \subseteq Accounts
        BY DEF TypeInv, Flatten, FlattenInv
    <2>2. CASE g = f
        BY <1>18, <2>1, <2>2, ReadPositionEffect, PanicAssumption
           DEF FlattenOk, OtherCloses, panicVars
    <2>3. CASE g # f
        BY <1>18, <2>3, ReadPositionEffect, FlattenKept
           DEF Elsewhere, OtherCloses, panicVars
    <2> QED
        BY <2>2, <2>3
<1>19. ASSUME NEW f \in Flattens, BeginBooking(f) PROVE FlattenInv'
    <2> SUFFICES ASSUME NEW g \in Flattens PROVE FlattenOk(g)'
        BY DEF FlattenInv
    <2>1. FlattenOk(f) /\ fl[f].at \in Accounts \cup {NoOne} /\ fl[f].scope \subseteq Accounts
        BY DEF TypeInv, Flatten, FlattenInv
    <2>2. CASE g = f
        BY <1>19, <2>1, <2>2, BeginBookingEffect, PanicAssumption
           DEF FlattenOk, OtherCloses, panicVars
    <2>3. CASE g # f
        BY <1>19, <2>3, BeginBookingEffect, FlattenKept
           DEF Elsewhere, OtherCloses, panicVars
    <2> QED
        BY <2>2, <2>3
<1>20. ASSUME NEW f \in Flattens, NEW a \in Accounts, BookClose(f, a) PROVE FlattenInv'
    <2> SUFFICES ASSUME NEW g \in Flattens PROVE FlattenOk(g)'
        BY DEF FlattenInv
    <2>1. FlattenOk(f) /\ fl[f].at \in Accounts \cup {NoOne} /\ fl[f].scope \subseteq Accounts
        BY DEF TypeInv, Flatten, FlattenInv
    <2>2. CASE g = f
        BY <1>20, <2>1, <2>2, BookCloseEffect, PanicAssumption
           DEF FlattenOk, OtherCloses, panicVars
    <2>3. CASE g # f
        BY <1>20, <2>3, BookCloseEffect, FlattenKept
           DEF Elsewhere, OtherCloses, panicVars
    <2> QED
        BY <2>2, <2>3
<1>21. ASSUME NEW f \in Flattens, NEW a \in Accounts, LeaveUnconfirmed(f, a) PROVE FlattenInv'
    <2> SUFFICES ASSUME NEW g \in Flattens PROVE FlattenOk(g)'
        BY DEF FlattenInv
    <2>1. FlattenOk(f) /\ fl[f].at \in Accounts \cup {NoOne} /\ fl[f].scope \subseteq Accounts
        BY DEF TypeInv, Flatten, FlattenInv
    <2>2. CASE g = f
        BY <1>21, <2>1, <2>2, LeaveUnconfirmedEffect, PanicAssumption
           DEF FlattenOk, OtherCloses, panicVars
    <2>3. CASE g # f
        BY <1>21, <2>3, LeaveUnconfirmedEffect, FlattenKept
           DEF Elsewhere, OtherCloses, panicVars
    <2> QED
        BY <2>2, <2>3
<1>22. ASSUME NEW f \in Flattens, NEW a \in Accounts, VenueRejectsClose(f, a) PROVE FlattenInv'
    <2> SUFFICES ASSUME NEW g \in Flattens PROVE FlattenOk(g)'
        BY DEF FlattenInv
    <2>1. FlattenOk(f) /\ fl[f].at \in Accounts \cup {NoOne} /\ fl[f].scope \subseteq Accounts
        BY DEF TypeInv, Flatten, FlattenInv
    <2>2. CASE g = f
        BY <1>22, <2>1, <2>2, VenueRejectsCloseEffect, PanicAssumption
           DEF FlattenOk, OtherCloses, panicVars
    <2>3. CASE g # f
        BY <1>22, <2>3, VenueRejectsCloseEffect, FlattenKept
           DEF Elsewhere, OtherCloses, panicVars
    <2> QED
        BY <2>2, <2>3
<1>23. ASSUME NEW f \in Flattens, Report(f) PROVE FlattenInv'
    <2> SUFFICES ASSUME NEW g \in Flattens PROVE FlattenOk(g)'
        BY DEF FlattenInv
    <2>1. FlattenOk(f) /\ fl[f].at \in Accounts \cup {NoOne} /\ fl[f].scope \subseteq Accounts
        BY DEF TypeInv, Flatten, FlattenInv
    <2>2. CASE g = f
        BY <1>23, <2>1, <2>2, ReportEffect, PanicAssumption
           DEF FlattenOk, OtherCloses, panicVars
    <2>3. CASE g # f
        BY <1>23, <2>3, ReportEffect, FlattenKept
           DEF Elsewhere, OtherCloses, panicVars
    <2> QED
        BY <2>2, <2>3
<1>24. CASE UNCHANGED vars
    BY <1>24
       DEF vars, FlattenOk, FlattenInv, haltVars, entryVars, bookVars,
           panicVars
<1> QED
    BY <1>1, <1>2, <1>3, <1>4, <1>5, <1>6, <1>7, <1>8, <1>9, <1>10, <1>11,
       <1>12, <1>13, <1>14, <1>15, <1>16, <1>17, <1>18, <1>19, <1>20,
       <1>21, <1>22, <1>23, <1>24
    DEF Next, EntryStep, FlattenStep, VenueStep

(* An entry trips at most once, and only its own account.                  *)
LEMMA EntryPreserved ==
    ASSUME TypeInv, FlattenInv, EntryInv, [Next]_vars
    PROVE  EntryInv'
<1>t. step \in [Entries -> Step] /\ fl \in [Flattens -> Flatten]
    BY DEF TypeInv
<1>s. Entries \subseteq Flattens
    BY DEF Flattens
<1>1. ASSUME Resume PROVE EntryInv'
    BY <1>1, <1>t
       DEF Resume, EntryInv, EntryOk, Step, haltVars, entryVars, bookVars,
           panicVars
<1>2. ASSUME NEW e \in Entries, VenueFillsEntry(e) PROVE EntryInv'
    BY <1>2, <1>t
       DEF VenueFillsEntry, Becomes, EntryInv, EntryOk, Step, haltVars,
           entryVars, bookVars, panicVars
<1>3. ASSUME NEW f \in Flattens, NEW a \in Accounts, VenueFillsClose(f, a) PROVE EntryInv'
    BY <1>3, <1>s, VenueFillsCloseEffect, EntryKept DEF panicVars, entryVars
<1>4. ASSUME NEW a \in Accounts, LossHits(a) PROVE EntryInv'
    BY <1>4, <1>t
       DEF LossHits, EntryInv, EntryOk, Step, haltVars, entryVars, bookVars,
           panicVars
<1>5. ASSUME NEW e \in Entries, PassGate(e) PROVE EntryInv'
    BY <1>5, <1>t
       DEF PassGate, Becomes, EntryInv, EntryOk, Step, haltVars, entryVars,
           bookVars, panicVars
<1>6. ASSUME NEW e \in Entries, RefuseHalted(e) PROVE EntryInv'
    BY <1>6, <1>t
       DEF RefuseHalted, Becomes, EntryInv, EntryOk, Step, haltVars, entryVars,
           bookVars, panicVars
<1>7. ASSUME NEW e \in Entries, RailClear(e) PROVE EntryInv'
    BY <1>7, <1>t
       DEF RailClear, Becomes, EntryInv, EntryOk, Step, haltVars, entryVars,
           bookVars, panicVars
<1>8. ASSUME NEW e \in Entries, DailyLossRail(e) PROVE EntryInv'
    <2> SUFFICES ASSUME NEW x \in Entries PROVE EntryOk(x)'
        BY DEF EntryInv
    <2>1. EntryOk(x) /\ EntryOk(e) /\ e \in Flattens /\ x \in Flattens /\ fl[e] \in Flatten
        BY <1>t DEF EntryInv, Flattens
    <2>2. /\ step[e] = "gated"
          /\ \E s \in {"refused", "tripping"} : step' = [step EXCEPT ![e] = s]
          /\ \/ UNCHANGED fl
             \/ fl'[e] = [fl[e] EXCEPT !.phase = "tripped", !.scope = {AccountOf[e]}] /\ Elsewhere(e)
        BY <1>8, DailyLossRailEffect
    <2>3. CASE x = e
        BY <1>t, <2>1, <2>2, <2>3 DEF EntryOk, Flatten
    <2>4. CASE x # e
        BY <1>t, <2>1, <2>2, <2>4 DEF EntryOk, Elsewhere
    <2> QED
        BY <2>3, <2>4
<1>9. ASSUME NEW e \in Entries, TripDone(e) PROVE EntryInv'
    BY <1>9, <1>t
       DEF TripDone, Becomes, Release, EntryInv, EntryOk, Step, haltVars,
           entryVars, bookVars, panicVars
<1>10. ASSUME NEW e \in Entries, SendEntry(e) PROVE EntryInv'
    BY <1>10, <1>t
       DEF SendEntry, Becomes, EntryInv, EntryOk, Step, haltVars, entryVars,
           bookVars, panicVars
<1>11. ASSUME NEW e \in Entries, SettleEntry(e) PROVE EntryInv'
    BY <1>11, <1>t
       DEF SettleEntry, Becomes, Release, EntryInv, EntryOk, Step, haltVars,
           entryVars, bookVars, panicVars
<1>12. ASSUME NEW e \in Entries, RejectEntry(e) PROVE EntryInv'
    BY <1>12, <1>t
       DEF RejectEntry, Becomes, Release, Fault, EntryInv, EntryOk, Step,
           haltVars, entryVars, bookVars, panicVars
<1>13. ASSUME NEW f \in Flattens, NEW halt \in BOOLEAN, PanicCloseAll(f, halt) PROVE EntryInv'
    <2>1. f \notin Entries
        BY <1>13, PanicCloseAllEffect, PanicAssumption
    <2> QED
        BY <1>13, <1>s, <2>1, PanicCloseAllEffect
           DEF EntryInv, EntryOk, Elsewhere, entryVars
<1>14. ASSUME NEW f \in Flattens, PanicCloseAccount(f) PROVE EntryInv'
    BY <1>14, <1>s, PanicCloseAccountEffect, EntryKept DEF Elsewhere, entryVars
<1>15. ASSUME NEW f \in Flattens, PlaceClose(f) PROVE EntryInv'
    BY <1>15, <1>s, PlaceCloseEffect, EntryKept DEF Elsewhere, entryVars
<1>16. ASSUME NEW f \in Flattens, PlaceCloseFails(f) PROVE EntryInv'
    BY <1>16, <1>s, PlaceCloseFailsEffect, EntryKept DEF Elsewhere, entryVars
<1>17. ASSUME NEW f \in Flattens, NEW a \in Accounts, SkipSession(f, a) PROVE EntryInv'
    BY <1>17, <1>s, SkipSessionEffect, EntryKept DEF Elsewhere, entryVars
<1>18. ASSUME NEW f \in Flattens, NEW a \in Accounts, ReadPosition(f, a) PROVE EntryInv'
    BY <1>18, <1>s, ReadPositionEffect, EntryKept DEF Elsewhere, entryVars
<1>19. ASSUME NEW f \in Flattens, BeginBooking(f) PROVE EntryInv'
    BY <1>19, <1>s, BeginBookingEffect, EntryKept DEF Elsewhere, entryVars
<1>20. ASSUME NEW f \in Flattens, NEW a \in Accounts, BookClose(f, a) PROVE EntryInv'
    BY <1>20, <1>s, BookCloseEffect, EntryKept DEF Elsewhere, entryVars
<1>21. ASSUME NEW f \in Flattens, NEW a \in Accounts, LeaveUnconfirmed(f, a) PROVE EntryInv'
    BY <1>21, <1>s, LeaveUnconfirmedEffect, EntryKept DEF Elsewhere, entryVars
<1>22. ASSUME NEW f \in Flattens, NEW a \in Accounts, VenueRejectsClose(f, a) PROVE EntryInv'
    BY <1>22, <1>s, VenueRejectsCloseEffect, EntryKept DEF panicVars, entryVars
<1>23. ASSUME NEW f \in Flattens, Report(f) PROVE EntryInv'
    BY <1>23, <1>s, ReportEffect, EntryKept DEF Elsewhere, entryVars
<1>24. CASE UNCHANGED vars
    BY <1>24
       DEF vars, EntryOk, EntryInv, haltVars, entryVars, bookVars, panicVars
<1> QED
    BY <1>1, <1>2, <1>3, <1>4, <1>5, <1>6, <1>7, <1>8, <1>9, <1>10, <1>11,
       <1>12, <1>13, <1>14, <1>15, <1>16, <1>17, <1>18, <1>19, <1>20,
       <1>21, <1>22, <1>23, <1>24
    DEF Next, EntryStep, FlattenStep, VenueStep

(* One trip per account and halt.                                          *)
LEMMA TripPreserved ==
    ASSUME TypeInv, TripInv, [Next]_vars
    PROVE  TripInv'
<1>t. trips \in [Accounts -> Nat]
    BY DEF TypeInv
<1>1. ASSUME Resume PROVE TripInv'
    BY <1>1, <1>t DEF Resume, TripInv, haltVars
<1>2. ASSUME NEW e \in Entries, VenueFillsEntry(e) PROVE TripInv'
    BY <1>2
       DEF VenueFillsEntry, Becomes, TripInv, haltVars, entryVars, bookVars,
           panicVars
<1>3. ASSUME NEW f \in Flattens, NEW a \in Accounts, VenueFillsClose(f, a) PROVE TripInv'
    BY <1>3, VenueFillsCloseEffect DEF TripInv, haltVars
<1>4. ASSUME NEW a \in Accounts, LossHits(a) PROVE TripInv'
    BY <1>4 DEF LossHits, TripInv, haltVars, entryVars, bookVars, panicVars
<1>5. ASSUME NEW e \in Entries, PassGate(e) PROVE TripInv'
    BY <1>5
       DEF PassGate, Becomes, TripInv, haltVars, entryVars, bookVars, panicVars
<1>6. ASSUME NEW e \in Entries, RefuseHalted(e) PROVE TripInv'
    BY <1>6
       DEF RefuseHalted, Becomes, TripInv, haltVars, entryVars, bookVars,
           panicVars
<1>7. ASSUME NEW e \in Entries, RailClear(e) PROVE TripInv'
    BY <1>7
       DEF RailClear, Becomes, TripInv, haltVars, entryVars, bookVars,
           panicVars
<1>8. ASSUME NEW e \in Entries, DailyLossRail(e) PROVE TripInv'
    <2>1. AccountOf[e] \in Accounts /\ trips[AccountOf[e]] \in Nat
        BY <1>t, PanicAssumption
    <2>2. CASE UNCHANGED <<accountHalt, trips>>
        BY <2>2 DEF TripInv
    <2>3. CASE /\ AccountOf[e] \notin accountHalt
               /\ accountHalt' = accountHalt \cup {AccountOf[e]}
               /\ trips' = [trips EXCEPT ![AccountOf[e]] = @ + 1]
        <3>1. trips[AccountOf[e]] = 0
            BY <2>1, <2>3 DEF TripInv
        <3> QED
            BY <1>t, <2>1, <2>3, <3>1 DEF TripInv
    <2> QED
        BY <1>8, <2>2, <2>3, DailyLossRailEffect
<1>9. ASSUME NEW e \in Entries, TripDone(e) PROVE TripInv'
    BY <1>9
       DEF TripDone, Becomes, Release, TripInv, haltVars, entryVars, bookVars,
           panicVars
<1>10. ASSUME NEW e \in Entries, SendEntry(e) PROVE TripInv'
    BY <1>10
       DEF SendEntry, Becomes, TripInv, haltVars, entryVars, bookVars,
           panicVars
<1>11. ASSUME NEW e \in Entries, SettleEntry(e) PROVE TripInv'
    BY <1>11
       DEF SettleEntry, Becomes, Release, TripInv, haltVars, entryVars,
           bookVars, panicVars
<1>12. ASSUME NEW e \in Entries, RejectEntry(e) PROVE TripInv'
    BY <1>12
       DEF RejectEntry, Becomes, Release, Fault, TripInv, haltVars, entryVars,
           bookVars, panicVars
<1>13. ASSUME NEW f \in Flattens, NEW halt \in BOOLEAN, PanicCloseAll(f, halt) PROVE TripInv'
    BY <1>13, PanicCloseAllEffect DEF TripInv, haltVars
<1>14. ASSUME NEW f \in Flattens, PanicCloseAccount(f) PROVE TripInv'
    BY <1>14, PanicCloseAccountEffect DEF TripInv, haltVars
<1>15. ASSUME NEW f \in Flattens, PlaceClose(f) PROVE TripInv'
    BY <1>15, PlaceCloseEffect DEF TripInv, haltVars
<1>16. ASSUME NEW f \in Flattens, PlaceCloseFails(f) PROVE TripInv'
    BY <1>16, PlaceCloseFailsEffect DEF TripInv, haltVars
<1>17. ASSUME NEW f \in Flattens, NEW a \in Accounts, SkipSession(f, a) PROVE TripInv'
    BY <1>17, SkipSessionEffect DEF TripInv, haltVars
<1>18. ASSUME NEW f \in Flattens, NEW a \in Accounts, ReadPosition(f, a) PROVE TripInv'
    BY <1>18, ReadPositionEffect DEF TripInv, haltVars
<1>19. ASSUME NEW f \in Flattens, BeginBooking(f) PROVE TripInv'
    BY <1>19, BeginBookingEffect DEF TripInv, haltVars
<1>20. ASSUME NEW f \in Flattens, NEW a \in Accounts, BookClose(f, a) PROVE TripInv'
    BY <1>20, BookCloseEffect DEF TripInv, haltVars
<1>21. ASSUME NEW f \in Flattens, NEW a \in Accounts, LeaveUnconfirmed(f, a) PROVE TripInv'
    BY <1>21, LeaveUnconfirmedEffect DEF TripInv, haltVars
<1>22. ASSUME NEW f \in Flattens, NEW a \in Accounts, VenueRejectsClose(f, a) PROVE TripInv'
    BY <1>22, VenueRejectsCloseEffect DEF TripInv, haltVars
<1>23. ASSUME NEW f \in Flattens, Report(f) PROVE TripInv'
    BY <1>23, ReportEffect DEF TripInv, haltVars
<1>24. CASE UNCHANGED vars
    BY <1>24 DEF vars, TripInv, haltVars, entryVars, bookVars, panicVars
<1> QED
    BY <1>1, <1>2, <1>3, <1>4, <1>5, <1>6, <1>7, <1>8, <1>9, <1>10, <1>11,
       <1>12, <1>13, <1>14, <1>15, <1>16, <1>17, <1>18, <1>19, <1>20,
       <1>21, <1>22, <1>23, <1>24
    DEF Next, EntryStep, FlattenStep, VenueStep

(* Contracts bought: a step that fills no entry leaves them, a fill adds one.*)
LEMMA BoughtUnchanged ==
    ASSUME \A e \in Entries : step'[e] \in {"filled", "held"} <=> step[e] \in {"filled", "held"}
    PROVE  \A a \in Accounts : Bought(a)' = Bought(a)
<1> SUFFICES ASSUME NEW a \in Accounts PROVE Bought(a)' = Bought(a)
    OBVIOUS
<1>1. {e \in On(a) : step'[e] \in {"filled", "held"}} = {e \in On(a) : step[e] \in {"filled", "held"}}
    BY DEF On
<1> QED
    BY <1>1 DEF Bought, On

LEMMA BoughtOneMore ==
    ASSUME TypeInv, NEW e \in Entries, VenueFillsEntry(e)
    PROVE  \A a \in Accounts : Bought(a)' = IF a = AccountOf[e] THEN Bought(a) + 1 ELSE Bought(a)
<1> SUFFICES ASSUME NEW a \in Accounts
             PROVE  Bought(a)' = IF a = AccountOf[e] THEN Bought(a) + 1 ELSE Bought(a)
    OBVIOUS
<1> DEFINE B == {x \in On(a) : step[x] \in {"filled", "held"}}
<1>1. step[e] = "sent" /\ step' = [step EXCEPT ![e] = "filled"]
    BY DEF VenueFillsEntry, Becomes
<1>2. {x \in On(a) : step'[x] \in {"filled", "held"}} = IF a = AccountOf[e] THEN B \cup {e} ELSE B
    BY <1>1 DEF TypeInv, On
<1>3. e \notin B /\ IsFiniteSet(B)
    <2>1. B \subseteq Entries
        BY DEF On
    <2> QED
        BY <1>1, <2>1, FS_Subset, PanicAssumption
<1>4. Cardinality(B \cup {e}) = Cardinality(B) + 1
    BY <1>3, FS_AddElement
<1> QED
    BY <1>2, <1>4 DEF Bought, On

(* Without a PANIC, what a loss flattens is its own account.               *)
LEMMA LocalPreserved ==
    ASSUME TypeInv, FlattenInv, EntryInv, LocalInv, [Next]_vars
    PROVE  LocalInv'
<1>t. /\ step \in [Entries -> Step] /\ fl \in [Flattens -> Flatten]
      /\ net \in [Accounts -> Int]
    BY DEF TypeInv
<1>s. Panics \subseteq Flattens /\ Entries \subseteq Flattens
    BY DEF Flattens
<1>1. ASSUME Resume PROVE LocalInv'
    <2> SUFFICES ASSUME \A p \in Panics : fl'[p].phase = "idle" PROVE Local'
        BY DEF LocalInv
    <2>1. Local
        BY <1>1, <1>t, <1>s, PanicAssumption
           DEF Resume, haltVars, entryVars, bookVars, panicVars, LocalInv
    <2>3. \A e0 \in Entries : fl'[e0].phase # "idle" => AccountOf[e0] \in breached'
        BY <1>1, <2>1, <1>t, <1>s, PanicAssumption
           DEF Resume, haltVars, entryVars, bookVars, panicVars, Local
    <2>4. \A b \in Accounts \ breached' : b \notin accountHalt' /\ b \notin breached
        BY <1>1, <2>1, <1>t, PanicAssumption
           DEF Resume, haltVars, entryVars, bookVars, panicVars, Local
    <2>6. \A b \in Accounts : Bought(b)' = Bought(b)
        BY <1>1, <1>t, BoughtUnchanged DEF Resume, entryVars
    <2>5. \A b \in Accounts \ breached' : net'[b] = Bought(b)'
        BY <1>1, <2>1, <2>4, <2>6, <1>t
           DEF Resume, haltVars, entryVars, bookVars, panicVars, Local
    <2> QED
        BY <2>3, <2>4, <2>5 DEF Local
<1>2. ASSUME NEW e \in Entries, VenueFillsEntry(e) PROVE LocalInv'
    <2> SUFFICES ASSUME \A p \in Panics : fl'[p].phase = "idle" PROVE Local'
        BY DEF LocalInv
    <2>1. Local
        BY <1>2, <1>t, <1>s, PanicAssumption
           DEF VenueFillsEntry, Becomes, haltVars, entryVars, bookVars,
               panicVars, LocalInv
    <2>3. \A e0 \in Entries : fl'[e0].phase # "idle" => AccountOf[e0] \in breached'
        BY <1>2, <2>1, <1>t, <1>s, PanicAssumption
           DEF VenueFillsEntry, Becomes, haltVars, entryVars, bookVars,
               panicVars, Local
    <2>4. \A b \in Accounts \ breached' : b \notin accountHalt' /\ b \notin breached
        BY <1>2, <2>1, <1>t, PanicAssumption
           DEF VenueFillsEntry, Becomes, haltVars, entryVars, bookVars,
               panicVars, Local
    <2>5. \A b \in Accounts \ breached' : net'[b] = Bought(b)'
        <3>1. \A b \in Accounts : Bought(b)' = IF b = AccountOf[e] THEN Bought(b) + 1 ELSE Bought(b)
            BY <1>2, BoughtOneMore
        <3>2. net' = [net EXCEPT ![AccountOf[e]] = @ + 1] /\ breached' = breached
            BY <1>2 DEF VenueFillsEntry
        <3> QED
            BY <2>1, <3>1, <3>2, <1>t DEF Local
    <2> QED
        BY <2>3, <2>4, <2>5 DEF Local
<1>3. ASSUME NEW f \in Flattens, NEW a \in Accounts, VenueFillsClose(f, a) PROVE LocalInv'
    <2> SUFFICES ASSUME \A p \in Panics : fl'[p].phase = "idle" PROVE Local'
        BY DEF LocalInv
    <2>e. /\ order[f][a].state = "working"
          /\ net' = [net EXCEPT ![a] = @ - Reducible(a, order[f][a].size)]
          /\ order'[f][a].state = (IF Reducible(a, order[f][a].size) = 0 THEN "cancelled" ELSE "filled")
          /\ order'[f][a].size = order[f][a].size
          /\ OtherCloses(f, a)
          /\ UNCHANGED <<haltVars, breached, entryVars, bookVars, fl, faults>>
        BY <1>3, VenueFillsCloseEffect
    <2>1. Local
        BY <2>e, <1>t, <1>s, PanicAssumption
           DEF haltVars, entryVars, bookVars, panicVars, LocalInv
    <2>o. EntryInv /\ FlattenOk(f)
        BY DEF FlattenInv
    <2>2. a \in breached
        BY <2>e, <2>o, <2>1, <1>t, <1>s
           DEF Local, EntryInv, EntryOk, FlattenOk, Flattens, panicVars
    <2>3. \A e0 \in Entries : fl'[e0].phase # "idle" => AccountOf[e0] \in breached'
        BY <2>e, <2>1, <2>2, <1>t, <1>s, PanicAssumption
           DEF haltVars, entryVars, bookVars, panicVars, Local
    <2>4. \A b \in Accounts \ breached' : b \notin accountHalt' /\ b \notin breached
        BY <2>e, <2>1, <2>2, <1>t, PanicAssumption
           DEF haltVars, entryVars, bookVars, panicVars, Local
    <2>6. \A b \in Accounts : Bought(b)' = Bought(b)
        BY <2>e, BoughtUnchanged DEF entryVars
    <2>5. \A b \in Accounts \ breached' : net'[b] = Bought(b)'
        BY <2>e, <2>1, <2>2, <2>4, <2>6, <1>t
           DEF haltVars, entryVars, bookVars, panicVars, Local
    <2> QED
        BY <2>3, <2>4, <2>5 DEF Local
<1>4. ASSUME NEW a \in Accounts, LossHits(a) PROVE LocalInv'
    <2> SUFFICES ASSUME \A p \in Panics : fl'[p].phase = "idle" PROVE Local'
        BY DEF LocalInv
    <2>1. Local
        BY <1>4, <1>t, <1>s, PanicAssumption
           DEF LossHits, haltVars, entryVars, bookVars, panicVars, LocalInv
    <2>3. \A e0 \in Entries : fl'[e0].phase # "idle" => AccountOf[e0] \in breached'
        BY <1>4, <2>1, <1>t, <1>s, PanicAssumption
           DEF LossHits, haltVars, entryVars, bookVars, panicVars, Local
    <2>4. \A b \in Accounts \ breached' : b \notin accountHalt' /\ b \notin breached
        BY <1>4, <2>1, <1>t, PanicAssumption
           DEF LossHits, haltVars, entryVars, bookVars, panicVars, Local
    <2>6. \A b \in Accounts : Bought(b)' = Bought(b)
        BY <1>4, <1>t, BoughtUnchanged DEF LossHits, entryVars
    <2>5. \A b \in Accounts \ breached' : net'[b] = Bought(b)'
        BY <1>4, <2>1, <2>4, <2>6, <1>t
           DEF LossHits, haltVars, entryVars, bookVars, panicVars, Local
    <2> QED
        BY <2>3, <2>4, <2>5 DEF Local
<1>5. ASSUME NEW e \in Entries, PassGate(e) PROVE LocalInv'
    <2>1. \A a \in Accounts : Bought(a)' = Bought(a)
        BY <1>5, <1>t, BoughtUnchanged DEF PassGate, Becomes
    <2>2. UNCHANGED <<fl, net, accountHalt, breached>>
        BY <1>5 DEF PassGate, Becomes, haltVars, panicVars
    <2> QED
        BY <2>1, <2>2 DEF LocalInv, Local
<1>6. ASSUME NEW e \in Entries, RefuseHalted(e) PROVE LocalInv'
    <2>1. \A a \in Accounts : Bought(a)' = Bought(a)
        BY <1>6, <1>t, BoughtUnchanged DEF RefuseHalted, Becomes
    <2>2. UNCHANGED <<fl, net, accountHalt, breached>>
        BY <1>6 DEF RefuseHalted, Becomes, haltVars, panicVars
    <2> QED
        BY <2>1, <2>2 DEF LocalInv, Local
<1>7. ASSUME NEW e \in Entries, RailClear(e) PROVE LocalInv'
    <2>1. \A a \in Accounts : Bought(a)' = Bought(a)
        BY <1>7, <1>t, BoughtUnchanged DEF RailClear, Becomes
    <2>2. UNCHANGED <<fl, net, accountHalt, breached>>
        BY <1>7 DEF RailClear, Becomes, haltVars, panicVars
    <2> QED
        BY <2>1, <2>2 DEF LocalInv, Local
<1>8. ASSUME NEW e \in Entries, DailyLossRail(e) PROVE LocalInv'
    <2> SUFFICES ASSUME \A p \in Panics : fl'[p].phase = "idle" PROVE Local'
        BY DEF LocalInv
    <2>e. /\ e \in Flattens /\ fl[e] \in Flatten /\ AccountOf[e] \in breached
          /\ \/ UNCHANGED <<fl, accountHalt>>
             \/ /\ accountHalt' = accountHalt \cup {AccountOf[e]}
                /\ fl'[e] = [fl[e] EXCEPT !.phase = "tripped", !.scope = {AccountOf[e]}]
                /\ Elsewhere(e)
          /\ UNCHANGED <<breached, net>>
        BY <1>8, <1>t, <1>s, DailyLossRailEffect
    <2>1. Local
        BY <2>e, <1>t, <1>s, PanicAssumption DEF Elsewhere, Flatten, LocalInv
    <2>3. \A e0 \in Entries : fl'[e0].phase # "idle" => AccountOf[e0] \in breached'
        BY <2>e, <2>1, <1>t, <1>s, PanicAssumption
           DEF Elsewhere, Flatten, Local
    <2>4. \A b \in Accounts \ breached' : b \notin accountHalt' /\ b \notin breached
        BY <2>e, <2>1, <1>t, PanicAssumption DEF Elsewhere, Flatten, Local
    <2>6. \A b \in Accounts : Bought(b)' = Bought(b)
        BY <1>8, <1>t, DailyLossRailEffect, BoughtUnchanged
    <2>5. \A b \in Accounts \ breached' : net'[b] = Bought(b)'
        BY <2>e, <2>1, <2>4, <2>6, <1>t DEF Elsewhere, Flatten, Local
    <2> QED
        BY <2>3, <2>4, <2>5 DEF Local
<1>9. ASSUME NEW e \in Entries, TripDone(e) PROVE LocalInv'
    <2>1. \A a \in Accounts : Bought(a)' = Bought(a)
        BY <1>9, <1>t, BoughtUnchanged DEF TripDone, Becomes, Release
    <2>2. UNCHANGED <<fl, net, accountHalt, breached>>
        BY <1>9 DEF TripDone, Becomes, Release, haltVars, panicVars
    <2> QED
        BY <2>1, <2>2 DEF LocalInv, Local
<1>10. ASSUME NEW e \in Entries, SendEntry(e) PROVE LocalInv'
    <2>1. \A a \in Accounts : Bought(a)' = Bought(a)
        BY <1>10, <1>t, BoughtUnchanged DEF SendEntry, Becomes
    <2>2. UNCHANGED <<fl, net, accountHalt, breached>>
        BY <1>10 DEF SendEntry, Becomes, haltVars, panicVars
    <2> QED
        BY <2>1, <2>2 DEF LocalInv, Local
<1>11. ASSUME NEW e \in Entries, SettleEntry(e) PROVE LocalInv'
    <2>1. \A a \in Accounts : Bought(a)' = Bought(a)
        BY <1>11, <1>t, BoughtUnchanged DEF SettleEntry, Becomes, Release
    <2>2. UNCHANGED <<fl, net, accountHalt, breached>>
        BY <1>11 DEF SettleEntry, Becomes, Release, haltVars, panicVars
    <2> QED
        BY <2>1, <2>2 DEF LocalInv, Local
<1>12. ASSUME NEW e \in Entries, RejectEntry(e) PROVE LocalInv'
    <2>1. \A a \in Accounts : Bought(a)' = Bought(a)
        BY <1>12, <1>t, BoughtUnchanged
           DEF RejectEntry, Becomes, Release, Fault
    <2>2. UNCHANGED <<fl, net, accountHalt, breached>>
        BY <1>12 DEF RejectEntry, Becomes, Release, Fault, haltVars, panicVars
    <2> QED
        BY <2>1, <2>2 DEF LocalInv, Local
<1>13. ASSUME NEW f \in Flattens, NEW halt \in BOOLEAN, PanicCloseAll(f, halt) PROVE LocalInv'
    <2> SUFFICES ASSUME \A p \in Panics : fl'[p].phase = "idle" PROVE Local'
        BY DEF LocalInv
    <2>e. /\ f \in Panics /\ fl[f].phase = "idle"
          /\ fl'[f].phase = "placing"
          /\ fl'[f].scope = Accounts
          /\ fl'[f].todo = Accounts
          /\ fl'[f].at = fl[f].at
          /\ fl'[f].placed = fl[f].placed
          /\ fl'[f].size = fl[f].size
          /\ Elsewhere(f)
          /\ UNCHANGED <<accountHalt, trips, breached, entryVars, bookVars, net, order, faults>>
        BY <1>13, PanicCloseAllEffect
    <2> QED
        BY <2>e
<1>14. ASSUME NEW f \in Flattens, PanicCloseAccount(f) PROVE LocalInv'
    <2> SUFFICES ASSUME \A p \in Panics : fl'[p].phase = "idle" PROVE Local'
        BY DEF LocalInv
    <2>e. /\ fl[f].phase = "tripped"
          /\ accountHalt' = accountHalt \cup fl[f].scope
          /\ fl'[f].phase = "placing"
          /\ fl'[f].scope = fl[f].scope
          /\ fl'[f].todo = fl[f].scope
          /\ fl'[f].at = fl[f].at
          /\ fl'[f].placed = fl[f].placed
          /\ fl'[f].size = fl[f].size
          /\ Elsewhere(f)
          /\ UNCHANGED <<trips, breached, entryVars, bookVars, net, order, faults>>
        BY <1>14, PanicCloseAccountEffect
    <2>1. Local
        BY <2>e, <1>t, <1>s, PanicAssumption
           DEF Elsewhere, haltVars, entryVars, bookVars, panicVars, LocalInv
    <2>o. EntryInv /\ FlattenOk(f)
        BY DEF FlattenInv
    <2>2. fl[f].scope \subseteq breached
        BY <2>e, <2>o, <2>1, <1>t DEF Local, EntryInv, EntryOk, Flattens
    <2>3. \A e0 \in Entries : fl'[e0].phase # "idle" => AccountOf[e0] \in breached'
        BY <2>e, <2>1, <2>2, <1>t, <1>s, PanicAssumption
           DEF Elsewhere, haltVars, entryVars, bookVars, panicVars, Local
    <2>4. \A b \in Accounts \ breached' : b \notin accountHalt' /\ b \notin breached
        BY <2>e, <2>1, <2>2, <1>t, PanicAssumption
           DEF Elsewhere, haltVars, entryVars, bookVars, panicVars, Local
    <2>6. \A b \in Accounts : Bought(b)' = Bought(b)
        BY <2>e, BoughtUnchanged DEF entryVars
    <2>5. \A b \in Accounts \ breached' : net'[b] = Bought(b)'
        BY <2>e, <2>1, <2>2, <2>4, <2>6, <1>t
           DEF Elsewhere, haltVars, entryVars, bookVars, panicVars, Local
    <2> QED
        BY <2>3, <2>4, <2>5 DEF Local
<1>15. ASSUME NEW f \in Flattens, PlaceClose(f) PROVE LocalInv'
    BY <1>15, PlaceCloseEffect, LocalKept DEF Elsewhere, entryVars, haltVars
<1>16. ASSUME NEW f \in Flattens, PlaceCloseFails(f) PROVE LocalInv'
    BY <1>16, PlaceCloseFailsEffect, LocalKept
       DEF Elsewhere, entryVars, haltVars
<1>17. ASSUME NEW f \in Flattens, NEW a \in Accounts, SkipSession(f, a) PROVE LocalInv'
    BY <1>17, SkipSessionEffect, LocalKept DEF Elsewhere, entryVars, haltVars
<1>18. ASSUME NEW f \in Flattens, NEW a \in Accounts, ReadPosition(f, a) PROVE LocalInv'
    BY <1>18, ReadPositionEffect, LocalKept DEF Elsewhere, entryVars, haltVars
<1>19. ASSUME NEW f \in Flattens, BeginBooking(f) PROVE LocalInv'
    BY <1>19, BeginBookingEffect, LocalKept DEF Elsewhere, entryVars, haltVars
<1>20. ASSUME NEW f \in Flattens, NEW a \in Accounts, BookClose(f, a) PROVE LocalInv'
    BY <1>20, BookCloseEffect, LocalKept DEF Elsewhere, entryVars, haltVars
<1>21. ASSUME NEW f \in Flattens, NEW a \in Accounts, LeaveUnconfirmed(f, a) PROVE LocalInv'
    BY <1>21, LeaveUnconfirmedEffect, LocalKept
       DEF Elsewhere, entryVars, haltVars
<1>22. ASSUME NEW f \in Flattens, NEW a \in Accounts, VenueRejectsClose(f, a) PROVE LocalInv'
    BY <1>22, VenueRejectsCloseEffect, LocalKept
       DEF panicVars, entryVars, haltVars
<1>23. ASSUME NEW f \in Flattens, Report(f) PROVE LocalInv'
    BY <1>23, ReportEffect, LocalKept DEF Elsewhere, entryVars, haltVars
<1>24. CASE UNCHANGED vars
    BY <1>24
       DEF vars, Local, Bought, LocalInv, haltVars, entryVars, bookVars,
           panicVars
<1> QED
    BY <1>1, <1>2, <1>3, <1>4, <1>5, <1>6, <1>7, <1>8, <1>9, <1>10, <1>11,
       <1>12, <1>13, <1>14, <1>15, <1>16, <1>17, <1>18, <1>19, <1>20,
       <1>21, <1>22, <1>23, <1>24
    DEF Next, EntryStep, FlattenStep, VenueStep

----------------------------------------------------------------------------
(* With reduceOnly a close takes off at most what is there.                *)
LEMMA ReducibleBounds ==
    ASSUME NEW a \in ReduceOnly, NEW size \in Int, net[a] \in Nat
    PROVE  /\ Reducible(a, size) \in 0..net[a]
           /\ size >= net[a] => Reducible(a, size) = net[a]
<1>1. size * net[a] <= 0 \/ (size > 0 /\ net[a] > 0)
    <2>1. CASE net[a] = 0
        BY <2>1
    <2>2. CASE size <= 0
        BY <2>2
    <2> QED
        BY <2>1, <2>2
<1>2. size > 0 /\ net[a] > 0 => size * net[a] > 0
    OBVIOUS
<1> QED
    BY <1>1, <1>2 DEF Reducible, MagnitudeMin

(* No position is turned around.                                           *)
LEMMA NeverReversedPreserved ==
    ASSUME TypeInv, NeverReversed, [Next]_vars
    PROVE  NeverReversed'
<1>t. net \in [Accounts -> Int]
    BY DEF TypeInv
<1>1. ASSUME Resume PROVE NeverReversed'
    BY <1>1 DEF Resume, NeverReversed
<1>2. ASSUME NEW e \in Entries, VenueFillsEntry(e) PROVE NeverReversed'
    BY <1>2, <1>t, PanicAssumption DEF VenueFillsEntry, Becomes, NeverReversed
<1>3. ASSUME NEW f \in Flattens, NEW a \in Accounts, VenueFillsClose(f, a) PROVE NeverReversed'
    <2>1. order[f][a].size \in Int /\ net[a] \in Int
        BY DEF TypeInv, Close
    <2>2. net' = [net EXCEPT ![a] = @ - Reducible(a, order[f][a].size)]
        BY <1>3 DEF VenueFillsClose
    <2>3. a \in ReduceOnly => net'[a] \in Nat
        BY <2>1, <2>2, <1>t, ReducibleBounds, PanicAssumption DEF NeverReversed
    <2> QED
        BY <2>2, <2>3, <1>t, PanicAssumption DEF NeverReversed
<1>4. ASSUME NEW a \in Accounts, LossHits(a) PROVE NeverReversed'
    BY <1>4 DEF LossHits, NeverReversed
<1>5. ASSUME NEW e \in Entries, PassGate(e) PROVE NeverReversed'
    BY <1>5 DEF PassGate, Becomes, NeverReversed
<1>6. ASSUME NEW e \in Entries, RefuseHalted(e) PROVE NeverReversed'
    BY <1>6 DEF RefuseHalted, Becomes, NeverReversed
<1>7. ASSUME NEW e \in Entries, RailClear(e) PROVE NeverReversed'
    BY <1>7 DEF RailClear, Becomes, NeverReversed
<1>8. ASSUME NEW e \in Entries, DailyLossRail(e) PROVE NeverReversed'
    BY <1>8, DailyLossRailEffect DEF NeverReversed
<1>9. ASSUME NEW e \in Entries, TripDone(e) PROVE NeverReversed'
    BY <1>9 DEF TripDone, Becomes, Release, NeverReversed
<1>10. ASSUME NEW e \in Entries, SendEntry(e) PROVE NeverReversed'
    BY <1>10 DEF SendEntry, Becomes, NeverReversed
<1>11. ASSUME NEW e \in Entries, SettleEntry(e) PROVE NeverReversed'
    BY <1>11 DEF SettleEntry, Becomes, Release, NeverReversed
<1>12. ASSUME NEW e \in Entries, RejectEntry(e) PROVE NeverReversed'
    BY <1>12 DEF RejectEntry, Becomes, Release, Fault, NeverReversed
<1>13. ASSUME NEW f \in Flattens, NEW halt \in BOOLEAN, PanicCloseAll(f, halt) PROVE NeverReversed'
    BY <1>13, PanicCloseAllEffect DEF NeverReversed
<1>14. ASSUME NEW f \in Flattens, PanicCloseAccount(f) PROVE NeverReversed'
    BY <1>14, PanicCloseAccountEffect DEF NeverReversed
<1>15. ASSUME NEW f \in Flattens, PlaceClose(f) PROVE NeverReversed'
    BY <1>15, PlaceCloseEffect DEF NeverReversed
<1>16. ASSUME NEW f \in Flattens, PlaceCloseFails(f) PROVE NeverReversed'
    BY <1>16, PlaceCloseFailsEffect DEF NeverReversed
<1>17. ASSUME NEW f \in Flattens, NEW a \in Accounts, SkipSession(f, a) PROVE NeverReversed'
    BY <1>17, SkipSessionEffect DEF NeverReversed
<1>18. ASSUME NEW f \in Flattens, NEW a \in Accounts, ReadPosition(f, a) PROVE NeverReversed'
    BY <1>18, ReadPositionEffect DEF NeverReversed
<1>19. ASSUME NEW f \in Flattens, BeginBooking(f) PROVE NeverReversed'
    BY <1>19, BeginBookingEffect DEF NeverReversed
<1>20. ASSUME NEW f \in Flattens, NEW a \in Accounts, BookClose(f, a) PROVE NeverReversed'
    BY <1>20, BookCloseEffect DEF NeverReversed
<1>21. ASSUME NEW f \in Flattens, NEW a \in Accounts, LeaveUnconfirmed(f, a) PROVE NeverReversed'
    BY <1>21, LeaveUnconfirmedEffect DEF NeverReversed
<1>22. ASSUME NEW f \in Flattens, NEW a \in Accounts, VenueRejectsClose(f, a) PROVE NeverReversed'
    BY <1>22, VenueRejectsCloseEffect DEF NeverReversed
<1>23. ASSUME NEW f \in Flattens, Report(f) PROVE NeverReversed'
    BY <1>23, ReportEffect DEF NeverReversed
<1>24. CASE UNCHANGED vars
    BY <1>24 DEF vars, NeverReversed, haltVars, entryVars, bookVars, panicVars
<1> QED
    BY <1>1, <1>2, <1>3, <1>4, <1>5, <1>6, <1>7, <1>8, <1>9, <1>10, <1>11,
       <1>12, <1>13, <1>14, <1>15, <1>16, <1>17, <1>18, <1>19, <1>20,
       <1>21, <1>22, <1>23, <1>24
    DEF Next, EntryStep, FlattenStep, VenueStep

(* A contract that is bought stays bought.                                 *)
Stays == \A e \in Entries : step[e] \in {"filled", "held"} => step'[e] \in {"filled", "held"}

LEMMA BoughtStay ==
    ASSUME TypeInv, [Next]_vars
    PROVE  Stays
<1>t. step \in [Entries -> Step]
    BY DEF TypeInv
<1>1. ASSUME Resume PROVE Stays
    BY <1>1, <1>t DEF Resume, Stays, entryVars
<1>2. ASSUME NEW e \in Entries, VenueFillsEntry(e) PROVE Stays
    BY <1>2, <1>t DEF VenueFillsEntry, Becomes, Stays, entryVars
<1>3. ASSUME NEW f \in Flattens, NEW a \in Accounts, VenueFillsClose(f, a) PROVE Stays
    BY <1>3, VenueFillsCloseEffect DEF Stays, entryVars
<1>4. ASSUME NEW a \in Accounts, LossHits(a) PROVE Stays
    BY <1>4, <1>t DEF LossHits, Stays, entryVars
<1>5. ASSUME NEW e \in Entries, PassGate(e) PROVE Stays
    BY <1>5, <1>t DEF PassGate, Becomes, Stays, entryVars
<1>6. ASSUME NEW e \in Entries, RefuseHalted(e) PROVE Stays
    BY <1>6, <1>t DEF RefuseHalted, Becomes, Stays, entryVars
<1>7. ASSUME NEW e \in Entries, RailClear(e) PROVE Stays
    BY <1>7, <1>t DEF RailClear, Becomes, Stays, entryVars
<1>8. ASSUME NEW e \in Entries, DailyLossRail(e) PROVE Stays
    BY <1>8, <1>t, DailyLossRailEffect DEF Stays
<1>9. ASSUME NEW e \in Entries, TripDone(e) PROVE Stays
    BY <1>9, <1>t DEF TripDone, Becomes, Release, Stays, entryVars
<1>10. ASSUME NEW e \in Entries, SendEntry(e) PROVE Stays
    BY <1>10, <1>t DEF SendEntry, Becomes, Stays, entryVars
<1>11. ASSUME NEW e \in Entries, SettleEntry(e) PROVE Stays
    BY <1>11, <1>t DEF SettleEntry, Becomes, Release, Stays, entryVars
<1>12. ASSUME NEW e \in Entries, RejectEntry(e) PROVE Stays
    BY <1>12, <1>t DEF RejectEntry, Becomes, Release, Fault, Stays, entryVars
<1>13. ASSUME NEW f \in Flattens, NEW halt \in BOOLEAN, PanicCloseAll(f, halt) PROVE Stays
    BY <1>13, PanicCloseAllEffect DEF Stays, entryVars
<1>14. ASSUME NEW f \in Flattens, PanicCloseAccount(f) PROVE Stays
    BY <1>14, PanicCloseAccountEffect DEF Stays, entryVars
<1>15. ASSUME NEW f \in Flattens, PlaceClose(f) PROVE Stays
    BY <1>15, PlaceCloseEffect DEF Stays, entryVars
<1>16. ASSUME NEW f \in Flattens, PlaceCloseFails(f) PROVE Stays
    BY <1>16, PlaceCloseFailsEffect DEF Stays, entryVars
<1>17. ASSUME NEW f \in Flattens, NEW a \in Accounts, SkipSession(f, a) PROVE Stays
    BY <1>17, SkipSessionEffect DEF Stays, entryVars
<1>18. ASSUME NEW f \in Flattens, NEW a \in Accounts, ReadPosition(f, a) PROVE Stays
    BY <1>18, ReadPositionEffect DEF Stays, entryVars
<1>19. ASSUME NEW f \in Flattens, BeginBooking(f) PROVE Stays
    BY <1>19, BeginBookingEffect DEF Stays, entryVars
<1>20. ASSUME NEW f \in Flattens, NEW a \in Accounts, BookClose(f, a) PROVE Stays
    BY <1>20, BookCloseEffect DEF Stays, entryVars
<1>21. ASSUME NEW f \in Flattens, NEW a \in Accounts, LeaveUnconfirmed(f, a) PROVE Stays
    BY <1>21, LeaveUnconfirmedEffect DEF Stays, entryVars
<1>22. ASSUME NEW f \in Flattens, NEW a \in Accounts, VenueRejectsClose(f, a) PROVE Stays
    BY <1>22, VenueRejectsCloseEffect DEF Stays, entryVars
<1>23. ASSUME NEW f \in Flattens, Report(f) PROVE Stays
    BY <1>23, ReportEffect DEF Stays, entryVars
<1>24. CASE UNCHANGED vars
    BY <1>24 DEF vars, Stays, Stays, haltVars, entryVars, bookVars, panicVars
<1> QED
    BY <1>1, <1>2, <1>3, <1>4, <1>5, <1>6, <1>7, <1>8, <1>9, <1>10, <1>11,
       <1>12, <1>13, <1>14, <1>15, <1>16, <1>17, <1>18, <1>19, <1>20,
       <1>21, <1>22, <1>23, <1>24
    DEF Next, EntryStep, FlattenStep, VenueStep

LEMMA CalmBefore ==
    ASSUME TypeInv, [Next]_vars, NEW a \in Accounts, Calm(a)'
    PROVE  Calm(a)
BY BoughtStay DEF Calm, On, Stays

(* Where nothing fails, a flatten takes off what is there.                 *)
LEMMA CalmPreserved ==
    ASSUME TypeInv, FlattenInv, EntryInv, NeverReversed, CalmInv, [Next]_vars
    PROVE  CalmInv'
<1>t. net \in [Accounts -> Int] /\ faults \in Nat /\ step \in [Entries -> Step]
    BY DEF TypeInv
<1>s. \A g \in Flattens, a \in Accounts :
          order[g][a].state \in {"none", "working", "filled", "cancelled"}
    BY DEF TypeInv, Close
<1>1. ASSUME Resume PROVE CalmInv'
    <2> SUFFICES ASSUME faults' = 0, NEW b \in ReduceOnly, NEW g \in Flattens, Calm(b)'
                 PROVE  CalmOk(g, b)'
        BY DEF CalmInv
    <2>c. Calm(b)
        BY CalmBefore, PanicAssumption
    <2>0. faults = 0
        BY <1>1 DEF Resume
    <2>1. CalmOk(g, b) /\ g \in Flattens
        BY <2>0, <2>c DEF CalmInv
    <2> QED
        BY <1>1, <2>1
           DEF Resume, CalmOk, haltVars, entryVars, bookVars, panicVars
<1>2. ASSUME NEW e \in Entries, VenueFillsEntry(e) PROVE CalmInv'
    <2> SUFFICES ASSUME faults' = 0, NEW b \in ReduceOnly, NEW g \in Flattens, Calm(b)'
                 PROVE  CalmOk(g, b)'
        BY DEF CalmInv
    <2>c. Calm(b)
        BY CalmBefore, PanicAssumption
    <2>0. faults = 0
        BY <1>2 DEF VenueFillsEntry, Becomes
    <2>1. CalmOk(g, b) /\ g \in Flattens
        BY <2>0, <2>c DEF CalmInv
    <2>2. AccountOf[e] # b
        <3>1. e \notin Held /\ step'[e] = "filled"
            BY <1>2, <1>t DEF VenueFillsEntry, Becomes, EntryInv, EntryOk
        <3> QED
            BY <3>1 DEF Calm, On
    <2>3. net'[b] = net[b]
        BY <1>2, <2>2, <1>t, PanicAssumption DEF VenueFillsEntry
    <2> QED
        BY <1>2, <2>1, <2>3 DEF VenueFillsEntry, CalmOk, panicVars
<1>3. ASSUME NEW f \in Flattens, NEW a \in Accounts, VenueFillsClose(f, a) PROVE CalmInv'
    <2> SUFFICES ASSUME faults' = 0, NEW b \in ReduceOnly, NEW g \in Flattens, Calm(b)'
                 PROVE  CalmOk(g, b)'
        BY DEF CalmInv
    <2>c. Calm(b)
        BY CalmBefore, PanicAssumption
    <2>e. /\ order[f][a].state = "working"
          /\ net' = [net EXCEPT ![a] = @ - Reducible(a, order[f][a].size)]
          /\ order'[f][a].state = (IF Reducible(a, order[f][a].size) = 0 THEN "cancelled" ELSE "filled")
          /\ order'[f][a].size = order[f][a].size
          /\ OtherCloses(f, a)
          /\ UNCHANGED <<haltVars, breached, entryVars, bookVars, fl, faults>>
        BY <1>3, VenueFillsCloseEffect
    <2>0. faults = 0
        BY <2>e
    <2>1. CalmOk(g, b) /\ g \in Flattens
        BY <2>0, <2>c DEF CalmInv
    <2>2. /\ order[f][a].size \in Int /\ order[g][b].size \in Int /\ fl[g].size \in Int
          /\ \A x \in ReduceOnly : net[x] \in Nat
        BY <1>t, PanicAssumption DEF TypeInv, Close, Flatten, NeverReversed
    <2>3. CASE a = b
        <3>1. CalmOk(f, b)
            BY <2>0, <2>c DEF CalmInv
        <3>s. a \in ReduceOnly /\ net[a] \in Nat /\ order[f][a].size \in Int /\ order[f][a].size >= net[a]
            BY <2>2, <2>3, <2>e, <3>1 DEF CalmOk
        <3>r. Reducible(a, order[f][a].size) = net[a]
            BY <3>s, ReducibleBounds
        <3>2. net'[b] = 0 /\ net[b] \in Nat
            BY <1>t, <2>2, <2>3, <2>e, <3>r
        <3>3. order'[g][b].size = order[g][b].size /\ UNCHANGED fl
            BY <2>e, <2>3 DEF OtherCloses, panicVars
        <3>4. order'[g][b].state \in {"filled", "cancelled", order[g][b].state}
            BY <2>e, <2>3 DEF OtherCloses
        <3> QED
            BY <2>1, <2>2, <3>2, <3>3, <3>4 DEF CalmOk
    <2>4. CASE a # b
        <3>1. net'[b] = net[b] /\ order'[g][b] = order[g][b] /\ UNCHANGED fl
            BY <1>t, <2>e, <2>4, PanicAssumption DEF OtherCloses, panicVars
        <3> QED
            BY <2>1, <3>1 DEF CalmOk
    <2> QED
        BY <2>3, <2>4
<1>4. ASSUME NEW a \in Accounts, LossHits(a) PROVE CalmInv'
    <2> SUFFICES ASSUME faults' = 0, NEW b \in ReduceOnly, NEW g \in Flattens, Calm(b)'
                 PROVE  CalmOk(g, b)'
        BY DEF CalmInv
    <2>c. Calm(b)
        BY CalmBefore, PanicAssumption
    <2>0. faults = 0
        BY <1>4 DEF LossHits
    <2>1. CalmOk(g, b) /\ g \in Flattens
        BY <2>0, <2>c DEF CalmInv
    <2> QED
        BY <1>4, <2>1
           DEF LossHits, CalmOk, haltVars, entryVars, bookVars, panicVars
<1>5. ASSUME NEW e \in Entries, PassGate(e) PROVE CalmInv'
    <2> SUFFICES ASSUME faults' = 0, NEW b \in ReduceOnly, NEW g \in Flattens, Calm(b)'
                 PROVE  CalmOk(g, b)'
        BY DEF CalmInv
    <2>c. Calm(b)
        BY CalmBefore, PanicAssumption
    <2>0. faults = 0
        BY <1>5 DEF PassGate, Becomes
    <2>1. CalmOk(g, b) /\ g \in Flattens
        BY <2>0, <2>c DEF CalmInv
    <2> QED
        BY <1>5, <2>1
           DEF PassGate, Becomes, CalmOk, haltVars, entryVars, bookVars,
               panicVars
<1>6. ASSUME NEW e \in Entries, RefuseHalted(e) PROVE CalmInv'
    <2> SUFFICES ASSUME faults' = 0, NEW b \in ReduceOnly, NEW g \in Flattens, Calm(b)'
                 PROVE  CalmOk(g, b)'
        BY DEF CalmInv
    <2>c. Calm(b)
        BY CalmBefore, PanicAssumption
    <2>0. faults = 0
        BY <1>6 DEF RefuseHalted, Becomes
    <2>1. CalmOk(g, b) /\ g \in Flattens
        BY <2>0, <2>c DEF CalmInv
    <2> QED
        BY <1>6, <2>1
           DEF RefuseHalted, Becomes, CalmOk, haltVars, entryVars, bookVars,
               panicVars
<1>7. ASSUME NEW e \in Entries, RailClear(e) PROVE CalmInv'
    <2> SUFFICES ASSUME faults' = 0, NEW b \in ReduceOnly, NEW g \in Flattens, Calm(b)'
                 PROVE  CalmOk(g, b)'
        BY DEF CalmInv
    <2>c. Calm(b)
        BY CalmBefore, PanicAssumption
    <2>0. faults = 0
        BY <1>7 DEF RailClear, Becomes
    <2>1. CalmOk(g, b) /\ g \in Flattens
        BY <2>0, <2>c DEF CalmInv
    <2> QED
        BY <1>7, <2>1
           DEF RailClear, Becomes, CalmOk, haltVars, entryVars, bookVars,
               panicVars
<1>8. ASSUME NEW e \in Entries, DailyLossRail(e) PROVE CalmInv'
    <2> SUFFICES ASSUME faults' = 0, NEW b \in ReduceOnly, NEW g \in Flattens, Calm(b)'
                 PROVE  CalmOk(g, b)'
        BY DEF CalmInv
    <2>c. Calm(b)
        BY CalmBefore, PanicAssumption
    <2>0. faults = 0
        BY <1>8, DailyLossRailEffect
    <2>1. CalmOk(g, b) /\ g \in Flattens
        BY <2>0, <2>c DEF CalmInv
    <2>2. /\ step[e] = "gated"
          /\ \/ UNCHANGED fl
             \/ /\ fl'[e] = [fl[e] EXCEPT !.phase = "tripped", !.scope = {AccountOf[e]}]
                /\ Elsewhere(e)
          /\ UNCHANGED <<order, net>>
        BY <1>8, DailyLossRailEffect
    <2>6. e \in Flattens /\ fl[e] \in Flatten
        BY DEF TypeInv, Flattens
    <2>7. FlattenOk(e) /\ fl[e].phase = "idle" /\ b # NoOne
        BY <2>2, <2>6, PanicAssumption DEF FlattenInv, EntryInv, EntryOk
    <2>3. CASE UNCHANGED fl
        BY <2>1, <2>2, <2>3 DEF CalmOk
    <2>4. CASE fl'[e] = [fl[e] EXCEPT !.phase = "tripped", !.scope = {AccountOf[e]}] /\ g = e
        BY <2>1, <2>2, <2>4, <2>6, <2>7 DEF CalmOk, FlattenOk, Flatten
    <2>5. CASE Elsewhere(e) /\ g # e
        BY <2>1, <2>2, <2>5 DEF CalmOk, Elsewhere
    <2> QED
        BY <2>2, <2>3, <2>4, <2>5
<1>9. ASSUME NEW e \in Entries, TripDone(e) PROVE CalmInv'
    <2> SUFFICES ASSUME faults' = 0, NEW b \in ReduceOnly, NEW g \in Flattens, Calm(b)'
                 PROVE  CalmOk(g, b)'
        BY DEF CalmInv
    <2>c. Calm(b)
        BY CalmBefore, PanicAssumption
    <2>0. faults = 0
        BY <1>9 DEF TripDone, Becomes, Release
    <2>1. CalmOk(g, b) /\ g \in Flattens
        BY <2>0, <2>c DEF CalmInv
    <2> QED
        BY <1>9, <2>1
           DEF TripDone, Becomes, Release, CalmOk, haltVars, entryVars,
               bookVars, panicVars
<1>10. ASSUME NEW e \in Entries, SendEntry(e) PROVE CalmInv'
    <2> SUFFICES ASSUME faults' = 0, NEW b \in ReduceOnly, NEW g \in Flattens, Calm(b)'
                 PROVE  CalmOk(g, b)'
        BY DEF CalmInv
    <2>c. Calm(b)
        BY CalmBefore, PanicAssumption
    <2>0. faults = 0
        BY <1>10 DEF SendEntry, Becomes
    <2>1. CalmOk(g, b) /\ g \in Flattens
        BY <2>0, <2>c DEF CalmInv
    <2> QED
        BY <1>10, <2>1
           DEF SendEntry, Becomes, CalmOk, haltVars, entryVars, bookVars,
               panicVars
<1>11. ASSUME NEW e \in Entries, SettleEntry(e) PROVE CalmInv'
    <2> SUFFICES ASSUME faults' = 0, NEW b \in ReduceOnly, NEW g \in Flattens, Calm(b)'
                 PROVE  CalmOk(g, b)'
        BY DEF CalmInv
    <2>c. Calm(b)
        BY CalmBefore, PanicAssumption
    <2>0. faults = 0
        BY <1>11 DEF SettleEntry, Becomes, Release
    <2>1. CalmOk(g, b) /\ g \in Flattens
        BY <2>0, <2>c DEF CalmInv
    <2> QED
        BY <1>11, <2>1
           DEF SettleEntry, Becomes, Release, CalmOk, haltVars, entryVars,
               bookVars, panicVars
<1>12. ASSUME NEW e \in Entries, RejectEntry(e) PROVE CalmInv'
    <2>1. faults' = faults + 1
        BY <1>12 DEF RejectEntry, Fault
    <2> QED
        BY <1>t, <2>1 DEF CalmInv
<1>13. ASSUME NEW f \in Flattens, NEW halt \in BOOLEAN, PanicCloseAll(f, halt) PROVE CalmInv'
    <2> SUFFICES ASSUME faults' = 0, NEW b \in ReduceOnly, NEW g \in Flattens, Calm(b)'
                 PROVE  CalmOk(g, b)'
        BY DEF CalmInv
    <2>c. Calm(b)
        BY CalmBefore, PanicAssumption
    <2>0. faults = 0
        BY <1>13, PanicCloseAllEffect
    <2>1. CASE g # f
        BY <1>13, <2>0, <2>c, <2>1, PanicCloseAllEffect, CalmKept,
           PanicAssumption
           DEF Elsewhere, OtherCloses, panicVars
    <2>2. CASE g = f
        <3>1. CalmOk(f, b) /\ FlattenOk(f) /\ b # NoOne /\ b \in Accounts
            BY <2>0, <2>c, PanicAssumption DEF CalmInv, FlattenInv
        <3>2. fl[f].at \in Accounts \cup {NoOne} /\ fl[f].size \in Int /\ net[b] \in Int
            BY <1>t, PanicAssumption DEF TypeInv, Flatten
        <3> QED
            BY <1>13, <2>2, <3>1, <3>2, PanicCloseAllEffect
               DEF CalmOk, FlattenOk, OtherCloses, panicVars
    <2> QED
        BY <2>1, <2>2
<1>14. ASSUME NEW f \in Flattens, PanicCloseAccount(f) PROVE CalmInv'
    <2> SUFFICES ASSUME faults' = 0, NEW b \in ReduceOnly, NEW g \in Flattens, Calm(b)'
                 PROVE  CalmOk(g, b)'
        BY DEF CalmInv
    <2>c. Calm(b)
        BY CalmBefore, PanicAssumption
    <2>0. faults = 0
        BY <1>14, PanicCloseAccountEffect
    <2>1. CASE g # f
        BY <1>14, <2>0, <2>c, <2>1, PanicCloseAccountEffect, CalmKept,
           PanicAssumption
           DEF Elsewhere, OtherCloses, panicVars
    <2>2. CASE g = f
        <3>1. CalmOk(f, b) /\ FlattenOk(f) /\ b # NoOne /\ b \in Accounts
            BY <2>0, <2>c, PanicAssumption DEF CalmInv, FlattenInv
        <3>2. fl[f].at \in Accounts \cup {NoOne} /\ fl[f].size \in Int /\ net[b] \in Int
            BY <1>t, PanicAssumption DEF TypeInv, Flatten
        <3> QED
            BY <1>14, <2>2, <3>1, <3>2, PanicCloseAccountEffect
               DEF CalmOk, FlattenOk, OtherCloses, panicVars
    <2> QED
        BY <2>1, <2>2
<1>15. ASSUME NEW f \in Flattens, PlaceClose(f) PROVE CalmInv'
    <2> SUFFICES ASSUME faults' = 0, NEW b \in ReduceOnly, NEW g \in Flattens, Calm(b)'
                 PROVE  CalmOk(g, b)'
        BY DEF CalmInv
    <2>c. Calm(b)
        BY CalmBefore, PanicAssumption
    <2>0. faults = 0
        BY <1>15, PlaceCloseEffect
    <2>1. CASE g # f
        BY <1>15, <2>0, <2>c, <2>1, PlaceCloseEffect, CalmKept, PanicAssumption
           DEF Elsewhere, OtherCloses, panicVars
    <2>2. CASE g = f
        <3>1. CalmOk(f, b) /\ FlattenOk(f) /\ b # NoOne /\ b \in Accounts
            BY <2>0, <2>c, PanicAssumption DEF CalmInv, FlattenInv
        <3>2. fl[f].at \in Accounts \cup {NoOne} /\ fl[f].size \in Int /\ net[b] \in Int
            BY <1>t, PanicAssumption DEF TypeInv, Flatten
        <3> QED
            BY <1>15, <2>2, <3>1, <3>2, PlaceCloseEffect
               DEF CalmOk, FlattenOk, OtherCloses, panicVars
    <2> QED
        BY <2>1, <2>2
<1>16. ASSUME NEW f \in Flattens, PlaceCloseFails(f) PROVE CalmInv'
    <2>1. faults' = faults + 1
        BY <1>16, PlaceCloseFailsEffect
    <2> QED
        BY <1>t, <2>1 DEF CalmInv
<1>17. ASSUME NEW f \in Flattens, NEW a \in Accounts, SkipSession(f, a) PROVE CalmInv'
    <2>1. faults' = faults + 1
        BY <1>17, SkipSessionEffect
    <2> QED
        BY <1>t, <2>1 DEF CalmInv
<1>18. ASSUME NEW f \in Flattens, NEW a \in Accounts, ReadPosition(f, a) PROVE CalmInv'
    <2> SUFFICES ASSUME faults' = 0, NEW b \in ReduceOnly, NEW g \in Flattens, Calm(b)'
                 PROVE  CalmOk(g, b)'
        BY DEF CalmInv
    <2>c. Calm(b)
        BY CalmBefore, PanicAssumption
    <2>0. faults = 0
        BY <1>18, ReadPositionEffect
    <2>1. CASE g # f
        BY <1>18, <2>0, <2>c, <2>1, ReadPositionEffect, CalmKept,
           PanicAssumption
           DEF Elsewhere, OtherCloses, panicVars
    <2>2. CASE g = f
        <3>1. CalmOk(f, b) /\ FlattenOk(f) /\ b # NoOne /\ b \in Accounts
            BY <2>0, <2>c, PanicAssumption DEF CalmInv, FlattenInv
        <3>2. fl[f].at \in Accounts \cup {NoOne} /\ fl[f].size \in Int /\ net[b] \in Int
            BY <1>t, PanicAssumption DEF TypeInv, Flatten
        <3> QED
            BY <1>18, <2>2, <3>1, <3>2, ReadPositionEffect
               DEF CalmOk, FlattenOk, OtherCloses, panicVars
    <2> QED
        BY <2>1, <2>2
<1>19. ASSUME NEW f \in Flattens, BeginBooking(f) PROVE CalmInv'
    <2> SUFFICES ASSUME faults' = 0, NEW b \in ReduceOnly, NEW g \in Flattens, Calm(b)'
                 PROVE  CalmOk(g, b)'
        BY DEF CalmInv
    <2>c. Calm(b)
        BY CalmBefore, PanicAssumption
    <2>0. faults = 0
        BY <1>19, BeginBookingEffect
    <2>1. CASE g # f
        BY <1>19, <2>0, <2>c, <2>1, BeginBookingEffect, CalmKept,
           PanicAssumption
           DEF Elsewhere, OtherCloses, panicVars
    <2>2. CASE g = f
        <3>1. CalmOk(f, b) /\ FlattenOk(f) /\ b # NoOne /\ b \in Accounts
            BY <2>0, <2>c, PanicAssumption DEF CalmInv, FlattenInv
        <3>2. fl[f].at \in Accounts \cup {NoOne} /\ fl[f].size \in Int /\ net[b] \in Int
            BY <1>t, PanicAssumption DEF TypeInv, Flatten
        <3> QED
            BY <1>19, <2>2, <3>1, <3>2, BeginBookingEffect
               DEF CalmOk, FlattenOk, OtherCloses, panicVars
    <2> QED
        BY <2>1, <2>2
<1>20. ASSUME NEW f \in Flattens, NEW a \in Accounts, BookClose(f, a) PROVE CalmInv'
    <2> SUFFICES ASSUME faults' = 0, NEW b \in ReduceOnly, NEW g \in Flattens, Calm(b)'
                 PROVE  CalmOk(g, b)'
        BY DEF CalmInv
    <2>c. Calm(b)
        BY CalmBefore, PanicAssumption
    <2>f. faults' = faults \/ faults' = faults + 1
        BY <1>20 DEF BookClose, Book, Fault
    <2>0. faults = 0
        BY <1>t, <2>f
    <2>1. CASE g # f
        BY <1>20, <2>0, <2>c, <2>1, BookCloseEffect, CalmKept, PanicAssumption
           DEF Elsewhere, OtherCloses, panicVars
    <2>2. CASE g = f
        <3>1. CalmOk(f, b) /\ FlattenOk(f) /\ b # NoOne /\ b \in Accounts
            BY <2>0, <2>c, PanicAssumption DEF CalmInv, FlattenInv
        <3>2. fl[f].at \in Accounts \cup {NoOne} /\ fl[f].size \in Int /\ net[b] \in Int
            BY <1>t, PanicAssumption DEF TypeInv, Flatten
        <3> QED
            BY <1>20, <2>2, <3>1, <3>2, BookCloseEffect
               DEF CalmOk, FlattenOk, OtherCloses, panicVars
    <2> QED
        BY <2>1, <2>2
<1>21. ASSUME NEW f \in Flattens, NEW a \in Accounts, LeaveUnconfirmed(f, a) PROVE CalmInv'
    <2> SUFFICES ASSUME faults' = 0, NEW b \in ReduceOnly, NEW g \in Flattens, Calm(b)'
                 PROVE  CalmOk(g, b)'
        BY DEF CalmInv
    <2>c. Calm(b)
        BY CalmBefore, PanicAssumption
    <2>f. faults' = faults \/ faults' = faults + 1
        BY <1>21 DEF LeaveUnconfirmed, Fault
    <2>0. faults = 0
        BY <1>t, <2>f
    <2>w. order[f][a].state # "working"
        BY <1>21, <1>t DEF LeaveUnconfirmed, Fault
    <2>1. CASE g # f
        BY <1>21, <2>0, <2>c, <2>1, LeaveUnconfirmedEffect, CalmKept,
           PanicAssumption
           DEF Elsewhere, OtherCloses, panicVars
    <2>2. CASE g = f
        <3>1. CalmOk(f, b) /\ FlattenOk(f) /\ b # NoOne /\ b \in Accounts
            BY <2>0, <2>c, PanicAssumption DEF CalmInv, FlattenInv
        <3>2. fl[f].at \in Accounts \cup {NoOne} /\ fl[f].size \in Int /\ net[b] \in Int
            BY <1>t, PanicAssumption DEF TypeInv, Flatten
        <3> QED
            BY <1>21, <2>2, <3>1, <3>2, LeaveUnconfirmedEffect, <2>w, <1>s
               DEF CalmOk, FlattenOk, OtherCloses, panicVars
    <2> QED
        BY <2>1, <2>2
<1>22. ASSUME NEW f \in Flattens, NEW a \in Accounts, VenueRejectsClose(f, a) PROVE CalmInv'
    <2>1. faults' = faults + 1
        BY <1>22, VenueRejectsCloseEffect
    <2> QED
        BY <1>t, <2>1 DEF CalmInv
<1>23. ASSUME NEW f \in Flattens, Report(f) PROVE CalmInv'
    <2> SUFFICES ASSUME faults' = 0, NEW b \in ReduceOnly, NEW g \in Flattens, Calm(b)'
                 PROVE  CalmOk(g, b)'
        BY DEF CalmInv
    <2>c. Calm(b)
        BY CalmBefore, PanicAssumption
    <2>0. faults = 0
        BY <1>23, ReportEffect
    <2>1. CASE g # f
        BY <1>23, <2>0, <2>c, <2>1, ReportEffect, CalmKept, PanicAssumption
           DEF Elsewhere, OtherCloses, panicVars
    <2>2. CASE g = f
        <3>1. CalmOk(f, b) /\ FlattenOk(f) /\ b # NoOne /\ b \in Accounts
            BY <2>0, <2>c, PanicAssumption DEF CalmInv, FlattenInv
        <3>2. fl[f].at \in Accounts \cup {NoOne} /\ fl[f].size \in Int /\ net[b] \in Int
            BY <1>t, PanicAssumption DEF TypeInv, Flatten
        <3> QED
            BY <1>23, <2>2, <3>1, <3>2, ReportEffect
               DEF CalmOk, FlattenOk, OtherCloses, panicVars
    <2> QED
        BY <2>1, <2>2
<1>24. CASE UNCHANGED vars
    BY <1>24
       DEF vars, CalmOk, Calm, CalmInv, haltVars, entryVars, bookVars,
           panicVars
<1> QED
    BY <1>1, <1>2, <1>3, <1>4, <1>5, <1>6, <1>7, <1>8, <1>9, <1>10, <1>11,
       <1>12, <1>13, <1>14, <1>15, <1>16, <1>17, <1>18, <1>19, <1>20,
       <1>21, <1>22, <1>23, <1>24
    DEF Next, EntryStep, FlattenStep, VenueStep

(* What no close is confirmed for stays as it was.                         *)
LEMMA UntouchedPreserved ==
    ASSUME TypeInv, FlattenInv, UntouchedInv, [Next]_vars
    PROVE  UntouchedInv'
<1>t. step \in [Entries -> Step] /\ row \in [Entries -> Row]
    BY DEF TypeInv
<1>1. ASSUME Resume PROVE UntouchedInv'
    <2> SUFFICES ASSUME NEW x \in Tracked, step'[x] \in {"sent", "filled", "held"},
                        Unconfirmed(AccountOf[x])'
                 PROVE  Untouched(x)'
        BY DEF UntouchedInv
    <2>x. x \in Entries /\ AccountOf[x] \in Accounts
        BY PanicAssumption DEF Tracked
    <2>u. Unconfirmed(AccountOf[x])
        BY <1>1 DEF Resume, Unconfirmed, panicVars
    <2> QED
        BY <1>1, <2>u
           DEF Resume, UntouchedInv, Untouched, haltVars, entryVars, bookVars,
               panicVars
<1>2. ASSUME NEW e \in Entries, VenueFillsEntry(e) PROVE UntouchedInv'
    <2> SUFFICES ASSUME NEW x \in Tracked, step'[x] \in {"sent", "filled", "held"},
                        Unconfirmed(AccountOf[x])'
                 PROVE  Untouched(x)'
        BY DEF UntouchedInv
    <2>x. x \in Entries /\ AccountOf[x] \in Accounts
        BY PanicAssumption DEF Tracked
    <2>u. Unconfirmed(AccountOf[x])
        BY <1>2 DEF VenueFillsEntry, Becomes, Unconfirmed, panicVars
    <2>3. CASE x = e
        BY <1>2, <1>t, <2>u, <2>x, <2>3
           DEF VenueFillsEntry, Becomes, UntouchedInv, Untouched, Row, Tracked,
               haltVars, entryVars, bookVars, panicVars
    <2>4. CASE x # e
        BY <1>2, <1>t, <2>u, <2>x, <2>4
           DEF VenueFillsEntry, Becomes, UntouchedInv, Untouched, haltVars,
               entryVars, bookVars, panicVars
    <2> QED
        BY <2>3, <2>4
<1>3. ASSUME NEW f \in Flattens, NEW a \in Accounts, VenueFillsClose(f, a) PROVE UntouchedInv'
    BY <1>3, VenueFillsCloseEffect, UntouchedKept DEF OtherCloses, panicVars
<1>4. ASSUME NEW a \in Accounts, LossHits(a) PROVE UntouchedInv'
    <2> SUFFICES ASSUME NEW x \in Tracked, step'[x] \in {"sent", "filled", "held"},
                        Unconfirmed(AccountOf[x])'
                 PROVE  Untouched(x)'
        BY DEF UntouchedInv
    <2>x. x \in Entries /\ AccountOf[x] \in Accounts
        BY PanicAssumption DEF Tracked
    <2>u. Unconfirmed(AccountOf[x])
        BY <1>4 DEF LossHits, Unconfirmed, panicVars
    <2> QED
        BY <1>4, <2>u
           DEF LossHits, UntouchedInv, Untouched, haltVars, entryVars,
               bookVars, panicVars
<1>5. ASSUME NEW e \in Entries, PassGate(e) PROVE UntouchedInv'
    <2> SUFFICES ASSUME NEW x \in Tracked, step'[x] \in {"sent", "filled", "held"},
                        Unconfirmed(AccountOf[x])'
                 PROVE  Untouched(x)'
        BY DEF UntouchedInv
    <2>x. x \in Entries /\ AccountOf[x] \in Accounts
        BY PanicAssumption DEF Tracked
    <2>u. Unconfirmed(AccountOf[x])
        BY <1>5 DEF PassGate, Becomes, Unconfirmed, panicVars
    <2>3. CASE x = e
        BY <1>5, <1>t, <2>u, <2>x, <2>3
           DEF PassGate, Becomes, UntouchedInv, Untouched, Row, Tracked,
               haltVars, entryVars, bookVars, panicVars
    <2>4. CASE x # e
        BY <1>5, <1>t, <2>u, <2>x, <2>4
           DEF PassGate, Becomes, UntouchedInv, Untouched, haltVars, entryVars,
               bookVars, panicVars
    <2> QED
        BY <2>3, <2>4
<1>6. ASSUME NEW e \in Entries, RefuseHalted(e) PROVE UntouchedInv'
    <2> SUFFICES ASSUME NEW x \in Tracked, step'[x] \in {"sent", "filled", "held"},
                        Unconfirmed(AccountOf[x])'
                 PROVE  Untouched(x)'
        BY DEF UntouchedInv
    <2>x. x \in Entries /\ AccountOf[x] \in Accounts
        BY PanicAssumption DEF Tracked
    <2>u. Unconfirmed(AccountOf[x])
        BY <1>6 DEF RefuseHalted, Becomes, Unconfirmed, panicVars
    <2>3. CASE x = e
        BY <1>6, <1>t, <2>u, <2>x, <2>3
           DEF RefuseHalted, Becomes, UntouchedInv, Untouched, Row, Tracked,
               haltVars, entryVars, bookVars, panicVars
    <2>4. CASE x # e
        BY <1>6, <1>t, <2>u, <2>x, <2>4
           DEF RefuseHalted, Becomes, UntouchedInv, Untouched, haltVars,
               entryVars, bookVars, panicVars
    <2> QED
        BY <2>3, <2>4
<1>7. ASSUME NEW e \in Entries, RailClear(e) PROVE UntouchedInv'
    <2> SUFFICES ASSUME NEW x \in Tracked, step'[x] \in {"sent", "filled", "held"},
                        Unconfirmed(AccountOf[x])'
                 PROVE  Untouched(x)'
        BY DEF UntouchedInv
    <2>x. x \in Entries /\ AccountOf[x] \in Accounts
        BY PanicAssumption DEF Tracked
    <2>u. Unconfirmed(AccountOf[x])
        BY <1>7 DEF RailClear, Becomes, Unconfirmed, panicVars
    <2>3. CASE x = e
        BY <1>7, <1>t, <2>u, <2>x, <2>3
           DEF RailClear, Becomes, UntouchedInv, Untouched, Row, Tracked,
               haltVars, entryVars, bookVars, panicVars
    <2>4. CASE x # e
        BY <1>7, <1>t, <2>u, <2>x, <2>4
           DEF RailClear, Becomes, UntouchedInv, Untouched, haltVars,
               entryVars, bookVars, panicVars
    <2> QED
        BY <2>3, <2>4
<1>8. ASSUME NEW e \in Entries, DailyLossRail(e) PROVE UntouchedInv'
    <2> SUFFICES ASSUME NEW x \in Tracked, step'[x] \in {"sent", "filled", "held"},
                        Unconfirmed(AccountOf[x])'
                 PROVE  Untouched(x)'
        BY DEF UntouchedInv
    <2>x. x \in Entries /\ AccountOf[x] \in Accounts
        BY PanicAssumption DEF Tracked
    <2>e. /\ \E s \in {"refused", "tripping"} : step' = [step EXCEPT ![e] = s]
          /\ UNCHANGED <<bookVars, order>>
        BY <1>8, DailyLossRailEffect
    <2>u. Unconfirmed(AccountOf[x]) /\ step'[x] = step[x]
        BY <1>t, <2>e, <2>x DEF Unconfirmed
    <2> QED
        BY <2>e, <2>u DEF UntouchedInv, Untouched, bookVars
<1>9. ASSUME NEW e \in Entries, TripDone(e) PROVE UntouchedInv'
    <2> SUFFICES ASSUME NEW x \in Tracked, step'[x] \in {"sent", "filled", "held"},
                        Unconfirmed(AccountOf[x])'
                 PROVE  Untouched(x)'
        BY DEF UntouchedInv
    <2>x. x \in Entries /\ AccountOf[x] \in Accounts
        BY PanicAssumption DEF Tracked
    <2>u. Unconfirmed(AccountOf[x])
        BY <1>9 DEF TripDone, Becomes, Release, Unconfirmed, panicVars
    <2>3. CASE x = e
        BY <1>9, <1>t, <2>u, <2>x, <2>3
           DEF TripDone, Becomes, Release, UntouchedInv, Untouched, Row,
               Tracked, haltVars, entryVars, bookVars, panicVars
    <2>4. CASE x # e
        BY <1>9, <1>t, <2>u, <2>x, <2>4
           DEF TripDone, Becomes, Release, UntouchedInv, Untouched, haltVars,
               entryVars, bookVars, panicVars
    <2> QED
        BY <2>3, <2>4
<1>10. ASSUME NEW e \in Entries, SendEntry(e) PROVE UntouchedInv'
    <2> SUFFICES ASSUME NEW x \in Tracked, step'[x] \in {"sent", "filled", "held"},
                        Unconfirmed(AccountOf[x])'
                 PROVE  Untouched(x)'
        BY DEF UntouchedInv
    <2>x. x \in Entries /\ AccountOf[x] \in Accounts
        BY PanicAssumption DEF Tracked
    <2>u. Unconfirmed(AccountOf[x])
        BY <1>10 DEF SendEntry, Becomes, Unconfirmed, panicVars
    <2>3. CASE x = e
        BY <1>10, <1>t, <2>u, <2>x, <2>3
           DEF SendEntry, Becomes, UntouchedInv, Untouched, Row, Tracked,
               haltVars, entryVars, bookVars, panicVars
    <2>4. CASE x # e
        BY <1>10, <1>t, <2>u, <2>x, <2>4
           DEF SendEntry, Becomes, UntouchedInv, Untouched, haltVars,
               entryVars, bookVars, panicVars
    <2> QED
        BY <2>3, <2>4
<1>11. ASSUME NEW e \in Entries, SettleEntry(e) PROVE UntouchedInv'
    <2> SUFFICES ASSUME NEW x \in Tracked, step'[x] \in {"sent", "filled", "held"},
                        Unconfirmed(AccountOf[x])'
                 PROVE  Untouched(x)'
        BY DEF UntouchedInv
    <2>x. x \in Entries /\ AccountOf[x] \in Accounts
        BY PanicAssumption DEF Tracked
    <2>u. Unconfirmed(AccountOf[x])
        BY <1>11 DEF SettleEntry, Becomes, Release, Unconfirmed, panicVars
    <2>3. CASE x = e
        BY <1>11, <1>t, <2>u, <2>x, <2>3
           DEF SettleEntry, Becomes, Release, UntouchedInv, Untouched, Row,
               Tracked, haltVars, entryVars, bookVars, panicVars
    <2>4. CASE x # e
        BY <1>11, <1>t, <2>u, <2>x, <2>4
           DEF SettleEntry, Becomes, Release, UntouchedInv, Untouched,
               haltVars, entryVars, bookVars, panicVars
    <2> QED
        BY <2>3, <2>4
<1>12. ASSUME NEW e \in Entries, RejectEntry(e) PROVE UntouchedInv'
    <2> SUFFICES ASSUME NEW x \in Tracked, step'[x] \in {"sent", "filled", "held"},
                        Unconfirmed(AccountOf[x])'
                 PROVE  Untouched(x)'
        BY DEF UntouchedInv
    <2>x. x \in Entries /\ AccountOf[x] \in Accounts
        BY PanicAssumption DEF Tracked
    <2>u. Unconfirmed(AccountOf[x])
        BY <1>12
           DEF RejectEntry, Becomes, Release, Fault, Unconfirmed, panicVars
    <2>3. CASE x = e
        BY <1>12, <1>t, <2>u, <2>x, <2>3
           DEF RejectEntry, Becomes, Release, Fault, UntouchedInv, Untouched,
               Row, Tracked, haltVars, entryVars, bookVars, panicVars
    <2>4. CASE x # e
        BY <1>12, <1>t, <2>u, <2>x, <2>4
           DEF RejectEntry, Becomes, Release, Fault, UntouchedInv, Untouched,
               haltVars, entryVars, bookVars, panicVars
    <2> QED
        BY <2>3, <2>4
<1>13. ASSUME NEW f \in Flattens, NEW halt \in BOOLEAN, PanicCloseAll(f, halt) PROVE UntouchedInv'
    BY <1>13, PanicCloseAllEffect, UntouchedKept DEF OtherCloses, panicVars
<1>14. ASSUME NEW f \in Flattens, PanicCloseAccount(f) PROVE UntouchedInv'
    BY <1>14, PanicCloseAccountEffect, UntouchedKept DEF OtherCloses, panicVars
<1>15. ASSUME NEW f \in Flattens, PlaceClose(f) PROVE UntouchedInv'
    <2>1. order[f][fl[f].at].state = "none"
        BY <1>15, PlaceCloseEffect, PanicAssumption DEF FlattenInv, FlattenOk
    <2> QED
        BY <1>15, <2>1, PlaceCloseEffect, UntouchedKept DEF OtherCloses
<1>16. ASSUME NEW f \in Flattens, PlaceCloseFails(f) PROVE UntouchedInv'
    <2>1. order[f][fl[f].at].state = "none"
        BY <1>16, PlaceCloseFailsEffect, PanicAssumption
           DEF FlattenInv, FlattenOk
    <2> QED
        BY <1>16, <2>1, PlaceCloseFailsEffect, UntouchedKept DEF OtherCloses
<1>17. ASSUME NEW f \in Flattens, NEW a \in Accounts, SkipSession(f, a) PROVE UntouchedInv'
    BY <1>17, SkipSessionEffect, UntouchedKept DEF OtherCloses, panicVars
<1>18. ASSUME NEW f \in Flattens, NEW a \in Accounts, ReadPosition(f, a) PROVE UntouchedInv'
    BY <1>18, ReadPositionEffect, UntouchedKept DEF OtherCloses, panicVars
<1>19. ASSUME NEW f \in Flattens, BeginBooking(f) PROVE UntouchedInv'
    BY <1>19, BeginBookingEffect, UntouchedKept DEF OtherCloses, panicVars
<1>20. ASSUME NEW f \in Flattens, NEW a \in Accounts, BookClose(f, a) PROVE UntouchedInv'
    <2> SUFFICES ASSUME NEW x \in Tracked, step'[x] \in {"sent", "filled", "held"},
                        Unconfirmed(AccountOf[x])'
                 PROVE  Untouched(x)'
        BY DEF UntouchedInv
    <2>x. x \in Entries /\ AccountOf[x] \in Accounts
        BY PanicAssumption DEF Tracked
    <2>e. /\ fl[f].phase = "booking" /\ a \in fl[f].todo /\ order[f][a].state = "filled"
          /\ fl'[f].phase = fl[f].phase
          /\ fl'[f].scope = fl[f].scope
          /\ fl'[f].todo = fl[f].todo \ {a}
          /\ fl'[f].at = fl[f].at
          /\ fl'[f].placed = fl[f].placed
          /\ fl'[f].size = fl[f].size
          /\ Elsewhere(f)
          /\ UNCHANGED <<haltVars, breached, entryVars, born, net, order>>
        BY <1>20, BookCloseEffect
    <2>u. Unconfirmed(AccountOf[x])
        BY <2>e, <2>x DEF Unconfirmed, panicVars
    <2>1. step[x] \in {"sent", "filled", "held"} /\ Untouched(x)
        BY <2>e, <2>u DEF UntouchedInv, entryVars
    <2>2. AccountOf[x] # a
        BY <2>e, <2>u DEF Unconfirmed
    <2>3. row'[x] = row[x]
        BY <1>20, <2>x, <2>2 DEF BookClose, Book, Attributed, On
    <2>4. (x \in armed => x \in armed') /\ (x \in managed => x \in managed')
        BY <1>20, <2>x, <2>2 DEF BookClose, Book, Attributed, On
    <2> QED
        BY <2>1, <2>3, <2>4, <2>e DEF Untouched, entryVars
<1>21. ASSUME NEW f \in Flattens, NEW a \in Accounts, LeaveUnconfirmed(f, a) PROVE UntouchedInv'
    BY <1>21, LeaveUnconfirmedEffect, UntouchedKept DEF OtherCloses, panicVars
<1>22. ASSUME NEW f \in Flattens, NEW a \in Accounts, VenueRejectsClose(f, a) PROVE UntouchedInv'
    BY <1>22, VenueRejectsCloseEffect, UntouchedKept DEF OtherCloses, panicVars
<1>23. ASSUME NEW f \in Flattens, Report(f) PROVE UntouchedInv'
    BY <1>23, ReportEffect, UntouchedKept DEF OtherCloses, panicVars
<1>24. CASE UNCHANGED vars
    BY <1>24
       DEF vars, Untouched, Unconfirmed, UntouchedInv, haltVars, entryVars,
           bookVars, panicVars
<1> QED
    BY <1>1, <1>2, <1>3, <1>4, <1>5, <1>6, <1>7, <1>8, <1>9, <1>10, <1>11,
       <1>12, <1>13, <1>14, <1>15, <1>16, <1>17, <1>18, <1>19, <1>20,
       <1>21, <1>22, <1>23, <1>24
    DEF Next, EntryStep, FlattenStep, VenueStep

----------------------------------------------------------------------------
(* The invariant of the two theorems.                                      *)
Inv ==
    /\ TypeInv /\ TripInv /\ FlattenInv /\ EntryInv
    /\ LocalInv /\ NeverReversed /\ CalmInv /\ UntouchedInv

LEMMA InitInv ==
    ASSUME Init
    PROVE  Inv
<1>1. \A a \in Accounts : Cardinality(Held \cap On(a)) \in Nat
    <2> SUFFICES ASSUME NEW a \in Accounts PROVE Cardinality(Held \cap On(a)) \in Nat
        OBVIOUS
    <2>1. Held \cap On(a) \subseteq Entries
        BY DEF On
    <2> QED
        BY <2>1, FS_Subset, FS_CardinalityType, PanicAssumption
<1>2. Idle \in Flatten /\ NoOrder \in Close /\ NoRow \in Row
      /\ [status |-> "open", opened |-> 1, closed |-> 0] \in Row
    BY DEF Idle, Flatten, NoOrder, Close, NoRow, Row
<1>3. /\ \A f \in Flattens : fl[f] = Idle
      /\ \A f \in Flattens, a \in Accounts : order[f][a] = NoOrder
      /\ \A e \in Entries : step[e] = IF e \in Held THEN "held" ELSE "idle"
      /\ \A a \in Accounts : net[a] = Cardinality(Held \cap On(a)) /\ a \notin accountHalt
    BY DEF Init
<1>4. Idle.phase = "idle" /\ Idle.scope = {} /\ Idle.todo = {} /\ Idle.at = NoOne /\ Idle.placed = {}
      /\ NoOrder.state = "none"
    BY DEF Idle, NoOrder
<1>5. TypeInv
    BY <1>1, <1>2, PanicAssumption DEF Init, TypeInv, Step
<1>6. TripInv
    BY DEF Init, TripInv
<1>7. FlattenInv
    BY <1>3, <1>4 DEF FlattenInv, FlattenOk
<1>8. EntryInv
    BY <1>3, <1>4 DEF EntryInv, EntryOk, Flattens
<1>9. LocalInv
    <2>1. ASSUME NEW a \in Accounts PROVE net[a] = Bought(a)
        <3>1. {e \in On(a) : step[e] \in {"filled", "held"}} = Held \cap On(a)
            BY <1>3 DEF On
        <3> QED
            BY <1>3, <3>1 DEF Bought
    <2> QED
        BY <1>3, <1>4, <2>1 DEF LocalInv, Local, Flattens
<1>10. NeverReversed
    <2> SUFFICES ASSUME NEW a \in ReduceOnly PROVE net[a] >= 0
        BY DEF NeverReversed
    <2>1. net[a] \in Nat
        BY <1>1, <1>3, PanicAssumption
    <2> QED
        BY <2>1
<1>11. CalmInv
    BY <1>3, <1>4, PanicAssumption DEF CalmInv, CalmOk
<1>12. UntouchedInv
    BY <1>3 DEF Init, UntouchedInv, Untouched, Tracked
<1> QED
    BY <1>5, <1>6, <1>7, <1>8, <1>9, <1>10, <1>11, <1>12 DEF Inv

LEMMA InvStep ==
    ASSUME Inv, [Next]_vars
    PROVE  Inv'
BY TypePreserved, TripPreserved, FlattenPreserved, EntryPreserved,
   LocalPreserved,
   NeverReversedPreserved, CalmPreserved, UntouchedPreserved DEF Inv

LEMMA Invariance == Spec => []Inv
<1>1. Init => Inv
    BY InitInv
<1>2. Inv /\ [Next]_vars => Inv'
    BY InvStep
<1> QED
    BY <1>1, <1>2, PTL DEF Spec

(* However many entries see an account's loss while flattens, halts and    *)
(* their lifting interleave, it is tripped once per halt; and without a    *)
(* PANIC an account with no loss of its own is neither halted nor loses a  *)
(* contract (the daily-loss rail and tripDailyLoss).                       *)
THEOREM LocalTrip == Spec => []OneLocalTrip
<1>1. Inv => OneLocalTrip
    <2> SUFFICES ASSUME Inv PROVE OneLocalTrip
        OBVIOUS
    <2>1. OneTripPerHalt
        BY DEF Inv, TripInv, OneTripPerHalt
    <2>2. TripsStayLocal
        BY DEF Inv, LocalInv, Local, TripsStayLocal
    <2> QED
        BY <2>1, <2>2 DEF OneLocalTrip
<1> QED
    BY <1>1, Invariance, PTL

(* Flattens of any number, overlapping in any order: none turns a position *)
(* around where reduceOnly is honoured, a clean report of flat is true, and*)
(* what has no confirmed close keeps its row, stop and exit state (flatten *)
(* and bookClose of panic.ts).                                             *)
THEOREM CleanFlatten == Spec => []FlattensCleanly
<1>1. Inv => FlattensCleanly
    <2> SUFFICES ASSUME Inv PROVE FlattensCleanly
        OBVIOUS
    <2>1. FlatMeansFlat
        <3> SUFFICES ASSUME NEW f \in Flattens, Flat(f), faults = 0,
                            NEW a \in fl[f].scope \cap ReduceOnly,
                            \A e \in On(a) \ Held : step[e] \in {"idle", "refused"}
                     PROVE  net[a] = 0
            BY DEF FlatMeansFlat
        <3>1. Calm(a)
            BY DEF Calm
        <3>2. CalmOk(f, a)
            BY <3>1 DEF Inv, CalmInv
        <3>3. fl[f].phase = "done" /\ fl[f].todo = {}
            BY DEF Inv, FlattenInv, FlattenOk, Flat
        <3> QED
            BY <3>2, <3>3 DEF CalmOk
    <2>2. UnconfirmedTouchesNothing
        <3> SUFFICES ASSUME NEW e \in Tracked, step[e] = "held", Unconfirmed(AccountOf[e])
                     PROVE  Open(e) /\ e \in armed /\ e \in managed
            BY DEF UnconfirmedTouchesNothing, Unconfirmed
        <3>1. Untouched(e)
            BY DEF Inv, UntouchedInv
        <3> QED
            BY <3>1 DEF Untouched, Open
    <2> QED
        BY <2>1, <2>2 DEF Inv, FlattensCleanly
<1> QED
    BY <1>1, Invariance, PTL

----------------------------------------------------------------------------
(* What is stored, and how many rows were inserted.                        *)
Fresh    == {"idle", "gated", "cleared"}
Inserted == {e \in Entries : born[e] > 0}
StoreInv ==
    /\ halted \in BOOLEAN /\ breached \subseteq Accounts
    /\ \A e \in Entries : row[e].opened <= 1 /\ row[e].closed <= 1
    /\ armed \subseteq Tracked /\ managed \subseteq Tracked
    /\ \A f \in Flattens : fl[f].states \subseteq Tracked
    /\ faults <= MaxFaults /\ resumes \in 0..MaxResumes
BornInv ==
    /\ born \in [Entries -> Nat]
    /\ \A e \in Entries : born[e] <= Cardinality(Inserted)
    /\ \A e \in Entries : step[e] \in Fresh => born[e] = 0

LEMMA NatWellFounded == IsWellFoundedOn({ss \in Nat \X Nat : ss[1] < ss[2]}, Nat)
BY NatLessThanWellFounded DEF OpToRel

(* A set of naturals with a bound has a largest one.                       *)
LEMMA Highest ==
    ASSUME NEW S, NEW N \in Nat, S \subseteq 0..N, S # {}
    PROVE  Max(S) \in S
<1> DEFINE T == {N - x : x \in S}
           R == {ss \in Nat \X Nat : ss[1] < ss[2]}
<1>1. \A x \in S : x \in Nat /\ N - x \in Nat
    OBVIOUS
<1>2. T \subseteq Nat /\ T # {}
    BY <1>1
<1>3. PICK x \in T : \A y \in T : ~(<<y, x>> \in R)
    <2> HIDE DEF T, R
    <2>1. IsWellFoundedOn(R, Nat)
        BY NatWellFounded DEF R
    <2> QED
        BY <1>2, <2>1, WFMin
<1>4. \A y \in T : ~(y < x)
    BY <1>2, <1>3
<1>5. PICK z \in S : x = N - z
    OBVIOUS
<1>6. \A y \in S : z >= y
    <2> SUFFICES ASSUME NEW y \in S PROVE z >= y
        OBVIOUS
    <2>1. N - y \in T
        OBVIOUS
    <2>2. ~(N - y < N - z)
        BY <1>4, <1>5, <2>1
    <2>3. y \in Nat /\ z \in Nat
        BY <1>1
    <2> QED
        BY <2>2, <2>3
<1> QED
    BY <1>6 DEF Max

LEMMA InsertedCount ==
    ASSUME BornInv
    PROVE  /\ IsFiniteSet(Inserted) /\ Cardinality(Inserted) \in Nat /\ Cardinality(Entries) \in Nat
           /\ Cardinality(Inserted) <= Cardinality(Entries)
<1>1. Inserted \subseteq Entries
    BY DEF Inserted
<1> QED
    BY <1>1, FS_Subset, FS_CardinalityType, PanicAssumption

LEMMA NewestCount ==
    ASSUME BornInv, Entries # {}
    PROVE  Newest \in Nat /\ Newest <= Cardinality(Inserted)
<1>1. PICK N \in Nat : N = Cardinality(Inserted)
    BY InsertedCount
<1>2. PICK S : S = {born[e] : e \in Entries}
    OBVIOUS
<1>3. S \subseteq 0..N /\ S # {}
    BY <1>1, <1>2 DEF BornInv
<1>4. Max(S) \in 0..N
    BY <1>3, Highest
<1> QED
    BY <1>1, <1>2, <1>4 DEF Newest

(* Most steps store nothing.                                               *)
Quiet ==
    /\ UNCHANGED <<halted, breached, row, born, armed, managed, resumes>>
    /\ Fault \/ faults' = faults
    /\ \A f \in Flattens : fl'[f].states = fl[f].states
    /\ \A e \in Entries : step'[e] \in Fresh => step[e] \in Fresh

LEMMA FaultCounts == ASSUME TypeInv, StoreInv, Fault \/ faults' = faults PROVE faults' <= MaxFaults
BY PanicAssumption DEF TypeInv, StoreInv, Fault

LEMMA QuietKeeps ==
    ASSUME TypeInv, StoreInv, BornInv, Quiet
    PROVE  StoreInv' /\ BornInv'
<1>1. Inserted' = Inserted
    BY DEF Quiet, Inserted
<1>2. StoreInv'
    BY FaultCounts DEF Quiet, StoreInv
<1>3. BornInv'
    BY <1>1 DEF Quiet, BornInv
<1> QED
    BY <1>2, <1>3

LEMMA EntryQuiet ==
    ASSUME TypeInv, NEW e \in Entries,
           PassGate(e) \/ RefuseHalted(e) \/ RailClear(e) \/ DailyLossRail(e) \/ TripDone(e) \/ VenueFillsEntry(e)
    PROVE  Quiet
<1>1. UNCHANGED <<halted, breached, row, born, armed, managed, resumes, faults>>
    BY DEF PassGate, RefuseHalted, RailClear, DailyLossRail, TripDone, VenueFillsEntry, haltVars, entryVars, bookVars,
           panicVars
<1>2. /\ \A x \in Entries \ {e} : step'[x] = step[x]
      /\ step'[e] \in Fresh => step[e] \in Fresh
    BY DEF TypeInv, PassGate, RefuseHalted, RailClear, DailyLossRail, TripDone, VenueFillsEntry, Becomes, Trips, Fresh
<1>3. fl' = fl \/ fl' = [fl EXCEPT ![e].phase = "tripped", ![e].scope = {AccountOf[e]}]
    BY DEF PassGate, RefuseHalted, RailClear, DailyLossRail, TripDone, VenueFillsEntry, Trips, panicVars
<1>4. e \in Flattens /\ fl[e] \in Flatten
    BY DEF TypeInv, Flattens
<1>5. fl' = fl \/ (/\ \A f \in Flattens \ {e} : fl'[f] = fl[f]
                  /\ fl'[e] = [fl[e] EXCEPT !.phase = "tripped", !.scope = {AccountOf[e]}])
    BY <1>3, <1>4 DEF TypeInv
<1>6. \A f \in Flattens : fl'[f].states = fl[f].states
    BY <1>4, <1>5 DEF Flatten
<1> QED
    BY <1>1, <1>2, <1>6 DEF Quiet

LEMMA FlattenQuiet ==
    ASSUME TypeInv, NEW f \in Flattens, NEW a,
           \/ PanicCloseAccount(f) \/ PlaceClose(f) \/ PlaceCloseFails(f) \/ Report(f)
           \/ SkipSession(f, a) \/ ReadPosition(f, a) \/ LeaveUnconfirmed(f, a)
    PROVE  Quiet
<1>1. /\ UNCHANGED <<halted, breached, row, born, armed, managed, resumes, step>>
      /\ Fault \/ faults' = faults
    BY DEF PanicCloseAccount, PlaceClose, PlaceCloseFails, Report, SkipSession, ReadPosition, LeaveUnconfirmed,
           haltVars, entryVars, bookVars, panicVars
<1>2. fl[f] \in Flatten
    BY DEF TypeInv
<1>3. \A g \in Flattens : fl'[g].states = fl[g].states
    <2>1. \A g \in Flattens \ {f} : fl'[g] = fl[g]
        BY DEF TypeInv, PanicCloseAccount, Begin, PlaceClose, PlaceCloseFails, Report, SkipSession, ReadPosition,
               LeaveUnconfirmed
    <2>2. \/ fl'[f] = [fl[f] EXCEPT !.phase = "placing", !.scope = fl[f].scope, !.todo = fl[f].scope]
          \/ fl'[f] = [fl[f] EXCEPT !.at = NoOne, !.placed = fl[f].placed \cup {fl[f].at}]
          \/ fl'[f] = [fl[f] EXCEPT !.at = NoOne, !.failed = TRUE]
          \/ fl'[f] = [fl[f] EXCEPT !.phase = "done"]
          \/ fl'[f] = [fl[f] EXCEPT !.todo = fl[f].todo \ {a}]
          \/ \E at : fl'[f] = [fl[f] EXCEPT !.todo = fl[f].todo \ {a}, !.at = at, !.size = net[a]]
        <3>1. CASE PanicCloseAccount(f) \/ PlaceClose(f)
            BY <1>2, <3>1 DEF TypeInv, PanicCloseAccount, Begin, PlaceClose
        <3>2. CASE PlaceCloseFails(f) \/ Report(f)
            BY <1>2, <3>2 DEF TypeInv, PlaceCloseFails, Report
        <3>3. CASE SkipSession(f, a) \/ LeaveUnconfirmed(f, a)
            BY <1>2, <3>3 DEF TypeInv, SkipSession, LeaveUnconfirmed
        <3>4. CASE ReadPosition(f, a)
            <4>1. PICK at : at = IF net[a] = 0 THEN NoOne ELSE a
                OBVIOUS
            <4>2. fl' = [fl EXCEPT ![f].todo = @ \ {a}, ![f].at = at, ![f].size = net[a]]
                BY <3>4, <4>1 DEF ReadPosition
            <4> QED
                BY <1>2, <4>2 DEF TypeInv
        <3> QED
            BY <3>1, <3>2, <3>3, <3>4
    <2>3. fl'[f].states = fl[f].states
        BY <1>2, <2>2 DEF Flatten
    <2> QED
        BY <2>1, <2>3
<1> QED
    BY <1>1, <1>3 DEF Quiet

LEMMA CloseQuiet ==
    ASSUME TypeInv, NEW f \in Flattens, NEW a \in Accounts, VenueFillsClose(f, a) \/ VenueRejectsClose(f, a)
    PROVE  Quiet
BY DEF VenueFillsClose, VenueRejectsClose, haltVars, entryVars, bookVars, panicVars, Quiet

(* Losses, halts and their lifting.                                        *)
LEMMA OutsideStores ==
    ASSUME TypeInv, StoreInv, BornInv,
           \/ Resume
           \/ \E a \in Accounts : LossHits(a)
           \/ \E f \in Flattens, halt \in BOOLEAN : PanicCloseAll(f, halt)
    PROVE  StoreInv' /\ BornInv'
<1>1. UNCHANGED <<row, born, armed, managed, step, faults>>
    BY DEF Resume, LossHits, PanicCloseAll, haltVars, entryVars, bookVars, panicVars
<1>2. halted' \in BOOLEAN
    BY DEF StoreInv, Resume, LossHits, PanicCloseAll, haltVars
<1>3. breached' \subseteq Accounts
    BY DEF StoreInv, Resume, LossHits, PanicCloseAll
<1>4. resumes' \in 0..MaxResumes
    <2>1. resumes' = resumes \/ (resumes < MaxResumes /\ resumes' = resumes + 1)
        BY DEF Resume, LossHits, PanicCloseAll
    <2> QED
        BY <2>1, PanicAssumption DEF StoreInv
<1>5. \A f \in Flattens : fl'[f].states = fl[f].states
    <2>1. CASE fl' = fl
        BY <2>1
    <2>2. CASE \E f \in Flattens : Begin(f, Accounts)
        <3>1. PICK f \in Flattens : Begin(f, Accounts)
            BY <2>2
        <3>2. /\ \A g \in Flattens \ {f} : fl'[g] = fl[g]
              /\ fl'[f] = [fl[f] EXCEPT !.phase = "placing", !.scope = Accounts, !.todo = Accounts]
            BY <3>1 DEF TypeInv, Begin
        <3>3. fl[f] \in Flatten
            BY DEF TypeInv
        <3> QED
            BY <3>2, <3>3 DEF Flatten
    <2> QED
        BY <2>1, <2>2 DEF Resume, LossHits, PanicCloseAll, panicVars
<1>6. StoreInv'
    BY <1>1, <1>2, <1>3, <1>4, <1>5 DEF StoreInv
<1>7. BornInv'
    BY <1>1 DEF BornInv, Inserted
<1> QED
    BY <1>6, <1>7

(* A row is inserted once, with the next number.                           *)
LEMMA SendStores ==
    ASSUME TypeInv, StoreInv, BornInv, NEW e \in Entries, SendEntry(e)
    PROVE  StoreInv' /\ BornInv'
<1>1. /\ UNCHANGED <<halted, breached, armed, managed, fl, resumes, faults>>
      /\ step[e] = "cleared" /\ step' = [step EXCEPT ![e] = "sent"]
      /\ e \in Manual => UNCHANGED <<row, born>>
      /\ e \notin Manual => /\ row' = [row EXCEPT ![e] = [status |-> "open", opened |-> 1, closed |-> 0]]
                            /\ born' = [born EXCEPT ![e] = Newest + 1]
    BY DEF SendEntry, Becomes, haltVars, panicVars
<1>2. \A x \in Entries : row'[x] = row[x] \/ row'[x] = [status |-> "open", opened |-> 1, closed |-> 0]
    BY <1>1 DEF TypeInv
<1>3. StoreInv'
    BY <1>1, <1>2 DEF StoreInv
<1>4. born[e] = 0
    BY <1>1 DEF BornInv, Fresh
<1>5. \A x \in Entries : step'[x] \in Fresh => x # e /\ step[x] \in Fresh
    BY <1>1 DEF TypeInv, Fresh
<1>6. CASE e \in Manual
    <2>1. born' = born /\ Inserted' = Inserted
        BY <1>1, <1>6 DEF Inserted
    <2> QED
        BY <1>3, <1>5, <2>1 DEF BornInv, Fresh
<1>7. CASE e \notin Manual
    <2>1. PICK n \in Nat : n = Newest + 1 /\ n > 0 /\ n <= Cardinality(Inserted) + 1
        BY NewestCount, InsertedCount
    <2>2. born' = [born EXCEPT ![e] = n]
        BY <1>1, <1>7, <2>1
    <2>3. born' \in [Entries -> Nat] /\ born'[e] = n /\ \A x \in Entries \ {e} : born'[x] = born[x]
        BY <2>2 DEF BornInv
    <2>4. Inserted' = Inserted \cup {e} /\ e \notin Inserted
        BY <1>4, <2>1, <2>3 DEF Inserted
    <2>5. Cardinality(Inserted') = Cardinality(Inserted) + 1
        BY <2>4, InsertedCount, FS_AddElement
    <2>6. \A x \in Entries : born'[x] <= Cardinality(Inserted')
        BY <2>1, <2>3, <2>5, InsertedCount DEF BornInv
    <2>7. \A x \in Entries : step'[x] \in Fresh => born'[x] = 0
        BY <1>5, <2>3 DEF BornInv
    <2> QED
        BY <1>3, <2>3, <2>6, <2>7 DEF BornInv, Fresh
<1> QED
    BY <1>3, <1>6, <1>7

(* The outcome of an entry: its row has one contract, or none.             *)
LEMMA OutcomeStores ==
    ASSUME TypeInv, StoreInv, BornInv, NEW e \in Entries, SettleEntry(e) \/ RejectEntry(e)
    PROVE  StoreInv' /\ BornInv'
<1>1. /\ UNCHANGED <<halted, breached, born, fl, resumes>>
      /\ Fault \/ faults' = faults
      /\ \E s \in {"held", "refused"} : step' = [step EXCEPT ![e] = s]
    BY DEF SettleEntry, RejectEntry, Becomes, haltVars, panicVars
<1>2. row[e] \in Row
    BY DEF TypeInv
<1>3. \A x \in Entries \ {e} : row'[x] = row[x]
    BY DEF TypeInv, SettleEntry, RejectEntry
<1>4. \/ row'[e] = row[e]
      \/ row'[e] = [row[e] EXCEPT !.status = "open", !.opened = 1]
      \/ row'[e] = [row[e] EXCEPT !.status = "error", !.opened = 0]
    BY DEF TypeInv, SettleEntry, RejectEntry
<1>5. row'[e].opened <= 1 /\ row'[e].closed <= 1
    <2>1. row[e].opened <= 1 /\ row[e].closed <= 1
        BY DEF StoreInv
    <2>2. row'[e].opened \in {row[e].opened, 0, 1} /\ row'[e].closed = row[e].closed
        BY <1>2, <1>4 DEF Row
    <2> QED
        BY <2>1, <2>2
<1>6. armed' \subseteq Tracked /\ managed' \subseteq Tracked
    BY DEF StoreInv, SettleEntry, RejectEntry, Tracked
<1>7. faults' <= MaxFaults
    BY <1>1, FaultCounts
<1>8. StoreInv'
    BY <1>1, <1>3, <1>5, <1>6, <1>7 DEF StoreInv
<1>9. \A x \in Entries : step'[x] \in Fresh => step[x] \in Fresh
    BY <1>1 DEF TypeInv, Fresh
<1>10. BornInv'
    BY <1>1, <1>9 DEF BornInv, Inserted
<1> QED
    BY <1>8, <1>10

(* The bookings start: they read what the server manages.                  *)
LEMMA BeginBookingStores ==
    ASSUME TypeInv, StoreInv, BornInv, NEW f \in Flattens, BeginBooking(f)
    PROVE  StoreInv' /\ BornInv'
<1>1. UNCHANGED <<halted, breached, row, born, armed, managed, resumes, step, faults>>
    BY DEF BeginBooking, haltVars, entryVars, bookVars
<1>2. PICK states \in SUBSET managed :
          states = {e \in managed : AccountOf[e] \in fl[f].placed /\ row[e].status = "open"}
    OBVIOUS
<1>3. fl[f] \in Flatten
    BY DEF TypeInv
<1>4. /\ \A g \in Flattens \ {f} : fl'[g] = fl[g]
      /\ fl'[f] = [fl[f] EXCEPT !.phase = "booking", !.todo = fl[f].placed, !.states = states]
    BY <1>2 DEF TypeInv, BeginBooking
<1>5. fl'[f].states = states
    BY <1>3, <1>4 DEF Flatten
<1>6. \A g \in Flattens : fl'[g].states \subseteq Tracked
    BY <1>4, <1>5 DEF StoreInv
<1>7. StoreInv'
    BY <1>1, <1>6 DEF StoreInv
<1>8. BornInv'
    BY <1>1 DEF BornInv, Inserted
<1> QED
    BY <1>7, <1>8

(* A row that is booked was open, with nothing closed yet.                 *)
LEMMA BookStores ==
    ASSUME TypeInv, StoreInv, BornInv, NEW f \in Flattens, NEW a \in Accounts, BookClose(f, a)
    PROVE  StoreInv' /\ BornInv'
<1>1. UNCHANGED <<halted, breached, born, resumes, step>> /\ Book(f, a, order[f][a].fill)
    BY DEF BookClose, haltVars, entryVars
<1>2. PICK closed \in SUBSET Entries : closed = Attributed(a, order[f][a].fill) /\ \A e \in closed : Open(e)
    <2>1. PICK closed : closed = Attributed(a, order[f][a].fill)
        OBVIOUS
    <2>2. \A e \in closed : e \in Entries /\ Open(e)
        BY <2>1 DEF Attributed, On
    <2> QED
        BY <2>1, <2>2
<1>3. /\ row' = [e \in Entries |-> IF e \in closed THEN [row[e] EXCEPT !.status = "closed", !.closed = @ + 1] ELSE row[e]]
      /\ armed' \subseteq armed /\ managed' \subseteq managed
      /\ Fault \/ faults' = faults
    BY <1>1, <1>2 DEF Book
<1>4. ASSUME NEW e \in Entries PROVE row'[e].opened <= 1 /\ row'[e].closed <= 1
    <2>1. row[e] \in Row /\ row[e].opened <= 1 /\ row[e].closed <= 1
        BY DEF TypeInv, StoreInv
    <2>2. CASE e \notin closed
        BY <1>3, <2>1, <2>2
    <2>3. CASE e \in closed
        <3>1. row[e].closed = 0
            BY <1>2, <2>1, <2>3 DEF Open, Row
        <3>2. row'[e] = [row[e] EXCEPT !.status = "closed", !.closed = row[e].closed + 1]
            BY <1>3, <2>3
        <3>3. row'[e].opened = row[e].opened /\ row'[e].closed = 1
            BY <2>1, <3>1, <3>2 DEF Row
        <3> QED
            BY <2>1, <3>3
    <2> QED
        BY <2>2, <2>3
<1>5. \A g \in Flattens : fl'[g].states = fl[g].states
    <2>1. /\ \A g \in Flattens \ {f} : fl'[g] = fl[g]
          /\ fl'[f] = [fl[f] EXCEPT !.todo = fl[f].todo \ {a}]
        BY DEF TypeInv, BookClose
    <2>2. fl[f] \in Flatten
        BY DEF TypeInv
    <2> QED
        BY <2>1, <2>2 DEF Flatten
<1>6. StoreInv'
    BY <1>1, <1>3, <1>4, <1>5, FaultCounts DEF StoreInv
<1>7. BornInv'
    BY <1>1 DEF BornInv, Inserted
<1> QED
    BY <1>6, <1>7

LEMMA StoreStep ==
    ASSUME TypeInv, StoreInv, BornInv, [Next]_vars
    PROVE  StoreInv' /\ BornInv'
<1>1. ASSUME Resume \/ \E a \in Accounts : LossHits(a) PROVE StoreInv' /\ BornInv'
    BY <1>1, OutsideStores
<1>2. ASSUME NEW f \in Flattens, NEW halt \in BOOLEAN, PanicCloseAll(f, halt) PROVE StoreInv' /\ BornInv'
    BY <1>2, OutsideStores
<1>3. ASSUME NEW e \in Entries, EntryStep(e) \/ RejectEntry(e) \/ VenueFillsEntry(e) PROVE StoreInv' /\ BornInv'
    <2>1. CASE SendEntry(e)
        BY <2>1, SendStores
    <2>2. CASE SettleEntry(e) \/ RejectEntry(e)
        BY <2>2, OutcomeStores
    <2>3. CASE PassGate(e) \/ RefuseHalted(e) \/ RailClear(e) \/ DailyLossRail(e) \/ TripDone(e) \/ VenueFillsEntry(e)
        BY <2>3, EntryQuiet, QuietKeeps
    <2> QED
        BY <1>3, <2>1, <2>2, <2>3 DEF EntryStep
<1>4. ASSUME NEW f \in Flattens, BeginBooking(f) PROVE StoreInv' /\ BornInv'
    BY <1>4, BeginBookingStores
<1>5. ASSUME NEW f \in Flattens, PanicCloseAccount(f) \/ PlaceClose(f) \/ PlaceCloseFails(f) \/ Report(f)
      PROVE  StoreInv' /\ BornInv'
    BY <1>5, FlattenQuiet, QuietKeeps
<1>6. ASSUME NEW f \in Flattens, NEW a \in Accounts, SkipSession(f, a) \/ ReadPosition(f, a) \/ LeaveUnconfirmed(f, a)
      PROVE  StoreInv' /\ BornInv'
    BY <1>6, FlattenQuiet, QuietKeeps
<1>7. ASSUME NEW f \in Flattens, NEW a \in Accounts, VenueFillsClose(f, a) \/ VenueRejectsClose(f, a)
      PROVE  StoreInv' /\ BornInv'
    BY <1>7, CloseQuiet, QuietKeeps
<1>8. ASSUME NEW f \in Flattens, NEW a \in Accounts, BookClose(f, a) PROVE StoreInv' /\ BornInv'
    BY <1>8, BookStores
<1>9. CASE UNCHANGED vars
    <2>1. Quiet
        BY <1>9 DEF vars, haltVars, entryVars, bookVars, panicVars, Quiet
    <2> QED
        BY <2>1, QuietKeeps
<1>10. CASE \E e \in Entries : EntryStep(e) \/ RejectEntry(e) \/ VenueFillsEntry(e)
    BY <1>3, <1>10
<1>11. CASE \E f \in Flattens : FlattenStep(f) \/ PlaceCloseFails(f)
    BY <1>4, <1>5, <1>6, <1>8, <1>11 DEF FlattenStep
<1>12. CASE \E f \in Flattens, a \in Accounts : VenueFillsClose(f, a) \/ SkipSession(f, a) \/ VenueRejectsClose(f, a)
    BY <1>6, <1>7, <1>12
<1>13. CASE \E f \in Flattens, halt \in BOOLEAN : PanicCloseAll(f, halt)
    BY <1>2, <1>13
<1> QED
    BY <1>1, <1>9, <1>10, <1>11, <1>12, <1>13 DEF Next, VenueStep

LEMMA StoreInit == Init => StoreInv /\ BornInv
<1> SUFFICES ASSUME Init PROVE StoreInv /\ BornInv
    OBVIOUS
<1>1. StoreInv
    <2>1. \A e \in Entries : row[e] = [status |-> "open", opened |-> 1, closed |-> 0] \/ row[e] = NoRow
        BY DEF Init
    <2>2. \A e \in Entries : row[e].opened <= 1 /\ row[e].closed <= 1
        BY <2>1 DEF NoRow
    <2>3. \A f \in Flattens : fl[f].states = {}
        BY DEF Init, Idle
    <2> QED
        <3>1. halted \in BOOLEAN /\ breached \subseteq Accounts
            BY DEF Init
        <3>2. faults <= MaxFaults /\ resumes \in 0..MaxResumes
            BY PanicAssumption DEF Init
        <3>3. armed \subseteq Tracked /\ managed \subseteq Tracked
            BY PanicAssumption DEF Init, Tracked
        <3> QED
            BY <2>2, <2>3, <3>1, <3>2, <3>3 DEF StoreInv
<1>2. BornInv
    <2>1. IsFiniteSet(Held) /\ Cardinality(Held) \in Nat
        BY FS_Subset, FS_CardinalityType, PanicAssumption
    <2>2. /\ born \in [Entries -> 0..Cardinality(Held)]
          /\ \A e \in Entries : born[e] = 0 <=> e \notin Held
          /\ \A e \in Entries : step[e] = IF e \in Held THEN "held" ELSE "idle"
        BY DEF Init
    <2>3. \A e \in Entries : born[e] \in Nat /\ born[e] <= Cardinality(Held) /\ (born[e] > 0 <=> e \in Held)
        BY <2>1, <2>2
    <2>4. Inserted = Held
        BY <2>3, PanicAssumption DEF Inserted
    <2>5. born \in [Entries -> Nat]
        BY <2>2, <2>3
    <2> QED
        BY <2>2, <2>3, <2>4, <2>5 DEF BornInv, Fresh
<1> QED
    BY <1>1, <1>2

(* Every variable keeps its type. A row counts one contract in and at most *)
(* one out, however many closes book on the account, and is inserted once. *)
THEOREM TypeCorrect == Spec => []TypeOK
<1>1. TypeInv /\ StoreInv /\ BornInv => TypeOK
    <2> SUFFICES ASSUME TypeInv, StoreInv, BornInv PROVE TypeOK
        OBVIOUS
    <2>1. row \in [Entries -> [status : {"none", "open", "closed", "error"}, opened : 0..1, closed : 0..1]]
        <3>1. ASSUME NEW e \in Entries
              PROVE  row[e] \in [status : {"none", "open", "closed", "error"}, opened : 0..1, closed : 0..1]
            <4>1. row[e] \in Row /\ row[e].opened <= 1 /\ row[e].closed <= 1
                BY DEF TypeInv, StoreInv
            <4>2. row[e].opened \in 0..1 /\ row[e].closed \in 0..1
                BY <4>1 DEF Row
            <4> QED
                BY <4>1, <4>2 DEF Row
        <3> QED
            BY <3>1 DEF TypeInv
    <2>2. born \in [Entries -> 0..Cardinality(Entries)]
        <3>1. \A e \in Entries : born[e] \in 0..Cardinality(Entries)
            BY InsertedCount DEF BornInv
        <3> QED
            BY <3>1 DEF BornInv
    <2>3. fl \in [Flattens -> [phase : {"idle", "tripped", "placing", "booking", "done"},
                               scope : SUBSET Accounts, todo : SUBSET Accounts,
                               at : Accounts \cup {NoOne}, size : Int,
                               placed : SUBSET Accounts, failed : BOOLEAN,
                               states : SUBSET Tracked]]
        <3>1. ASSUME NEW f \in Flattens
              PROVE  fl[f] \in [phase : {"idle", "tripped", "placing", "booking", "done"},
                                scope : SUBSET Accounts, todo : SUBSET Accounts,
                                at : Accounts \cup {NoOne}, size : Int,
                                placed : SUBSET Accounts, failed : BOOLEAN,
                                states : SUBSET Tracked]
            <4>1. fl[f] \in Flatten /\ fl[f].states \in SUBSET Tracked
                BY DEF TypeInv, StoreInv
            <4> QED
                BY <4>1 DEF Flatten
        <3> QED
            BY <3>1 DEF TypeInv
    <2>4. \A f \in Flattens, a \in Accounts : order[f][a].state \in {"none", "working", "filled", "cancelled"}
        BY DEF TypeInv, Close
    <2>5. faults \in 0..MaxFaults
        BY PanicAssumption DEF TypeInv, StoreInv
    <2>6. step \in [Entries -> {"idle", "gated", "tripping", "cleared", "sent", "filled", "held", "refused"}]
        BY DEF TypeInv, Step
    <2> QED
        BY <2>1, <2>2, <2>3, <2>4, <2>5, <2>6 DEF TypeOK, TypeInv, StoreInv
<1>2. Init => TypeInv
    BY InitInv DEF Inv
<1>3. TypeInv /\ StoreInv /\ BornInv /\ [Next]_vars => (TypeInv /\ StoreInv /\ BornInv)'
    BY TypePreserved, StoreStep
<1> QED
    BY <1>1, <1>2, <1>3, StoreInit, PTL DEF Spec
=============================================================================
