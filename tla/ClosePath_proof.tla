-------------------------- MODULE ClosePath_proof --------------------------
(***************************************************************************)
(* Proofs about what closes positions: the reconciler, for every set of    *)
(* lineages, whatever their sizes and directions, what the user held, and  *)
(* the bounds; and the close signals, for any closes and any stories of    *)
(* entries, adapters and faults. The two specifications are separate and   *)
(* share no variable; both count contracts with ContractCount.             *)
(***************************************************************************)
EXTENDS Reconciler, CloseFlow, ContractCount_proof, SequenceTheorems

(***************************************************************************)
(* The reconciler                                                          *)
(***************************************************************************)

----------------------------------------------------------------------------
(* The invariants *)

\* An execution whose entry the resolver still looks for has nothing in it.
EntriesUnbooked ==
    \A s \in Lineages : <<"entry", s>> \in unk =>
        exec[s] = [st |-> "open", opened |-> 0, closed |-> 0]

TypeInv == TypeOK /\ EntriesUnbooked

\* What a lineage can be in while only the executor trades: its row, its orders at the venue
\* and what it holds, together.
Untouched(s) ==
    /\ exec[s].st \in {"none", "error"} /\ exec[s].opened = 0 /\ exec[s].closed = 0
    /\ exec[s].st = "none" => entry[s] = "none"
    /\ exec[s].st = "error" => entry[s] = "dead"
    /\ exit[s].st = "none" /\ stop[s] = "none" /\ held[s] = 0
    /\ <<"entry", s>> \notin unk /\ <<"exit", s>> \notin unk

Entering(s) ==
    /\ exec[s].st = "open" /\ exec[s].opened = 0 /\ exec[s].closed = 0
    /\ <<"entry", s>> \in unk /\ <<"exit", s>> \notin unk
    /\ entry[s] \in {"working", "filled", "dead"}
    /\ exit[s].st = "none" /\ stop[s] = "none"
    /\ held[s] = IF entry[s] = "filled" THEN Size[s] ELSE 0

\* Open: a stop that filled is the only thing its row does not know.
Riding(s) ==
    /\ exec[s].st = "open" /\ exec[s].opened = Size[s] /\ exec[s].closed = 0
    /\ <<"entry", s>> \notin unk /\ <<"exit", s>> \notin unk
    /\ entry[s] = "filled" /\ exit[s].st = "none"
    /\ held[s] = IF stop[s] = "filled" THEN 0 ELSE Size[s]

\* Closing: a close order of all of it is open, filled unseen, or dead.
Leaving(s) ==
    /\ exec[s].st = "closing" /\ exec[s].opened = Size[s] /\ exec[s].closed = 0
    /\ <<"entry", s>> \notin unk
    /\ entry[s] = "filled" /\ stop[s] = "none"
    /\ exit[s].st \in {"working", "filled", "dead"} /\ exit[s].q = Size[s]
    /\ <<"exit", s>> \notin unk => exit[s].st = "dead"
    /\ held[s] = IF exit[s].st = "filled" THEN 0 ELSE Size[s]

Gone(s) ==
    /\ exec[s].st = "closed" /\ exec[s].opened = Size[s] /\ exec[s].closed = Size[s]
    /\ <<"entry", s>> \notin unk /\ <<"exit", s>> \notin unk
    /\ entry[s] = "filled" /\ exit[s].st # "working" /\ stop[s] = "none"
    /\ held[s] = 0

LineageInv(s) == Untouched(s) \/ Entering(s) \/ Riding(s) \/ Leaving(s) \/ Gone(s)

HeldSigned == [s \in Lineages |-> Signed(s, held[s])]

\* The venue's net is what the user brought and what the lineages hold.
NetInv == pos = boot + Sum(HeldSigned)

\* A book that was read with nothing open is off by what the user brought and by nothing
\* else, and that has been marked or is nothing.
ReadsInv ==
    /\ rec.pc \in {"book", "pos", "listed"} /\ ~rec.open => rec.exp = rec.brk - boot
    /\ rec.pc \in {"pos", "listed"} => ~first
    /\ ~first /\ boot # 0 => marker

OwnWorld == trades = 0 /\ ways = {}

NoneCorrected == \A i \in DOMAIN corr : corr[i].st = "none"
LineagesInv == \A s \in Lineages : LineageInv(s)

OwnParts == NoneCorrected /\ NetInv /\ LineagesInv /\ ReadsInv

OwnInv == OwnWorld => OwnParts

IInv == TypeInv /\ OwnInv

----------------------------------------------------------------------------
(* The book: what a lineage has open, and what a booking takes             *)

Row == [st : {"none", "open", "closing", "closed", "error"}, opened : Nat, closed : Nat]

RowsOK(ex) ==
    /\ ex \in [Lineages -> Row]
    /\ \A s \in Lineages : ex[s].opened \in {0, Size[s]} /\ ex[s].closed <= ex[s].opened

LEMMA Constants ==
    /\ IsFiniteSet(Lineages)
    /\ \A s \in Lineages : s \in Nat /\ s > 0 /\ Size[s] \in Nat /\ Size[s] > 0
    /\ MaxDelta \in Nat /\ MaxFaults \in Nat /\ MaxTrades \in Nat /\ MaxCorrections \in Nat
BY ReconcilerAssumption

LEMMA RowsType == TypeOK => RowsOK(exec)
BY DEF TypeOK, RowsOK, Row

LEMMA Directions ==
    ASSUME TypeOK
    PROVE  \A s \in Lineages : dir[s] \in {1, -1} /\ dir[s] \in Int
<1>1. dir \in [Lineages -> {1, -1}]
    BY ReconcilerAssumption DEF TypeOK
<1> HIDE DEF TypeOK
<1>2. \A s \in Lineages : dir[s] \in {1, -1}
    BY <1>1
<1> QED
    BY <1>2

LEMMA RemType ==
    ASSUME TypeOK, NEW s \in Lineages
    PROVE  /\ Rem(s) \in Nat /\ Rem(s) <= Size[s]
           /\ Rem(s) > 0 => /\ exec[s].opened = Size[s] /\ Rem(s) = exec[s].opened - exec[s].closed
                            /\ exec[s].st \in {"open", "closing"}
<1>1. exec[s] \in Row /\ exec[s].opened \in {0, Size[s]} /\ exec[s].closed <= exec[s].opened
    BY RowsType DEF RowsOK
<1>2. exec[s].opened \in Nat /\ exec[s].closed \in Nat
    BY <1>1 DEF Row
<1>3. Size[s] \in Nat
    BY Constants
<1> QED
    BY <1>1, <1>2, <1>3 DEF Rem, Live

LEMMA AboveType ==
    ASSUME TypeOK, NEW s \in Lineages
    PROVE  Above(s) \in Nat
<1> DEFINE f == [t \in Lineages |-> IF t > s THEN Rem(t) ELSE 0]
<1>1. \A t \in Lineages : Rem(t) \in Nat
    BY RemType
<1>2. f \in [Lineages -> Int] /\ \A t \in Lineages : f[t] >= 0
    BY <1>1
<1> HIDE DEF f
<1>3. Sum(f) \in Nat
    BY <1>2, SumNat, Constants
<1> QED
    BY <1>3 DEF Above, f

LEMMA AllocType ==
    ASSUME TypeOK, NEW q \in Nat, NEW s \in Lineages
    PROVE  Alloc(q)[s] \in Nat /\ Alloc(q)[s] <= Rem(s)
<1>1. Rem(s) \in Nat /\ Above(s) \in Nat
    BY RemType, AboveType
<1>2. Alloc(q)[s] = IF q > Above(s) THEN Lesser(Rem(s), q - Above(s)) ELSE 0
    BY DEF Alloc
<1> QED
    BY <1>1, <1>2 DEF Lesser

LEMMA BookedType ==
    ASSUME TypeOK, NEW s \in Lineages, NEW n \in Nat, n > 0, n <= Rem(s)
    PROVE  /\ Booked(exec[s], n) \in Row
           /\ Booked(exec[s], n).opened = exec[s].opened
           /\ Booked(exec[s], n).closed = exec[s].closed + n
           /\ Booked(exec[s], n).closed <= exec[s].opened
<1>1. exec[s] \in Row
    BY RowsType DEF RowsOK
<1>2. exec[s].opened \in Nat /\ exec[s].closed \in Nat
    BY <1>1 DEF Row
<1>3. Rem(s) \in Nat /\ (Rem(s) > 0 => Rem(s) = exec[s].opened - exec[s].closed)
    BY RemType
<1>4. exec[s].closed + n \in Nat /\ exec[s].closed + n <= exec[s].opened
    BY <1>2, <1>3
<1>5. PICK c \in Nat : c = exec[s].closed + n
    BY <1>4
<1>6. Booked(exec[s], n) = [exec[s] EXCEPT !.closed = c, !.st = IF c = exec[s].opened THEN "closed" ELSE "open"]
    BY <1>5 DEF Booked
<1> QED
    BY <1>1, <1>4, <1>5, <1>6 DEF Row

(* A booking changes no row that has nothing open.                         *)
LEMMA BookLifoType ==
    ASSUME TypeOK, NEW q \in Nat
    PROVE  /\ RowsOK(BookLifo(q))
           /\ \A s \in Lineages : Rem(s) = 0 => BookLifo(q)[s] = exec[s]
<1> DEFINE b == BookLifo(q)
<1>1. ASSUME NEW s \in Lineages
      PROVE  b[s] = IF Alloc(q)[s] > 0 THEN Booked(exec[s], Alloc(q)[s]) ELSE exec[s]
    BY DEF BookLifo
<1>2. ASSUME NEW s \in Lineages
      PROVE  b[s] \in Row /\ b[s].opened \in {0, Size[s]} /\ b[s].closed <= b[s].opened
    <2>1. exec[s] \in Row /\ exec[s].opened \in {0, Size[s]} /\ exec[s].closed <= exec[s].opened
        BY RowsType DEF RowsOK
    <2>2. PICK n \in Nat : n = Alloc(q)[s] /\ n <= Rem(s)
        BY AllocType
    <2>3. CASE n > 0
        <3>1. b[s] = Booked(exec[s], n)
            BY <1>1, <2>2, <2>3
        <3> HIDE DEF b
        <3> QED
            BY <2>1, <2>2, <2>3, <3>1, BookedType
    <2>4. CASE ~(n > 0)
        <3>1. b[s] = exec[s]
            BY <1>1, <2>2, <2>4
        <3> HIDE DEF b
        <3> QED
            BY <2>1, <3>1
    <2> QED
        BY <2>3, <2>4
<1>3. DOMAIN b = Lineages /\ b = [s \in Lineages |-> b[s]]
    BY DEF BookLifo
<1>4. RowsOK(b)
    <2> HIDE DEF b
    <2> QED
        BY <1>2, <1>3 DEF RowsOK
<1>5. ASSUME NEW s \in Lineages, Rem(s) = 0 PROVE b[s] = exec[s]
    <2>1. Alloc(q)[s] \in Nat /\ Alloc(q)[s] <= 0
        BY <1>5, AllocType
    <2> HIDE DEF b
    <2> QED
        BY <1>1, <2>1
<1> QED
    BY <1>4, <1>5

----------------------------------------------------------------------------
(* Types: the book, the venue and the tick apart                           *)

OrdersType ==
    /\ entry \in [Lineages -> OrderState]
    /\ exit \in [Lineages -> [st : OrderState, q : Nat]]
    /\ \A s \in Lineages : exit[s].q <= Size[s]
    /\ stop \in [Lineages -> {"none", "resting", "filled"}]
    /\ unk \subseteq {"entry", "exit"} \X Lineages

NetType ==
    /\ dir \in Dirs
    /\ lists \in BOOLEAN
    /\ pos \in Int
    /\ corr \in [1..MaxCorrections -> [st : OrderState, q : Int, base : Int]]
    /\ held \in [Lineages -> Int]
    /\ boot \in UserSizes

Pcs == {"idle", "sweep", "resolve", "retry", "book", "pos", "listed"}

TickType ==
    /\ marker \in BOOLEAN /\ first \in BOOLEAN /\ cool \in BOOLEAN /\ grace \in BOOLEAN
    /\ rec \in [pc : Pcs, exp : Int, brk : Int, open : BOOLEAN, busy : BOOLEAN, recent : BOOLEAN]
    /\ faults \in 0..MaxFaults /\ trades \in 0..MaxTrades
    /\ ways \subseteq Ways

LEMMA TickPcs == Range(PreTicks) \cup {"pos", "listed"} = Pcs
<1>1. DOMAIN PreTicks = 1..5
    BY DEF PreTicks
<1>2. /\ PreTicks[1] = "idle" /\ PreTicks[2] = "sweep" /\ PreTicks[3] = "resolve"
      /\ PreTicks[4] = "retry" /\ PreTicks[5] = "book"
    BY DEF PreTicks
<1>3. 1..5 = {1, 2, 3, 4, 5}
    OBVIOUS
<1>4. Range(PreTicks) = {PreTicks[1], PreTicks[2], PreTicks[3], PreTicks[4], PreTicks[5]}
    BY <1>1, <1>3 DEF Range
<1> QED
    BY <1>2, <1>4 DEF Pcs

LEMMA TypeParts == TypeOK <=> RowsOK(exec) /\ OrdersType /\ NetType /\ TickType
BY TickPcs DEF TypeOK, RowsOK, Row, OrdersType, NetType, TickType

LEMMA PartsNext ==
    ASSUME RowsOK(exec'), OrdersType', NetType', TickType'
    PROVE  TypeOK'
BY TickPcs DEF TypeOK, RowsOK, Row, OrdersType, NetType, TickType

(* A step that changes only rows with something open, and starts no new    *)
(* lookup of an entry.                                                     *)
LEMMA Unbooked ==
    ASSUME TypeInv,
           \A s \in Lineages : Rem(s) = 0 => exec'[s] = exec[s],
           \A s \in Lineages : <<"entry", s>> \in unk' => <<"entry", s>> \in unk
    PROVE  EntriesUnbooked'
<1> SUFFICES ASSUME NEW s \in Lineages, <<"entry", s>> \in unk'
             PROVE  exec'[s] = [st |-> "open", opened |-> 0, closed |-> 0]
    BY DEF EntriesUnbooked
<1>1. exec[s] = [st |-> "open", opened |-> 0, closed |-> 0]
    BY DEF TypeInv, EntriesUnbooked
<1>2. Rem(s) = 0
    BY <1>1 DEF Rem, Live
<1> QED
    BY <1>1, <1>2

LEMMA UnbookedKept ==
    ASSUME TypeInv, UNCHANGED <<exec, unk>>
    PROVE  EntriesUnbooked'
BY DEF TypeInv, EntriesUnbooked

LEMMA ParityNext ==
    ASSUME TypeOK, UNCHANGED exec
    PROVE  RowsOK(exec')
BY TypeParts

LEMMA TickSteps ==
    ASSUME NEW n \in 2..5
    PROVE  PreTicks[n] \in Pcs
BY DEF PreTicks, Pcs

LEMMA TypeInit == Init => TypeInv
<1> SUFFICES ASSUME Init PROVE TypeInv
    OBVIOUS
<1>1. RowsOK(exec)
    BY Constants DEF Init, RowsOK, Row
<1>2. OrdersType
    BY Constants DEF Init, OrdersType, OrderState, NoOrder
<1>3. NetType
    BY ReconcilerAssumption DEF Init, NetType, OrderState, NoCorr
<1>4. TickType
    <2>1. faults \in 0..MaxFaults /\ trades \in 0..MaxTrades
        BY Constants DEF Init
    <2>2. rec \in [pc : Pcs, exp : Int, brk : Int, open : BOOLEAN, busy : BOOLEAN, recent : BOOLEAN]
        BY DEF Init, Idle, Pcs
    <2> QED
        BY <2>1, <2>2 DEF Init, TickType
<1>5. EntriesUnbooked
    BY DEF Init, EntriesUnbooked
<1> QED
    BY <1>1, <1>2, <1>3, <1>4, <1>5, TypeParts DEF TypeInv

LEMMA EnterType ==
    ASSUME TypeInv, NEW s \in Lineages, Enter(s)
    PROVE  TypeInv'
<1> USE DEF TypeInv
<1>1. RowsOK(exec) /\ OrdersType /\ NetType /\ TickType
    BY TypeParts
<1>2. RowsOK(exec')
    BY <1>1, Constants DEF RowsOK, Row, Enter
<1>3. OrdersType'
    BY <1>1, Constants DEF Enter, OrdersType, OrderState
<1>4. NetType'
    <2>1. Signed(s, Size[s]) \in Int
        BY Constants, Directions DEF Signed
    <2>2. pos' \in Int
        BY <1>1, <2>1 DEF Enter, NetType
    <2>3. held' \in [Lineages -> Int]
        BY <1>1, Constants DEF Enter, NetType
    <2> QED
        BY <1>1, <2>2, <2>3 DEF Enter, NetType, world
<1>5. TickType'
    BY <1>1 DEF Enter, TickType, mem, world
<1>6. EntriesUnbooked'
    <2>1. <<"entry", s>> \notin unk
        BY DEF Enter, EntriesUnbooked
    <2> QED
        BY <1>1, <2>1 DEF Enter, EntriesUnbooked, RowsOK
<1> QED
    BY <1>2, <1>3, <1>4, <1>5, <1>6, PartsNext

(* A close, by order or for want of a position.                            *)
LEMMA CloseParts ==
    ASSUME TypeOK, NEW s \in Lineages, Rem(s) > 0, NEW q \in Nat, q <= Rem(s),
           CloseOrder(s, q) \/ CloseFlat(s)
    PROVE  /\ RowsOK(exec')
           /\ exit' \in [Lineages -> [st : OrderState, q : Nat]]
           /\ \A t \in Lineages : exit'[t].q <= Size[t]
           /\ unk' \subseteq {"entry", "exit"} \X Lineages
           /\ pos' \in Int /\ held' \in [Lineages -> Int]
           /\ grace' \in BOOLEAN
           /\ \A t \in Lineages : Rem(t) = 0 => exec'[t] = exec[t]
           /\ \A t \in Lineages : <<"entry", t>> \in unk' => <<"entry", t>> \in unk
<1>1. RowsOK(exec) /\ OrdersType /\ NetType /\ TickType
    BY TypeParts
<1>2. RowsOK(exec')
    <2>1. \/ exec' = [exec EXCEPT ![s].st = "closed", ![s].closed = exec[s].opened]
          \/ exec' = [exec EXCEPT ![s].st = "closing"]
        BY DEF CloseOrder, CloseFlat
    <2>2. exec[s].opened \in Nat
        BY <1>1 DEF RowsOK, Row
    <2> QED
        BY <1>1, <2>1, <2>2 DEF RowsOK, Row
<1>3. q <= Size[s]
    BY RemType, Constants
<1>4. /\ exit' \in [Lineages -> [st : OrderState, q : Nat]]
      /\ \A t \in Lineages : exit'[t].q <= Size[t]
    BY <1>1, <1>3 DEF CloseOrder, CloseFlat, OrdersType, OrderState
<1>5. unk' \subseteq {"entry", "exit"} \X Lineages
    BY <1>1 DEF CloseOrder, CloseFlat, OrdersType
<1>6. pos' \in Int /\ held' \in [Lineages -> Int]
    <2>1. Signed(s, q) \in Int
        BY Directions DEF Signed
    <2>2. pos' \in Int
        BY <1>1, <2>1 DEF CloseOrder, CloseFlat, NetType
    <2>3. held' \in [Lineages -> Int]
        BY <1>1 DEF CloseOrder, CloseFlat, NetType
    <2> QED
        BY <2>2, <2>3
<1>7. grace' \in BOOLEAN
    BY <1>1 DEF CloseOrder, CloseFlat, TickType
<1>8. \A t \in Lineages : Rem(t) = 0 => exec'[t] = exec[t]
    BY <1>1 DEF CloseOrder, CloseFlat, RowsOK
<1>9. \A t \in Lineages : <<"entry", t>> \in unk' => <<"entry", t>> \in unk
    BY DEF CloseOrder, CloseFlat
<1> QED
    BY <1>2, <1>4, <1>5, <1>6, <1>7, <1>8, <1>9

LEMMA WaysKept ==
    ASSUME NEW w \in Ways, NEW b
    PROVE  Way(w, b) \subseteq Ways
BY DEF Way

LEMMA CloseType ==
    ASSUME TypeInv, NEW s \in Lineages, Close(s)
    PROVE  TypeInv'
<1>1. TypeOK /\ RowsOK(exec) /\ OrdersType /\ NetType /\ TickType
    BY TypeParts DEF TypeInv
<1>2. PICK q \in Nat : q = (IF Trusts(s) THEN Rem(s) ELSE 0) /\ q <= Rem(s)
    BY <1>1, RemType
<1>3. Rem(s) > 0 /\ (CloseOrder(s, q) \/ CloseFlat(s))
    BY <1>2 DEF Close
<1>4. /\ RowsOK(exec')
      /\ exit' \in [Lineages -> [st : OrderState, q : Nat]]
      /\ \A t \in Lineages : exit'[t].q <= Size[t]
      /\ unk' \subseteq {"entry", "exit"} \X Lineages
      /\ pos' \in Int /\ held' \in [Lineages -> Int]
      /\ grace' \in BOOLEAN
      /\ \A t \in Lineages : Rem(t) = 0 => exec'[t] = exec[t]
      /\ \A t \in Lineages : <<"entry", t>> \in unk' => <<"entry", t>> \in unk
    BY <1>1, <1>2, <1>3, CloseParts
<1>5. OrdersType'
    BY <1>1, <1>4 DEF Close, OrdersType
<1>6. NetType'
    BY <1>1, <1>4 DEF Close, NetType, world
<1>7. TickType'
    <2>1. ways' \subseteq Ways
        BY <1>1, WaysKept DEF Close, TickType, Ways, Way
    <2> QED
        BY <1>1, <1>4, <2>1 DEF Close, TickType, mem, world
<1>8. EntriesUnbooked'
    BY <1>4, Unbooked
<1> QED
    BY <1>4, <1>5, <1>6, <1>7, <1>8, PartsNext DEF TypeInv

----------------------------------------------------------------------------
(* Types: the venue and the user                                           *)

LEMMA EntrySettlesType ==
    ASSUME TypeInv, NEW s \in Lineages, EntrySettles(s)
    PROVE  TypeInv'
<1>1. TypeOK /\ RowsOK(exec) /\ OrdersType /\ NetType /\ TickType
    BY TypeParts DEF TypeInv
<1>2. UNCHANGED <<exec, unk>>
    BY DEF EntrySettles, db
<1>3. OrdersType'
    BY <1>1 DEF EntrySettles, db, OrdersType, OrderState
<1>4. NetType'
    <2>1. Signed(s, Size[s]) \in Int /\ Size[s] \in Int
        BY <1>1, Constants, Directions DEF Signed
    <2>2. pos' \in Int
        BY <1>1, <2>1 DEF EntrySettles, NetType
    <2>3. held' \in [Lineages -> Int]
        BY <1>1, <2>1 DEF EntrySettles, NetType
    <2> QED
        BY <1>1, <2>2, <2>3 DEF EntrySettles, NetType, world
<1>5. TickType'
    BY <1>1 DEF EntrySettles, TickType, db, mem, world
<1> QED
    BY <1>1, <1>2, <1>3, <1>4, <1>5, PartsNext, UnbookedKept DEF TypeInv

LEMMA ExitSettlesType ==
    ASSUME TypeInv, NEW s \in Lineages, ExitSettles(s)
    PROVE  TypeInv'
<1>1. TypeOK /\ RowsOK(exec) /\ OrdersType /\ NetType /\ TickType
    BY TypeParts DEF TypeInv
<1>2. UNCHANGED <<exec, unk>>
    BY DEF ExitSettles, db
<1>3. OrdersType'
    <2>1. UNCHANGED <<entry, stop, unk>>
        BY DEF ExitSettles, db
    <2>2. \/ exit' = [exit EXCEPT ![s].st = "filled"]
          \/ exit' = [exit EXCEPT ![s].st = "dead"]
        BY DEF ExitSettles
    <2>3. exit' \in [Lineages -> [st : OrderState, q : Nat]] /\ \A t \in Lineages : exit'[t].q = exit[t].q
        BY <1>1, <2>2 DEF OrdersType, OrderState
    <2> QED
        BY <1>1, <2>1, <2>3 DEF OrdersType
<1>4. NetType'
    <2>1. exit[s].q \in Nat
        BY <1>1 DEF OrdersType
    <2>2. Signed(s, exit[s].q) \in Int
        BY <1>1, <2>1, Directions DEF Signed
    <2>3. pos' \in Int
        BY <1>1, <2>2 DEF ExitSettles, NetType
    <2>4. held' \in [Lineages -> Int]
        BY <1>1, <2>1 DEF ExitSettles, NetType
    <2> QED
        BY <1>1, <2>3, <2>4 DEF ExitSettles, NetType, world
<1>5. TickType'
    <2>1. faults' \in 0..MaxFaults
        BY <1>1, Constants DEF ExitSettles, Fault, NoFault, TickType
    <2> QED
        BY <1>1, <2>1 DEF ExitSettles, TickType, db, mem, world
<1> QED
    BY <1>1, <1>2, <1>3, <1>4, <1>5, PartsNext, UnbookedKept DEF TypeInv

LEMMA StopFiresType ==
    ASSUME TypeInv, NEW s \in Lineages, StopFires(s)
    PROVE  TypeInv'
<1>1. TypeOK /\ RowsOK(exec) /\ OrdersType /\ NetType /\ TickType
    BY TypeParts DEF TypeInv
<1>2. UNCHANGED <<exec, unk>>
    BY DEF StopFires, db
<1>3. OrdersType'
    BY <1>1 DEF StopFires, db, OrdersType
<1>4. NetType'
    <2>1. Signed(s, Size[s]) \in Int /\ Size[s] \in Int
        BY <1>1, Constants, Directions DEF Signed
    <2>2. pos' \in Int
        BY <1>1, <2>1 DEF StopFires, NetType
    <2>3. held' \in [Lineages -> Int]
        BY <1>1, <2>1 DEF StopFires, NetType
    <2> QED
        BY <1>1, <2>2, <2>3 DEF StopFires, NetType, world
<1>5. TickType'
    BY <1>1 DEF StopFires, TickType, db, mem, world
<1> QED
    BY <1>1, <1>2, <1>3, <1>4, <1>5, PartsNext, UnbookedKept DEF TypeInv

LEMMA CorrectionSettlesType ==
    ASSUME TypeInv, NEW i \in DOMAIN corr, CorrectionSettles(i)
    PROVE  TypeInv'
<1>1. TypeOK /\ RowsOK(exec) /\ OrdersType /\ NetType /\ TickType
    BY TypeParts DEF TypeInv
<1>2. UNCHANGED <<exec, unk>>
    BY DEF CorrectionSettles, db
<1>3. OrdersType'
    BY <1>1 DEF CorrectionSettles, db, OrdersType
<1>4. NetType'
    <2>1. corr[i] \in [st : OrderState, q : Int, base : Int] /\ i \in 1..MaxCorrections
        BY <1>1 DEF NetType
    <2>2. corr[i].q \in Int
        BY <2>1
    <2>3. pos' \in Int
        BY <1>1, <2>2 DEF CorrectionSettles, NetType
    <2>4. corr' \in [1..MaxCorrections -> [st : OrderState, q : Int, base : Int]]
        BY <1>1, <2>1 DEF CorrectionSettles, NetType, OrderState
    <2> QED
        BY <1>1, <2>3, <2>4 DEF CorrectionSettles, NetType, world
<1>5. TickType'
    <2>1. faults' \in 0..MaxFaults
        BY <1>1, Constants DEF CorrectionSettles, Fault, NoFault, TickType
    <2>2. ways' \subseteq Ways
        BY <1>1 DEF CorrectionSettles, TickType, Ways, Way
    <2> QED
        BY <1>1, <2>1, <2>2 DEF CorrectionSettles, TickType, db, mem, world
<1> QED
    BY <1>1, <1>2, <1>3, <1>4, <1>5, PartsNext, UnbookedKept DEF TypeInv

LEMMA UserTradesType ==
    ASSUME TypeInv, UserTrades
    PROVE  TypeInv'
<1>1. TypeOK /\ RowsOK(exec) /\ OrdersType /\ NetType /\ TickType
    BY TypeParts DEF TypeInv
<1>2. UNCHANGED <<exec, unk>>
    BY DEF UserTrades, db
<1>3. OrdersType'
    BY <1>1 DEF UserTrades, db, OrdersType
<1>4. NetType'
    <2>1. pos' \in Int
        BY <1>1 DEF UserTrades, NetType
    <2> QED
        BY <1>1, <2>1 DEF UserTrades, NetType
<1>5. TickType'
    <2>1. trades' \in 0..MaxTrades
        BY <1>1, Constants DEF UserTrades, TickType
    <2> QED
        BY <1>1, <2>1 DEF UserTrades, TickType, db, mem
<1> QED
    BY <1>1, <1>2, <1>3, <1>4, <1>5, PartsNext, UnbookedKept DEF TypeInv

----------------------------------------------------------------------------
(* Types: the tick                                                         *)

Tick == [pc : Pcs, exp : Int, brk : Int, open : BOOLEAN, busy : BOOLEAN, recent : BOOLEAN]

LEMMA FaultType ==
    ASSUME TickType, Fault \/ NoFault
    PROVE  faults' \in 0..MaxFaults
BY Constants DEF TickType, Fault, NoFault

LEMMA IdleType == Idle \in Tick
BY DEF Idle, Tick, Pcs

LEMMA PreTickType ==
    ASSUME TickType, NEW n \in 2..4, PreTick(n)
    PROVE  /\ rec' \in Tick /\ faults' \in 0..MaxFaults
           /\ UNCHANGED <<first, cool>>
           /\ rec'.pc \notin {"book", "pos", "listed"}
<1>1. faults' \in 0..MaxFaults
    BY FaultType DEF PreTick, GoOn
<1>2. PreTicks[n] \in {"sweep", "resolve", "retry"}
    BY DEF PreTicks
<1>3. PICK at \in {"sweep", "resolve", "retry"} : at = PreTicks[n]
    BY <1>2
<1>4. rec' = [rec EXCEPT !.pc = at]
    BY <1>3 DEF PreTick, GoTo
<1>5. rec' \in Tick /\ rec'.pc = at
    BY <1>4 DEF TickType, Tick, Pcs
<1> QED
    BY <1>1, <1>3, <1>5 DEF PreTick

LEMMA SweepType ==
    ASSUME TypeInv, NEW s \in Lineages, Sweep(s)
    PROVE  TypeInv'
<1>1. TypeOK /\ RowsOK(exec) /\ OrdersType /\ NetType /\ TickType
    BY TypeParts DEF TypeInv
<1>2. PICK n \in Nat : n = Rem(s)
    BY <1>1, RemType
<1>3. CASE n > 0
    <2>1. PICK row : row = Booked(exec[s], n)
        OBVIOUS
    <2>2. /\ row \in Row /\ row.opened = exec[s].opened
          /\ row.closed <= row.opened
        BY <1>1, <1>2, <1>3, <2>1, BookedType
    <2>3. exec' = [exec EXCEPT ![s] = row]
        BY <1>2, <1>3, <2>1 DEF Sweep
    <2> QED
        <3>1. RowsOK(exec')
            BY <1>1, <2>2, <2>3 DEF RowsOK
        <3>2. \A t \in Lineages : Rem(t) = 0 => exec'[t] = exec[t]
            BY <1>1, <1>2, <1>3, <2>3 DEF RowsOK
        <3>3. EntriesUnbooked'
            BY <3>2, Unbooked DEF Sweep
        <3>4. OrdersType'
            BY <1>1 DEF Sweep, OrdersType
        <3>5. NetType'
            BY <1>1 DEF Sweep, NetType, world
        <3>6. TickType'
            BY <1>1, <1>2, <1>3, PreTickType DEF Sweep, TickType, Tick, world
        <3> QED
            BY <3>1, <3>3, <3>4, <3>5, <3>6, PartsNext DEF TypeInv
<1>4. CASE ~(n > 0)
    <2>1. UNCHANGED <<exec, grace, unk>>
        BY <1>2, <1>4 DEF Sweep
    <2>2. OrdersType'
        BY <1>1 DEF Sweep, OrdersType
    <2>3. NetType'
        BY <1>1 DEF Sweep, NetType, world
    <2>4. TickType'
        BY <1>1, <2>1, PreTickType DEF Sweep, TickType, Tick, world
    <2> QED
        BY <1>1, <2>1, <2>2, <2>3, <2>4, PartsNext, UnbookedKept DEF TypeInv
<1> QED
    BY <1>3, <1>4

LEMMA ResolveEntryType ==
    ASSUME TypeInv, NEW s \in Lineages, ResolveEntry(s)
    PROVE  TypeInv'
<1>1. TypeOK /\ RowsOK(exec) /\ OrdersType /\ NetType /\ TickType
    BY TypeParts DEF TypeInv
<1>2. exec[s] = [st |-> "open", opened |-> 0, closed |-> 0]
    BY DEF TypeInv, EntriesUnbooked, ResolveEntry, EntryResolved
<1>3. PICK st \in {"open", "error"}, n \in {0, Size[s]} :
        /\ st = (IF entry[s] = "filled" THEN "open" ELSE "error")
        /\ n = (IF entry[s] = "filled" THEN Size[s] ELSE 0)
    OBVIOUS
<1>4. exec' = [exec EXCEPT ![s] = [exec[s] EXCEPT !.st = st, !.opened = n]]
    BY <1>1, <1>3 DEF ResolveEntry, RowsOK
<1>5. PICK row : row = [exec[s] EXCEPT !.st = st, !.opened = n]
    OBVIOUS
<1>6. exec[s] \in Row /\ exec[s].closed = 0
    BY <1>1, <1>2 DEF RowsOK
<1>7. exec' = [exec EXCEPT ![s] = row]
    BY <1>4, <1>5
<1>8. row \in Row /\ row.opened \in {0, Size[s]} /\ row.closed <= row.opened
    <2>1. n \in Nat
        BY Constants
    <2>2. row \in Row
        BY <1>5, <1>6, <2>1 DEF Row
    <2>3. row.opened = n /\ row.closed = 0
        BY <1>5, <1>6 DEF Row
    <2> QED
        BY <2>1, <2>2, <2>3
<1>9. RowsOK(exec')
    BY <1>1, <1>7, <1>8 DEF RowsOK
<1>10. EntriesUnbooked'
    BY <1>1, <1>7 DEF TypeInv, EntriesUnbooked, ResolveEntry, RowsOK
<1>11. OrdersType'
    BY <1>1 DEF ResolveEntry, OrdersType, venue
<1>12. NetType'
    BY <1>1 DEF ResolveEntry, NetType, venue, world
<1>13. TickType'
    BY <1>1, PreTickType DEF ResolveEntry, TickType, Tick, world
<1> QED
    BY <1>9, <1>10, <1>11, <1>12, <1>13, PartsNext DEF TypeInv

LEMMA ResolveExitType ==
    ASSUME TypeInv, NEW s \in Lineages, ResolveExit(s)
    PROVE  TypeInv'
<1>1. TypeOK /\ RowsOK(exec) /\ OrdersType /\ NetType /\ TickType
    BY TypeParts DEF TypeInv
<1>2. PICK q \in Nat : q = exit[s].q
    BY <1>1 DEF OrdersType
<1>3. RowsOK(exec') /\ \A t \in Lineages : Rem(t) = 0 => exec'[t] = exec[t]
    <2>1. exec' = BookLifo(q) \/ exec' = exec
        BY <1>2 DEF ResolveExit
    <2> QED
        BY <1>1, <2>1, BookLifoType
<1>4. EntriesUnbooked'
    BY <1>3, Unbooked DEF ResolveExit
<1>5. OrdersType'
    BY <1>1 DEF ResolveExit, OrdersType, venue
<1>6. NetType'
    BY <1>1 DEF ResolveExit, NetType, venue, world
<1>7. TickType'
    <2>1. ways' \subseteq Ways
        BY <1>1 DEF ResolveExit, TickType, Ways, Way
    <2> QED
        <3>1. PreTick(3) /\ UNCHANGED <<marker, grace, trades>>
            BY DEF ResolveExit, world
        <3>2. /\ rec' \in Tick /\ faults' \in 0..MaxFaults
              /\ UNCHANGED <<first, cool>>
            BY <1>1, <3>1, PreTickType
        <3> QED
            BY <1>1, <2>1, <3>1, <3>2 DEF TickType, Tick
<1> QED
    BY <1>3, <1>4, <1>5, <1>6, <1>7, PartsNext DEF TypeInv

LEMMA RetryQtyType ==
    ASSUME TypeOK, NEW s \in Lineages
    PROVE  RetryQty(s) \in Nat /\ RetryQty(s) <= Rem(s)
<1>1. pos \in Int
    BY DEF TypeOK
<1>2. Rem(s) \in Nat
    BY RemType
<1>3. Abs(pos) \in Nat
    BY <1>1 DEF Abs
<1> QED
    BY <1>2, <1>3 DEF RetryQty, Lesser

LEMMA RetryType ==
    ASSUME TypeInv, NEW s \in Lineages, Retry(s)
    PROVE  TypeInv'
<1>1. TypeOK /\ RowsOK(exec) /\ OrdersType /\ NetType /\ TickType
    BY TypeParts DEF TypeInv
<1>2. PICK q \in Nat : q = RetryQty(s) /\ q <= Rem(s)
    BY <1>1, RetryQtyType
<1>3. Rem(s) > 0 /\ (CloseOrder(s, q) \/ CloseFlat(s))
    BY <1>2 DEF Retry, RetryDue
<1>4. /\ RowsOK(exec')
      /\ exit' \in [Lineages -> [st : OrderState, q : Nat]]
      /\ \A t \in Lineages : exit'[t].q <= Size[t]
      /\ unk' \subseteq {"entry", "exit"} \X Lineages
      /\ pos' \in Int /\ held' \in [Lineages -> Int]
      /\ grace' \in BOOLEAN
      /\ \A t \in Lineages : Rem(t) = 0 => exec'[t] = exec[t]
      /\ \A t \in Lineages : <<"entry", t>> \in unk' => <<"entry", t>> \in unk
    BY <1>1, <1>2, <1>3, CloseParts
<1>5. OrdersType'
    BY <1>1, <1>4 DEF Retry, OrdersType
<1>6. NetType'
    BY <1>1, <1>4 DEF Retry, NetType, world
<1>7. TickType'
    <2>1. ways' \subseteq Ways
        BY <1>1 DEF Retry, TickType, Ways, Way
    <2> QED
        BY <1>1, <1>4, <2>1, PreTickType DEF Retry, TickType, Tick, world
<1>8. EntriesUnbooked'
    BY <1>4, Unbooked
<1> QED
    BY <1>4, <1>5, <1>6, <1>7, <1>8, PartsNext DEF TypeInv

LEMMA ExpectedType ==
    ASSUME TypeOK
    PROVE  Expected \in Int
<1> DEFINE f == [s \in Lineages |-> Signed(s, Rem(s))]
<1>1. \A s \in Lineages : Signed(s, Rem(s)) \in Int
    BY RemType, Directions DEF Signed
<1>2. f \in [Lineages -> Int]
    BY <1>1
<1> HIDE DEF f
<1>3. Sum(f) \in Int
    BY <1>2, SumType, Constants
<1> QED
    BY <1>3 DEF Expected, f

LEMMA ReadBookType ==
    ASSUME TypeInv, ReadBook
    PROVE  TypeInv'
<1>1. TypeOK /\ RowsOK(exec) /\ OrdersType /\ NetType /\ TickType
    BY TypeParts DEF TypeInv
<1>2. UNCHANGED <<exec, unk>>
    BY DEF ReadBook, db
<1>3. OrdersType'
    BY <1>1 DEF ReadBook, db, venue, OrdersType
<1>4. NetType'
    BY <1>1 DEF ReadBook, venue, world, NetType
<1>5. TickType'
    <2>1. faults' \in 0..MaxFaults
        BY <1>1, FaultType DEF ReadBook, GoOn
    <2>2. PICK e \in Int : e = Expected
        BY <1>1, ExpectedType
    <2>3. PICK b \in Int : b = pos
        BY <1>1 DEF NetType
    <2>4. PICK o \in BOOLEAN : o = (unk # {} \/ Settleable)
        OBVIOUS
    <2>5. rec' = [rec EXCEPT !.pc = "book", !.exp = e, !.brk = b, !.open = o]
        BY <2>2, <2>3, <2>4 DEF ReadBook
    <2>6. rec' \in Tick
        BY <1>1, <2>5 DEF TickType, Tick, Pcs
    <2> QED
        BY <1>1, <2>1, <2>6 DEF ReadBook, db, world, TickType, Tick
<1> QED
    BY <1>1, <1>2, <1>3, <1>4, <1>5, PartsNext, UnbookedKept DEF TypeInv

LEMMA ReadPositionsType ==
    ASSUME TypeInv, ReadPositions
    PROVE  TypeInv'
<1>1. TypeOK /\ RowsOK(exec) /\ OrdersType /\ NetType /\ TickType
    BY TypeParts DEF TypeInv
<1>2. UNCHANGED <<exec, unk>>
    BY DEF ReadPositions
<1>3. OrdersType'
    BY <1>1 DEF ReadPositions, venue, OrdersType
<1>4. NetType'
    BY <1>1 DEF ReadPositions, venue, world, NetType
<1>5. TickType'
    <2>1. faults' \in 0..MaxFaults
        BY <1>1, FaultType DEF ReadPositions
    <2>2. PICK at \in {"pos", "idle"} : at = IF Executed THEN "pos" ELSE "idle"
        OBVIOUS
    <2>3. PICK b \in Int : b = pos
        BY <1>1 DEF NetType
    <2>4. PICK o \in BOOLEAN :
              o = (rec.open \/ pos # rec.brk \/ \E i \in DOMAIN corr : corr[i].st = "working")
        OBVIOUS
    <2>5. rec' = [rec EXCEPT !.pc = at, !.brk = b, !.open = o] \/ rec' = Idle
        BY <2>2, <2>3, <2>4 DEF ReadPositions
    <2>6. rec' \in Tick
        BY <1>1, <2>5, IdleType DEF TickType, Tick, Pcs
    <2>7. marker' \in BOOLEAN
        BY <1>1 DEF ReadPositions, TickType
    <2>8. first' \in BOOLEAN
        BY <1>1 DEF ReadPositions, TickType
    <2>9. ways' \subseteq Ways
        BY <1>1 DEF ReadPositions, TickType, Ways, Way
    <2> QED
        BY <1>1, <2>1, <2>6, <2>7, <2>8, <2>9 DEF ReadPositions, world, TickType, Tick
<1> QED
    BY <1>1, <1>2, <1>3, <1>4, <1>5, PartsNext, UnbookedKept DEF TypeInv

LEMMA ReadOrdersType ==
    ASSUME TypeInv, ReadOrders
    PROVE  TypeInv'
<1>1. TypeOK /\ RowsOK(exec) /\ OrdersType /\ NetType /\ TickType
    BY TypeParts DEF TypeInv
<1>2. UNCHANGED <<exec, unk>>
    BY DEF ReadOrders, db
<1>3. OrdersType'
    BY <1>1 DEF ReadOrders, db, venue, OrdersType
<1>4. NetType'
    BY <1>1 DEF ReadOrders, venue, world, NetType
<1>5. TickType'
    <2>1. faults' \in 0..MaxFaults
        BY <1>1, FaultType DEF ReadOrders
    <2>2. WorkingSeen \in BOOLEAN
        BY <1>1 DEF WorkingSeen, Working, NetType
    <2>3. PICK b \in BOOLEAN : rec' = [rec EXCEPT !.pc = "listed", !.busy = b, !.recent = grace]
        BY <2>2 DEF ReadOrders
    <2>4. rec' \in Tick
        BY <1>1, <2>3 DEF TickType, Tick, Pcs
    <2> QED
        BY <1>1, <2>1, <2>4 DEF ReadOrders, db, world, TickType, Tick
<1> QED
    BY <1>1, <1>2, <1>3, <1>4, <1>5, PartsNext, UnbookedKept DEF TypeInv

LEMMA BalancedType ==
    ASSUME TypeInv, Balanced
    PROVE  TypeInv'
<1>1. TypeOK /\ RowsOK(exec) /\ OrdersType /\ NetType /\ TickType
    BY TypeParts DEF TypeInv
<1>2. UNCHANGED <<exec, unk>>
    BY DEF Balanced
<1>3. OrdersType'
    BY <1>1 DEF Balanced, venue, OrdersType
<1>4. NetType'
    BY <1>1 DEF Balanced, venue, world, NetType
<1>5. TickType'
    <2>1. ways' \subseteq Ways
        BY <1>1 DEF Balanced, TickType, Ways, Way
    <2> QED
        BY <1>1, <2>1, IdleType DEF Balanced, Ends, world, TickType, Tick
<1> QED
    BY <1>1, <1>2, <1>3, <1>4, <1>5, PartsNext, UnbookedKept DEF TypeInv

LEMMA SkipsType ==
    ASSUME TypeInv, Skips
    PROVE  TypeInv'
<1>1. TypeOK /\ RowsOK(exec) /\ OrdersType /\ NetType /\ TickType
    BY TypeParts DEF TypeInv
<1>2. UNCHANGED <<exec, unk>>
    BY DEF Skips, db
<1>3. OrdersType'
    BY <1>1 DEF Skips, db, venue, OrdersType
<1>4. NetType'
    BY <1>1 DEF Skips, venue, world, NetType
<1>5. TickType'
    BY <1>1, IdleType DEF Skips, Ends, db, world, TickType, Tick
<1> QED
    BY <1>1, <1>2, <1>3, <1>4, <1>5, PartsNext, UnbookedKept DEF TypeInv

LEMMA DeltaType ==
    ASSUME TickType
    PROVE  /\ rec.exp \in Int /\ rec.brk \in Int /\ Delta \in Int
           /\ Lesser(Abs(Delta), Abs(rec.exp)) \in Nat
<1>1. rec.exp \in Int /\ rec.brk \in Int
    BY DEF TickType
<1>2. PICK d \in Int : d = Delta
    BY <1>1 DEF Delta
<1>3. Abs(d) \in Nat /\ Abs(rec.exp) \in Nat
    BY <1>1 DEF Abs
<1> QED
    BY <1>1, <1>2, <1>3 DEF Lesser

LEMMA AdoptType ==
    ASSUME TypeInv, Adopt
    PROVE  TypeInv'
<1>1. TypeOK /\ RowsOK(exec) /\ OrdersType /\ NetType /\ TickType
    BY TypeParts DEF TypeInv
<1>2. PICK q \in Nat : q = Lesser(Abs(Delta), Abs(rec.exp))
    BY <1>1, DeltaType
<1>3. exec' = BookLifo(q)
    BY <1>2 DEF Adopt
<1>4. RowsOK(exec') /\ \A t \in Lineages : Rem(t) = 0 => exec'[t] = exec[t]
    BY <1>1, <1>3, BookLifoType
<1>5. EntriesUnbooked'
    BY <1>4, Unbooked DEF Adopt
<1>6. OrdersType'
    BY <1>1 DEF Adopt, OrdersType
<1>7. NetType'
    BY <1>1 DEF Adopt, NetType, world
<1>8. TickType'
    <2>1. ways' \subseteq Ways
        BY <1>1 DEF Adopt, Acted, TickType, Ways, Way
    <2>2. UNCHANGED <<marker, first, trades, faults>> /\ grace' = TRUE /\ cool' = TRUE /\ rec' = Idle
        BY DEF Adopt, Ends, world
    <2> QED
        BY <1>1, <2>1, <2>2, IdleType DEF TickType, Tick
<1> QED
    BY <1>4, <1>5, <1>6, <1>7, <1>8, PartsNext DEF TypeInv

LEMMA CorrectType ==
    ASSUME TypeInv, Correct
    PROVE  TypeInv'
<1>1. TypeOK /\ RowsOK(exec) /\ OrdersType /\ NetType /\ TickType
    BY TypeParts DEF TypeInv
<1>2. UNCHANGED <<exec, unk>>
    BY DEF Correct, db
<1>3. OrdersType'
    BY <1>1 DEF Correct, db, OrdersType
<1>4. NetType'
    <2>1. PICK d \in Int : d = Delta
        BY <1>1, DeltaType
    <2>2. PICK b \in Int : b = rec.brk
        BY <1>1, DeltaType
    <2>3. pos' \in Int
        BY <1>1, <2>1 DEF Correct, NetType
    <2>4. corr' \in [1..MaxCorrections -> [st : OrderState, q : Int, base : Int]]
        <3>1. \/ UNCHANGED corr
              \/ \E i \in DOMAIN corr, st \in {"filled", "working"} :
                    corr' = [corr EXCEPT ![i] = [st |-> st, q |-> d, base |-> b]]
            BY <2>1, <2>2 DEF Correct
        <3> QED
            BY <1>1, <3>1 DEF NetType, OrderState
    <2> QED
        BY <1>1, <2>3, <2>4 DEF Correct, NetType, world
<1>5. TickType'
    <2>1. ways' \subseteq Ways
        BY <1>1 DEF Correct, Acted, TickType, Ways, Way
    <2>2. faults' \in 0..MaxFaults
        BY <1>1, FaultType DEF Correct
    <2>3. cool' \in BOOLEAN
        BY <1>1 DEF Correct, TickType
    <2>4. UNCHANGED <<marker, grace, first, trades>> /\ rec' = Idle
        BY DEF Correct, Ends, db, world
    <2> QED
        BY <1>1, <2>1, <2>2, <2>3, <2>4, IdleType DEF TickType, Tick
<1> QED
    BY <1>1, <1>2, <1>3, <1>4, <1>5, PartsNext, UnbookedKept DEF TypeInv

LEMMA TimeType ==
    ASSUME TypeInv, CooldownLapses \/ GraceLapses \/ Restart \/ UNCHANGED vars
    PROVE  TypeInv'
<1>1. TypeOK /\ RowsOK(exec) /\ OrdersType /\ NetType /\ TickType
    BY TypeParts DEF TypeInv
<1>2. UNCHANGED <<exec, unk>>
    BY DEF CooldownLapses, GraceLapses, Restart, vars, db
<1>3. OrdersType'
    BY <1>1 DEF CooldownLapses, GraceLapses, Restart, vars, db, venue, OrdersType
<1>4. NetType'
    BY <1>1 DEF CooldownLapses, GraceLapses, Restart, vars, venue, world, NetType
<1>5. TickType'
    <2>1. faults' \in 0..MaxFaults
        BY <1>1, FaultType DEF CooldownLapses, GraceLapses, Restart, vars, NoFault
    <2>2. rec' \in Tick
        BY <1>1, IdleType DEF CooldownLapses, GraceLapses, Restart, vars, mem, TickType, Tick
    <2> QED
        BY <1>1, <2>1, <2>2 DEF CooldownLapses, GraceLapses, Restart, vars, db, mem, world, TickType, Tick
<1> QED
    BY <1>1, <1>2, <1>3, <1>4, <1>5, PartsNext, UnbookedKept DEF TypeInv

LEMMA TypeStep == TypeInv /\ [Next]_vars => TypeInv'
<1> SUFFICES ASSUME TypeInv, [Next]_vars PROVE TypeInv'
    OBVIOUS
<1>1. CASE BotStep
    BY <1>1, EnterType, CloseType DEF BotStep
<1>2. CASE VenueStep
    BY <1>2, EntrySettlesType, ExitSettlesType, CorrectionSettlesType DEF VenueStep
<1>3. CASE \E s \in Lineages : StopFires(s)
    BY <1>3, StopFiresType
<1>4. CASE UserTrades
    BY <1>4, UserTradesType
<1>5. CASE TickStep
    BY <1>5, SweepType, ResolveEntryType, ResolveExitType, RetryType, ReadBookType, ReadPositionsType,
       ReadOrdersType, BalancedType, SkipsType, AdoptType, CorrectType DEF TickStep, PreStep
<1>6. CASE CooldownLapses \/ GraceLapses \/ Restart \/ UNCHANGED vars
    BY <1>6, TimeType
<1> QED
    BY <1>1, <1>2, <1>3, <1>4, <1>5, <1>6 DEF Next

(* The book, the venue and the tick keep their types: a booking, whatever  *)
(* it is for, takes from no lineage more than it has open, and a close is  *)
(* never for more than the lineage's size.                                 *)
THEOREM TypeCorrect == Spec => []TypeOK
<1>1. TypeInv => TypeOK
    BY DEF TypeInv
<1> QED
    BY TypeInit, TypeStep, <1>1, PTL DEF Spec

----------------------------------------------------------------------------
(* While only the executor trades: sums and frames                         *)

LEMMA SignedDiff ==
    ASSUME TypeOK, NEW s \in Lineages, NEW a \in Int, NEW b \in Int
    PROVE  /\ Signed(s, a) \in Int /\ Signed(s, b) \in Int
           /\ Signed(s, a - b) = Signed(s, a) - Signed(s, b)
           /\ Signed(s, a + b) = Signed(s, a) + Signed(s, b)
           /\ Signed(s, 0) = 0
<1>1. dir[s] = 1 \/ dir[s] = -1
    BY Directions
<1> QED
    BY <1>1 DEF Signed

LEMMA HeldSignedType ==
    ASSUME TypeOK
    PROVE  HeldSigned \in [Lineages -> Int]
<1>1. \A s \in Lineages : held[s] \in Int
    BY DEF TypeOK
<1>2. \A s \in Lineages : Signed(s, held[s]) \in Int
    BY <1>1, SignedDiff
<1> QED
    BY <1>2 DEF HeldSigned

(* The venue's net moves with what the lineage holds.                      *)
LEMMA NetMoves ==
    ASSUME TypeOK, NetInv, NEW s \in Lineages, NEW n \in Int,
           UNCHANGED <<dir, boot>>,
           held' = [held EXCEPT ![s] = n],
           pos' = pos + Signed(s, n) - Signed(s, held[s])
    PROVE  NetInv'
<1> DEFINE f == HeldSigned
           g == [t \in Lineages |-> Signed(t, held'[t])]
<1>1. held \in [Lineages -> Int] /\ pos \in Int /\ boot \in Int
    BY ReconcilerAssumption DEF TypeOK
<1>2. held' \in [Lineages -> Int] /\ held'[s] = n /\ \A t \in Lineages \ {s} : held'[t] = held[t]
    BY <1>1
<1>3. \A t \in Lineages : Signed(t, held'[t]) \in Int
    BY <1>2, SignedDiff
<1>4. g \in [Lineages -> Int]
    BY <1>3
<1>5. f \in [Lineages -> Int]
    BY HeldSignedType
<1>6. \A t \in Lineages \ {s} : g[t] = f[t]
    BY <1>2 DEF HeldSigned
<1>7. g[s] = Signed(s, n) /\ f[s] = Signed(s, held[s])
    BY <1>2 DEF HeldSigned
<1>8. HeldSigned' = g
    BY DEF HeldSigned, Signed
<1> HIDE DEF f, g
<1>9. Sum(g) = Sum(f) + g[s] - f[s]
    BY <1>4, <1>5, <1>6, SumChange, Constants
<1>10. Sum(f) \in Int /\ Sum(g) \in Int
    BY <1>4, <1>5, SumType, Constants
<1>11. pos = boot + Sum(f)
    BY DEF NetInv, f
<1>12. g[s] \in Int /\ f[s] \in Int
    BY <1>4, <1>5
<1>13. pos' = boot + Sum(g)
    BY <1>1, <1>7, <1>9, <1>10, <1>11, <1>12
<1> QED
    BY <1>8, <1>13 DEF NetInv

LEMMA NetLeaves ==
    ASSUME TypeOK, NetInv, NEW s \in Lineages,
           UNCHANGED <<dir, boot>>,
           held' = [held EXCEPT ![s] = 0],
           pos' = pos - Signed(s, held[s])
    PROVE  NetInv'
<1>1. PICK n \in Int : n = 0
    OBVIOUS
<1>2. pos \in Int /\ held[s] \in Int
    BY DEF TypeOK
<1>3. Signed(s, n) = 0 /\ Signed(s, held[s]) \in Int
    BY <1>1, <1>2, SignedDiff
<1>4. pos' = pos + Signed(s, n) - Signed(s, held[s])
    BY <1>2, <1>3
<1>5. held' = [held EXCEPT ![s] = n]
    BY <1>1
<1> QED
    BY <1>4, <1>5, NetMoves

LEMMA NetStays ==
    ASSUME NetInv, UNCHANGED <<dir, boot, held, pos>>
    PROVE  NetInv'
BY DEF NetInv, HeldSigned, Signed

LEMMA LineageStays ==
    ASSUME NEW s \in Lineages, LineageInv(s),
           exec'[s] = exec[s], entry'[s] = entry[s], exit'[s] = exit[s], stop'[s] = stop[s],
           held'[s] = held[s],
           <<"entry", s>> \in unk' <=> <<"entry", s>> \in unk,
           <<"exit", s>> \in unk' <=> <<"exit", s>> \in unk
    PROVE  LineageInv(s)'
BY DEF LineageInv, Untouched, Entering, Riding, Leaving, Gone

LEMMA ReadsStay ==
    ASSUME ReadsInv, UNCHANGED <<rec, first, marker, boot>>
    PROVE  ReadsInv'
BY DEF ReadsInv

LEMMA ReadsOver ==
    ASSUME ReadsInv, rec'.pc \notin {"book", "pos", "listed"}, UNCHANGED <<first, marker, boot>>
    PROVE  ReadsInv'
BY DEF ReadsInv

(* What a lineage is in, told by one piece of its state.                   *)
LEMMA Told ==
    ASSUME TypeOK, NEW s \in Lineages, LineageInv(s)
    PROVE  /\ exec[s].st = "none" => Untouched(s)
           /\ entry[s] = "working" \/ <<"entry", s>> \in unk => Entering(s)
           /\ stop[s] # "none" \/ (exec[s].st = "open" /\ <<"entry", s>> \notin unk) => Riding(s)
           /\ exit[s].st = "working" \/ <<"exit", s>> \in unk \/ exec[s].st = "closing" => Leaving(s)
BY DEF LineageInv, Untouched, Entering, Riding, Leaving, Gone

LEMMA WholeRow ==
    ASSUME TypeOK, NEW s \in Lineages, Riding(s) \/ Leaving(s)
    PROVE  Rem(s) = Size[s] /\ Size[s] \in Nat /\ Size[s] > 0
<1>1. exec[s].opened = Size[s] /\ exec[s].closed = 0 /\ exec[s].st \in {"open", "closing"}
    BY DEF Riding, Leaving
<1>2. Size[s] \in Nat /\ Size[s] > 0
    BY Constants
<1> QED
    BY <1>1, <1>2 DEF Rem, Live

LEMMA EmptyRow ==
    ASSUME NEW s \in Lineages, Untouched(s) \/ Entering(s) \/ Gone(s)
    PROVE  Rem(s) = 0
<1>1. exec[s].opened = exec[s].closed \/ exec[s].st \notin {"open", "closing"}
    BY DEF Untouched, Entering, Gone
<1>2. Size[s] \in Nat
    BY Constants
<1>3. exec[s].st \in {"open", "closing"} => exec[s].opened = 0 /\ exec[s].closed = 0
    BY DEF Untouched, Entering, Gone
<1> QED
    BY <1>3 DEF Rem, Live

(* Once the book is settled it holds what each lineage holds.              *)
LEMMA BookTrue ==
    ASSUME TypeOK, LineagesInv, unk = {}, ~Settleable
    PROVE  \A s \in Lineages : Rem(s) = held[s]
<1> SUFFICES ASSUME NEW s \in Lineages PROVE Rem(s) = held[s]
    OBVIOUS
<1>1. stop[s] # "filled"
    <2>1. "sweep" \in Range(PreTicks)
        <3>1. 2 \in DOMAIN PreTicks /\ PreTicks[2] = "sweep"
            BY DEF PreTicks
        <3> QED
            BY <3>1 DEF Range
    <2>2. ~Due("sweep")
        BY <2>1 DEF Settleable
    <2> QED
        BY <2>2 DEF Due, Swept
<1>2. LineageInv(s)
    BY DEF LineagesInv
<1>3. CASE Riding(s)
    BY <1>1, <1>3, WholeRow DEF Riding
<1>4. CASE Leaving(s)
    BY <1>4, WholeRow DEF Leaving
<1>5. CASE Untouched(s) \/ Gone(s)
    BY <1>5, EmptyRow DEF Untouched, Gone
<1>6. CASE Entering(s)
    BY <1>6 DEF Entering
<1> QED
    BY <1>2, <1>3, <1>4, <1>5, <1>6 DEF LineageInv

LEMMA ExpectedTrue ==
    ASSUME TypeOK, LineagesInv, unk = {}, ~Settleable
    PROVE  Expected = Sum(HeldSigned)
<1>1. \A s \in Lineages : Rem(s) = held[s]
    BY BookTrue
<1>2. [s \in Lineages |-> Signed(s, Rem(s))] = [s \in Lineages |-> Signed(s, held[s])]
    BY <1>1
<1> QED
    BY <1>2 DEF Expected, HeldSigned

----------------------------------------------------------------------------
(* While only the executor trades: bots, venue and user                    *)

(* Nothing but one lineage's row, orders and holdings changed.             *)
OnlyTouches(s) ==
    \A t \in Lineages \ {s} :
        /\ exec'[t] = exec[t] /\ entry'[t] = entry[t] /\ exit'[t] = exit[t] /\ stop'[t] = stop[t]
        /\ held'[t] = held[t]
        /\ <<"entry", t>> \in unk' <=> <<"entry", t>> \in unk
        /\ <<"exit", t>> \in unk' <=> <<"exit", t>> \in unk

LEMMA LineagesStep ==
    ASSUME LineagesInv, NEW s \in Lineages, OnlyTouches(s), LineageInv(s)'
    PROVE  LineagesInv'
<1> SUFFICES ASSUME NEW t \in Lineages PROVE LineageInv(t)'
    BY DEF LineagesInv
<1>1. CASE t = s
    BY <1>1
<1>2. CASE t # s
    BY <1>2, LineageStays DEF LineagesInv, OnlyTouches
<1> QED
    BY <1>1, <1>2

LEMMA LineagesStay ==
    ASSUME LineagesInv, UNCHANGED <<exec, entry, exit, stop, held, unk>>
    PROVE  LineagesInv'
BY LineageStays DEF LineagesInv

LEMMA Functional ==
    ASSUME TypeOK
    PROVE  /\ DOMAIN exec = Lineages /\ DOMAIN entry = Lineages /\ DOMAIN exit = Lineages
           /\ DOMAIN stop = Lineages /\ DOMAIN held = Lineages
           /\ \A s \in Lineages : exec[s] \in Row /\ held[s] \in Int /\ Size[s] \in Int
           /\ pos \in Int
<1>1. \A s \in Lineages : Size[s] \in Int
    BY Constants
<1> QED
    BY <1>1 DEF TypeOK, Row

LEMMA EnterOwn ==
    ASSUME TypeOK, OwnParts, NEW s \in Lineages, Enter(s)
    PROVE  OwnParts'
<1>1. NoneCorrected /\ NetInv /\ LineagesInv /\ ReadsInv /\ LineageInv(s)
    BY DEF OwnParts, LineagesInv
<1>2. Untouched(s)
    BY <1>1, Told DEF Enter
<1>3. held[s] = 0 /\ Signed(s, held[s]) = 0 /\ Signed(s, Size[s]) \in Int /\ Size[s] \in Int
    BY <1>2, SignedDiff, Functional DEF Untouched
<1>4. OnlyTouches(s)
    BY Functional DEF OnlyTouches, Enter
<1>5. NetInv' /\ LineageInv(s)'
    <2>1. CASE /\ exec' = [exec EXCEPT ![s] = [st |-> "open", opened |-> Size[s], closed |-> 0]]
               /\ entry' = [entry EXCEPT ![s] = "filled"]
               /\ held' = [held EXCEPT ![s] = Size[s]]
               /\ pos' = pos + Signed(s, Size[s])
               /\ stop' = [stop EXCEPT ![s] = "resting"]
               /\ UNCHANGED unk
        <3>1. pos' = pos + Signed(s, Size[s]) - Signed(s, held[s])
            BY <1>3, <2>1, Functional
        <3>2. UNCHANGED <<dir, boot>>
            BY DEF Enter, world
        <3>3. NetInv'
            BY <1>1, <1>3, <2>1, <3>1, <3>2, NetMoves
        <3>4. Riding(s)'
            BY <1>2, <2>1, Functional DEF Riding, Untouched, Enter
        <3> QED
            BY <3>3, <3>4 DEF LineageInv
    <2>2. CASE /\ exec' = [exec EXCEPT ![s] = [st |-> "open", opened |-> 0, closed |-> 0]]
               /\ entry' = [entry EXCEPT ![s] = "working"]
               /\ unk' = unk \cup {<<"entry", s>>}
               /\ UNCHANGED <<held, pos, stop>>
        <3>1. NetInv'
            BY <1>1, <2>2, NetStays DEF Enter, world
        <3>2. Entering(s)'
            BY <1>2, <2>2, Functional DEF Entering, Untouched, Enter
        <3> QED
            BY <3>1, <3>2 DEF LineageInv
    <2>3. CASE /\ exec' = [exec EXCEPT ![s] = [st |-> "error", opened |-> 0, closed |-> 0]]
               /\ entry' = [entry EXCEPT ![s] = "dead"]
               /\ UNCHANGED <<held, pos, stop, unk>>
        <3>1. NetInv'
            BY <1>1, <2>3, NetStays DEF Enter, world
        <3>2. Untouched(s)'
            BY <1>2, <2>3, Functional DEF Untouched, Enter
        <3> QED
            BY <3>1, <3>2 DEF LineageInv
    <2> QED
        BY <2>1, <2>2, <2>3 DEF Enter
<1>6. LineagesInv'
    BY <1>1, <1>4, <1>5, LineagesStep
<1>7. ReadsInv'
    BY <1>1, ReadsStay DEF Enter, mem, world
<1>8. NoneCorrected'
    BY <1>1 DEF NoneCorrected, Enter
<1> QED
    BY <1>5, <1>6, <1>7, <1>8 DEF OwnParts

(* A close of all that a lineage holds.                                    *)
LEMMA CloseOrderOwn ==
    ASSUME TypeOK, NetInv, LineagesInv, NEW s \in Lineages, NEW q \in Nat, CloseOrder(s, q),
           Riding(s) \/ Leaving(s), q = Size[s], held[s] = Size[s],
           <<"exit", s>> \notin unk,
           entry' = entry, stop'[s] = "none",
           \A t \in Lineages \ {s} : stop'[t] = stop[t],
           UNCHANGED <<dir, boot>>
    PROVE  NetInv' /\ LineagesInv'
<1>1. OnlyTouches(s)
    BY Functional DEF OnlyTouches, CloseOrder
<1>2. exec[s].opened = Size[s] /\ exec[s].closed = 0 /\ entry[s] = "filled" /\ <<"entry", s>> \notin unk
    BY DEF Riding, Leaving
<1>3. CASE /\ exec' = [exec EXCEPT ![s].st = "closed", ![s].closed = exec[s].opened]
           /\ exit' = [exit EXCEPT ![s] = [st |-> "filled", q |-> q]]
           /\ held' = [held EXCEPT ![s] = @ - q]
           /\ pos' = pos - Signed(s, q)
           /\ UNCHANGED unk
    <2>1. held[s] - q = 0
        BY Functional
    <2>2. held' = [held EXCEPT ![s] = 0]
        BY <1>3, <2>1
    <2>3. pos' = pos - Signed(s, held[s])
        BY <1>3
    <2>4. NetInv'
        BY <2>2, <2>3, NetLeaves
    <2>5. exec'[s].st = "closed" /\ exec'[s].opened = Size[s] /\ exec'[s].closed = Size[s]
        BY <1>2, <1>3, Functional DEF Row
    <2>6. exit'[s].st = "filled" /\ held'[s] = 0
        BY <1>3, <2>2, Functional
    <2>7. Gone(s)'
        BY <1>2, <1>3, <2>5, <2>6 DEF Gone
    <2> QED
        BY <1>1, <2>4, <2>7, LineagesStep DEF LineageInv
<1>4. CASE /\ exec' = [exec EXCEPT ![s].st = "closing"]
           /\ exit' = [exit EXCEPT ![s] = [st |-> "working", q |-> q]]
           /\ unk' = unk \cup {<<"exit", s>>}
           /\ UNCHANGED <<held, pos>>
    <2>1. NetInv'
        BY <1>4, NetStays
    <2>2. exec'[s].st = "closing" /\ exec'[s].opened = Size[s] /\ exec'[s].closed = 0
        BY <1>2, <1>4, Functional DEF Row
    <2>3. exit'[s].st = "working" /\ exit'[s].q = Size[s]
        BY <1>4, Functional
    <2>4. Leaving(s)'
        BY <1>2, <1>4, <2>2, <2>3 DEF Leaving
    <2> QED
        BY <1>1, <2>1, <2>4, LineagesStep DEF LineageInv
<1> QED
    BY <1>3, <1>4 DEF CloseOrder

LEMMA CloseOwn ==
    ASSUME TypeOK, OwnParts, ways' = {}, NEW s \in Lineages, Close(s)
    PROVE  OwnParts'
<1>1. NoneCorrected /\ NetInv /\ LineagesInv /\ ReadsInv /\ LineageInv(s)
    BY DEF OwnParts, LineagesInv
<1>2. PICK q \in Nat : q = IF Trusts(s) THEN Rem(s) ELSE 0
    BY RemType
<1>3. q = Rem(s) /\ q = held[s]
    BY <1>2 DEF Close, Way
<1>4. Riding(s)
    BY <1>1, Told DEF Close
<1>5. Rem(s) = Size[s] /\ Size[s] > 0
    BY <1>4, WholeRow
<1>6. CloseOrder(s, q)
    BY <1>2, <1>3, <1>5 DEF Close
<1>7. stop' = [stop EXCEPT ![s] = "none"] /\ UNCHANGED <<dir, boot, entry>>
    BY DEF Close, world
<1>8. NetInv' /\ LineagesInv'
    <2>1. stop'[s] = "none" /\ \A t \in Lineages \ {s} : stop'[t] = stop[t]
        BY <1>7, Functional
    <2>2. <<"exit", s>> \notin unk
        BY <1>4 DEF Riding
    <2> QED
        BY <1>1, <1>3, <1>4, <1>5, <1>6, <1>7, <2>1, <2>2, CloseOrderOwn
<1>9. ReadsInv'
    BY <1>1, ReadsStay DEF Close, mem, world
<1>10. NoneCorrected'
    BY <1>1 DEF NoneCorrected, Close
<1> QED
    BY <1>8, <1>9, <1>10 DEF OwnParts

LEMMA EntrySettlesOwn ==
    ASSUME TypeOK, OwnParts, NEW s \in Lineages, EntrySettles(s)
    PROVE  OwnParts'
<1>1. NoneCorrected /\ NetInv /\ LineagesInv /\ ReadsInv /\ LineageInv(s)
    BY DEF OwnParts, LineagesInv
<1>2. Entering(s)
    BY <1>1, Told DEF EntrySettles
<1>3. held[s] = 0 /\ Signed(s, held[s]) = 0 /\ Signed(s, Size[s]) \in Int /\ Size[s] \in Int
    BY <1>2, SignedDiff, Functional DEF Entering, EntrySettles
<1>4. OnlyTouches(s)
    BY Functional DEF OnlyTouches, EntrySettles, db
<1>5. UNCHANGED <<dir, boot, exec, exit, stop, unk>>
    BY DEF EntrySettles, world, db
<1>6. NetInv' /\ Entering(s)'
    <2>1. CASE /\ entry' = [entry EXCEPT ![s] = "filled"]
               /\ held' = [held EXCEPT ![s] = @ + Size[s]]
               /\ pos' = pos + Signed(s, Size[s])
        <3>1. held' = [held EXCEPT ![s] = Size[s]]
            <4>1. held[s] + Size[s] = Size[s]
                BY <1>3
            <4> QED
                BY <2>1, <4>1
        <3>2. pos' = pos + Signed(s, Size[s]) - Signed(s, held[s])
            BY <1>3, <2>1, Functional
        <3>3. NetInv'
            BY <1>1, <1>3, <1>5, <3>1, <3>2, NetMoves
        <3>4. Entering(s)'
            BY <1>2, <1>5, <2>1, <3>1, Functional DEF Entering
        <3> QED
            BY <3>3, <3>4
    <2>2. CASE entry' = [entry EXCEPT ![s] = "dead"] /\ UNCHANGED <<held, pos>>
        <3>1. NetInv'
            BY <1>1, <1>5, <2>2, NetStays
        <3>2. Entering(s)'
            BY <1>2, <1>3, <1>5, <2>2, Functional DEF Entering
        <3> QED
            BY <3>1, <3>2
    <2> QED
        BY <2>1, <2>2 DEF EntrySettles
<1>7. LineagesInv'
    BY <1>1, <1>4, <1>6, LineagesStep DEF LineageInv
<1>8. ReadsInv'
    BY <1>1, ReadsStay DEF EntrySettles, mem, world, db
<1>9. NoneCorrected'
    BY <1>1 DEF NoneCorrected, EntrySettles
<1> QED
    BY <1>6, <1>7, <1>8, <1>9 DEF OwnParts

LEMMA ExitSettlesOwn ==
    ASSUME TypeOK, OwnParts, NEW s \in Lineages, ExitSettles(s)
    PROVE  OwnParts'
<1>1. NoneCorrected /\ NetInv /\ LineagesInv /\ ReadsInv /\ LineageInv(s)
    BY DEF OwnParts, LineagesInv
<1>2. Leaving(s) /\ exit[s].st = "working"
    BY <1>1, Told DEF ExitSettles
<1>3. held[s] = Size[s] /\ exit[s].q = Size[s] /\ Size[s] \in Int /\ <<"exit", s>> \in unk
    BY <1>2, Functional DEF Leaving
<1>4. OnlyTouches(s)
    BY Functional DEF OnlyTouches, ExitSettles, db
<1>5. UNCHANGED <<dir, boot, exec, entry, stop, unk>>
    BY DEF ExitSettles, world, db
<1>6. DOMAIN exit = Lineages /\ exit[s] \in [st : OrderState, q : Nat]
    BY DEF TypeOK
<1>7. NetInv' /\ Leaving(s)'
    <2>1. CASE /\ exit' = [exit EXCEPT ![s].st = "filled"]
               /\ held' = [held EXCEPT ![s] = @ - exit[s].q]
               /\ pos' = pos - Signed(s, exit[s].q)
        <3>1. held[s] - exit[s].q = 0
            BY <1>3
        <3>2. held' = [held EXCEPT ![s] = 0]
            BY <2>1, <3>1
        <3>3. pos' = pos - Signed(s, held[s])
            BY <1>3, <2>1
        <3>4. NetInv'
            BY <1>1, <1>5, <3>2, <3>3, NetLeaves
        <3>5. exit'[s].st = "filled" /\ exit'[s].q = Size[s] /\ held'[s] = 0
            BY <1>3, <1>6, <2>1, <3>2, Functional
        <3>6. Leaving(s)'
            BY <1>2, <1>3, <1>5, <3>5 DEF Leaving
        <3> QED
            BY <3>4, <3>6
    <2>2. CASE exit' = [exit EXCEPT ![s].st = "dead"] /\ UNCHANGED <<held, pos>>
        <3>1. NetInv'
            BY <1>1, <1>5, <2>2, NetStays
        <3>2. exit'[s].st = "dead" /\ exit'[s].q = Size[s] /\ held'[s] = Size[s]
            BY <1>3, <1>6, <2>2
        <3>3. Leaving(s)'
            BY <1>2, <1>3, <1>5, <3>2 DEF Leaving
        <3> QED
            BY <3>1, <3>3
    <2> QED
        BY <2>1, <2>2 DEF ExitSettles
<1>8. LineagesInv'
    BY <1>1, <1>4, <1>7, LineagesStep DEF LineageInv
<1>9. ReadsInv'
    BY <1>1, ReadsStay DEF ExitSettles, mem, world, db
<1>10. NoneCorrected'
    BY <1>1 DEF NoneCorrected, ExitSettles
<1> QED
    BY <1>7, <1>8, <1>9, <1>10 DEF OwnParts

LEMMA StopFiresOwn ==
    ASSUME TypeOK, OwnParts, NEW s \in Lineages, StopFires(s)
    PROVE  OwnParts'
<1>1. NoneCorrected /\ NetInv /\ LineagesInv /\ ReadsInv /\ LineageInv(s)
    BY DEF OwnParts, LineagesInv
<1>2. Riding(s)
    BY <1>1, Told DEF StopFires
<1>3. held[s] = Size[s] /\ Size[s] \in Int
    BY <1>2, Functional DEF Riding, StopFires
<1>4. OnlyTouches(s)
    BY Functional DEF OnlyTouches, StopFires, db
<1>5. UNCHANGED <<dir, boot, exec, entry, exit, unk>>
    BY DEF StopFires, world, db
<1>6. NetInv' /\ Riding(s)'
    <2>1. held[s] - Size[s] = 0
        BY <1>3
    <2>2. held' = [held EXCEPT ![s] = 0]
        BY <2>1 DEF StopFires
    <2>3. pos' = pos - Signed(s, held[s])
        BY <1>3 DEF StopFires
    <2>4. NetInv'
        BY <1>1, <1>5, <2>2, <2>3, NetLeaves
    <2>5. Riding(s)'
        BY <1>2, <1>5, <2>2, Functional DEF Riding, StopFires
    <2> QED
        BY <2>4, <2>5
<1>7. LineagesInv'
    BY <1>1, <1>4, <1>6, LineagesStep DEF LineageInv
<1>8. ReadsInv'
    BY <1>1, ReadsStay DEF StopFires, mem, world, db
<1>9. NoneCorrected'
    BY <1>1 DEF NoneCorrected, StopFires
<1> QED
    BY <1>6, <1>7, <1>8, <1>9 DEF OwnParts

----------------------------------------------------------------------------
(* While only the executor trades: the pre-steps                           *)

LEMMA NatOrder == IsWellFoundedOn({ss \in Nat \X Nat : ss[1] < ss[2]}, Nat)
BY NatLessThanWellFounded DEF OpToRel

(* Among some lineages there is a newest.                                  *)
LEMMA Newest ==
    ASSUME NEW R, R \subseteq Lineages, R # {}
    PROVE  \E t \in R : \A u \in R : u <= t
<1> DEFINE After(t) == {u \in R : u > t}
           C == {Cardinality(After(t)) : t \in R}
           L == {ss \in Nat \X Nat : ss[1] < ss[2]}
<1>1. \A t \in R : t \in Nat
    BY Constants
<1>2. ASSUME NEW t \in R PROVE IsFiniteSet(After(t)) /\ Cardinality(After(t)) \in Nat
    BY Constants, FS_Subset, FS_CardinalityType
<1>3. C \subseteq Nat /\ C # {}
    BY <1>2
<1>4. PICK n \in C : \A m \in C : ~(<<m, n>> \in L)
    <2> HIDE DEF C, L
    <2>1. IsWellFoundedOn(L, Nat)
        BY NatOrder DEF L
    <2> QED
        BY <1>3, <2>1, WFMin
<1>5. \A m \in C : ~(m < n)
    BY <1>3, <1>4
<1>6. PICK t \in R : n = Cardinality(After(t))
    OBVIOUS
<1>7. ASSUME NEW u \in R, u > t PROVE FALSE
    <2>1. After(u) \subseteq After(t)
        BY <1>1, <1>7
    <2>2. u \in After(t) /\ u \notin After(u)
        BY <1>1, <1>7
    <2>3. After(u) # After(t)
        BY <2>2
    <2>4. PICK m \in Nat : m = Cardinality(After(u))
        BY <1>2
    <2>5. IsFiniteSet(After(t)) /\ Cardinality(After(t)) \in Nat
        BY <1>2
    <2> HIDE DEF After
    <2>6. m <= n /\ m # n
        BY <1>6, <2>1, <2>3, <2>4, <2>5, FS_Subset
    <2>7. m \in C
        BY <2>4
    <2> QED
        BY <1>5, <1>6, <2>4, <2>5, <2>6, <2>7
<1> QED
    BY <1>1, <1>7

(* A booking that leaves all other lineages alone has no newer one to book *)
(* on: all of it goes to the lineage it is for.                            *)
LEMMA NoneAbove ==
    ASSUME TypeOK, NEW s \in Lineages, NEW q \in Nat, q > 0,
           \A t \in Lineages \ {s} : BookLifo(q)[t] = exec[t]
    PROVE  Above(s) = 0
<1> DEFINE f(u) == [t \in Lineages |-> IF t > u THEN Rem(t) ELSE 0]
           R == {t \in Lineages : t > s /\ Rem(t) > 0}
<1>1. \A t \in Lineages : Rem(t) \in Nat /\ t \in Nat
    BY RemType, Constants
<1>2. ASSUME NEW u \in Lineages, \A t \in Lineages : t > u => Rem(t) = 0
      PROVE  Above(u) = 0
    <2>1. f(u) \in [Lineages -> Int] /\ \A t \in Lineages : f(u)[t] = 0
        BY <1>1, <1>2
    <2> HIDE DEF f
    <2>2. Sum(f(u)) = 0
        BY <2>1, SumZero
    <2> QED
        BY <2>2 DEF Above, f
<1>3. CASE R = {}
    <2>1. \A t \in Lineages : t > s => Rem(t) = 0
        BY <1>1, <1>3
    <2> QED
        BY <1>2, <2>1
<1>4. CASE R # {}
    <2>1. PICK t \in R : \A u \in R : u <= t
        BY <1>4, Newest
    <2>2. \A u \in Lineages : u > t => Rem(u) = 0
        BY <1>1, <2>1
    <2>3. Above(t) = 0
        BY <1>2, <2>1, <2>2
    <2>4. Alloc(q)[t] = Lesser(Rem(t), q - 0)
        BY <2>1, <2>3 DEF Alloc
    <2>5. PICK n \in Nat : n = Alloc(q)[t] /\ n > 0 /\ n <= Rem(t)
        BY <1>1, <2>1, <2>4, AllocType DEF Lesser
    <2>6. BookLifo(q)[t] = Booked(exec[t], n)
        BY <2>1, <2>5 DEF BookLifo
    <2>7. Booked(exec[t], n).closed = exec[t].closed + n
        BY <2>1, <2>5, BookedType
    <2>8. exec[t].closed \in Nat
        BY <2>1 DEF TypeOK
    <2>9. BookLifo(q)[t] = exec[t]
        BY <1>1, <2>1
    <2> QED
        BY <2>5, <2>6, <2>7, <2>8, <2>9
<1> QED
    BY <1>3, <1>4

LEMMA WholeBooked ==
    ASSUME TypeOK, NEW s \in Lineages, Riding(s) \/ Leaving(s)
    PROVE  /\ Booked(exec[s], Size[s]).st = "closed"
           /\ Booked(exec[s], Size[s]).opened = Size[s]
           /\ Booked(exec[s], Size[s]).closed = Size[s]
<1>1. exec[s] \in Row /\ exec[s].opened = Size[s] /\ exec[s].closed = 0
    BY Functional DEF Riding, Leaving
<1>2. PICK n \in Nat : n = Size[s]
    BY Constants
<1>3. exec[s].closed + n = n
    BY <1>1
<1>4. Booked(exec[s], n) = [exec[s] EXCEPT !.closed = n, !.st = "closed"]
    BY <1>1, <1>2, <1>3 DEF Booked
<1> QED
    BY <1>1, <1>2, <1>4 DEF Row

LEMMA PreTickReads ==
    ASSUME TypeOK, ReadsInv, NEW n \in 2..4, PreTick(n), UNCHANGED <<marker, boot>>
    PROVE  ReadsInv'
<1>1. TickType
    BY TypeParts
<1>2. UNCHANGED <<first, cool>> /\ rec'.pc \notin {"book", "pos", "listed"}
    BY <1>1, PreTickType
<1> QED
    BY <1>2, ReadsOver

LEMMA SweepOwn ==
    ASSUME TypeOK, OwnParts, NEW s \in Lineages, Sweep(s)
    PROVE  OwnParts'
<1>1. NoneCorrected /\ NetInv /\ LineagesInv /\ ReadsInv /\ LineageInv(s)
    BY DEF OwnParts, LineagesInv
<1>2. Riding(s) /\ stop[s] = "filled"
    BY <1>1, Told DEF Sweep, Swept
<1>3. Rem(s) = Size[s] /\ Size[s] > 0
    BY <1>2, WholeRow
<1>4. exec' = [exec EXCEPT ![s] = Booked(exec[s], Size[s])] /\ stop' = [stop EXCEPT ![s] = "none"]
    BY <1>3 DEF Sweep
<1>5. UNCHANGED <<dir, unk, entry, exit, pos, held, boot>>
    BY DEF Sweep, world
<1>6. OnlyTouches(s)
    BY <1>4, <1>5, Functional DEF OnlyTouches
<1>7. Gone(s)'
    <2>1. exec'[s].st = "closed" /\ exec'[s].opened = Size[s] /\ exec'[s].closed = Size[s]
        BY <1>2, <1>4, Functional, WholeBooked
    <2>2. stop'[s] = "none"
        BY <1>4, Functional
    <2> QED
        BY <1>2, <1>5, <2>1, <2>2 DEF Riding, Gone
<1>8. NetInv' /\ LineagesInv'
    BY <1>1, <1>5, <1>6, <1>7, NetStays, LineagesStep DEF LineageInv
<1>9. ReadsInv'
    BY <1>1, PreTickReads DEF Sweep, world
<1>10. NoneCorrected'
    BY <1>1 DEF NoneCorrected, Sweep
<1> QED
    BY <1>8, <1>9, <1>10 DEF OwnParts

LEMMA ResolveEntryOwn ==
    ASSUME TypeOK, OwnParts, NEW s \in Lineages, ResolveEntry(s)
    PROVE  OwnParts'
<1>1. NoneCorrected /\ NetInv /\ LineagesInv /\ ReadsInv /\ LineageInv(s)
    BY DEF OwnParts, LineagesInv
<1>2. Entering(s) /\ entry[s] \in {"filled", "dead"}
    BY <1>1, Told DEF ResolveEntry, EntryResolved
<1>3. UNCHANGED <<dir, entry, exit, stop, pos, held, boot, corr>>
    BY DEF ResolveEntry, world, venue
<1>4. unk' = unk \ {<<"entry", s>>}
    BY DEF ResolveEntry
<1>5. OnlyTouches(s)
    BY <1>3, <1>4, Functional DEF OnlyTouches, ResolveEntry
<1>6. exec'[s].closed = 0
    BY <1>2, Functional DEF ResolveEntry, Entering, Row
<1>7. LineageInv(s)'
    <2>1. CASE entry[s] = "filled"
        <3>1. exec'[s].st = "open" /\ exec'[s].opened = Size[s]
            BY <2>1, Functional DEF ResolveEntry, Row
        <3> QED
            BY <1>2, <1>3, <1>4, <1>6, <2>1, <3>1 DEF Entering, LineageInv, Riding
    <2>2. CASE entry[s] = "dead"
        <3>1. exec'[s].st = "error" /\ exec'[s].opened = 0
            BY <2>2, Functional DEF ResolveEntry, Row
        <3> QED
            BY <1>2, <1>3, <1>4, <1>6, <2>2, <3>1 DEF Entering, LineageInv, Untouched
    <2> QED
        BY <1>2, <2>1, <2>2
<1>8. NetInv' /\ LineagesInv'
    BY <1>1, <1>3, <1>5, <1>7, NetStays, LineagesStep
<1>9. ReadsInv'
    BY <1>1, PreTickReads DEF ResolveEntry, world
<1>10. NoneCorrected'
    BY <1>1, <1>3 DEF NoneCorrected
<1> QED
    BY <1>8, <1>9, <1>10 DEF OwnParts

LEMMA ResolveExitOwn ==
    ASSUME TypeOK, OwnParts, ways' = {}, NEW s \in Lineages, ResolveExit(s)
    PROVE  OwnParts'
<1>1. NoneCorrected /\ NetInv /\ LineagesInv /\ ReadsInv /\ LineageInv(s)
    BY DEF OwnParts, LineagesInv
<1>2. Leaving(s) /\ exit[s].st \in {"filled", "dead"} /\ exit[s].q = Size[s]
    BY <1>1, Told DEF ResolveExit, ExitResolved, Leaving
<1>3. UNCHANGED <<dir, entry, exit, stop, pos, held, boot, corr>>
    BY DEF ResolveExit, world, venue
<1>4. unk' = unk \ {<<"exit", s>>}
    BY DEF ResolveExit
<1>5. \A t \in Lineages \ {s} : exec'[t] = exec[t]
    BY DEF ResolveExit, Way
<1>6. OnlyTouches(s)
    BY <1>3, <1>4, <1>5 DEF OnlyTouches
<1>7. LineageInv(s)'
    <2>1. CASE exit[s].st = "filled"
        <3>1. PICK q \in Nat : q = Size[s] /\ q > 0 /\ q = Rem(s)
            BY <1>2, WholeRow
        <3>2. exec' = BookLifo(q)
            BY <1>2, <2>1, <3>1 DEF ResolveExit
        <3>3. Above(s) = 0
            BY <1>5, <3>1, <3>2, NoneAbove
        <3>4. Alloc(q)[s] = q
            BY <3>1, <3>3 DEF Alloc, Lesser
        <3>5. exec'[s] = Booked(exec[s], Size[s])
            BY <3>1, <3>2, <3>4 DEF BookLifo
        <3>6. exec'[s].st = "closed" /\ exec'[s].opened = Size[s] /\ exec'[s].closed = Size[s]
            BY <1>2, <3>5, WholeBooked
        <3>7. Gone(s)'
            BY <1>2, <1>3, <1>4, <2>1, <3>6 DEF Leaving, Gone
        <3> QED
            BY <3>7 DEF LineageInv
    <2>2. CASE exit[s].st = "dead"
        <3>1. exec' = exec
            BY <2>2 DEF ResolveExit
        <3>2. Leaving(s)'
            BY <1>2, <1>3, <1>4, <2>2, <3>1 DEF Leaving
        <3> QED
            BY <3>2 DEF LineageInv
    <2> QED
        BY <1>2, <2>1, <2>2
<1>8. NetInv' /\ LineagesInv'
    BY <1>1, <1>3, <1>6, <1>7, NetStays, LineagesStep
<1>9. ReadsInv'
    BY <1>1, PreTickReads DEF ResolveExit, world
<1>10. NoneCorrected'
    BY <1>1, <1>3 DEF NoneCorrected
<1> QED
    BY <1>8, <1>9, <1>10 DEF OwnParts

LEMMA RetryOwn ==
    ASSUME TypeOK, OwnParts, ways' = {}, NEW s \in Lineages, Retry(s)
    PROVE  OwnParts'
<1>1. NoneCorrected /\ NetInv /\ LineagesInv /\ ReadsInv /\ LineageInv(s)
    BY DEF OwnParts, LineagesInv
<1>2. PICK q \in Nat : q = RetryQty(s)
    BY RetryQtyType
<1>3. q = Rem(s) /\ q = held[s] /\ q > 0
    BY <1>2 DEF Retry, RetryDue, Way
<1>4. Leaving(s) /\ <<"exit", s>> \notin unk
    BY <1>1, Told DEF Retry, RetryDue
<1>5. Rem(s) = Size[s]
    BY <1>4, WholeRow
<1>6. pos # 0
    <2>1. dir[s] * 0 = 0
        BY Directions
    <2> QED
        BY <1>2, <1>3, <2>1 DEF RetryQty
<1>7. CloseOrder(s, q)
    BY <1>2, <1>6 DEF Retry
<1>8. UNCHANGED <<dir, boot, entry, stop, marker, corr>>
    BY DEF Retry, world
<1>9. NetInv' /\ LineagesInv'
    <2>1. stop'[s] = "none" /\ \A t \in Lineages \ {s} : stop'[t] = stop[t]
        BY <1>4, <1>8 DEF Leaving
    <2> QED
        BY <1>1, <1>3, <1>4, <1>5, <1>7, <1>8, <2>1, CloseOrderOwn
<1>10. ReadsInv'
    BY <1>1, <1>8, PreTickReads DEF Retry
<1>11. NoneCorrected'
    BY <1>1, <1>8 DEF NoneCorrected
<1> QED
    BY <1>9, <1>10, <1>11 DEF OwnParts

----------------------------------------------------------------------------
(* While only the executor trades: reads and decision                      *)

LEMMA TickFields ==
    ASSUME TypeOK
    PROVE  /\ DOMAIN rec = {"pc", "exp", "brk", "open", "busy", "recent"}
           /\ rec.exp \in Int /\ rec.brk \in Int /\ rec.open \in BOOLEAN /\ boot \in Int /\ pos \in Int
           /\ marker \in BOOLEAN /\ first \in BOOLEAN
BY ReconcilerAssumption DEF TypeOK

LEMMA ReadBookOwn ==
    ASSUME TypeOK, OwnParts, ReadBook
    PROVE  OwnParts'
<1>1. NoneCorrected /\ NetInv /\ LineagesInv /\ ReadsInv
    BY DEF OwnParts
<1>2. UNCHANGED <<dir, exec, unk, entry, exit, stop, pos, held, boot, corr, marker, first>>
    BY DEF ReadBook, db, venue, world
<1>3. NetInv' /\ LineagesInv' /\ NoneCorrected'
    BY <1>1, <1>2, NetStays, LineagesStay DEF NoneCorrected
<1>4. /\ rec'.pc = "book" /\ rec'.exp = Expected /\ rec'.brk = pos
      /\ rec'.open = (unk # {} \/ Settleable)
    BY TickFields DEF ReadBook
<1>5. ASSUME ~rec'.open PROVE rec'.exp = rec'.brk - boot
    <2>1. unk = {} /\ ~Settleable
        BY <1>4, <1>5
    <2>2. PICK e : e = Sum(HeldSigned)
        OBVIOUS
    <2>3. Expected = e
        BY <1>1, <2>1, <2>2, ExpectedTrue
    <2>4. e \in Int
        BY <2>2, SumType, HeldSignedType, Constants
    <2>5. pos = boot + e
        BY <1>1, <2>2 DEF NetInv
    <2> QED
        BY <1>4, <2>3, <2>4, <2>5, TickFields
<1>6. ReadsInv'
    BY <1>1, <1>2, <1>4, <1>5 DEF ReadsInv
<1> QED
    BY <1>3, <1>6 DEF OwnParts

LEMMA ReadPositionsOwn ==
    ASSUME TypeOK, OwnParts, ways' = {}, ReadPositions
    PROVE  OwnParts'
<1>1. NoneCorrected /\ NetInv /\ LineagesInv /\ ReadsInv
    BY DEF OwnParts
<1>2. UNCHANGED <<dir, exec, unk, entry, exit, stop, pos, held, boot, corr>>
    BY DEF ReadPositions, venue, world
<1>3. NetInv' /\ LineagesInv' /\ NoneCorrected'
    BY <1>1, <1>2, NetStays, LineagesStay DEF NoneCorrected
<1>4. ReadsInv'
    <2>1. CASE rec' = Idle /\ UNCHANGED <<first, marker>>
        BY <1>1, <1>2, <2>1 DEF ReadsInv, Idle
    <2>2. CASE ~(rec' = Idle /\ UNCHANGED <<first, marker>>)
        <3> DEFINE mark == marker \/ (Adopts /\ pos # 0 /\ pos - rec.exp # 0)
        <3>1. PICK m \in BOOLEAN : m = mark
            OBVIOUS
        <3>2. /\ rec' = [rec EXCEPT !.pc = IF Executed THEN "pos" ELSE "idle", !.brk = pos,
                              !.open = @ \/ pos # rec.brk \/ \E i \in DOMAIN corr : corr[i].st = "working"]
              /\ first' = FALSE
              /\ marker' = m
              /\ ~(boot # 0 /\ Adopts /\ ~m)
            BY <2>2, <3>1 DEF ReadPositions, Way
        <3>3. boot # 0 => m
            <4>1. boot # 0 /\ first => m
                BY <3>2 DEF Adopts
            <4>2. boot # 0 /\ ~first => m
                BY <1>1, <3>1 DEF ReadsInv
            <4> QED
                BY <4>1, <4>2
        <3>4. rec'.brk = pos /\ rec'.exp = rec.exp
            BY <3>2, TickFields
        <3>5. ~rec'.open => ~rec.open /\ pos = rec.brk
            BY <3>2, TickFields
        <3>6. rec.pc = "book"
            BY DEF ReadPositions, At
        <3>7. ~rec'.open => rec'.exp = rec'.brk - boot'
            BY <1>1, <1>2, <3>4, <3>5, <3>6 DEF ReadsInv
        <3> QED
            BY <1>2, <3>2, <3>3, <3>7 DEF ReadsInv
    <2> QED
        BY <2>1, <2>2
<1> QED
    BY <1>3, <1>4 DEF OwnParts

LEMMA ReadOrdersOwn ==
    ASSUME TypeOK, OwnParts, ReadOrders
    PROVE  OwnParts'
<1>1. NoneCorrected /\ NetInv /\ LineagesInv /\ ReadsInv
    BY DEF OwnParts
<1>2. UNCHANGED <<dir, exec, unk, entry, exit, stop, pos, held, boot, corr, marker, first>>
    BY DEF ReadOrders, db, venue, world
<1>3. NetInv' /\ LineagesInv' /\ NoneCorrected'
    BY <1>1, <1>2, NetStays, LineagesStay DEF NoneCorrected
<1>4. rec.pc = "pos" /\ rec'.exp = rec.exp /\ rec'.brk = rec.brk /\ rec'.open = rec.open
    BY TickFields DEF ReadOrders, At
<1>5. ReadsInv'
    BY <1>1, <1>2, <1>4 DEF ReadsInv
<1> QED
    BY <1>3, <1>5 DEF OwnParts

(* A balance that the user's own position explains clears no marker.       *)
LEMMA BalancedOwn ==
    ASSUME TypeOK, OwnParts, ways' = {}, Balanced
    PROVE  OwnParts'
<1>1. NoneCorrected /\ NetInv /\ LineagesInv /\ ReadsInv
    BY DEF OwnParts
<1>2. UNCHANGED <<dir, exec, unk, entry, exit, stop, pos, held, boot, corr, first>>
    BY DEF Balanced, venue, world
<1>3. NetInv' /\ LineagesInv' /\ NoneCorrected'
    BY <1>1, <1>2, NetStays, LineagesStay DEF NoneCorrected
<1>4. rec.pc = "listed" /\ rec'.pc = "idle" /\ ~(marker /\ boot # 0)
    BY DEF Balanced, At, Ends, Idle, Way
<1>5. ~first /\ boot # 0 => marker
    BY <1>1 DEF ReadsInv
<1>6. ReadsInv'
    BY <1>1, <1>2, <1>4, <1>5 DEF ReadsInv
<1> QED
    BY <1>3, <1>6 DEF OwnParts

LEMMA SkipsOwn ==
    ASSUME TypeOK, OwnParts, Skips
    PROVE  OwnParts'
<1>1. NoneCorrected /\ NetInv /\ LineagesInv /\ ReadsInv
    BY DEF OwnParts
<1>2. UNCHANGED <<dir, exec, unk, entry, exit, stop, pos, held, boot, corr, first, marker>>
    BY DEF Skips, db, venue, world
<1>3. NetInv' /\ LineagesInv' /\ NoneCorrected'
    BY <1>1, <1>2, NetStays, LineagesStay DEF NoneCorrected
<1>4. rec'.pc = "idle"
    BY DEF Skips, Ends, Idle
<1>5. ReadsInv'
    BY <1>1, <1>2, <1>4, ReadsOver
<1> QED
    BY <1>3, <1>5 DEF OwnParts

(* What it decides on is either nothing, or the user's own, which is       *)
(* marked, or was read with something open.                                *)
LEMMA NothingToDo ==
    ASSUME TypeOK, ReadsInv, rec.pc = "listed", Delta # 0, ~Held
    PROVE  rec.open
<1> SUFFICES ASSUME ~rec.open PROVE FALSE
    OBVIOUS
<1>1. rec.exp = rec.brk - boot /\ ~first
    BY DEF ReadsInv
<1>2. boot # 0
    BY <1>1, TickFields DEF Delta
<1>3. marker
    BY <1>1, <1>2 DEF ReadsInv
<1> QED
    BY <1>3 DEF Held

LEMMA AdoptNever ==
    ASSUME TypeOK, OwnParts, ways' = {}, Adopt
    PROVE  FALSE
<1>1. rec.open
    BY NothingToDo DEF OwnParts, Adopt, At
<1>2. ~rec.open
    BY DEF Adopt, Acted, Way
<1> QED
    BY <1>1, <1>2

LEMMA CorrectOwn ==
    ASSUME TypeOK, OwnParts, ways' = {}, Correct
    PROVE  OwnParts'
<1>1. NoneCorrected /\ NetInv /\ LineagesInv /\ ReadsInv
    BY DEF OwnParts
<1>2. rec.open
    BY <1>1, NothingToDo DEF Correct, At
<1>3. UNCHANGED <<pos, corr>>
    <2>1. Acted # {}
        BY <1>2 DEF Acted, Way
    <2> QED
        BY <2>1 DEF Correct
<1>4. UNCHANGED <<dir, exec, unk, entry, exit, stop, held, boot, first, marker>>
    BY DEF Correct, db, world
<1>5. NetInv' /\ LineagesInv' /\ NoneCorrected'
    BY <1>1, <1>3, <1>4, NetStays, LineagesStay DEF NoneCorrected
<1>6. rec'.pc = "idle"
    BY DEF Correct, Ends, Idle
<1>7. ReadsInv'
    BY <1>1, <1>4, <1>6, ReadsOver
<1> QED
    BY <1>5, <1>7 DEF OwnParts

LEMMA TimeOwn ==
    ASSUME TypeOK, OwnParts, CooldownLapses \/ GraceLapses \/ Restart \/ UNCHANGED vars
    PROVE  OwnParts'
<1>1. NoneCorrected /\ NetInv /\ LineagesInv /\ ReadsInv
    BY DEF OwnParts
<1>2. UNCHANGED <<dir, exec, unk, entry, exit, stop, pos, held, boot, corr, marker>>
    BY DEF CooldownLapses, GraceLapses, Restart, vars, db, venue, world
<1>3. NetInv' /\ LineagesInv' /\ NoneCorrected'
    BY <1>1, <1>2, NetStays, LineagesStay DEF NoneCorrected
<1>4. UNCHANGED <<rec, first>> \/ (rec'.pc = "idle" /\ first' = TRUE)
    BY DEF CooldownLapses, GraceLapses, Restart, vars, mem, Idle
<1>5. ReadsInv'
    BY <1>1, <1>2, <1>4 DEF ReadsInv
<1> QED
    BY <1>3, <1>5 DEF OwnParts

----------------------------------------------------------------------------
(* While only the executor trades: the invariant                           *)

(* Trades are counted, and a way in which the reads did not fit together   *)
(* is not forgotten.                                                       *)
LEMMA WorldKept ==
    ASSUME TypeOK, [Next]_vars, OwnWorld'
    PROVE  OwnWorld
<1>1. trades \in Nat
    BY Constants DEF TypeOK
<1>2. ways \subseteq ways' /\ (trades' = trades \/ trades' = trades + 1)
    <2>1. CASE BotStep
        BY <2>1 DEF BotStep, Enter, Close, world
    <2>2. CASE VenueStep
        BY <2>2 DEF VenueStep, EntrySettles, ExitSettles, CorrectionSettles, world
    <2>3. CASE (\E s \in Lineages : StopFires(s)) \/ UserTrades
        BY <2>3 DEF StopFires, UserTrades, world
    <2>4. CASE PreStep
        BY <2>4 DEF PreStep, Sweep, ResolveEntry, ResolveExit, Retry, world
    <2>5. CASE ReadBook \/ ReadPositions \/ ReadOrders \/ Balanced \/ Skips
        BY <2>5 DEF ReadBook, ReadPositions, ReadOrders, Balanced, Skips, world
    <2>6. CASE Adopt
        BY <2>6 DEF Adopt, world
    <2>7. CASE Correct
        BY <2>7 DEF Correct, world
    <2>8. CASE CooldownLapses \/ GraceLapses \/ Restart \/ UNCHANGED vars
        BY <2>8 DEF CooldownLapses, GraceLapses, Restart, vars, world
    <2> QED
        BY <2>1, <2>2, <2>3, <2>4, <2>5, <2>6, <2>7, <2>8 DEF Next, TickStep
<1> QED
    BY <1>1, <1>2 DEF OwnWorld

LEMMA OwnInit == Init => OwnInv
<1> SUFFICES ASSUME Init PROVE OwnParts
    BY DEF OwnInv
<1>1. TypeOK
    BY TypeInit DEF TypeInv
<1>2. NoneCorrected
    BY <1>1 DEF NoneCorrected, Init, NoCorr
<1>3. NetInv
    <2>1. HeldSigned \in [Lineages -> Int]
        BY <1>1, HeldSignedType
    <2>2. \A s \in Lineages : HeldSigned[s] = 0
        <3>1. \A s \in Lineages : Signed(s, 0) = 0
            BY <1>1, SignedDiff
        <3> QED
            BY <3>1 DEF Init, HeldSigned
    <2>3. Sum(HeldSigned) = 0
        BY <2>1, <2>2, SumZero
    <2>4. pos = boot /\ boot \in Int
        BY <1>1, TickFields DEF Init
    <2> QED
        BY <2>3, <2>4 DEF NetInv
<1>4. LineagesInv
    BY DEF Init, NoOrder, LineagesInv, LineageInv, Untouched
<1>5. ReadsInv
    BY DEF Init, Idle, ReadsInv
<1> QED
    BY <1>2, <1>3, <1>4, <1>5 DEF OwnParts

LEMMA OwnStep == TypeInv /\ OwnInv /\ [Next]_vars => OwnInv'
<1> SUFFICES ASSUME TypeInv, OwnInv, [Next]_vars, OwnWorld' PROVE OwnParts'
    BY DEF OwnInv
<1>1. TypeOK
    BY DEF TypeInv
<1>2. OwnParts
    BY <1>1, WorldKept DEF OwnInv
<1>3. ways' = {} /\ trades' = 0 /\ trades = 0
    BY <1>1, WorldKept DEF OwnWorld
<1>4. CASE BotStep
    BY <1>1, <1>2, <1>3, <1>4, EnterOwn, CloseOwn DEF BotStep
<1>5. CASE VenueStep
    <2>1. ASSUME NEW i \in DOMAIN corr, CorrectionSettles(i) PROVE FALSE
        BY <1>2, <2>1 DEF OwnParts, NoneCorrected, CorrectionSettles
    <2> QED
        BY <1>1, <1>2, <1>5, <2>1, EntrySettlesOwn, ExitSettlesOwn DEF VenueStep
<1>6. CASE \E s \in Lineages : StopFires(s)
    BY <1>1, <1>2, <1>6, StopFiresOwn
<1>7. CASE UserTrades
    BY <1>3, <1>7 DEF UserTrades
<1>8. CASE PreStep
    BY <1>1, <1>2, <1>3, <1>8, SweepOwn, ResolveEntryOwn, ResolveExitOwn, RetryOwn DEF PreStep
<1>9. CASE ReadBook \/ ReadPositions \/ ReadOrders \/ Balanced \/ Skips \/ Adopt \/ Correct
    BY <1>1, <1>2, <1>3, <1>9, ReadBookOwn, ReadPositionsOwn, ReadOrdersOwn, BalancedOwn, SkipsOwn,
       AdoptNever, CorrectOwn
<1>10. CASE CooldownLapses \/ GraceLapses \/ Restart \/ UNCHANGED vars
    BY <1>1, <1>2, <1>10, TimeOwn
<1> QED
    BY <1>4, <1>5, <1>6, <1>7, <1>8, <1>9, <1>10 DEF Next, TickStep

LEMMA OwnHolds == TypeInv /\ OwnInv => OwnTradesStand
<1> SUFFICES ASSUME TypeInv, OwnInv, trades = 0, ways = {}
             PROVE  /\ \A i \in DOMAIN corr : corr[i].st = "none"
                    /\ Settled => \A s \in Lineages : Rem(s) = held[s]
    BY DEF OwnTradesStand
<1>1. TypeOK /\ OwnParts
    BY DEF TypeInv, OwnInv, OwnWorld
<1>2. Settled => \A s \in Lineages : Rem(s) = held[s]
    BY <1>1, BookTrue DEF OwnParts, Settled
<1> QED
    BY <1>1, <1>2 DEF OwnParts, NoneCorrected

(* While every trade is the executor's own or older than it, the           *)
(* reconciler places no order, and once the book is settled it holds what  *)
(* each lineage holds. What makes it so is that the venue's net is always  *)
(* what the user brought and what the lineages hold, and that a book read  *)
(* with nothing open differs from it by the user's part alone, which was   *)
(* marked on the first pass: there is nothing left to correct or adopt.    *)
THEOREM OwnTradesAlwaysStand == Spec => []OwnTradesStand
<1>1. Init => TypeInv /\ OwnInv
    BY TypeInit, OwnInit
<1>2. TypeInv /\ OwnInv /\ [Next]_vars => TypeInv' /\ OwnInv'
    BY TypeStep, OwnStep
<1> QED
    BY <1>1, <1>2, OwnHolds, PTL DEF Spec

(***************************************************************************)
(* Close signals                                                           *)
(***************************************************************************)

----------------------------------------------------------------------------
(* The story and the sums *)

\* The story is one of those assumed, and it stays.
Told0 == scenario \in Scenarios /\ adapter \in scenario.adapters

LEMMA Story ==
    ASSUME Told0
    PROVE  /\ Entries = 1..Len(Opened) /\ Entries \subseteq Nat \ {0} /\ IsFiniteSet(Entries)
           /\ Opened \in [Entries -> Nat] /\ \A e \in Entries : Opened[e] > 0
           /\ CloseBot \in [Closes -> Bots] /\ \A e \in Entries : EntryBot[e] \in Bots
           /\ \A b \in Bots : \E e \in Entries : EntryBot[e] = b
           /\ Halves \subseteq Closes /\ Entries \cap Closes = {} /\ IsFiniteSet(Closes)
           /\ MaxQty \in Nat /\ \A e \in Entries : Opened[e] <= MaxQty
           /\ adapter.acks \in BOOLEAN /\ adapter.partial \in {"partially_filled", "cancelled"}
<1>1. Scenario(scenario) /\ IsFiniteSet(Closes)
    BY CloseAssumption DEF Told0
<1>2. Opened \in Seq(Nat \ {0}) /\ Entries = DOMAIN Opened
    BY <1>1 DEF Scenario, Opened, Entries
<1>3. Len(Opened) \in Nat /\ Opened \in [1..Len(Opened) -> Nat \ {0}] /\ Entries = 1..Len(Opened)
    BY <1>2, LenProperties
<1>4. IsFiniteSet(Entries)
    BY <1>3, FS_Interval
<1>5. Opened \in [Entries -> Nat] /\ \A e \in Entries : Opened[e] > 0
    BY <1>3
<1>6. MaxQty \in Nat
    BY <1>4, <1>5, SumUnits DEF MaxQty
<1>7. \A e \in Entries : Opened[e] <= MaxQty
    BY <1>4, <1>5, SumElement DEF MaxQty
<1>8. /\ CloseBot \in [Closes -> Bots] /\ \A e \in Entries : EntryBot[e] \in Bots
      /\ \A b \in Bots : \E e \in Entries : EntryBot[e] = b
      /\ Halves \subseteq Closes /\ Entries \cap Closes = {}
    BY <1>1 DEF Scenario, CloseBot, Bots, EntryBot, Entries, Opened, Halves
<1>9. adapter \in Adapter
    BY <1>1 DEF Told0, Scenario
<1>10. adapter.acks \in BOOLEAN /\ adapter.partial \in {"partially_filled", "cancelled"}
    BY <1>9 DEF Adapter
<1> QED
    BY <1>1, <1>3, <1>4, <1>5, <1>6, <1>7, <1>8, <1>10

LEMMA StoryStays ==
    ASSUME UNCHANGED setting
    PROVE  /\ scenario' = scenario /\ adapter' = adapter /\ Opened' = Opened /\ Entries' = Entries
           /\ EntryBot' = EntryBot /\ CloseBot' = CloseBot /\ Halves' = Halves /\ Bots' = Bots
           /\ MaxQty' = MaxQty /\ Told0' = Told0
BY DEF setting, Opened, Entries, EntryBot, CloseBot, Halves, Bots, MaxQty, Told0

(* Quantities. *)
LEMMA LeastIs ==
    \A m, n \in Nat : /\ Least(m, n) \in Nat /\ Least(m, n) <= m /\ Least(m, n) <= n
                      /\ Least(m, n) \in {m, n}
BY DEF Least

LEMMA MinusIs ==
    \A m, n \in Nat : /\ Minus(m, n) \in Nat /\ Minus(m, n) <= m /\ Minus(m, n) >= m - n
                      /\ (Minus(m, n) > 0 => Minus(m, n) = m - n)
BY DEF Minus

(* What the newer entries are offered, the more of them the more.          *)
LEMMA NewerGrows ==
    ASSUME Told0, NEW offer \in [Entries -> Nat], NEW e \in Entries
    PROVE  /\ Newer(offer, e) \in Nat
           /\ \A f \in Entries : e < f => Newer(offer, f) + offer[f] <= Newer(offer, e)
<1> DEFINE from(x) == [g \in Entries |-> IF g > x THEN offer[g] ELSE 0]
<1>1. IsFiniteSet(Entries) /\ Entries \subseteq Nat
    BY Story
<1>2. \A x \in Entries : from(x) \in [Entries -> Nat]
    BY <1>1
<1>3. \A x \in Entries : Newer(offer, x) = Sum(from(x))
    BY DEF Newer
<1>4. Newer(offer, e) \in Nat
    BY <1>1, <1>2, <1>3, SumUnits
<1>5. ASSUME NEW f \in Entries, e < f
      PROVE  Newer(offer, f) + offer[f] <= Newer(offer, e)
    <2> DEFINE more == [from(f) EXCEPT ![f] = offer[f]]
    <2>1. /\ more \in [Entries -> Nat] /\ more[f] = offer[f]
          /\ \A g \in Entries \ {f} : more[g] = from(f)[g]
        BY <1>2
    <2>2. from(f)[f] = 0 /\ offer[f] \in Nat
        BY <1>1
    <2>3. \A g \in Entries : more[g] <= from(e)[g]
        <3> SUFFICES ASSUME NEW g \in Entries PROVE more[g] <= from(e)[g]
            OBVIOUS
        <3>1. offer[g] \in Nat /\ g \in Nat /\ f \in Nat /\ e \in Nat
            BY <1>1
        <3>2. CASE g = f
            BY <1>5, <2>1, <3>1, <3>2
        <3>3. CASE g # f
            <4>1. more[g] = IF g > f THEN offer[g] ELSE 0
                BY <2>1, <3>3
            <4>2. from(e)[g] = IF g > e THEN offer[g] ELSE 0
                OBVIOUS
            <4> QED
                BY <1>5, <3>1, <4>1, <4>2
        <3> QED
            BY <3>2, <3>3
    <2>4. from(f) \in [Entries -> Nat] /\ from(e) \in [Entries -> Nat]
        BY <1>2
    <2> HIDE DEF more, from
    <2>5. /\ from(f) \in [Entries -> Int] /\ more \in [Entries -> Int]
          /\ Sum(from(f)) \in Nat /\ Sum(more) \in Nat /\ Sum(from(e)) \in Nat
        BY <1>1, <2>1, <2>4, SumUnits
    <2>6. Sum(more) = Sum(from(f)) + more[f] - from(f)[f]
        <3>1. PICK a, b : a = from(f) /\ b = more
            OBVIOUS
        <3>2. a \in [Entries -> Int] /\ b \in [Entries -> Int] /\ \A g \in Entries \ {f} : b[g] = a[g]
            BY <2>1, <2>5, <3>1
        <3>3. Sum(b) = Sum(a) + b[f] - a[f]
            BY <1>1, <3>2, SumChange
        <3> QED
            BY <3>1, <3>3
    <2>7. Sum(more) <= Sum(from(e))
        BY <1>1, <2>1, <2>3, <2>4, SumGrows
    <2> QED
        BY <1>3, <2>1, <2>2, <2>5, <2>6, <2>7
<1> QED
    BY <1>4, <1>5

(* A quantity that is spread gives no entry more than it is offered, and   *)
(* all of them together no more than there is: each unit has a place of    *)
(* its own among the q.                                                    *)
LEMMA SpreadFits ==
    ASSUME Told0, NEW offer \in [Entries -> Nat], NEW q \in Nat
    PROVE  /\ Spread(q, offer) \in [Entries -> Nat]
           /\ \A e \in Entries : Spread(q, offer)[e] <= offer[e]
           /\ Sum(Spread(q, offer)) <= q
<1> DEFINE s == Spread(q, offer)
           place == [u \in Units(s) |-> Newer(offer, u[1]) + u[2]]
<1>1. \A e \in Entries : /\ s[e] \in Nat /\ s[e] <= offer[e]
                         /\ (s[e] > 0 => s[e] <= q - Newer(offer, e))
    <2> SUFFICES ASSUME NEW e \in Entries
                 PROVE  s[e] \in Nat /\ s[e] <= offer[e] /\ (s[e] > 0 => s[e] <= q - Newer(offer, e))
        OBVIOUS
    <2>1. Newer(offer, e) \in Nat /\ offer[e] \in Nat
        BY NewerGrows
    <2>2. s[e] = Least(offer[e], Minus(q, Newer(offer, e)))
        BY DEF Spread
    <2> HIDE DEF s
    <2> QED
        BY <2>1, <2>2 DEF Least, Minus
<1>2. s \in [Entries -> Nat]
    BY <1>1 DEF Spread
<1>3. IsFiniteSet(Entries) /\ Entries \subseteq Nat
    BY Story
<1> HIDE DEF s
<1>4. Sum(s) = Cardinality(Units(s)) /\ s \in [Entries -> Int]
    BY <1>2, <1>3, SumUnits
<1>5. ASSUME NEW u \in Units(s)
      PROVE  /\ u[1] \in Entries /\ u[2] \in 1..s[u[1]] /\ u = <<u[1], u[2]>>
             /\ u[2] <= offer[u[1]] /\ Newer(offer, u[1]) \in Nat /\ place[u] \in 1..q
    <2>1. PICK e \in Entries : u \in Column(e, s[e])
        BY <1>4, UnitsMember
    <2>2. u = <<e, u[2]>> /\ u[1] = e /\ u[2] \in 1..s[e]
        BY <2>1 DEF Column
    <2>3. Newer(offer, e) \in Nat /\ offer[e] \in Nat
        BY NewerGrows
    <2>4. s[e] \in Nat /\ s[e] <= offer[e] /\ (s[e] > 0 => s[e] <= q - Newer(offer, e))
        BY <1>1
    <2>5. place[u] = Newer(offer, e) + u[2]
        BY <2>2
    <2> HIDE DEF place
    <2> QED
        BY <2>2, <2>3, <2>4, <2>5
<1>6. \A u, v \in Units(s) : u[1] < v[1] => place[u] > place[v]
    <2> SUFFICES ASSUME NEW u \in Units(s), NEW v \in Units(s), u[1] < v[1]
                 PROVE  place[u] > place[v]
        OBVIOUS
    <2>1. place[u] = Newer(offer, u[1]) + u[2] /\ place[v] = Newer(offer, v[1]) + v[2]
        OBVIOUS
    <2> HIDE DEF place
    <2>2. /\ u[1] \in Entries /\ u[2] \in Nat /\ u[2] >= 1
          /\ v[1] \in Entries /\ v[2] \in Nat /\ v[2] <= offer[v[1]]
          /\ Newer(offer, u[1]) \in Nat /\ Newer(offer, v[1]) \in Nat /\ offer[v[1]] \in Nat
        BY <1>5
    <2>3. Newer(offer, v[1]) + offer[v[1]] <= Newer(offer, u[1])
        BY <2>2, NewerGrows
    <2> QED
        BY <2>1, <2>2, <2>3
<1>7. \A u, v \in Units(s) : place[u] = place[v] => u = v
    <2> SUFFICES ASSUME NEW u \in Units(s), NEW v \in Units(s), place[u] = place[v]
                 PROVE  u = v
        OBVIOUS
    <2>1. place[u] = Newer(offer, u[1]) + u[2] /\ place[v] = Newer(offer, v[1]) + v[2]
        OBVIOUS
    <2>2. place[u] \in Nat /\ u[1] \in Nat /\ v[1] \in Nat
        BY <1>3, <1>5
    <2> HIDE DEF place
    <2>3. ~(u[1] < v[1]) /\ ~(v[1] < u[1])
        BY <1>6, <2>2
    <2>4. u[1] = v[1]
        BY <2>2, <2>3
    <2>5. u[2] = v[2]
        <3>1. Newer(offer, u[1]) = Newer(offer, v[1]) /\ Newer(offer, u[1]) \in Nat /\ u[2] \in Nat /\ v[2] \in Nat
            BY <1>5, <2>4
        <3>2. Newer(offer, u[1]) + u[2] = Newer(offer, u[1]) + v[2]
            BY <2>1, <3>1
        <3> QED
            BY <3>1, <3>2
    <2> QED
        BY <1>5, <2>4, <2>5
<1>8. place \in Injection(Units(s), 1..q)
    <2>1. place \in [Units(s) -> 1..q]
        BY <1>5
    <2> HIDE DEF place
    <2> QED
        BY <1>7, <2>1 DEF Injection, IsInjective
<1>9. IsFiniteSet(1..q) /\ Cardinality(1..q) = q
    BY FS_Interval
<1>10. Cardinality(Units(s)) <= q
    BY <1>8, <1>9, FS_Injection
<1> QED
    BY <1>1, <1>2, <1>4, <1>10 DEF s

----------------------------------------------------------------------------
(* Types *)

Execs  == [status : {"open", "closing", "closed"}, closed : Nat, pending : 0..MaxQty]
Orders == [who : Closes \cup Entries, label : 0..MaxQty, qty : 0..MaxQty, fill : Nat, working : BOOLEAN]
ExitRows == [who : Closes \cup Entries, label : 0..MaxQty, status : {"unknown", "filled", "cancelled"},
             ord : DOMAIN orders]
Jobs == [who : Closes \cup Entries, label : 0..MaxQty, qty : 0..MaxQty, full : BOOLEAN, ord : DOMAIN orders]

BookShape == /\ execs \in [Entries -> Execs]
             /\ live \subseteq Entries
             /\ csig \in [Closes -> {"none", "pending", "executed", "rejected"}]
RowShape  == /\ rows \subseteq ExitRows
             /\ \A q, r \in rows : q.who = r.who /\ q.label = r.label => q = r
LockShape == /\ job = NoJob \/ job \in Jobs
             /\ pc \in {"idle", "reply", "poll2"}
             /\ todo \subseteq Entries
             /\ snap \in 0..MaxQty
OrderOk(o) == orders[o].fill <= orders[o].qty /\ (orders[o].working => orders[o].fill = 0)
OrderShape == /\ orders \in Seq(Orders)
              /\ \A o \in DOMAIN orders : OrderOk(o)
              /\ Sold <= MaxQty
CountShape == /\ inbox \subseteq Closes
              /\ got \in [Closes -> Nat] /\ acks \in [Closes -> Nat] /\ asked \in [Closes -> Nat]

Shape == Told0 /\ BookShape /\ RowShape /\ LockShape /\ OrderShape /\ CountShape

(* The orders are a finite function, and what they sold is a sum.          *)
FillOf == [o \in DOMAIN orders |-> orders[o].fill]

LEMMA OrdersAre ==
    ASSUME Told0, OrderShape
    PROVE  /\ Len(orders) \in Nat /\ DOMAIN orders = 1..Len(orders) /\ IsFiniteSet(DOMAIN orders)
           /\ orders \in [DOMAIN orders -> Orders]
           /\ \A o \in DOMAIN orders : /\ orders[o] \in Orders /\ orders[o].qty \in 0..MaxQty
                                       /\ orders[o].fill \in 0..MaxQty /\ orders[o].fill <= orders[o].qty
           /\ FillOf \in [DOMAIN orders -> Nat] /\ Sold = Sum(FillOf) /\ Sold \in Nat
           /\ Net \in 0..MaxQty /\ Net = MaxQty - Sold
<1>1. Len(orders) \in Nat /\ DOMAIN orders = 1..Len(orders) /\ orders \in [1..Len(orders) -> Orders]
    BY LenProperties DEF OrderShape
<1>2. IsFiniteSet(DOMAIN orders) /\ MaxQty \in Nat
    BY <1>1, Story, FS_Interval
<1>3. \A o \in DOMAIN orders : /\ orders[o] \in Orders /\ orders[o].qty \in 0..MaxQty /\ orders[o].fill \in Nat
                               /\ orders[o].fill <= orders[o].qty
    BY <1>1 DEF OrderShape, OrderOk, Orders
<1>4. \A o \in DOMAIN orders : orders[o].fill \in 0..MaxQty
    BY <1>2, <1>3
<1>5. FillOf \in [DOMAIN orders -> Nat] /\ Sold = Sum(FillOf)
    BY <1>3 DEF FillOf, Sold
<1>6. Sold \in Nat
    BY <1>2, <1>5, SumUnits
<1> QED
    BY <1>1, <1>2, <1>3, <1>4, <1>5, <1>6 DEF Net, OrderShape

(* What a signal closes is an open quantity or the venue's position.       *)
LEMMA OpenType ==
    ASSUME Told0, BookShape
    PROVE  /\ \A e \in Entries : Open(e) \in Nat /\ Open(e) <= Opened[e] /\ Open(e) <= MaxQty
           /\ \A es : /\ OpenOf(es) \in [Entries -> Nat]
                      /\ \A e \in Entries : OpenOf(es)[e] <= Opened[e]
                      /\ Sum(OpenOf(es)) \in 0..MaxQty
<1>1. \A e \in Entries : Open(e) \in Nat /\ Open(e) <= Opened[e] /\ Open(e) <= MaxQty
    <2> SUFFICES ASSUME NEW e \in Entries PROVE Open(e) \in Nat /\ Open(e) <= Opened[e] /\ Open(e) <= MaxQty
        OBVIOUS
    <2>1. execs[e].closed \in Nat
        BY DEF BookShape, Execs
    <2>2. Opened[e] \in Nat /\ Opened[e] <= MaxQty /\ MaxQty \in Nat
        BY Story
    <2>3. Open(e) = Minus(Opened[e], execs[e].closed)
        BY DEF Open
    <2>4. /\ Minus(Opened[e], execs[e].closed) \in Nat
          /\ Minus(Opened[e], execs[e].closed) <= Opened[e]
        BY <2>1, <2>2, MinusIs
    <2> QED
        BY <2>2, <2>3, <2>4
<1>2. ASSUME NEW es
      PROVE  /\ OpenOf(es) \in [Entries -> Nat]
             /\ \A e \in Entries : OpenOf(es)[e] <= Opened[e]
             /\ Sum(OpenOf(es)) \in 0..MaxQty
    <2>1. \A e \in Entries : Opened[e] \in Nat
        BY Story
    <2>2. OpenOf(es) \in [Entries -> Nat] /\ \A e \in Entries : OpenOf(es)[e] <= Opened[e]
        BY <1>1, <2>1 DEF OpenOf
    <2>3. IsFiniteSet(Entries) /\ Opened \in [Entries -> Nat] /\ MaxQty \in Nat
        BY Story
    <2>4. Sum(OpenOf(es)) \in Nat /\ Sum(OpenOf(es)) <= Sum(Opened)
        BY <2>2, <2>3, SumUnits, SumGrows
    <2> QED
        BY <2>2, <2>3, <2>4 DEF MaxQty
<1> QED
    BY <1>1, <1>2

LEMMA HalfIs == \A n \in Nat : n \div 2 \in Nat /\ n \div 2 <= n /\ 2 * (n \div 2) <= n
OBVIOUS

LEMMA CloseQtyType ==
    ASSUME Told0, BookShape, OrderShape, NEW c \in Closes
    PROVE  /\ LineageQty(c) \in 0..MaxQty /\ BookNet \in 0..MaxQty
           /\ CloseBase(c) \in 0..MaxQty /\ CloseCap(c) \in 0..MaxQty
           /\ CloseQty(c) \in 0..MaxQty /\ Label(c) \in 0..MaxQty /\ IsFull(c) \in BOOLEAN
           /\ CloseQty(c) <= CloseBase(c) /\ CloseQty(c) <= CloseCap(c)
<1>1. LineageQty(c) \in 0..MaxQty /\ BookNet \in 0..MaxQty
    BY OpenType DEF LineageQty, BookNet
<1>2. Net \in 0..MaxQty /\ MaxQty \in Nat
    BY OrdersAre, Story
<1>3. CloseBase(c) \in 0..MaxQty
    BY <1>1, <1>2 DEF CloseBase
<1>4. CloseCap(c) \in 0..MaxQty
    BY <1>1, <1>2 DEF CloseCap
<1> DEFINE want == IF c \in Halves THEN CloseBase(c) \div 2 ELSE CloseBase(c)
           most == IF want = 0 THEN CloseBase(c) ELSE want
<1>5. most \in 0..MaxQty /\ most <= CloseBase(c)
    <2>1. CloseBase(c) \div 2 \in Nat /\ CloseBase(c) \div 2 <= CloseBase(c)
        BY <1>2, <1>3, HalfIs
    <2> QED
        BY <1>2, <1>3, <2>1
<1>6. CloseQty(c) = Least(most, CloseCap(c))
    BY DEF CloseQty
<1> HIDE DEF most
<1>7. CloseQty(c) \in 0..MaxQty /\ CloseQty(c) <= CloseBase(c) /\ CloseQty(c) <= CloseCap(c)
    BY <1>2, <1>3, <1>4, <1>5, <1>6 DEF Least
<1>8. Label(c) \in 0..MaxQty /\ IsFull(c) \in BOOLEAN
    BY <1>2, <1>7 DEF Label, IsFull
<1> QED
    BY <1>1, <1>3, <1>4, <1>7, <1>8

(* What is booked of an exit.                                              *)
OpenIn(es) == [e \in Entries |-> IF e \in es THEN Open(e) ELSE 0]

LEMMA SharesFit ==
    ASSUME Told0, BookShape, NEW es, NEW q \in Nat, NEW full \in BOOLEAN
    PROVE  /\ ExitShares(es, q, full) \in [Entries -> Nat]
           /\ \A e \in Entries \ es : ExitShares(es, q, full)[e] = 0
           /\ ~full => Sum(ExitShares(es, q, full)) <= q
           /\ full => Sum(ExitShares(es, q, full)) <= Sum(OpenIn(es))
           /\ OpenIn(es) \in [Entries -> Nat]
<1>1. IsFiniteSet(Entries) /\ \A e \in Entries : Open(e) \in Nat
    BY Story, OpenType
<1> DEFINE offer == [e \in Entries |-> IF e \notin es THEN 0
                                      ELSE IF full \/ Open(e) > 0 THEN Open(e) ELSE q]
<1>2. offer \in [Entries -> Nat] /\ \A e \in Entries \ es : offer[e] = 0
    BY <1>1
<1>3. OpenIn(es) \in [Entries -> Nat]
    BY <1>1 DEF OpenIn
<1>4. CASE full
    <2>1. offer = OpenIn(es)
        BY <1>4 DEF OpenIn
    <2> DEFINE shares == [e \in Entries |-> IF q > Newer(offer, e) THEN offer[e] ELSE 0]
    <2>2. ExitShares(es, q, full) = shares
        BY <1>4 DEF ExitShares
    <2> HIDE DEF offer
    <2>3. shares \in [Entries -> Nat] /\ \A e \in Entries : shares[e] <= offer[e] /\ (offer[e] = 0 => shares[e] = 0)
        BY <1>2
    <2> HIDE DEF shares
    <2>4. Sum(shares) <= Sum(offer)
        BY <1>1, <1>2, <2>3, SumGrows
    <2> QED
        BY <1>2, <1>3, <1>4, <2>1, <2>2, <2>3, <2>4
<1>5. CASE ~full
    <2>1. ExitShares(es, q, full) = Spread(q, offer)
        BY <1>5 DEF ExitShares
    <2> HIDE DEF offer
    <2>2. /\ Spread(q, offer) \in [Entries -> Nat]
          /\ \A e \in Entries : Spread(q, offer)[e] <= offer[e]
          /\ Sum(Spread(q, offer)) <= q
        BY <1>2, SpreadFits
    <2>3. \A e \in Entries \ es : Spread(q, offer)[e] = 0
        BY <1>2, <2>2
    <2> QED
        BY <1>3, <1>5, <2>1, <2>2, <2>3
<1> QED
    BY <1>4, <1>5

LEMMA BookIs ==
    ASSUME Told0, BookShape, NEW shares \in [Entries -> Nat]
    PROVE  /\ Book(shares) \in [Entries -> Execs]
           /\ \A e \in Entries : /\ Book(shares)[e].closed = execs[e].closed + shares[e]
                                 /\ Book(shares)[e].pending = execs[e].pending
                                 /\ shares[e] = 0 => Book(shares)[e] = execs[e]
                                 /\ shares[e] # 0 =>
                                      Book(shares)[e].status =
                                         IF execs[e].closed + shares[e] >= Opened[e] THEN "closed" ELSE "open"
<1> SUFFICES ASSUME NEW e \in Entries
             PROVE  /\ Book(shares)[e] \in Execs
                    /\ Book(shares)[e].closed = execs[e].closed + shares[e]
                    /\ Book(shares)[e].pending = execs[e].pending
                    /\ shares[e] = 0 => Book(shares)[e] = execs[e]
                    /\ shares[e] # 0 =>
                         Book(shares)[e].status =
                            IF execs[e].closed + shares[e] >= Opened[e] THEN "closed" ELSE "open"
    BY DEF Book
<1>1. execs[e] \in Execs /\ shares[e] \in Nat
    BY DEF BookShape
<1>2. execs[e].closed \in Nat /\ execs[e].closed + shares[e] \in Nat
    BY <1>1 DEF Execs
<1>3. CASE shares[e] = 0
    BY <1>1, <1>2, <1>3 DEF Book
<1>4. CASE shares[e] # 0
    <2> DEFINE x == [execs[e] EXCEPT !.closed = @ + shares[e],
                       !.status = IF execs[e].closed + shares[e] >= Opened[e] THEN "closed" ELSE "open"]
    <2>1. Book(shares)[e] = x
        BY <1>4 DEF Book
    <2>2. /\ x \in Execs /\ x.closed = execs[e].closed + shares[e] /\ x.pending = execs[e].pending
          /\ x.status = IF execs[e].closed + shares[e] >= Opened[e] THEN "closed" ELSE "open"
        BY <1>1, <1>2 DEF Execs
    <2> QED
        BY <1>4, <2>1, <2>2
<1> QED
    BY <1>3, <1>4

(* An order that sold nothing adds nothing to what was sold.               *)
LEMMA MoreSold ==
    ASSUME Told0, OrderShape, NEW k, k \notin DOMAIN orders, DOMAIN orders' = DOMAIN orders \cup {k},
           \A o \in DOMAIN orders : orders'[o] = orders[o], orders'[k].fill = 0
    PROVE  Sold' = Sold
<1> DEFINE f == FillOf
           g == [o \in DOMAIN orders' |-> orders'[o].fill]
<1>1. f \in [DOMAIN orders -> Nat] /\ IsFiniteSet(DOMAIN orders) /\ Sold = Sum(f) /\ Sold \in Nat
    BY OrdersAre
<1>2. \A o \in DOMAIN orders : g[o] = f[o]
    BY DEF FillOf
<1>3. g[k] = 0
    OBVIOUS
<1>4. g \in [DOMAIN orders \cup {k} -> Nat]
    BY <1>1, <1>2, <1>3
<1>5. Sold' = Sum(g)
    BY DEF Sold
<1> HIDE DEF f, g
<1>6. ASSUME NEW D, IsFiniteSet(D), k \notin D, NEW a \in [D -> Nat], NEW b \in [D \cup {k} -> Nat],
             \A o \in D : b[o] = a[o]
      PROVE  Sum(b) = Sum(a) + b[k]
    BY <1>6, SumMore
<1>7. Sum(g) = Sum(f) + g[k]
    BY <1>1, <1>2, <1>4, <1>6
<1> QED
    BY <1>1, <1>3, <1>5, <1>7

(* The venue has an order more.                                            *)
LEMMA PlacedShape ==
    ASSUME Told0, OrderShape, UNCHANGED setting,
           NEW r \in Orders, r.fill = 0, orders' = Append(orders, r)
    PROVE  /\ OrderShape' /\ Sold' = Sold
           /\ Len(orders) + 1 \notin DOMAIN orders /\ DOMAIN orders' = DOMAIN orders \cup {Len(orders) + 1}
           /\ \A o \in DOMAIN orders : orders'[o] = orders[o]
           /\ orders'[Len(orders) + 1] = r
<1>1. Len(orders) \in Nat /\ DOMAIN orders = 1..Len(orders) /\ orders \in Seq(Orders)
    BY OrdersAre DEF OrderShape
<1> DEFINE k == Len(orders) + 1
<1>2. /\ orders' \in Seq(Orders) /\ Len(orders') = k /\ DOMAIN orders' = 1..k
      /\ \A o \in 1..Len(orders) : orders'[o] = orders[o]
      /\ orders'[k] = r
    BY <1>1
<1>3. k \notin DOMAIN orders /\ 1..k = 1..Len(orders) \cup {k}
    BY <1>1
<1>4. Orders' = Orders /\ MaxQty' = MaxQty
    BY StoryStays DEF Orders
<1>5. \A o \in DOMAIN orders' : OrderOk(o)'
    <2> SUFFICES ASSUME NEW o \in DOMAIN orders' PROVE OrderOk(o)'
        OBVIOUS
    <2>1. CASE o \in DOMAIN orders
        BY <1>1, <1>2, <2>1 DEF OrderOk, OrderShape
    <2>2. CASE o = k
        BY <1>2, <2>2 DEF OrderOk, Orders
    <2> QED
        BY <1>1, <1>2, <1>3, <2>1, <2>2
<1>6. Sold' = Sold
    <2>1. /\ k \notin DOMAIN orders /\ DOMAIN orders' = DOMAIN orders \cup {k}
          /\ \A o \in DOMAIN orders : orders'[o] = orders[o]
          /\ orders'[k].fill = 0
        BY <1>1, <1>2, <1>3
    <2> HIDE DEF k
    <2> QED
        BY <2>1, MoreSold
<1> QED
    BY <1>1, <1>2, <1>3, <1>4, <1>5, <1>6 DEF OrderShape

(* An order is no longer working: it is filled as far as n.                *)
EndsAt(o, n) == orders' = [orders EXCEPT ![o] = [@ EXCEPT !.working = FALSE, !.fill = n]]

LEMMA EndedShape ==
    ASSUME Told0, OrderShape, UNCHANGED setting,
           NEW o \in DOMAIN orders, NEW n \in Nat, n <= orders[o].qty, n <= orders[o].fill + Net, EndsAt(o, n)
    PROVE  /\ OrderShape' /\ Sold' = Sold + n - orders[o].fill
           /\ DOMAIN orders' = DOMAIN orders
           /\ \A p \in DOMAIN orders \ {o} : orders'[p] = orders[p]
           /\ orders'[o] = [orders[o] EXCEPT !.working = FALSE, !.fill = n]
           /\ ~orders'[o].working /\ orders'[o].fill = n
           /\ orders'[o].qty = orders[o].qty /\ orders'[o].who = orders[o].who /\ orders'[o].label = orders[o].label
<1>1. /\ Len(orders) \in Nat /\ DOMAIN orders = 1..Len(orders) /\ orders \in Seq(Orders)
      /\ orders[o] \in Orders /\ orders[o].fill \in Nat
    BY OrdersAre DEF OrderShape
<1> DEFINE x == [orders[o] EXCEPT !.working = FALSE, !.fill = n]
<1>2. /\ x \in Orders /\ ~x.working /\ x.fill = n /\ x.qty = orders[o].qty
      /\ x.who = orders[o].who /\ x.label = orders[o].label
    BY <1>1 DEF Orders
<1>3. orders' = [orders EXCEPT ![o] = x]
    BY DEF EndsAt
<1> HIDE DEF x
<1>4. /\ orders' \in Seq(Orders) /\ DOMAIN orders' = DOMAIN orders /\ orders'[o] = x
      /\ \A p \in DOMAIN orders \ {o} : orders'[p] = orders[p]
    BY <1>1, <1>2, <1>3, ExceptSeq
<1>5. Orders' = Orders /\ MaxQty' = MaxQty
    BY StoryStays DEF Orders
<1>6. \A p \in DOMAIN orders' : OrderOk(p)'
    <2> SUFFICES ASSUME NEW p \in DOMAIN orders' PROVE OrderOk(p)'
        OBVIOUS
    <2>1. CASE p # o
        BY <1>4, <2>1 DEF OrderOk, OrderShape
    <2>2. CASE p = o
        BY <1>2, <1>4, <2>2 DEF OrderOk
    <2> QED
        BY <2>1, <2>2
<1>7. Sold' = Sold + n - orders[o].fill
    <2> DEFINE f == FillOf
               g == [p \in DOMAIN orders' |-> orders'[p].fill]
    <2>1. f \in [DOMAIN orders -> Nat] /\ IsFiniteSet(DOMAIN orders) /\ Sold = Sum(f) /\ f[o] = orders[o].fill
        BY OrdersAre DEF FillOf
    <2>2. \A p \in DOMAIN orders \ {o} : g[p] = f[p]
        BY <1>4 DEF FillOf
    <2>3. g[o] = n
        BY <1>2, <1>4
    <2>4. g \in [DOMAIN orders -> Nat]
        <3>1. \A p \in DOMAIN orders : g[p] \in Nat
            BY <2>1, <2>2, <2>3
        <3> QED
            BY <1>4, <3>1
    <2>5. Sold' = Sum(g)
        BY DEF Sold
    <2> HIDE DEF f, g
    <2>6. f \in [DOMAIN orders -> Int] /\ g \in [DOMAIN orders -> Int]
        BY <2>1, <2>4
    <2>7. Sum(g) = Sum(f) + g[o] - f[o]
        BY <2>1, <2>2, <2>6, SumChange
    <2> QED
        BY <2>1, <2>3, <2>5, <2>7
<1>8. Sold' <= MaxQty
    BY <1>1, <1>7, OrdersAre, Story
<1> QED
    BY <1>2, <1>4, <1>5, <1>6, <1>7, <1>8 DEF OrderShape, x

LEMMA RefillIs ==
    ASSUME Told0, OrderShape, NEW o \in DOMAIN orders, NEW n \in Nat
    PROVE  [orders EXCEPT ![o].working = FALSE, ![o].fill = n]
             = [orders EXCEPT ![o] = [@ EXCEPT !.working = FALSE, !.fill = n]]
<1>1. orders \in [DOMAIN orders -> Orders]
    BY OrdersAre
<1> QED
    BY <1>1 DEF Orders

LEMMA WithdrawnIs ==
    ASSUME Told0, OrderShape, NEW o \in DOMAIN orders
    PROVE  [orders EXCEPT ![o].working = FALSE]
             = [orders EXCEPT ![o] = [@ EXCEPT !.working = FALSE, !.fill = orders[o].fill]]
<1>1. orders \in [DOMAIN orders -> Orders] /\ orders[o] \in Orders
    BY OrdersAre
<1>2. [orders[o] EXCEPT !.working = FALSE] = [orders[o] EXCEPT !.working = FALSE, !.fill = orders[o].fill]
    BY <1>1 DEF Orders
<1> QED
    BY <1>1, <1>2 DEF Orders

----------------------------------------------------------------------------
(* Every step keeps the shape *)

LEMMA SetsStay ==
    ASSUME UNCHANGED setting, DOMAIN orders \subseteq DOMAIN orders'
    PROVE  /\ Execs' = Execs /\ Orders' = Orders
           /\ ExitRows \subseteq ExitRows' /\ Jobs \subseteq Jobs'
<1>1. Entries' = Entries /\ MaxQty' = MaxQty
    BY StoryStays
<1> QED
    BY <1>1 DEF Execs, Orders, ExitRows, Jobs

LEMMA KeptOrders ==
    ASSUME OrderShape, UNCHANGED setting, UNCHANGED orders
    PROVE  OrderShape' /\ Sold' = Sold /\ Net' = Net
<1>1. Entries' = Entries /\ MaxQty' = MaxQty /\ Orders' = Orders
    BY StoryStays, SetsStay
<1>2. Sold' = Sold /\ Net' = Net
    BY <1>1 DEF Sold, Net
<1> QED
    BY <1>1, <1>2 DEF OrderShape, OrderOk

LEMMA KeptBook ==
    ASSUME BookShape, UNCHANGED setting, UNCHANGED <<execs, live>>,
           csig' \in [Closes -> {"none", "pending", "executed", "rejected"}]
    PROVE  BookShape'
<1>1. Entries' = Entries /\ MaxQty' = MaxQty
    BY StoryStays
<1> QED
    BY <1>1 DEF BookShape, Execs

LEMMA KeptRows ==
    ASSUME RowShape, UNCHANGED setting, UNCHANGED rows, DOMAIN orders \subseteq DOMAIN orders'
    PROVE  RowShape'
<1>1. ExitRows \subseteq ExitRows'
    BY SetsStay
<1> QED
    BY <1>1 DEF RowShape

LEMMA PutRows ==
    ASSUME RowShape, UNCHANGED setting, UNCHANGED orders,
           NEW who \in Closes \cup Entries, NEW label \in 0..MaxQty,
           NEW status \in {"unknown", "filled", "cancelled"}, NEW ord \in DOMAIN orders,
           rows' = Put(who, label, status, ord)
    PROVE  RowShape'
<1> DEFINE new == [who |-> who, label |-> label, status |-> status, ord |-> ord]
<1>1. new \in ExitRows' /\ new.who = who /\ new.label = label
    BY StoryStays DEF ExitRows
<1>2. rows \subseteq ExitRows'
    BY SetsStay DEF RowShape
<1>3. \A r : r \in rows' <=> r = new \/ (r \in rows /\ (r.who # who \/ r.label # label))
    BY DEF Put
<1> HIDE DEF new
<1>4. rows' \subseteq ExitRows'
    BY <1>1, <1>2, <1>3
<1>5. ASSUME NEW q \in rows', NEW r \in rows', q.who = r.who, q.label = r.label
      PROVE  q = r
    BY <1>1, <1>3, <1>5 DEF RowShape
<1> QED
    BY <1>4, <1>5 DEF RowShape

(* The lock's holder is done, or dies.                                     *)
LEMMA KeptLock ==
    ASSUME LockShape, UNCHANGED setting, DOMAIN orders \subseteq DOMAIN orders',
           job' \in {job, NoJob}, pc' \in {pc, "idle", "poll2"}, todo' \subseteq todo, snap' = snap
    PROVE  LockShape'
<1>1. Jobs \subseteq Jobs' /\ Entries' = Entries /\ MaxQty' = MaxQty
    BY SetsStay, StoryStays
<1> QED
    BY <1>1 DEF LockShape

LEMMA KeptCounts ==
    ASSUME CountShape, UNCHANGED <<got, acks, asked>>, inbox' \subseteq inbox
    PROVE  CountShape'
BY DEF CountShape

(* An order is placed, or an earlier one is taken for it.                  *)
LEMMA PlaceShape ==
    ASSUME Shape, UNCHANGED setting, NEW who \in Closes \cup Entries, NEW label \in 0..MaxQty,
           NEW qty \in 0..MaxQty, NEW full \in BOOLEAN, Place(who, label, qty, full)
    PROVE  /\ OrderShape' /\ Sold' = Sold /\ DOMAIN orders \subseteq DOMAIN orders'
           /\ job' \in Jobs' /\ pc' = "reply"
           /\ \A o \in DOMAIN orders : orders'[o] = orders[o]
           /\ job' = [who |-> who, label |-> label, qty |-> qty, full |-> full, ord |-> job'.ord]
           /\ adapter.dedup # "reuse" =>
                /\ job'.ord \notin DOMAIN orders /\ DOMAIN orders' = DOMAIN orders \cup {job'.ord}
                /\ orders'[job'.ord] = [who |-> who, label |-> label, qty |-> qty, fill |-> 0, working |-> TRUE]
<1> DEFINE old == Reusable(who, label)
           k == Len(orders) + 1
           r == [who |-> who, label |-> label, qty |-> qty, fill |-> 0, working |-> TRUE]
           j(o) == [who |-> who, label |-> label, qty |-> qty, full |-> full, ord |-> o]
<1>1. old \subseteq DOMAIN orders /\ (adapter.dedup # "reuse" => old = {})
    BY DEF Reusable, Seen
<1>2. /\ job' = j(IF old # {} THEN Max(old) ELSE k)
      /\ orders' = IF old # {} THEN orders ELSE Append(orders, r)
      /\ pc' = "reply"
    BY DEF Place
<1>3. MaxQty' = MaxQty /\ Entries' = Entries
    BY StoryStays
<1>4. CASE old # {}
    <2>1. orders' = orders
        BY <1>2, <1>4
    <2>2. Max(old) \in old
        <3>1. PICK m \in old : TRUE
            BY <1>4
        <3>2. \A p \in old : m >= p /\ p >= m
            <4>1. /\ m \in Seen(who, label) /\ \A p \in Seen(who, label) : p <= m
                  /\ \A q \in old : q \in Seen(who, label) /\ \A p \in Seen(who, label) : p <= q
                BY <3>1 DEF Reusable
            <4>2. DOMAIN orders = 1..Len(orders) /\ Len(orders) \in Nat
                BY OrdersAre DEF Shape
            <4>3. \A p \in old : p <= m /\ m <= p /\ p \in Int /\ m \in Int
                BY <1>1, <4>1, <4>2
            <4> QED
                BY <4>3
        <3> QED
            BY <3>1, <3>2 DEF Max
    <2>3. OrderShape' /\ Sold' = Sold
        BY <2>1, KeptOrders DEF Shape
    <2>4. job' = j(Max(old))
        BY <1>2, <1>4
    <2>5. j(Max(old)) \in Jobs' /\ j(Max(old)).ord = Max(old)
        BY <1>1, <1>3, <2>1, <2>2 DEF Jobs
    <2> QED
        BY <1>1, <1>2, <1>4, <2>1, <2>3, <2>4, <2>5
<1>5. CASE old = {}
    <2>1. orders' = Append(orders, r) /\ job' = j(k)
        BY <1>2, <1>5
    <2>2. r \in Orders /\ r.fill = 0
        BY Story DEF Orders, Shape
    <2> HIDE DEF r
    <2>3. /\ OrderShape' /\ Sold' = Sold
          /\ k \notin DOMAIN orders /\ DOMAIN orders' = DOMAIN orders \cup {k}
          /\ \A o \in DOMAIN orders : orders'[o] = orders[o]
          /\ orders'[k] = r
        BY <2>1, <2>2, PlacedShape DEF Shape
    <2> HIDE DEF k
    <2>4. j(k) \in Jobs' /\ j(k).ord = k
        BY <1>3, <2>3 DEF Jobs
    <2> QED
        BY <1>2, <2>1, <2>3, <2>4 DEF r
<1> QED
    BY <1>4, <1>5

LEMMA JobIs ==
    ASSUME Shape, job # NoJob
    PROVE  /\ job \in Jobs /\ job.who \in Closes \cup Entries /\ job.label \in 0..MaxQty /\ job.qty \in 0..MaxQty
           /\ job.full \in BOOLEAN /\ job.ord \in DOMAIN orders
           /\ orders[job.ord].fill \in Nat /\ orders[job.ord].qty \in Nat
BY OrdersAre DEF Shape, LockShape, Jobs

(* The steps that leave the orders and the lock alone.                     *)
LEMMA IdleShape ==
    ASSUME Shape, UNCHANGED setting, UNCHANGED <<orders, lockVars>>, BookShape', RowShape', CountShape'
    PROVE  Shape'
<1>1. OrderShape' /\ Told0'
    BY KeptOrders, StoryStays DEF Shape
<1>2. LockShape'
    BY KeptLock DEF Shape, lockVars
<1> QED
    BY <1>1, <1>2 DEF Shape

LEMMA DeliverShape ==
    ASSUME Shape, NEW c \in Closes, Deliver(c)
    PROVE  Shape'
<1>1. UNCHANGED setting /\ UNCHANGED <<orders, lockVars, bookVars>>
    BY DEF Deliver
<1>2. BookShape' /\ RowShape'
    BY <1>1, KeptBook, KeptRows DEF bookVars, BookShape, Shape
<1>3. CountShape'
    BY DEF Deliver, CountShape, Shape
<1> QED
    BY <1>1, <1>2, <1>3, IdleShape

LEMMA AnswerShape ==
    ASSUME Shape, UNCHANGED setting, NEW c \in Closes,
           RefuseClose(c) \/ NothingOpen(c) \/ WaitForPrior(c) \/ Duplicate(c) \/ CloseRefused(c)
    PROVE  Shape'
<1>1. /\ UNCHANGED <<orders, lockVars, execs, live, rows, got, asked>>
      /\ inbox' \subseteq inbox
      /\ csig' \in {[csig EXCEPT ![c] = s] : s \in {"executed", "pending", "rejected"}}
      /\ acks' = acks \/ AckExecuted(c)
    BY DEF RefuseClose, NothingOpen, WaitForPrior, Duplicate, CloseRefused, Reject, TakeNext
<1>2. csig' \in [Closes -> {"none", "pending", "executed", "rejected"}]
    BY <1>1 DEF Shape, BookShape
<1>3. BookShape' /\ RowShape'
    BY <1>1, <1>2, KeptBook, KeptRows DEF Shape
<1>4. CountShape'
    BY <1>1 DEF CountShape, Shape, AckExecuted
<1> QED
    BY <1>1, <1>3, <1>4, IdleShape

LEMMA AlreadyFlatShape ==
    ASSUME Shape, UNCHANGED setting, NEW c \in Closes, AlreadyFlat(c)
    PROVE  Shape'
<1>1. /\ UNCHANGED <<orders, lockVars, rows, got, asked>>
      /\ inbox' \subseteq inbox
      /\ execs' = [e \in Entries |->
                     IF e \in Lineage(c) THEN [execs[e] EXCEPT !.status = "closed"] ELSE execs[e]]
      /\ live' \subseteq live
      /\ csig' = [csig EXCEPT ![c] = "executed"]
      /\ AckExecuted(c)
    BY DEF AlreadyFlat, TakeNext
<1>2. Entries' = Entries /\ Execs' = Execs
    BY StoryStays, SetsStay, <1>1
<1>3. execs' \in [Entries -> Execs]
    <2>1. \A e \in Entries : execs[e] \in Execs /\ [execs[e] EXCEPT !.status = "closed"] \in Execs
        BY DEF Shape, BookShape, Execs
    <2> QED
        BY <1>1, <2>1
<1>4. BookShape'
    BY <1>1, <1>2, <1>3 DEF Shape, BookShape
<1>5. RowShape'
    BY <1>1, KeptRows DEF Shape
<1>6. CountShape'
    BY <1>1 DEF CountShape, Shape, AckExecuted
<1> QED
    BY <1>1, <1>4, <1>5, <1>6, IdleShape

LEMMA PlaceCloseShape ==
    ASSUME Shape, UNCHANGED setting, NEW c \in Closes, PlaceClose(c)
    PROVE  Shape'
<1>1. Told0' /\ Entries' = Entries /\ MaxQty' = MaxQty
    BY StoryStays DEF Shape
<1>2. CloseQty(c) \in 0..MaxQty /\ Label(c) \in 0..MaxQty /\ IsFull(c) \in BOOLEAN /\ MaxQty \in Nat
    BY CloseQtyType, Story DEF Shape
<1>3. /\ Place(c, Label(c), CloseQty(c), IsFull(c))
      /\ asked' = asked \/ asked' = [asked EXCEPT ![c] = CloseQty(c)]
      /\ UNCHANGED <<execs, live, csig, rows, todo, snap, got, acks>>
      /\ inbox' \subseteq inbox
    BY DEF PlaceClose, bookVars, TakeNext
<1>4. OrderShape' /\ DOMAIN orders \subseteq DOMAIN orders' /\ job' \in Jobs' /\ pc' = "reply"
    <2>1. PICK l, q, f : l = Label(c) /\ q = CloseQty(c) /\ f = IsFull(c)
        OBVIOUS
    <2>2. l \in 0..MaxQty /\ q \in 0..MaxQty /\ f \in BOOLEAN /\ Place(c, l, q, f)
        BY <1>2, <1>3, <2>1
    <2>3. c \in Closes \cup Entries
        OBVIOUS
    <2> QED
        BY <2>2, <2>3, PlaceShape
<1>5. LockShape'
    BY <1>1, <1>3, <1>4 DEF LockShape, Shape
<1>6. BookShape'
    BY <1>3, KeptBook DEF Shape, BookShape
<1>7. RowShape'
    BY <1>3, <1>4, KeptRows DEF Shape
<1>8. CountShape'
    <2>1. asked' \in [Closes -> Nat]
        BY <1>2, <1>3 DEF Shape, CountShape
    <2> QED
        BY <1>3, <2>1 DEF Shape, CountShape
<1> QED
    BY <1>1, <1>4, <1>5, <1>6, <1>7, <1>8 DEF Shape

LEMMA HandleShape ==
    ASSUME Shape, NEW c \in Closes, HandleStep(c)
    PROVE  Shape'
<1>1. UNCHANGED setting
    BY DEF HandleStep
<1>2. \/ RefuseClose(c) \/ NothingOpen(c) \/ WaitForPrior(c) \/ Duplicate(c) \/ CloseRefused(c)
      \/ AlreadyFlat(c) \/ PlaceClose(c)
    BY DEF HandleStep
<1> QED
    BY <1>1, <1>2, AnswerShape, AlreadyFlatShape, PlaceCloseShape

LEMMA BookCloseShape ==
    ASSUME Shape, UNCHANGED setting, UNCHANGED orders, job # NoJob,
           NEW c \in Closes, NEW n \in Nat, n <= job.qty, BookClose(c, n), UNCHANGED <<inbox, got, asked>>
    PROVE  BookShape' /\ RowShape' /\ CountShape'
<1> DEFINE es == Lineage(c)
           all == n = job.qty
           shares == ExitShares(es, n, all /\ job.full)
           booked == Book(shares)
<1>1. /\ execs' = IF all THEN booked
                   ELSE [e \in Entries |->
                           IF e \in es THEN [booked[e] EXCEPT !.status = "closing", !.pending = job.qty - n]
                           ELSE booked[e]]
      /\ rows' = Put(c, job.label, "filled", job.ord)
      /\ live' = IF all /\ job.full THEN live \ es ELSE live
      /\ csig' = [csig EXCEPT ![c] = IF all THEN "executed" ELSE "pending"]
      /\ IF all THEN AckExecuted(c) ELSE UNCHANGED acks
    BY DEF BookClose
<1>2. job.qty \in 0..MaxQty /\ job.full \in BOOLEAN /\ job.ord \in DOMAIN orders /\ job.label \in 0..MaxQty
    BY JobIs
<1>3. (all /\ job.full) \in BOOLEAN
    OBVIOUS
<1>4. shares \in [Entries -> Nat]
    <2> HIDE DEF es, all
    <2> QED
        BY <1>3, SharesFit DEF Shape
<1>5. booked \in [Entries -> Execs]
    <2> HIDE DEF shares
    <2> QED
        BY <1>4, BookIs DEF Shape
<1> HIDE DEF es, shares, booked
<1>6. execs' \in [Entries -> Execs]
    <2>1. MaxQty \in Nat /\ job.qty - n \in 0..MaxQty
        BY <1>2, Story DEF Shape
    <2> DEFINE x(e) == [booked[e] EXCEPT !.status = "closing", !.pending = job.qty - n]
    <2>2. \A e \in Entries : x(e) \in Execs
        BY <1>5, <2>1 DEF Execs
    <2>3. execs' = IF all THEN booked ELSE [e \in Entries |-> IF e \in es THEN x(e) ELSE booked[e]]
        BY <1>1
    <2> HIDE DEF x
    <2> QED
        BY <1>5, <2>2, <2>3
<1>7. Entries' = Entries /\ Execs' = Execs
    BY StoryStays, SetsStay
<1>8. BookShape'
    BY <1>1, <1>6, <1>7 DEF Shape, BookShape
<1>9. RowShape'
    BY <1>1, <1>2, PutRows DEF Shape
<1>10. CountShape'
    <2>1. acks' = [acks EXCEPT ![c] = @ + 1] \/ acks' = acks
        BY <1>1 DEF AckExecuted
    <2>2. acks' \in [Closes -> Nat]
        BY <2>1 DEF Shape, CountShape
    <2> QED
        BY <2>2 DEF Shape, CountShape
<1> QED
    BY <1>8, <1>9, <1>10

LEMMA BookRetryShape ==
    ASSUME Shape, UNCHANGED setting, UNCHANGED orders, job # NoJob,
           NEW e \in Entries, NEW n \in Nat, n <= job.qty, BookRetry(e, n), UNCHANGED <<inbox, got, asked>>
    PROVE  BookShape' /\ RowShape' /\ CountShape'
<1> DEFINE x == execs[e]
           closed == x.closed + n
           all == n = job.qty
           ends == n >= snap \/ closed >= Opened[e] \/ (x.pending = 0 /\ all)
           y == [status  |-> IF ends THEN "closed" ELSE IF all THEN "open" ELSE "closing",
                 closed  |-> closed,
                 pending |-> IF ends \/ all \/ x.pending = 0 THEN 0 ELSE job.qty - n]
<1>1. /\ execs' = [execs EXCEPT ![e] = y]
      /\ live' = IF ends THEN live \ {e} ELSE live
      /\ UNCHANGED <<rows, csig, acks>>
    BY DEF BookRetry
<1>2. job.qty \in 0..MaxQty /\ MaxQty \in Nat
    BY JobIs, Story DEF Shape
<1>3. y \in Execs
    <2>1. x \in Execs
        BY DEF Shape, BookShape
    <2>2. closed \in Nat
        BY <2>1 DEF Execs
    <2>3. job.qty - n \in 0..MaxQty /\ 0 \in 0..MaxQty
        BY <1>2
    <2> HIDE DEF ends, all, closed
    <2> QED
        BY <2>2, <2>3 DEF Execs
<1>4. Entries' = Entries /\ Execs' = Execs
    BY StoryStays, SetsStay
<1> HIDE DEF y, ends
<1>5. BookShape'
    BY <1>1, <1>3, <1>4 DEF Shape, BookShape
<1>6. RowShape'
    BY <1>1, KeptRows DEF Shape
<1>7. CountShape'
    BY <1>1, KeptCounts DEF Shape
<1> QED
    BY <1>5, <1>6, <1>7

LEMMA UnconfirmedShape ==
    ASSUME Shape, UNCHANGED setting, job # NoJob, Unconfirmed
    PROVE  BookShape' /\ CountShape'
<1>1. job.qty \in 0..MaxQty /\ Entries' = Entries /\ Execs' = Execs
    <2>1. Execs' = Execs
        BY StoryStays DEF Execs
    <2> QED
        BY <2>1, JobIs, StoryStays
<1>2. UNCHANGED <<live, inbox, got, acks, asked>>
    BY DEF Unconfirmed
<1>3. /\ execs' \in [Entries -> Execs]
      /\ csig' \in [Closes -> {"none", "pending", "executed", "rejected"}]
    <2>1. CASE job.who \in Closes
        <3>1. /\ execs' = [e \in Entries |->
                          IF e \in Lineage(job.who)
                          THEN [execs[e] EXCEPT !.status = "closing", !.pending = job.qty]
                          ELSE execs[e]]
              /\ csig' = [csig EXCEPT ![job.who] = "pending"]
            BY <2>1 DEF Unconfirmed
        <3>2. \A e \in Entries : /\ execs[e] \in Execs
                                 /\ [execs[e] EXCEPT !.status = "closing", !.pending = job.qty] \in Execs
            BY <1>1 DEF Shape, BookShape, Execs
        <3>3. execs' \in [Entries -> Execs]
            BY <3>1, <3>2
        <3> QED
            BY <2>1, <3>1, <3>3 DEF Shape, BookShape
    <2>2. CASE job.who \notin Closes
        BY <2>2 DEF Unconfirmed, Shape, BookShape
    <2> QED
        BY <2>1, <2>2
<1>4. BookShape'
    BY <1>1, <1>2, <1>3 DEF Shape, BookShape
<1>5. CountShape'
    BY <1>2, KeptCounts DEF Shape
<1> QED
    BY <1>4, <1>5

LEMMA BookFillShape ==
    ASSUME Shape, UNCHANGED setting, job # NoJob, NEW n \in Nat, n <= job.qty, BookFill(n)
    PROVE  Shape'
<1>1. UNCHANGED <<orders, snap, inbox, got, asked>> /\ todo' \subseteq todo /\ job' = NoJob /\ pc' = "idle"
    BY DEF BookFill, Done
<1>2. BookShape' /\ RowShape' /\ CountShape'
    <2>1. CASE job.who \in Closes
        <3>1. BookClose(job.who, n)
            BY <2>1 DEF BookFill
        <3> QED
            BY <1>1, <2>1, <3>1, BookCloseShape
    <2>2. CASE job.who \notin Closes
        <3>1. BookRetry(job.who, n)
            BY <2>2 DEF BookFill
        <3>2. job.who \in Entries
            BY <2>2, JobIs
        <3> QED
            BY <1>1, <3>1, <3>2, BookRetryShape
    <2> QED
        BY <2>1, <2>2
<1>3. OrderShape' /\ Told0'
    BY <1>1, KeptOrders, StoryStays DEF Shape
<1>4. LockShape'
    BY <1>1, KeptLock DEF Shape
<1> QED
    BY <1>2, <1>3, <1>4 DEF Shape

(* What a settled order is booked with.                                    *)
LEMMA FillsIt ==
    ASSUME Shape, job # NoJob
    PROVE  /\ Least(orders[job.ord].fill, job.qty) \in Nat
           /\ Least(orders[job.ord].fill, job.qty) <= job.qty
           /\ job.qty \in Nat
<1>1. orders[job.ord].fill \in Nat /\ job.qty \in 0..MaxQty /\ MaxQty \in Nat
    BY JobIs, Story DEF Shape
<1>2. PICK m, n : m = orders[job.ord].fill /\ n = job.qty /\ m \in Nat /\ n \in Nat
    BY <1>1
<1> QED
    BY <1>2, LeastIs

(* The order is withdrawn, or it is not.                                   *)
LEMMA WithdrawShape ==
    ASSUME Shape, UNCHANGED setting, NEW o \in DOMAIN orders,
           orders' = [orders EXCEPT ![o].working = FALSE] \/ orders' = orders
    PROVE  OrderShape' /\ DOMAIN orders' = DOMAIN orders
<1>1. CASE orders' = orders
    BY <1>1, KeptOrders DEF Shape
<1>2. CASE orders' = [orders EXCEPT ![o].working = FALSE]
    <2>1. EndsAt(o, orders[o].fill)
        BY <1>2, WithdrawnIs DEF EndsAt, Shape
    <2>2. /\ orders[o].fill \in Nat /\ orders[o].fill <= orders[o].qty
          /\ orders[o].fill <= orders[o].fill + Net
        <3>1. orders[o].fill \in 0..MaxQty /\ orders[o].fill <= orders[o].qty /\ Net \in 0..MaxQty
            BY OrdersAre DEF Shape
        <3> QED
            BY <3>1
    <2> QED
        BY <2>1, <2>2, EndedShape DEF Shape
<1> QED
    BY <1>1, <1>2

LEMMA SettleShape ==
    ASSUME Shape, SettleStep
    PROVE  Shape'
<1>0. UNCHANGED setting
    BY DEF SettleStep
<1>1. CASE SettleFilled
    BY <1>0, <1>1, FillsIt, BookFillShape DEF SettleFilled
<1>2. CASE TrustAck
    BY <1>0, <1>2, FillsIt, BookFillShape DEF TrustAck
<1>3. CASE SettleUnfilled
    <2>1. job # NoJob /\ Unconfirmed /\ UNCHANGED <<rows, orders>>
        BY <1>3 DEF SettleUnfilled
    <2>2. BookShape' /\ CountShape'
        BY <1>0, <2>1, UnconfirmedShape
    <2>3. RowShape' /\ OrderShape' /\ Told0'
        BY <1>0, <2>1, KeptRows, KeptOrders, StoryStays DEF Shape
    <2>4. LockShape'
        BY <1>0, <2>1, KeptLock DEF Shape, Unconfirmed, Done
    <2> QED
        BY <2>2, <2>3, <2>4 DEF Shape
<1>4. CASE PollTimeout
    <2>1. /\ job # NoJob /\ UNCHANGED <<execs, live, csig, rows, job, todo, snap, inbox, got, acks, asked>>
          /\ pc' = "poll2"
          /\ orders' = [orders EXCEPT ![job.ord].working = FALSE] \/ orders' = orders
        BY <1>4 DEF PollTimeout, bookVars
    <2>2. OrderShape' /\ DOMAIN orders' = DOMAIN orders
        BY <1>0, <2>1, JobIs, WithdrawShape
    <2>3. BookShape' /\ CountShape' /\ RowShape' /\ Told0'
        BY <1>0, <2>1, <2>2, KeptBook, KeptCounts, KeptRows, StoryStays DEF Shape, BookShape
    <2>4. LockShape'
        BY <1>0, <2>1, <2>2, KeptLock DEF Shape
    <2> QED
        BY <2>2, <2>3, <2>4 DEF Shape
<1>5. CASE SettleTimeout
    <2>1. job # NoJob /\ Unconfirmed /\ UNCHANGED orders /\ rows' = Put(job.who, job.label, "unknown", job.ord)
        BY <1>5 DEF SettleTimeout
    <2>2. BookShape' /\ CountShape'
        BY <1>0, <2>1, UnconfirmedShape
    <2>3. OrderShape' /\ Told0'
        BY <1>0, <2>1, KeptOrders, StoryStays DEF Shape
    <2>4. RowShape'
        BY <1>0, <2>1, JobIs, PutRows DEF Shape
    <2>5. LockShape'
        BY <1>0, <2>1, KeptLock DEF Shape, Unconfirmed, Done
    <2> QED
        BY <2>2, <2>3, <2>4, <2>5 DEF Shape
<1>6. CASE PlaceThrows
    <2>1. /\ job # NoJob /\ UNCHANGED <<execs, live, rows, snap, inbox, got, acks, asked>>
          /\ csig' = csig \/ (job.who \in Closes /\ csig' = [csig EXCEPT ![job.who] = "rejected"])
          /\ job' = NoJob /\ pc' = "idle" /\ todo' \subseteq todo
          /\ orders' = [orders EXCEPT ![job.ord].working = FALSE] \/ orders' = orders
        BY <1>6 DEF PlaceThrows, Done
    <2>2. OrderShape' /\ DOMAIN orders' = DOMAIN orders
        BY <1>0, <2>1, JobIs, WithdrawShape
    <2>3. csig' \in [Closes -> {"none", "pending", "executed", "rejected"}]
        BY <2>1 DEF Shape, BookShape
    <2>4. BookShape' /\ CountShape' /\ RowShape' /\ Told0'
        BY <1>0, <2>1, <2>2, <2>3, KeptBook, KeptCounts, KeptRows, StoryStays DEF Shape
    <2>5. LockShape'
        BY <1>0, <2>1, <2>2, KeptLock DEF Shape
    <2> QED
        BY <2>2, <2>4, <2>5 DEF Shape
<1> QED
    BY <1>1, <1>2, <1>3, <1>4, <1>5, <1>6 DEF SettleStep

----------------------------------------------------------------------------
(* The tick, the resolver, the venue *)

LEMMA NextIs ==
    ASSUME Told0, LockShape, todo # {}
    PROVE  Min(todo) \in todo /\ Min(todo) \in Entries /\ \A e \in todo : Min(todo) <= e
<1>1. todo \subseteq Entries /\ Entries \subseteq Nat
    BY Story DEF LockShape
<1>2. PICK m \in todo : \A e \in todo : ~(e < m)
    <2>1. PICK m \in todo : \A e \in todo : <<e, m>> \notin {ss \in Nat \X Nat : ss[1] < ss[2]}
        BY <1>1, NatOrder, WFMin
    <2>2. \A e \in todo : e \in Nat /\ m \in Nat
        BY <1>1
    <2> QED
        BY <2>1, <2>2
<1>3. \A e \in todo : m <= e
    BY <1>1, <1>2
<1>4. Min(todo) \in todo /\ \A e \in todo : Min(todo) <= e
    BY <1>3 DEF Min
<1> QED
    BY <1>1, <1>4

LEMMA ReissueType ==
    ASSUME Shape, NEW e \in Entries
    PROVE  /\ ReissueQty(e) \in 0..MaxQty /\ ReissueQty(e) <= snap
           /\ (Open(e) > 0 => ReissueQty(e) <= Open(e))
           /\ (execs[e].pending > 0 => ReissueQty(e) <= execs[e].pending)
<1>1. /\ Open(e) \in 0..MaxQty /\ snap \in 0..MaxQty /\ execs[e].pending \in 0..MaxQty /\ MaxQty \in Nat
    BY OpenType, Story DEF Shape, LockShape, BookShape, Execs
<1> DEFINE bound == IF Open(e) > 0 THEN Open(e) ELSE snap
           owed == IF execs[e].pending > 0 THEN execs[e].pending ELSE bound
<1>2. bound \in 0..MaxQty /\ owed \in 0..MaxQty
    BY <1>1
<1>3. ReissueQty(e) = Least(owed, Least(snap, bound))
    BY DEF ReissueQty
<1>4. ReissueQty(e) \in Nat /\ ReissueQty(e) <= owed /\ ReissueQty(e) <= snap /\ ReissueQty(e) <= bound
    BY <1>1, <1>2, <1>3 DEF Least
<1>5. ReissueQty(e) <= MaxQty
    BY <1>1, <1>4
<1> QED
    BY <1>1, <1>4, <1>5

LEMMA RetryFlatShape ==
    ASSUME Shape, UNCHANGED setting, NEW e \in Entries, RetryFlat(e)
    PROVE  Shape'
<1>1. /\ execs' = [execs EXCEPT ![e] = [@ EXCEPT !.status = "closed", !.pending = 0]]
      /\ live' = live \ {e} /\ todo' = todo \ {e}
      /\ UNCHANGED <<csig, rows, job, pc, snap, inbox, got, acks, asked, orders>>
    BY DEF RetryFlat
<1>2. Entries' = Entries /\ Execs' = Execs
    BY <1>1, StoryStays, SetsStay
<1>3. [execs[e] EXCEPT !.status = "closed", !.pending = 0] \in Execs
    <2>1. execs[e] \in Execs /\ 0 \in 0..MaxQty
        BY Story DEF Shape, BookShape
    <2> QED
        BY <2>1 DEF Execs
<1>4. BookShape'
    BY <1>1, <1>2, <1>3 DEF Shape, BookShape
<1>5. RowShape' /\ OrderShape' /\ CountShape' /\ Told0' /\ LockShape'
    BY <1>1, KeptRows, KeptOrders, KeptCounts, KeptLock, StoryStays DEF Shape
<1> QED
    BY <1>4, <1>5 DEF Shape

LEMMA RetryCloseShape ==
    ASSUME Shape, UNCHANGED setting, NEW e \in Entries, RetryClose(e)
    PROVE  Shape'
<1>1. /\ Place(e, 0, ReissueQty(e), FALSE)
      /\ UNCHANGED <<execs, live, csig, rows, todo, snap, inbox, got, acks, asked>>
    BY DEF RetryClose, bookVars
<1>2. PICK q \in 0..MaxQty : q = ReissueQty(e)
    BY ReissueType
<1>3. e \in Closes \cup Entries /\ 0 \in 0..MaxQty /\ FALSE \in BOOLEAN /\ Place(e, 0, q, FALSE)
    <2>1. MaxQty \in Nat
        BY Story DEF Shape
    <2>2. 0 \in 0..MaxQty
        BY <2>1
    <2> QED
        BY <1>1, <1>2, <2>2
<1>4. OrderShape' /\ DOMAIN orders \subseteq DOMAIN orders' /\ job' \in Jobs' /\ pc' = "reply"
    BY <1>3, PlaceShape
<1>5. Told0' /\ Entries' = Entries /\ MaxQty' = MaxQty
    BY StoryStays DEF Shape
<1>6. LockShape'
    BY <1>1, <1>4, <1>5 DEF LockShape, Shape
<1>7. BookShape' /\ RowShape' /\ CountShape'
    BY <1>1, <1>4, KeptBook, KeptRows, KeptCounts DEF Shape, BookShape
<1> QED
    BY <1>4, <1>5, <1>6, <1>7 DEF Shape

LEMMA RetryShape ==
    ASSUME Shape, RetryStep
    PROVE  Shape'
<1>0. UNCHANGED setting
    BY DEF RetryStep
<1>1. CASE StartTick
    <2>1. /\ todo' \subseteq Entries /\ snap' = Net
          /\ UNCHANGED <<execs, live, csig, rows, job, pc, inbox, got, acks, asked, orders>>
        BY <1>1 DEF StartTick, bookVars
    <2>2. Told0' /\ Entries' = Entries /\ MaxQty' = MaxQty /\ Net \in 0..MaxQty /\ Jobs' = Jobs
        <3>1. Told0' /\ Entries' = Entries /\ MaxQty' = MaxQty /\ Net \in 0..MaxQty
            BY <1>0, StoryStays, OrdersAre DEF Shape
        <3> QED
            BY <2>1, <3>1 DEF Jobs
    <2>3. LockShape'
        BY <2>1, <2>2 DEF LockShape, Shape
    <2>4. BookShape' /\ RowShape' /\ CountShape' /\ OrderShape'
        BY <1>0, <2>1, KeptBook, KeptRows, KeptCounts, KeptOrders DEF Shape, BookShape
    <2> QED
        BY <2>2, <2>3, <2>4 DEF Shape
<1>2. ASSUME NEW e \in Entries, RetryWaits(e) \/ RetryPostponed(e)
      PROVE  Shape'
    <2>1. /\ todo' \subseteq todo
          /\ UNCHANGED <<execs, live, csig, rows, job, pc, snap, inbox, got, acks, asked, orders>>
        BY <1>2 DEF RetryWaits, RetryPostponed, bookVars
    <2>2. BookShape' /\ RowShape' /\ CountShape' /\ OrderShape' /\ LockShape' /\ Told0'
        BY <1>0, <2>1, KeptBook, KeptRows, KeptCounts, KeptOrders, KeptLock, StoryStays DEF Shape, BookShape
    <2> QED
        BY <2>2 DEF Shape
<1> QED
    BY <1>0, <1>1, <1>2, RetryFlatShape, RetryCloseShape DEF RetryStep

LEMMA ResolveFilledShape ==
    ASSUME Shape, UNCHANGED setting, NEW r \in rows, ResolveFilled(r)
    PROVE  Shape'
<1> DEFINE n == orders[r.ord].fill
           one == [execs EXCEPT ![r.who] = [status |-> IF @.closed + n >= Opened[r.who] THEN "closed" ELSE "open",
                                            closed |-> @.closed + n, pending |-> 0]]
           booked == IF r.who \in Closes THEN Book(VenueShares(n)) ELSE one
           ended == {e \in Entries : booked[e].status = "closed" /\ booked[e] # execs[e]}
<1>1. /\ execs' = [e \in Entries |-> IF e \in ended THEN [booked[e] EXCEPT !.pending = 0] ELSE booked[e]]
      /\ live' = live \ ended
      /\ rows' = Put(r.who, r.label, "filled", r.ord)
      /\ UNCHANGED <<csig, lockVars, inbox, got, acks, asked, orders>>
    BY DEF ResolveFilled
<1>2. /\ r \in ExitRows /\ r.who \in Closes \cup Entries /\ r.label \in 0..MaxQty /\ r.ord \in DOMAIN orders
      /\ n \in Nat
    BY OrdersAre DEF Shape, RowShape, ExitRows
<1>3. booked \in [Entries -> Execs]
    <2>1. CASE r.who \in Closes
        <3>1. OpenOf(Entries) \in [Entries -> Nat]
            BY OpenType DEF Shape
        <3>2. VenueShares(n) \in [Entries -> Nat]
            <4> HIDE DEF n
            <4> QED
                BY <1>2, <3>1, SpreadFits DEF Shape, VenueShares
        <3>3. booked = Book(VenueShares(n))
            BY <2>1
        <3> HIDE DEF booked, n
        <3> QED
            BY <3>2, <3>3, BookIs DEF Shape
    <2>2. CASE r.who \notin Closes
        <3>1. r.who \in Entries /\ execs \in [Entries -> Execs] /\ execs[r.who] \in Execs
            BY <1>2, <2>2 DEF Shape, BookShape
        <3> DEFINE x == execs[r.who]
                   y == [status |-> IF x.closed + n >= Opened[r.who] THEN "closed" ELSE "open",
                         closed |-> x.closed + n, pending |-> 0]
        <3>2. booked = [execs EXCEPT ![r.who] = y]
            BY <2>2
        <3>3. x.closed + n \in Nat /\ 0 \in 0..MaxQty
            BY <1>2, <3>1, Story DEF Execs, Shape
        <3>4. y \in Execs
            <4> HIDE DEF x, n
            <4> QED
                BY <3>3 DEF Execs
        <3> HIDE DEF y, booked
        <3> QED
            BY <3>1, <3>2, <3>4
    <2> QED
        BY <2>1, <2>2
<1> HIDE DEF booked, ended
<1>4. execs' \in [Entries -> Execs]
    <2> DEFINE x(e) == [booked[e] EXCEPT !.pending = 0]
    <2>1. \A e \in Entries : x(e) \in Execs
        <3>1. 0 \in 0..MaxQty
            BY Story DEF Shape
        <3> QED
            BY <1>3, <3>1 DEF Execs
    <2>2. execs' = [e \in Entries |-> IF e \in ended THEN x(e) ELSE booked[e]]
        BY <1>1
    <2> HIDE DEF x
    <2> QED
        BY <1>3, <2>1, <2>2
<1>5. Entries' = Entries /\ Execs' = Execs
    BY <1>1, StoryStays, SetsStay
<1>6. BookShape'
    BY <1>1, <1>4, <1>5 DEF Shape, BookShape
<1>7. RowShape'
    BY <1>1, <1>2, PutRows DEF Shape
<1>8. CountShape'
    BY <1>1, KeptCounts DEF Shape
<1> QED
    BY <1>1, <1>6, <1>7, <1>8, IdleShape

LEMMA ResolveShape ==
    ASSUME Shape, ResolveStep
    PROVE  Shape'
<1>0. UNCHANGED setting
    BY DEF ResolveStep
<1>1. ASSUME NEW r \in rows, ResolveUnfilled(r)
      PROVE  Shape'
    <2>1. /\ rows' = Put(r.who, r.label, "cancelled", r.ord)
          /\ UNCHANGED <<execs, live, csig, lockVars, inbox, got, acks, asked, orders>>
        BY <1>1 DEF ResolveUnfilled
    <2>2. r.who \in Closes \cup Entries /\ r.label \in 0..MaxQty /\ r.ord \in DOMAIN orders
        BY DEF Shape, RowShape, ExitRows
    <2>3. RowShape'
        BY <1>0, <2>1, <2>2, PutRows DEF Shape
    <2>4. BookShape' /\ CountShape'
        BY <1>0, <2>1, KeptBook, KeptCounts DEF Shape, BookShape
    <2> QED
        BY <1>0, <2>1, <2>3, <2>4, IdleShape
<1> QED
    BY <1>0, <1>1, ResolveFilledShape DEF ResolveStep

(* What the venue does with an order.                                      *)
LEMMA MarketIs ==
    ASSUME Shape, MarketStep
    PROVE  \E o \in DOMAIN orders : \E n \in Nat :
              /\ orders[o].working /\ orders[o].fill = 0
              /\ n <= orders[o].qty /\ n <= Net
              /\ EndsAt(o, n)
              /\ UNCHANGED <<setting, bookVars, lockVars, inbox, got, acks, asked>>
<1>1. PICK o \in DOMAIN orders : VenueFill(o) \/ VenueKill(o)
    BY DEF MarketStep
<1>2. orders[o].working /\ UNCHANGED <<setting, bookVars, lockVars, inbox, got, acks, asked>>
    BY <1>1 DEF VenueFill, VenueKill, MarketStep
<1>3. orders[o].fill = 0 /\ orders[o].qty \in 0..MaxQty /\ Net \in 0..MaxQty /\ MaxQty \in Nat
    BY <1>2, OrdersAre, Story DEF Shape, OrderShape, OrderOk
<1>4. \E n \in Nat : n <= orders[o].qty /\ n <= Net /\ VenueFills(o, n)
    <2>1. CASE VenueFill(o)
        <3>1. VenueFills(o, Least(orders[o].qty, Net))
            BY <2>1 DEF VenueFill
        <3>2. Least(orders[o].qty, Net) \in Nat /\ Least(orders[o].qty, Net) <= orders[o].qty
              /\ Least(orders[o].qty, Net) <= Net
            BY <1>3 DEF Least
        <3> QED
            BY <3>1, <3>2
    <2>2. CASE VenueKill(o)
        <3>1. CASE VenueFills(o, 0)
            BY <1>3, <3>1
        <3>2. ASSUME NEW n \in 1..(Least(orders[o].qty, Net + 1) - 1), VenueFills(o, n)
              PROVE  \E m \in Nat : m <= orders[o].qty /\ m <= Net /\ VenueFills(o, m)
            <4>1. n \in Nat /\ n <= orders[o].qty /\ n <= Net
                BY <1>3 DEF Least
            <4> QED
                BY <3>2, <4>1
        <3> QED
            BY <2>2, <3>1, <3>2 DEF VenueKill
    <2> QED
        BY <1>1, <2>1, <2>2
<1>5. PICK n \in Nat : n <= orders[o].qty /\ n <= Net /\ VenueFills(o, n)
    BY <1>4
<1>6. EndsAt(o, n)
    BY <1>5, RefillIs DEF EndsAt, VenueFills, Shape
<1> QED
    BY <1>2, <1>3, <1>5, <1>6

LEMMA MarketShape ==
    ASSUME Shape, MarketStep
    PROVE  Shape'
<1>1. PICK o \in DOMAIN orders, n \in Nat :
              /\ orders[o].working /\ orders[o].fill = 0
              /\ n <= orders[o].qty /\ n <= Net
              /\ EndsAt(o, n)
              /\ UNCHANGED <<setting, bookVars, lockVars, inbox, got, acks, asked>>
    BY MarketIs
<1>2. n <= orders[o].fill + Net
    BY <1>1, OrdersAre DEF Shape
<1>3. OrderShape' /\ DOMAIN orders' = DOMAIN orders
    BY <1>1, <1>2, EndedShape DEF Shape
<1>4. BookShape' /\ RowShape' /\ CountShape' /\ LockShape' /\ Told0'
    BY <1>1, <1>3, KeptBook, KeptRows, KeptCounts, KeptLock, StoryStays DEF Shape, BookShape, bookVars, lockVars
<1> QED
    BY <1>3, <1>4 DEF Shape

LEMMA CrashShape ==
    ASSUME Shape, Crash
    PROVE  Shape'
<1>1. /\ UNCHANGED setting
      /\ UNCHANGED <<execs, live, csig, rows, snap, got, acks, asked, orders>>
      /\ job' = NoJob /\ pc' = "idle" /\ todo' = {} /\ inbox' = {}
    BY DEF Crash, Done, bookVars
<1>2. BookShape' /\ RowShape' /\ CountShape' /\ LockShape' /\ OrderShape' /\ Told0'
    BY <1>1, KeptBook, KeptRows, KeptCounts, KeptLock, KeptOrders, StoryStays DEF Shape, BookShape
<1> QED
    BY <1>2 DEF Shape

LEMMA ShapeStep ==
    ASSUME Shape, [CloseNext]_closeVars
    PROVE  Shape'
<1>1. CASE UNCHANGED closeVars
    <2>1. UNCHANGED setting /\ UNCHANGED <<execs, live, csig, rows, job, pc, todo, snap, inbox, got, acks, asked, orders>>
        BY <1>1 DEF closeVars, bookVars, lockVars
    <2>2. BookShape' /\ RowShape' /\ CountShape' /\ LockShape' /\ OrderShape' /\ Told0'
        BY <2>1, KeptBook, KeptRows, KeptCounts, KeptLock, KeptOrders, StoryStays DEF Shape, BookShape
    <2> QED
        BY <2>2 DEF Shape
<1> QED
    BY <1>1, DeliverShape, HandleShape, SettleShape, RetryShape, ResolveShape, MarketShape, CrashShape DEF CloseNext

LEMMA ShapeInit ==
    ASSUME CloseInit
    PROVE  Shape
<1>1. Told0
    BY DEF CloseInit, Told0
<1>2. MaxQty \in Nat /\ 0 \in 0..MaxQty
    BY <1>1, Story
<1>3. BookShape
    <2>1. \A e \in Entries : [status |-> "open", closed |-> 0, pending |-> 0] \in Execs
        BY <1>2 DEF Execs
    <2>2. execs = [e \in Entries |-> [status |-> "open", closed |-> 0, pending |-> 0]]
          /\ live = Entries /\ csig = [c \in Closes |-> "none"]
        BY DEF CloseInit
    <2> QED
        BY <2>1, <2>2 DEF BookShape
<1>4. RowShape /\ LockShape /\ CountShape
    BY <1>2 DEF CloseInit, RowShape, LockShape, CountShape
<1>5. OrderShape
    <2>1. orders = <<>> /\ DOMAIN orders = {}
        BY DEF CloseInit
    <2>2. Sold = 0
        <3>1. PICK f : f = [o \in DOMAIN orders |-> orders[o].fill]
            OBVIOUS
        <3>2. f \in [{} -> Int] /\ \A s \in {} : f[s] = 0
            BY <2>1, <3>1
        <3>3. Sum(f) = 0
            BY <3>2, SumZero
        <3> QED
            BY <3>1, <3>3 DEF Sold
    <2> QED
        BY <1>2, <2>1, <2>2 DEF OrderShape
<1> QED
    BY <1>1, <1>3, <1>4, <1>5 DEF Shape

LEMMA ShapeAlways == CloseSpec => []Shape
<1>1. CloseInit => Shape
    BY ShapeInit
<1>2. Shape /\ [CloseNext]_closeVars => Shape'
    BY ShapeStep
<1> QED
    BY <1>1, <1>2, PTL DEF CloseSpec

(* The closes keep to their types.                                         *)
THEOREM CloseTypeCorrect == CloseSpec => []CloseTypeOK
<1>1. ASSUME Shape
      PROVE  CloseTypeOK
    <2>1. scenario \in Scenarios /\ adapter \in scenario.adapters /\ MaxQty \in Nat
        BY <1>1, Story DEF Shape, Told0
    <2>2. execs \in [Entries -> [status : {"open", "closing", "closed"}, closed : Nat, pending : 0..MaxQty]]
        BY <1>1 DEF Shape, BookShape, Execs
    <2>3. live \subseteq Entries /\ csig \in [Closes -> {"none", "pending", "executed", "rejected"}]
          /\ inbox \subseteq Closes
        BY <1>1 DEF Shape, BookShape, CountShape
    <2>4. /\ \A r \in rows : /\ r.who \in Closes \cup Entries
                             /\ r.label \in 0..MaxQty
                             /\ r.status \in {"unknown", "filled", "cancelled"}
                             /\ r.ord \in DOMAIN orders
          /\ \A q, r \in rows : q.who = r.who /\ q.label = r.label => q = r
        BY <1>1 DEF Shape, RowShape, ExitRows
    <2>5. /\ job = NoJob \/ job.ord \in DOMAIN orders
          /\ pc \in {"idle", "reply", "poll2"} /\ todo \subseteq Entries /\ snap \in 0..MaxQty
        BY <1>1 DEF Shape, LockShape, Jobs
    <2>6. \A o \in DOMAIN orders : orders[o].fill \in 0..orders[o].qty
        <3>1. \A o \in DOMAIN orders : orders[o].qty \in 0..MaxQty /\ orders[o].fill \in 0..MaxQty /\ orders[o].fill <= orders[o].qty
            BY <1>1, OrdersAre DEF Shape
        <3> QED
            BY <2>1, <3>1
    <2> QED
        BY <2>1, <2>2, <2>3, <2>4, <2>5, <2>6 DEF CloseTypeOK
<1> QED
    BY <1>1, ShapeAlways, PTL

----------------------------------------------------------------------------
(* The venue's orders only grow *)

\* No order is lost or changed, and none sells less than it did.
OrdersGrow ==
    /\ DOMAIN orders \subseteq DOMAIN orders'
    /\ \A o \in DOMAIN orders : /\ orders'[o].qty = orders[o].qty /\ orders'[o].who = orders[o].who
                                /\ orders[o].fill <= orders'[o].fill

LEMMA KeptGrow ==
    ASSUME Shape, \A o \in DOMAIN orders : orders'[o] = orders[o], DOMAIN orders \subseteq DOMAIN orders'
    PROVE  OrdersGrow
<1>1. \A o \in DOMAIN orders : orders[o].fill \in Nat
    BY OrdersAre DEF Shape
<1> QED
    BY <1>1 DEF OrdersGrow

LEMMA WithdrawGrow ==
    ASSUME Shape, UNCHANGED setting, NEW o \in DOMAIN orders,
           orders' = [orders EXCEPT ![o].working = FALSE] \/ orders' = orders
    PROVE  OrdersGrow /\ DOMAIN orders' = DOMAIN orders
<1>1. CASE orders' = orders
    BY <1>1, KeptGrow
<1>2. CASE orders' = [orders EXCEPT ![o].working = FALSE]
    <2>1. EndsAt(o, orders[o].fill)
        BY <1>2, WithdrawnIs DEF EndsAt, Shape
    <2>2. \A p \in DOMAIN orders : orders[p].fill \in Nat /\ orders[p].fill <= orders[p].qty
        BY OrdersAre DEF Shape
    <2>3. orders[o].fill <= orders[o].fill + Net
        BY <2>2, OrdersAre DEF Shape
    <2>4. /\ DOMAIN orders' = DOMAIN orders
          /\ \A p \in DOMAIN orders \ {o} : orders'[p] = orders[p]
          /\ orders'[o].fill = orders[o].fill
          /\ orders'[o].qty = orders[o].qty /\ orders'[o].who = orders[o].who
        BY <2>1, <2>2, <2>3, EndedShape DEF Shape
    <2> QED
        BY <2>2, <2>4 DEF OrdersGrow
<1> QED
    BY <1>1, <1>2

LEMMA MarketGrow ==
    ASSUME Shape, MarketStep
    PROVE  OrdersGrow /\ DOMAIN orders' = DOMAIN orders
<1>1. PICK o \in DOMAIN orders, n \in Nat :
              /\ orders[o].working /\ orders[o].fill = 0
              /\ n <= orders[o].qty /\ n <= Net
              /\ EndsAt(o, n)
              /\ UNCHANGED <<setting, bookVars, lockVars, inbox, got, acks, asked>>
    BY MarketIs
<1>2. n <= orders[o].fill + Net
    BY <1>1, OrdersAre DEF Shape
<1>3. /\ DOMAIN orders' = DOMAIN orders
      /\ \A p \in DOMAIN orders \ {o} : orders'[p] = orders[p]
      /\ orders'[o].fill = n
      /\ orders'[o].qty = orders[o].qty /\ orders'[o].who = orders[o].who
    BY <1>1, <1>2, EndedShape DEF Shape
<1>4. \A p \in DOMAIN orders : orders[p].fill \in Nat
    BY OrdersAre DEF Shape
<1> QED
    BY <1>1, <1>3, <1>4 DEF OrdersGrow

----------------------------------------------------------------------------
(* What the orders account for *)

\* What an order may be booked with: an acknowledged order with all it asked
\* for. An order whose booking is still to come is loose: the one being settled,
\* and those of unknown outcome.
Counts(o) == IF adapter.acks THEN orders[o].qty ELSE orders[o].fill
Loose(o)  == \/ job # NoJob /\ job.ord = o
             \/ \E r \in rows : r.status = "unknown" /\ r.ord = o

CountOf   == [o \in DOMAIN orders |-> Counts(o)]
SettledOf == [o \in DOMAIN orders |-> IF Loose(o) THEN 0 ELSE Counts(o)]
OtherOf   == [o \in DOMAIN orders |-> IF o = job.ord THEN 0 ELSE Counts(o)]
Counted   == Sum(CountOf)
SettledFor   == Sum(SettledOf)
Other     == Sum(OtherOf)

\* The orders account for the whole position.
SoldOut == MaxQty <= Counted

CountShapes ==
    /\ IsFiniteSet(DOMAIN orders)
    /\ \A o \in DOMAIN orders : Counts(o) \in Nat /\ orders[o].fill <= Counts(o)
    /\ CountOf \in [DOMAIN orders -> Nat] /\ SettledOf \in [DOMAIN orders -> Nat]
    /\ OtherOf \in [DOMAIN orders -> Nat]
    /\ Counted \in Nat /\ SettledFor \in Nat /\ Other \in Nat
    /\ SettledFor <= Counted /\ Sold <= Counted /\ MaxQty <= Net + Counted
    /\ (job # NoJob /\ job.ord \in DOMAIN orders => Counted = Other + Counts(job.ord))

LEMMA CountsAre == Told0 /\ OrderShape => CountShapes
<1> SUFFICES ASSUME Told0, OrderShape PROVE CountShapes
    OBVIOUS
<1>1. IsFiniteSet(DOMAIN orders) /\ FillOf \in [DOMAIN orders -> Nat] /\ Sold = Sum(FillOf)
    BY OrdersAre
<1>2. \A o \in DOMAIN orders : Counts(o) \in Nat /\ orders[o].fill <= Counts(o)
    <2>1. \A o \in DOMAIN orders : orders[o].qty \in 0..MaxQty /\ orders[o].fill \in 0..MaxQty /\ orders[o].fill <= orders[o].qty
        BY OrdersAre
    <2>2. MaxQty \in Nat
        BY Story
    <2> QED
        BY <2>1, <2>2 DEF Counts
<1>3. CountOf \in [DOMAIN orders -> Nat] /\ SettledOf \in [DOMAIN orders -> Nat] /\ OtherOf \in [DOMAIN orders -> Nat]
    BY <1>2 DEF CountOf, SettledOf, OtherOf
<1>4. Counted \in Nat /\ SettledFor \in Nat /\ Other \in Nat
    BY <1>1, <1>3, SumUnits DEF Counted, SettledFor, Other
<1>5. SettledFor <= Counted
    <2>1. \A o \in DOMAIN orders : SettledOf[o] <= CountOf[o]
        BY <1>2 DEF SettledOf, CountOf
    <2> QED
        BY <1>1, <1>3, <2>1, SumGrows DEF SettledFor, Counted
<1>6. Sold <= Counted
    <2>1. \A o \in DOMAIN orders : FillOf[o] <= CountOf[o]
        BY <1>2 DEF FillOf, CountOf
    <2> QED
        BY <1>1, <1>3, <2>1, SumGrows DEF Counted
<1>7. MaxQty <= Net + Counted
    <2>1. Sold \in Nat /\ Net = MaxQty - Sold /\ MaxQty \in Nat
        BY OrdersAre, Story
    <2> QED
        BY <1>4, <1>6, <2>1
<1>8. ASSUME job # NoJob, job.ord \in DOMAIN orders
      PROVE  Counted = Other + Counts(job.ord)
    <2>1. /\ CountOf[job.ord] = Counts(job.ord) /\ OtherOf[job.ord] = 0
          /\ \A o \in DOMAIN orders \ {job.ord} : OtherOf[o] = CountOf[o]
        BY <1>8 DEF CountOf, OtherOf
    <2>2. CountOf \in [DOMAIN orders -> Int] /\ OtherOf \in [DOMAIN orders -> Int] /\ Counts(job.ord) \in Nat
        BY <1>1, <1>2, <1>3, <1>8, SumUnits
    <2>3. Sum(OtherOf) = Sum(CountOf) + OtherOf[job.ord] - CountOf[job.ord]
        BY <1>1, <1>8, <2>1, <2>2, SumChange
    <2> QED
        BY <1>4, <2>1, <2>2, <2>3 DEF Counted, Other
<1> QED
    BY <1>1, <1>2, <1>3, <1>4, <1>5, <1>6, <1>7, <1>8 DEF CountShapes

LEMMA NextCounts == (Told0 /\ OrderShape => CountShapes)'
BY CountsAre, PTL

LEMMA ShapeCounts == ASSUME Shape PROVE CountShapes
BY CountsAre DEF Shape

LEMMA ShapeNextCounts == ASSUME Shape' PROVE CountShapes'
<1>1. Told0' /\ OrderShape'
    BY DEF Shape
<1> QED
    BY <1>1, NextCounts

(* As the orders grow, so does what they account for.                      *)
LEMMA CountsGrow ==
    ASSUME Shape, Shape', UNCHANGED setting, OrdersGrow
    PROVE  /\ \A o \in DOMAIN orders : Counts(o) <= Counts(o)'
           /\ Counted <= Counted' /\ (SoldOut => SoldOut')
           /\ (\A o \in DOMAIN orders : Loose(o)' => Loose(o)) => SettledFor <= SettledFor'
           /\ job' = job => Other <= Other'
<1>1. /\ IsFiniteSet(DOMAIN orders) /\ IsFiniteSet(DOMAIN orders') /\ DOMAIN orders \subseteq DOMAIN orders'
      /\ CountOf \in [DOMAIN orders -> Nat] /\ SettledOf \in [DOMAIN orders -> Nat] /\ OtherOf \in [DOMAIN orders -> Nat]
      /\ CountOf' \in [DOMAIN orders' -> Nat] /\ SettledOf' \in [DOMAIN orders' -> Nat]
      /\ OtherOf' \in [DOMAIN orders' -> Nat]
    BY ShapeCounts, ShapeNextCounts DEF CountShapes, OrdersGrow
<1>2. \A o \in DOMAIN orders : Counts(o) \in Nat /\ Counts(o) <= Counts(o)'
    <2> SUFFICES ASSUME NEW o \in DOMAIN orders PROVE Counts(o) \in Nat /\ Counts(o) <= Counts(o)'
        OBVIOUS
    <2>1. Counts(o) \in Nat
        BY ShapeCounts DEF CountShapes
    <2>2. CASE adapter.acks
        <3>1. Counts(o)' = Counts(o)
            BY <2>2, StoryStays DEF Counts, OrdersGrow
        <3>2. PICK a, b : a = Counts(o) /\ b = Counts(o)'
            OBVIOUS
        <3>3. a \in Nat /\ b = a
            BY <2>1, <3>1, <3>2
        <3>4. a <= b
            BY <3>3
        <3> QED
            BY <2>1, <3>2, <3>4
    <2>3. CASE ~adapter.acks
        BY <2>1, <2>3, StoryStays DEF Counts, OrdersGrow
    <2> QED
        BY <2>2, <2>3
<1>3. Counted <= Counted'
    <2>1. \A o \in DOMAIN orders : CountOf[o] <= CountOf'[o]
        BY <1>1, <1>2 DEF CountOf
    <2> QED
        BY <1>1, <2>1, SumWider DEF Counted
<1>4. ASSUME \A o \in DOMAIN orders : Loose(o)' => Loose(o)
      PROVE  SettledFor <= SettledFor'
    <2>1. \A o \in DOMAIN orders : SettledOf[o] <= SettledOf'[o]
        <3> SUFFICES ASSUME NEW o \in DOMAIN orders PROVE SettledOf[o] <= SettledOf'[o]
            OBVIOUS
        <3>1. SettledOf[o] = (IF Loose(o) THEN 0 ELSE Counts(o)) /\ SettledOf'[o] = (IF Loose(o)' THEN 0 ELSE Counts(o)')
            BY <1>1 DEF SettledOf
        <3>2. Counts(o) \in Nat /\ Counts(o) <= Counts(o)' /\ (Loose(o)' => Loose(o)) /\ SettledOf'[o] \in Nat
            BY <1>1, <1>2, <1>4
        <3>3. PICK a, b, c, d : a = SettledOf[o] /\ b = SettledOf'[o] /\ c = Counts(o) /\ d = Counts(o)'
            OBVIOUS
        <3>4. a <= b
            <4>1. CASE Loose(o)
                BY <3>1, <3>2, <3>3, <4>1
            <4>2. CASE ~Loose(o)
                BY <3>1, <3>2, <3>3, <4>2
            <4> QED
                BY <4>1, <4>2
        <3> QED
            BY <3>3, <3>4
    <2> QED
        BY <1>1, <2>1, SumWider DEF SettledFor
<1>5. ASSUME job' = job
      PROVE  Other <= Other'
    <2>1. \A o \in DOMAIN orders : OtherOf[o] <= OtherOf'[o]
        <3> SUFFICES ASSUME NEW o \in DOMAIN orders PROVE OtherOf[o] <= OtherOf'[o]
            OBVIOUS
        <3>1. OtherOf[o] = (IF o = job.ord THEN 0 ELSE Counts(o)) /\ OtherOf'[o] = (IF o = job.ord THEN 0 ELSE Counts(o)')
            BY <1>1, <1>5 DEF OtherOf
        <3>2. Counts(o) \in Nat /\ Counts(o) <= Counts(o)'
            BY <1>2
        <3> QED
            BY <3>1, <3>2
    <2> QED
        BY <1>1, <2>1, SumWider DEF Other
<1>6. MaxQty' = MaxQty /\ MaxQty \in Nat /\ Counted \in Nat /\ Counted' \in Nat
    BY StoryStays, Story, ShapeCounts, ShapeNextCounts DEF Shape, CountShapes
<1>7. SoldOut => SoldOut'
    <2>1. PICK m, a, b : m = MaxQty /\ a = Counted /\ b = Counted' /\ m \in Nat /\ a \in Nat /\ b \in Nat /\ a <= b
        BY <1>3, <1>6
    <2> QED
        BY <1>6, <2>1 DEF SoldOut
<1> QED
    BY <1>2, <1>3, <1>4, <1>5, <1>7

----------------------------------------------------------------------------
(* Every order is settled once *)

NoReuse == adapter.dedup # "reuse"

\* The order being settled is its job's own and on no row, and no two rows are
\* about one order. A signal's job has no tick beside it, a re-issue's is about
\* an entry the tick is at.
Fresh ==
    /\ job # NoJob => /\ \A r \in rows : r.ord # job.ord
                      /\ job.qty = orders[job.ord].qty
                      /\ (job.who \in Closes => todo = {})
                      /\ (job.who \in Entries => job.who \in todo)
    /\ \A q, r \in rows : q.ord = r.ord => q = r

LEMMA KeptFresh ==
    ASSUME Shape, Fresh, UNCHANGED setting, OrdersGrow, rows' = rows,
           job' = NoJob \/ (job' = job /\ todo' = todo)
    PROVE  Fresh'
<1>1. CASE job' = NoJob
    BY <1>1 DEF Fresh
<1>2. CASE job' = job /\ todo' = todo /\ job # NoJob
    <2>1. job.ord \in DOMAIN orders
        BY <1>2, JobIs
    <2>2. orders'[job.ord].qty = orders[job.ord].qty
        BY <2>1 DEF OrdersGrow
    <2> QED
        BY <1>2, <2>2, StoryStays DEF Fresh
<1> QED
    BY <1>1, <1>2

LEMMA PutFresh ==
    ASSUME Shape, Fresh, job' = NoJob, NEW who, NEW label, NEW status, NEW ord,
           \A r \in rows : r.ord = ord => r.who = who /\ r.label = label,
           rows' = Put(who, label, status, ord)
    PROVE  Fresh'
<1> DEFINE new == [who |-> who, label |-> label, status |-> status, ord |-> ord]
<1>1. \A r : r \in rows' <=> r = new \/ (r \in rows /\ (r.who # who \/ r.label # label))
    BY DEF Put
<1>2. new.ord = ord
    OBVIOUS
<1> HIDE DEF new
<1>3. ASSUME NEW q \in rows', NEW r \in rows', q.ord = r.ord
      PROVE  q = r
    BY <1>1, <1>2, <1>3 DEF Fresh
<1> QED
    BY <1>3 DEF Fresh

LEMMA PlaceFresh ==
    ASSUME Shape, Fresh, NoReuse, UNCHANGED setting, UNCHANGED <<rows, todo>>,
           NEW who \in Closes \cup Entries, NEW label \in 0..MaxQty,
           NEW qty \in 0..MaxQty, NEW full \in BOOLEAN, Place(who, label, qty, full),
           who \in Closes => todo = {}, who \in Entries => who \in todo
    PROVE  Fresh' /\ OrdersGrow
<1>1. /\ DOMAIN orders \subseteq DOMAIN orders'
      /\ \A o \in DOMAIN orders : orders'[o] = orders[o]
      /\ job' = [who |-> who, label |-> label, qty |-> qty, full |-> full, ord |-> job'.ord]
      /\ job'.ord \notin DOMAIN orders
      /\ orders'[job'.ord] = [who |-> who, label |-> label, qty |-> qty, fill |-> 0, working |-> TRUE]
    BY PlaceShape DEF NoReuse
<1>2. job'.who = who /\ job'.qty = qty /\ orders'[job'.ord].qty = qty
    BY <1>1
<1>3. \A r \in rows : r.ord # job'.ord
    BY <1>1 DEF Shape, RowShape, ExitRows
<1>4. Entries' = Entries
    BY StoryStays
<1>5. OrdersGrow
    BY <1>1, KeptGrow
<1>6. /\ \A r \in rows' : r.ord # job'.ord
      /\ \A q, r \in rows' : q.ord = r.ord => q = r
    BY <1>3 DEF Fresh
<1>7. (job'.who \in Closes => todo' = {}) /\ (job'.who \in Entries' => job'.who \in todo')
    BY <1>2, <1>4
<1> QED
    BY <1>2, <1>5, <1>6, <1>7 DEF Fresh

(* What a step leaves as it is, what it places and what it settles.        *)
LEMMA FreshStep ==
    ASSUME Shape, Fresh, NoReuse, [CloseNext]_closeVars
    PROVE  Fresh' /\ OrdersGrow
<1>1. ASSUME UNCHANGED setting, UNCHANGED <<orders, rows>>, job' = NoJob \/ (job' = job /\ todo' = todo)
      PROVE  Fresh' /\ OrdersGrow
    <2>1. OrdersGrow
        BY <1>1, KeptGrow
    <2> QED
        BY <1>1, <2>1, KeptFresh
<1>2. ASSUME UNCHANGED setting, OrdersGrow, rows' = rows, job' = NoJob \/ (job' = job /\ todo' = todo)
      PROVE  Fresh' /\ OrdersGrow
    BY <1>2, KeptFresh
<1>3. CASE UNCHANGED closeVars
    BY <1>1, <1>3 DEF closeVars, bookVars, lockVars
<1>4. ASSUME NEW c \in Closes, Deliver(c)
      PROVE  Fresh' /\ OrdersGrow
    BY <1>1, <1>4 DEF Deliver, bookVars, lockVars
<1>5. ASSUME NEW c \in Closes, HandleStep(c)
      PROVE  Fresh' /\ OrdersGrow
    <2>1. UNCHANGED setting /\ job = NoJob /\ todo = {}
        BY <1>5 DEF HandleStep, RefuseClose, NothingOpen, WaitForPrior, AlreadyFlat, Duplicate, PlaceClose,
                    CloseRefused, TakeNext, LockIdle
    <2>2. CASE PlaceClose(c)
        <3>1. PICK l, q, f : l = Label(c) /\ q = CloseQty(c) /\ f = IsFull(c)
            OBVIOUS
        <3>2. l \in 0..MaxQty /\ q \in 0..MaxQty /\ f \in BOOLEAN /\ Place(c, l, q, f) /\ UNCHANGED <<rows, todo>>
            <4>1. CloseQty(c) \in 0..MaxQty /\ Label(c) \in 0..MaxQty /\ IsFull(c) \in BOOLEAN
                BY CloseQtyType DEF Shape
            <4> QED
                BY <2>2, <3>1, <4>1 DEF PlaceClose, bookVars
        <3>3. c \in Closes \cup Entries /\ (c \in Entries => c \in todo)
            BY Story DEF Shape
        <3> QED
            BY <2>1, <3>2, <3>3, PlaceFresh
    <2>3. CASE ~PlaceClose(c)
        BY <1>1, <1>5, <2>1, <2>3 DEF HandleStep, RefuseClose, NothingOpen, WaitForPrior, AlreadyFlat, Duplicate,
                                      CloseRefused, Reject, lockVars
    <2> QED
        BY <2>2, <2>3
<1>6. ASSUME SettleStep
      PROVE  Fresh' /\ OrdersGrow
    <2>1. UNCHANGED setting /\ job # NoJob /\ job.ord \in DOMAIN orders
        <3>1. UNCHANGED setting /\ job # NoJob
            BY <1>6 DEF SettleStep, SettleFilled, TrustAck, SettleUnfilled, PollTimeout, SettleTimeout, PlaceThrows
        <3> QED
            BY <3>1, JobIs
    <2>2. \A r \in rows : r.ord # job.ord
        BY <2>1 DEF Fresh
    <2>3. ASSUME NEW n, BookFill(n)
          PROVE  Fresh' /\ OrdersGrow
        <3>1. UNCHANGED orders /\ job' = NoJob
            BY <2>3 DEF BookFill, Done
        <3>2. CASE job.who \in Closes
            <4>1. rows' = Put(job.who, job.label, "filled", job.ord)
                BY <2>3, <3>2 DEF BookFill, BookClose
            <4>2. Fresh'
                BY <2>2, <3>1, <4>1, PutFresh
            <4> QED
                BY <3>1, <4>2, KeptGrow
        <3>3. CASE job.who \notin Closes
            <4>1. rows' = rows
                BY <2>3, <3>3 DEF BookFill, BookRetry
            <4> QED
                BY <1>1, <2>1, <3>1, <4>1
        <3> QED
            BY <3>2, <3>3
    <2>4. CASE SettleFilled \/ TrustAck
        BY <2>3, <2>4 DEF SettleFilled, TrustAck
    <2>5. CASE SettleUnfilled
        BY <1>1, <2>1, <2>5 DEF SettleUnfilled, Unconfirmed, Done
    <2>6. CASE PollTimeout
        <3>1. /\ orders' = [orders EXCEPT ![job.ord].working = FALSE] \/ orders' = orders
              /\ UNCHANGED <<rows, job, todo>>
            BY <2>6 DEF PollTimeout, bookVars
        <3>2. OrdersGrow
            BY <2>1, <3>1, WithdrawGrow
        <3> QED
            BY <1>2, <2>1, <3>1, <3>2
    <2>7. CASE SettleTimeout
        <3>1. UNCHANGED orders /\ job' = NoJob /\ rows' = Put(job.who, job.label, "unknown", job.ord)
            BY <2>7 DEF SettleTimeout, Unconfirmed, Done
        <3>2. Fresh'
            BY <2>2, <3>1, PutFresh
        <3> QED
            BY <3>1, <3>2, KeptGrow
    <2>8. CASE PlaceThrows
        <3>1. /\ orders' = [orders EXCEPT ![job.ord].working = FALSE] \/ orders' = orders
              /\ rows' = rows /\ job' = NoJob
            BY <2>8 DEF PlaceThrows, Done
        <3>2. OrdersGrow
            BY <2>1, <3>1, WithdrawGrow
        <3> QED
            BY <1>2, <2>1, <3>1, <3>2
    <2> QED
        BY <1>6, <2>4, <2>5, <2>6, <2>7, <2>8 DEF SettleStep
<1>7. ASSUME RetryStep
      PROVE  Fresh' /\ OrdersGrow
    <2>1. UNCHANGED setting
        BY <1>7 DEF RetryStep
    <2>2. CASE StartTick
        BY <1>1, <2>1, <2>2 DEF StartTick, bookVars, LockIdle
    <2>3. ASSUME NEW e \in Entries, RetryWaits(e) \/ RetryFlat(e) \/ RetryPostponed(e)
          PROVE  Fresh' /\ OrdersGrow
        BY <1>1, <2>1, <2>3 DEF RetryWaits, RetryFlat, RetryPostponed, NextRetry, bookVars
    <2>4. ASSUME NEW e \in Entries, RetryClose(e)
          PROVE  Fresh' /\ OrdersGrow
        <3>1. Place(e, 0, ReissueQty(e), FALSE) /\ UNCHANGED <<rows, todo>> /\ todo # {} /\ e = Min(todo)
            BY <2>4 DEF RetryClose, NextRetry, bookVars
        <3>2. PICK q \in 0..MaxQty : q = ReissueQty(e)
            BY ReissueType
        <3>3. PICK z : z = 0
            OBVIOUS
        <3>4. z \in 0..MaxQty
            BY <3>3, Story DEF Shape
        <3>5. e \in todo /\ e \notin Closes /\ e \in Closes \cup Entries
            BY <3>1, NextIs, Story DEF Shape
        <3>6. Place(e, z, q, FALSE) /\ FALSE \in BOOLEAN
            BY <3>1, <3>2, <3>3
        <3> QED
            BY <2>1, <3>1, <3>4, <3>5, <3>6, PlaceFresh
    <2> QED
        BY <1>7, <2>2, <2>3, <2>4 DEF RetryStep
<1>8. ASSUME ResolveStep
      PROVE  Fresh' /\ OrdersGrow
    <2>0. PICK r \in rows : /\ UNCHANGED orders /\ job' = NoJob
                            /\ \E st : rows' = Put(r.who, r.label, st, r.ord)
        BY <1>8 DEF ResolveStep, ResolveFilled, ResolveUnfilled, LockIdle, lockVars
    <2>1. PICK st : rows' = Put(r.who, r.label, st, r.ord)
        BY <2>0
    <2>2. \A q \in rows : q.ord = r.ord => q.who = r.who /\ q.label = r.label
        BY DEF Fresh
    <2>3. Fresh'
        BY <2>0, <2>1, <2>2, PutFresh
    <2> QED
        BY <2>0, <2>3, KeptGrow
<1>9. ASSUME MarketStep
      PROVE  Fresh' /\ OrdersGrow
    <2>1. UNCHANGED setting /\ UNCHANGED <<rows, job, todo>>
        <3>1. UNCHANGED <<setting, bookVars, lockVars>>
            BY <1>9, MarketIs
        <3> QED
            BY <3>1 DEF bookVars, lockVars
    <2>2. OrdersGrow
        BY <1>9, MarketGrow
    <2> QED
        BY <1>2, <2>1, <2>2
<1>10. ASSUME Crash
       PROVE  Fresh' /\ OrdersGrow
    BY <1>1, <1>10 DEF Crash, Done, bookVars
<1> QED
    BY <1>3, <1>4, <1>5, <1>6, <1>7, <1>8, <1>9, <1>10 DEF CloseNext

----------------------------------------------------------------------------
(* What is booked was sold *)

ClosedOf == [e \in Entries |-> execs[e].closed]

\* Unless the orders account for the whole position, no more is booked than the
\* settled orders account for, and an entry is retired only when all it opened
\* is booked.
BookedOnce == /\ Closed <= SettledFor
              /\ \A e \in Entries : execs[e].status = "closed" => execs[e].closed >= Opened[e]
Accounted == SoldOut \/ BookedOnce

\* A full close asks for all its lineage has open, or for all the venue has.
FullJob ==
    job # NoJob /\ job.who \in Closes /\ job.full
        => job.qty >= LineageQty(job.who) \/ MaxQty <= job.qty + Other

\* What the tick read is all the venue had; a re-issue of a close of everything
\* asks for all of it, or for all the entry has open.
TickJob ==
    /\ todo # {} => MaxQty <= snap + Counted
    /\ job # NoJob /\ job.who \in Entries =>
          /\ MaxQty <= snap + Other
          /\ execs[job.who].pending = 0 =>
                job.qty >= snap \/ execs[job.who].closed + job.qty >= Opened[job.who]

AccountInv == Accounted /\ FullJob /\ TickJob

LEMMA ClosedIs == Told0 /\ BookShape => /\ ClosedOf \in [Entries -> Nat] /\ IsFiniteSet(Entries)
                                        /\ Closed = Sum(ClosedOf) /\ Closed \in Nat
<1> SUFFICES ASSUME Told0, BookShape
             PROVE  /\ ClosedOf \in [Entries -> Nat] /\ IsFiniteSet(Entries)
                    /\ Closed = Sum(ClosedOf) /\ Closed \in Nat
    OBVIOUS
<1>1. ClosedOf \in [Entries -> Nat] /\ IsFiniteSet(Entries) /\ Closed = Sum(ClosedOf)
    BY Story DEF ClosedOf, BookShape, Execs, Closed
<1> QED
    BY <1>1, SumUnits

LEMMA NextClosed == (Told0 /\ BookShape => /\ ClosedOf \in [Entries -> Nat] /\ IsFiniteSet(Entries)
                                           /\ Closed = Sum(ClosedOf) /\ Closed \in Nat)'
BY ClosedIs, PTL

(* Whatever went on being settled is none the wiser.                       *)
LEMMA KeptAccounted ==
    ASSUME Shape, Shape', UNCHANGED setting, OrdersGrow, Accounted,
           \A o \in DOMAIN orders : Loose(o)' => Loose(o),
           \A e \in Entries : /\ execs'[e].closed = execs[e].closed
                              /\ execs'[e].status = "closed" => execs[e].status = "closed"
    PROVE  Accounted'
<1>1. (SoldOut => SoldOut') /\ SettledFor <= SettledFor' /\ SettledFor \in Nat /\ SettledFor' \in Nat
    BY CountsGrow, ShapeCounts, ShapeNextCounts DEF CountShapes
<1>2. CASE SoldOut
    BY <1>1, <1>2 DEF Accounted
<1>3. CASE BookedOnce
    <2>1. Entries' = Entries /\ Opened' = Opened
        BY StoryStays
    <2>2. Closed' = Closed /\ Closed \in Nat
        <3>1. [e \in Entries |-> execs'[e].closed] = [e \in Entries |-> execs[e].closed]
            OBVIOUS
        <3> QED
            BY <2>1, <3>1, ClosedIs DEF Closed, Shape
    <2>3. Closed' <= SettledFor'
        <3>1. PICK a, b, c, d : a = Closed /\ b = Closed' /\ c = SettledFor /\ d = SettledFor'
            OBVIOUS
        <3>2. a \in Nat /\ c \in Nat /\ d \in Nat /\ b = a /\ a <= c /\ c <= d
            BY <1>1, <1>3, <2>2, <3>1 DEF BookedOnce
        <3>3. b <= d
            BY <3>2
        <3> QED
            BY <3>1, <3>3
    <2>4. BookedOnce'
        BY <1>3, <2>1, <2>3 DEF BookedOnce
    <2> QED
        BY <2>4 DEF Accounted
<1> QED
    BY <1>2, <1>3 DEF Accounted

(* An order is settled: no more is booked than it accounts for.            *)
LEMMA SettledAccounted ==
    ASSUME Shape, Shape', UNCHANGED setting, UNCHANGED orders, BookedOnce,
           \A o \in DOMAIN orders : Loose(o)' => Loose(o),
           NEW x \in DOMAIN orders, Loose(x), ~Loose(x)',
           NEW n \in Nat, n <= Counts(x), Closed' <= Closed + n,
           \A e \in Entries : execs'[e].status = "closed" => execs'[e].closed >= Opened[e]
    PROVE  BookedOnce'
<1>1. /\ SettledOf \in [DOMAIN orders -> Nat] /\ SettledOf' \in [DOMAIN orders -> Nat]
      /\ IsFiniteSet(DOMAIN orders) /\ SettledFor \in Nat /\ SettledFor' \in Nat
      /\ \A o \in DOMAIN orders : Counts(o) \in Nat
    BY ShapeCounts, ShapeNextCounts DEF CountShapes
<1>2. \A o \in DOMAIN orders : Counts(o)' = Counts(o)
    BY StoryStays DEF Counts
<1>3. \A o \in DOMAIN orders : SettledOf[o] <= SettledOf'[o]
    <2> SUFFICES ASSUME NEW o \in DOMAIN orders PROVE SettledOf[o] <= SettledOf'[o]
        OBVIOUS
    <2>1. PICK a, b, c : a = SettledOf[o] /\ b = SettledOf'[o] /\ c = Counts(o) /\ c \in Nat /\ b \in Nat
        BY <1>1
    <2>2. a = (IF Loose(o) THEN 0 ELSE c) /\ b = (IF Loose(o)' THEN 0 ELSE c)
        BY <1>2, <2>1 DEF SettledOf
    <2>3. a <= b
        <3>1. CASE Loose(o)
            BY <2>1, <2>2, <3>1
        <3>2. CASE ~Loose(o)
            BY <2>1, <2>2, <3>2
        <3> QED
            BY <3>1, <3>2
    <2> QED
        BY <2>1, <2>3
<1>4. SettledOf[x] + n <= SettledOf'[x]
    <2>1. SettledOf[x] = 0 /\ SettledOf'[x] = Counts(x)
        BY <1>2 DEF SettledOf
    <2>2. PICK a, b : a = SettledOf[x] /\ b = SettledOf'[x]
        OBVIOUS
    <2>3. a = 0 /\ b \in Nat /\ n <= b
        BY <1>1, <2>1, <2>2
    <2>4. a + n <= b
        BY <2>3
    <2> QED
        BY <2>2, <2>4
<1>5. SettledFor + n <= SettledFor'
    <2>1. PICK f, g : f = SettledOf /\ g = SettledOf'
        OBVIOUS
    <2>2. f \in [DOMAIN orders -> Nat] /\ g \in [DOMAIN orders -> Nat] /\ (\A o \in DOMAIN orders : f[o] <= g[o])
          /\ f[x] + n <= g[x]
        BY <1>1, <1>3, <1>4, <2>1
    <2>3. Sum(f) + n <= Sum(g)
        BY <1>1, <2>2, SumRoom
    <2> QED
        BY <2>1, <2>3 DEF SettledFor
<1>6. Closed \in Nat /\ Closed' \in Nat
    <2>1. Told0 /\ BookShape /\ Told0' /\ BookShape'
        BY DEF Shape
    <2> QED
        BY <2>1, ClosedIs, NextClosed
<1>7. Closed' <= SettledFor'
    <2>1. PICK a, b, c, d : a = Closed /\ b = Closed' /\ c = SettledFor /\ d = SettledFor'
        OBVIOUS
    <2>2. /\ a \in Nat /\ b \in Nat /\ c \in Nat /\ d \in Nat
          /\ a <= c /\ b <= a + n /\ c + n <= d
        BY <1>1, <1>5, <1>6, <2>1 DEF BookedOnce
    <2>3. b <= d
        BY <2>2
    <2> QED
        BY <2>1, <2>3
<1>8. Entries' = Entries /\ Opened' = Opened
    BY StoryStays
<1> QED
    BY <1>7, <1>8 DEF BookedOnce

LEMMA KeptJob ==
    ASSUME Shape, Shape', UNCHANGED setting, OrdersGrow, FullJob, TickJob,
           snap' = snap, todo' \subseteq todo,
           job' = NoJob \/ (job' = job /\ UNCHANGED <<execs, live>>)
    PROVE  FullJob' /\ TickJob'
<1>1. /\ Counted \in Nat /\ Counted' \in Nat /\ Counted <= Counted'
      /\ Other \in Nat /\ Other' \in Nat /\ (job' = job => Other <= Other')
    BY CountsGrow, ShapeCounts, ShapeNextCounts DEF CountShapes
<1>2. MaxQty' = MaxQty /\ MaxQty \in Nat /\ snap \in Nat /\ Entries' = Entries /\ Opened' = Opened
    <2>1. snap \in 0..MaxQty /\ MaxQty \in Nat
        BY Story DEF Shape, LockShape
    <2> QED
        BY <2>1, StoryStays
<1>3. \A p, q, r \in Nat : p <= snap + q /\ q <= r => p <= snap + r
    BY <1>2
<1>4. todo' # {} => MaxQty' <= snap' + Counted'
    BY <1>1, <1>2, <1>3 DEF TickJob
<1>5. CASE job' = NoJob
    BY <1>4, <1>5 DEF FullJob, TickJob
<1>6. CASE job # NoJob /\ job' = job /\ UNCHANGED <<execs, live>>
    <2>1. job.qty \in Nat
        BY <1>2, <1>6, JobIs
    <2>2. \A c : LineageQty(c)' = LineageQty(c)
        BY <1>6, StoryStays DEF LineageQty, OpenOf, Lineage, IsLive, Open
    <2>3. FullJob'
        <3>1. \A p, q, r \in Nat : p <= job.qty + q /\ q <= r => p <= job.qty + r
            BY <2>1
        <3>2. ASSUME job.who \in Closes, job.full
              PROVE  job.qty >= LineageQty(job.who) \/ MaxQty' <= job.qty + Other'
            BY <1>1, <1>2, <1>6, <3>1, <3>2 DEF FullJob
        <3> QED
            BY <1>6, <2>2, <3>2 DEF FullJob
    <2>4. TickJob'
        <3>1. ASSUME job.who \in Entries
              PROVE  MaxQty' <= snap' + Other'
            BY <1>1, <1>2, <1>3, <1>6, <3>1 DEF TickJob
        <3> QED
            BY <1>2, <1>4, <1>6, <3>1 DEF TickJob
    <2> QED
        BY <2>3, <2>4
<1> QED
    BY <1>5, <1>6

(* Booking adds what is booked.                                            *)
LEMMA ClosedPlus ==
    ASSUME Shape, Shape', UNCHANGED setting, NEW shares \in [Entries -> Nat],
           \A e \in Entries : execs'[e].closed = execs[e].closed + shares[e]
    PROVE  Closed' = Closed + Sum(shares)
<1>1. Told0 /\ BookShape /\ Told0' /\ BookShape' /\ Entries' = Entries
    BY StoryStays DEF Shape
<1>2. /\ ClosedOf \in [Entries -> Nat] /\ IsFiniteSet(Entries) /\ Closed = Sum(ClosedOf)
      /\ ClosedOf' \in [Entries -> Nat] /\ Closed' = Sum(ClosedOf')
    BY <1>1, ClosedIs, NextClosed
<1>3. \A e \in Entries : ClosedOf'[e] = ClosedOf[e] + shares[e]
    BY <1>1 DEF ClosedOf
<1>4. PICK f, g : f = ClosedOf /\ g = ClosedOf'
    OBVIOUS
<1>5. f \in [Entries -> Nat] /\ g \in [Entries -> Nat] /\ \A e \in Entries : g[e] = f[e] + shares[e]
    BY <1>2, <1>3, <1>4
<1>6. Sum(g) = Sum(f) + Sum(shares)
    BY <1>2, <1>5, SumPlus
<1> QED
    BY <1>2, <1>4, <1>6

LEMMA ClosedOne ==
    ASSUME Shape, Shape', UNCHANGED setting, NEW x \in Entries, NEW n \in Nat,
           execs'[x].closed = execs[x].closed + n,
           \A e \in Entries \ {x} : execs'[e].closed = execs[e].closed
    PROVE  Closed' = Closed + n
<1>1. Told0 /\ BookShape /\ Told0' /\ BookShape' /\ Entries' = Entries
    BY StoryStays DEF Shape
<1>2. /\ ClosedOf \in [Entries -> Nat] /\ IsFiniteSet(Entries) /\ Closed = Sum(ClosedOf) /\ Closed \in Nat
      /\ ClosedOf' \in [Entries -> Nat] /\ Closed' = Sum(ClosedOf')
    BY <1>1, ClosedIs, NextClosed
<1>3. (\A e \in Entries \ {x} : ClosedOf'[e] = ClosedOf[e]) /\ ClosedOf'[x] = ClosedOf[x] + n
    BY <1>1 DEF ClosedOf
<1>4. PICK f, g : f = ClosedOf /\ g = ClosedOf'
    OBVIOUS
<1>5. /\ f \in [Entries -> Nat] /\ g \in [Entries -> Nat] /\ f \in [Entries -> Int] /\ g \in [Entries -> Int]
      /\ (\A e \in Entries \ {x} : g[e] = f[e]) /\ g[x] = f[x] + n /\ f[x] \in Nat
    BY <1>2, <1>3, <1>4, SumUnits
<1>6. Sum(g) = Sum(f) + g[x] - f[x]
    BY <1>2, <1>5, SumChange
<1>7. Sum(f) \in Nat
    BY <1>2, <1>5, SumUnits
<1>8. Sum(g) = Sum(f) + n
    BY <1>5, <1>6, <1>7
<1> QED
    BY <1>2, <1>4, <1>8

(* While entries are retired only when all is booked, the open quantity of *)
(* a lineage is that of its live entries.                                  *)
LEMMA RetiredIsShut ==
    ASSUME Shape, BookedOnce, NEW e \in Entries, execs[e].status = "closed"
    PROVE  Open(e) = 0
<1>1. execs[e].closed \in Nat /\ Opened[e] \in Nat /\ execs[e].closed >= Opened[e]
    BY Story DEF Shape, BookShape, Execs, BookedOnce
<1> QED
    BY <1>1 DEF Open, Minus

LEMMA OpenInIs ==
    ASSUME Shape, BookedOnce, NEW es
    PROVE  OpenIn(es) = OpenOf(es)
<1>1. \A e \in Entries : execs[e].status \in {"open", "closing", "closed"}
    BY DEF Shape, BookShape, Execs
<1>2. \A e \in Entries : ~IsLive(e) => Open(e) = 0
    BY <1>1, RetiredIsShut DEF IsLive
<1> QED
    BY <1>2 DEF OpenIn, OpenOf

LEMMA CloseBooks ==
    ASSUME Shape, Shape', UNCHANGED setting, BookedOnce, FullJob, job # NoJob, NEW n \in Nat,
           n <= job.qty, n = Counts(job.ord), job.who \in Closes, BookClose(job.who, n)
    PROVE  \/ SoldOut
           \/ /\ Closed' <= Closed + n
              /\ \A e \in Entries : execs'[e].status = "closed" => execs'[e].closed >= Opened[e]
<1> DEFINE es == Lineage(job.who)
           all == n = job.qty
           shares == ExitShares(es, n, all /\ job.full)
           booked == Book(shares)
<1>1. execs' = IF all THEN booked
               ELSE [e \in Entries |->
                       IF e \in es THEN [booked[e] EXCEPT !.status = "closing", !.pending = job.qty - n]
                       ELSE booked[e]]
    BY DEF BookClose
<1>2. job.qty \in Nat /\ MaxQty \in Nat /\ job.ord \in DOMAIN orders /\ job.full \in BOOLEAN
    BY JobIs, Story DEF Shape
<1>3. /\ shares \in [Entries -> Nat]
      /\ ~(all /\ job.full) => Sum(shares) <= n
      /\ (all /\ job.full) => Sum(shares) <= Sum(OpenIn(es))
    <2>1. (all /\ job.full) \in BOOLEAN
        BY <1>2
    <2> HIDE DEF es, all
    <2> QED
        BY <2>1, SharesFit DEF Shape
<1>4. /\ booked \in [Entries -> Execs]
      /\ \A e \in Entries : /\ booked[e].closed = execs[e].closed + shares[e]
                            /\ shares[e] = 0 => booked[e] = execs[e]
                            /\ shares[e] # 0 => booked[e].status = IF execs[e].closed + shares[e] >= Opened[e]
                                                                   THEN "closed" ELSE "open"
    <2> HIDE DEF shares
    <2> QED
        BY <1>3, BookIs DEF Shape
<1> HIDE DEF es, shares, booked, all
<1>5. \A e \in Entries : /\ execs'[e].closed = execs[e].closed + shares[e]
                         /\ execs'[e].status = "closed" => execs'[e].closed >= Opened[e]
    <2> SUFFICES ASSUME NEW e \in Entries
                 PROVE  /\ execs'[e].closed = execs[e].closed + shares[e]
                        /\ execs'[e].status = "closed" => execs'[e].closed >= Opened[e]
        OBVIOUS
    <2>1. booked[e].closed = execs[e].closed + shares[e] /\ booked[e] \in Execs
        BY <1>4
    <2>2. booked[e].status = "closed" => booked[e].closed >= Opened[e]
        <3>1. CASE shares[e] = 0
            BY <1>4, <3>1 DEF BookedOnce
        <3>2. CASE shares[e] # 0
            BY <1>4, <3>2
        <3> QED
            BY <3>1, <3>2
    <2>3. CASE execs'[e] = booked[e]
        BY <2>1, <2>2, <2>3
    <2>4. CASE execs'[e] = [booked[e] EXCEPT !.status = "closing", !.pending = job.qty - n]
        <3>1. execs'[e].closed = booked[e].closed /\ execs'[e].status = "closing"
            BY <2>1, <2>4 DEF Execs
        <3> QED
            BY <2>1, <3>1
    <2> QED
        BY <1>1, <2>3, <2>4
<1>6. Closed' = Closed + Sum(shares)
    BY <1>3, <1>5, ClosedPlus
<1>7. SoldOut \/ Sum(shares) <= n
    <2>1. CASE ~(all /\ job.full)
        BY <1>3, <2>1
    <2>2. CASE all /\ job.full
        <3>1. Sum(shares) <= LineageQty(job.who)
            BY <1>3, <2>2, OpenInIs DEF LineageQty, es
        <3>2. CASE job.qty >= LineageQty(job.who)
            <4>1. LineageQty(job.who) \in Nat
                BY OpenType, <1>2 DEF LineageQty, Shape
            <4>2. Sum(shares) \in Nat
                BY <1>3, Story, SumUnits DEF Shape
            <4> QED
                BY <1>2, <2>2, <3>1, <3>2, <4>1, <4>2 DEF all
        <3>3. CASE MaxQty <= job.qty + Other
            <4>1. Counted = Other + Counts(job.ord) /\ Other \in Nat
                BY <1>2, ShapeCounts DEF CountShapes
            <4>2. n = job.qty
                BY <2>2 DEF all
            <4>3. MaxQty <= n + Other /\ Counted = Other + n /\ MaxQty \in Nat
                BY <1>2, <3>3, <4>1, <4>2
            <4>4. MaxQty <= Counted
                <5>1. PICK a, b, c : a = MaxQty /\ b = Other /\ c = Counted
                    OBVIOUS
                <5>2. a \in Nat /\ b \in Nat /\ a <= n + b /\ c = b + n
                    BY <4>1, <4>3, <5>1
                <5>3. a <= c
                    BY <5>2
                <5> QED
                    BY <5>1, <5>3
            <4> QED
                BY <4>4 DEF SoldOut
        <3> QED
            BY <2>2, <3>2, <3>3 DEF FullJob
    <2> QED
        BY <2>1, <2>2
<1>8. Sum(shares) \in Nat /\ Closed \in Nat
    BY <1>3, Story, SumUnits, ClosedIs DEF Shape
<1> QED
    BY <1>5, <1>6, <1>7, <1>8

LEMMA RetryBooks ==
    ASSUME Shape, Shape', UNCHANGED setting, BookedOnce, TickJob, job # NoJob, NEW n \in Nat,
           n <= job.qty, n = Counts(job.ord), job.who \in Entries, BookRetry(job.who, n)
    PROVE  \/ SoldOut
           \/ /\ Closed' <= Closed + n
              /\ \A e \in Entries : execs'[e].status = "closed" => execs'[e].closed >= Opened[e]
<1> DEFINE x == execs[job.who]
           closed == x.closed + n
           all == n = job.qty
           ends == n >= snap \/ closed >= Opened[job.who] \/ (x.pending = 0 /\ all)
           y == [status  |-> IF ends THEN "closed" ELSE IF all THEN "open" ELSE "closing",
                 closed  |-> closed,
                 pending |-> IF ends \/ all \/ x.pending = 0 THEN 0 ELSE job.qty - n]
<1>1. execs' = [execs EXCEPT ![job.who] = y]
    BY DEF BookRetry
<1>2. /\ job.qty \in Nat /\ MaxQty \in Nat /\ job.ord \in DOMAIN orders /\ snap \in Nat
      /\ x \in Execs /\ x.closed \in Nat /\ Opened[job.who] \in Nat
    <2>1. x \in Execs /\ x.closed \in Nat
        BY DEF Shape, BookShape, Execs
    <2>2. snap \in 0..MaxQty /\ MaxQty \in Nat
        BY Story DEF Shape, LockShape
    <2> QED
        BY <2>1, <2>2, JobIs, Story DEF Shape
<1>3. /\ y.closed = closed /\ (y.status = "closed" => ends)
    <2> HIDE DEF ends, closed
    <2> QED
        OBVIOUS
<1>4. execs'[job.who] = y /\ \A e \in Entries \ {job.who} : execs'[e] = execs[e]
    BY <1>1 DEF Shape, BookShape
<1> HIDE DEF y
<1>5. Closed' = Closed + n
    BY <1>3, <1>4, ClosedOne
<1>6. SoldOut \/ (ends => closed >= Opened[job.who])
    <2>1. Counted = Other + Counts(job.ord) /\ Other \in Nat /\ MaxQty <= snap + Other
        BY <1>2, ShapeCounts DEF CountShapes, TickJob
    <2>2. n >= snap => SoldOut
        BY <1>2, <2>1 DEF SoldOut
    <2>3. x.pending = 0 /\ all => n >= snap \/ closed >= Opened[job.who]
        BY <1>2 DEF TickJob
    <2> HIDE DEF all, closed
    <2> QED
        BY <2>2, <2>3
<1>7. Closed \in Nat
    BY ClosedIs DEF Shape
<1>8. SoldOut \/ \A e \in Entries : execs'[e].status = "closed" => execs'[e].closed >= Opened[e]
    <2> HIDE DEF ends, closed
    <2> QED
        BY <1>3, <1>4, <1>6 DEF BookedOnce
<1>9. Closed' <= Closed + n
    BY <1>5, <1>7
<1> QED
    BY <1>8, <1>9

LEMMA ResolveBooks ==
    ASSUME Shape, Shape', UNCHANGED setting, BookedOnce, NEW r \in rows, ResolveFilled(r)
    PROVE  /\ Closed' <= Closed + orders[r.ord].fill
           /\ \A e \in Entries : execs'[e].status = "closed" => execs'[e].closed >= Opened[e]
<1> DEFINE n == orders[r.ord].fill
           one == [execs EXCEPT ![r.who] = [status |-> IF @.closed + n >= Opened[r.who] THEN "closed" ELSE "open",
                                            closed |-> @.closed + n, pending |-> 0]]
           booked == IF r.who \in Closes THEN Book(VenueShares(n)) ELSE one
           ended == {e \in Entries : booked[e].status = "closed" /\ booked[e] # execs[e]}
<1>1. execs' = [e \in Entries |-> IF e \in ended THEN [booked[e] EXCEPT !.pending = 0] ELSE booked[e]]
    BY DEF ResolveFilled
<1>2. r.who \in Closes \cup Entries /\ r.ord \in DOMAIN orders /\ n \in Nat
    BY OrdersAre DEF Shape, RowShape, ExitRows
<1>3. \A e \in Entries : execs[e] \in Execs /\ execs[e].closed \in Nat /\ Opened[e] \in Nat
    BY Story DEF Shape, BookShape, Execs
<1>4. CASE r.who \in Closes
    <2> DEFINE shares == VenueShares(n)
    <2>1. booked = Book(shares)
        BY <1>4
    <2>2. shares \in [Entries -> Nat] /\ Sum(shares) <= n /\ Sum(shares) \in Nat
        <3>1. OpenOf(Entries) \in [Entries -> Nat]
            BY OpenType DEF Shape
        <3> HIDE DEF n
        <3>2. shares \in [Entries -> Nat] /\ Sum(shares) <= n
            BY <1>2, <3>1, SpreadFits DEF Shape, VenueShares
        <3> HIDE DEF shares
        <3> QED
            BY <3>2, Story, SumUnits DEF Shape
    <2> HIDE DEF n, shares, booked
    <2>3. /\ booked \in [Entries -> Execs]
          /\ \A e \in Entries : /\ booked[e].closed = execs[e].closed + shares[e]
                                /\ shares[e] = 0 => booked[e] = execs[e]
                                /\ shares[e] # 0 => booked[e].status = IF execs[e].closed + shares[e] >= Opened[e]
                                                                       THEN "closed" ELSE "open"
        BY <2>1, <2>2, BookIs DEF Shape
    <2>4. \A e \in Entries : /\ execs'[e].closed = execs[e].closed + shares[e]
                             /\ execs'[e].status = "closed" => execs'[e].closed >= Opened[e]
        <3> SUFFICES ASSUME NEW e \in Entries
                     PROVE  /\ execs'[e].closed = execs[e].closed + shares[e]
                            /\ execs'[e].status = "closed" => execs'[e].closed >= Opened[e]
            OBVIOUS
        <3>1. execs'[e].closed = booked[e].closed /\ execs'[e].status = booked[e].status
            <4>1. booked[e] \in Execs /\ execs'[e] \in {booked[e], [booked[e] EXCEPT !.pending = 0]}
                BY <1>1, <2>3
            <4> QED
                BY <4>1 DEF Execs
        <3>2. booked[e].closed = execs[e].closed + shares[e] /\ shares[e] \in Nat
            BY <2>2, <2>3
        <3>3. CASE shares[e] = 0
            BY <2>3, <3>1, <3>2, <3>3 DEF BookedOnce
        <3>4. CASE shares[e] # 0
            BY <1>3, <2>3, <3>1, <3>2, <3>4
        <3> QED
            BY <3>3, <3>4
    <2>5. Closed' = Closed + Sum(shares)
        BY <2>2, <2>4, ClosedPlus
    <2>6. Closed \in Nat
        BY ClosedIs DEF Shape
    <2> QED
        BY <1>2, <2>2, <2>4, <2>5, <2>6 DEF n
<1>5. CASE r.who \notin Closes
    <2>1. r.who \in Entries
        BY <1>2, <1>5
    <2> DEFINE x == execs[r.who]
               y == [status |-> IF x.closed + n >= Opened[r.who] THEN "closed" ELSE "open",
                     closed |-> x.closed + n, pending |-> 0]
    <2>2. booked[r.who] = y /\ \A e \in Entries \ {r.who} : booked[e] = execs[e]
        BY <1>5, <2>1 DEF Shape, BookShape
    <2>3. y.closed = x.closed + n /\ (y.status = "closed" => y.closed >= Opened[r.who]) /\ [y EXCEPT !.pending = 0] = y
        OBVIOUS
    <2> HIDE DEF y, n, booked
    <2>4. execs'[r.who] = y
        BY <1>1, <2>1, <2>2, <2>3
    <2>5. \A e \in Entries \ {r.who} : execs'[e] = execs[e]
        BY <1>1, <2>2
    <2>6. Closed' = Closed + n
        BY <1>2, <2>1, <2>3, <2>4, <2>5, ClosedOne
    <2>7. \A e \in Entries : execs'[e].status = "closed" => execs'[e].closed >= Opened[e]
        BY <2>3, <2>4, <2>5 DEF BookedOnce
    <2>8. Closed \in Nat
        BY ClosedIs DEF Shape
    <2> QED
        BY <1>2, <2>6, <2>7, <2>8 DEF n
<1> QED
    BY <1>4, <1>5

----------------------------------------------------------------------------
(* Every step keeps account *)

(* A step that books nothing.                                              *)
LEMMA NothingBooked ==
    ASSUME Shape, Shape', UNCHANGED setting, OrdersGrow, AccountInv,
           \A o \in DOMAIN orders : Loose(o)' => Loose(o),
           \A e \in Entries : /\ execs'[e].closed = execs[e].closed
                              /\ execs'[e].status = "closed" => execs[e].status = "closed",
           snap' = snap, todo' \subseteq todo,
           job' = NoJob \/ (job' = job /\ UNCHANGED <<execs, live>>)
    PROVE  AccountInv'
BY KeptAccounted, KeptJob DEF AccountInv

(* A step that leaves nothing of the position.                             *)
LEMMA NothingLeft ==
    ASSUME Shape, Shape', UNCHANGED setting, OrdersGrow, AccountInv, SoldOut,
           snap' = snap, todo' \subseteq todo, job' = NoJob
    PROVE  AccountInv'
<1>1. SoldOut'
    BY CountsGrow
<1> QED
    BY <1>1, KeptJob DEF AccountInv, Accounted

(* A settled close or re-issue.                                            *)
LEMMA FillBooked ==
    ASSUME Shape, Shape', UNCHANGED setting, Fresh, AccountInv, job # NoJob, NEW n \in Nat,
           n <= job.qty, n = Counts(job.ord), BookFill(n)
    PROVE  AccountInv'
<1>1. UNCHANGED <<orders, snap>> /\ todo' \subseteq todo /\ job' = NoJob
    BY DEF BookFill, Done
<1>2. OrdersGrow /\ job.ord \in DOMAIN orders /\ job.who \in Closes \cup Entries
    BY <1>1, KeptGrow, JobIs
<1>3. rows' = rows \/ rows' = Put(job.who, job.label, "filled", job.ord)
    BY DEF BookFill, BookClose, BookRetry
<1>4. \A r \in rows : r.ord # job.ord
    BY DEF Fresh
<1>5. \A r \in rows' : r.status = "unknown" => r \in rows
    BY <1>3 DEF Put
<1>6. PICK x \in DOMAIN orders : x = job.ord
    BY <1>2
<1>7. /\ \A o \in DOMAIN orders : Loose(o)' => Loose(o)
      /\ Loose(x) /\ ~Loose(x)' /\ n <= Counts(x)
    BY <1>1, <1>4, <1>5, <1>6 DEF Loose
<1>8. CASE SoldOut
    BY <1>1, <1>2, <1>8, NothingLeft
<1>9. CASE ~SoldOut
    <2>1. BookedOnce /\ FullJob /\ TickJob
        BY <1>9 DEF AccountInv, Accounted
    <2>2. /\ Closed' <= Closed + n
          /\ \A e \in Entries : execs'[e].status = "closed" => execs'[e].closed >= Opened[e]
        <3>1. CASE job.who \in Closes
            <4>1. BookClose(job.who, n)
                BY <3>1 DEF BookFill
            <4> QED
                BY <1>9, <2>1, <3>1, <4>1, CloseBooks
        <3>2. CASE job.who \notin Closes
            <4>1. BookRetry(job.who, n) /\ job.who \in Entries
                BY <1>2, <3>2 DEF BookFill
            <4> QED
                BY <1>9, <2>1, <4>1, RetryBooks
        <3> QED
            BY <3>1, <3>2
    <2>3. BookedOnce'
        BY <1>1, <1>6, <1>7, <2>1, <2>2, SettledAccounted
    <2>4. FullJob' /\ TickJob'
        BY <1>1, <1>2, <2>1, KeptJob
    <2> QED
        BY <2>3, <2>4 DEF AccountInv, Accounted
<1> QED
    BY <1>8, <1>9

LEMMA ResolveAccount ==
    ASSUME Shape, Shape', UNCHANGED setting, Fresh, AccountInv, NEW r \in rows, ResolveFilled(r)
    PROVE  AccountInv'
<1> DEFINE n == orders[r.ord].fill
<1>1. /\ UNCHANGED <<orders, snap, todo, job>> /\ job = NoJob /\ r.status = "unknown"
      /\ rows' = Put(r.who, r.label, "filled", r.ord)
    BY DEF ResolveFilled, lockVars, LockIdle, Unresolved
<1>2. OrdersGrow /\ r.ord \in DOMAIN orders
    BY <1>1, KeptGrow DEF Shape, RowShape, ExitRows
<1>3. n \in Nat /\ n <= Counts(r.ord)
    BY <1>2, OrdersAre, ShapeCounts DEF Shape, CountShapes
<1>4. \A q \in rows' : q.status = "unknown" => q \in rows /\ (q.who # r.who \/ q.label # r.label)
    BY <1>1 DEF Put
<1>5. \A q \in rows : q.ord = r.ord => q = r
    BY DEF Fresh
<1>6. PICK x \in DOMAIN orders, m \in Nat : x = r.ord /\ m = n
    BY <1>2, <1>3
<1>7. /\ \A o \in DOMAIN orders : Loose(o)' => Loose(o)
      /\ Loose(x) /\ ~Loose(x)' /\ m <= Counts(x)
    BY <1>1, <1>3, <1>4, <1>5, <1>6 DEF Loose
<1>8. CASE SoldOut
    BY <1>1, <1>2, <1>8, NothingLeft
<1>9. CASE ~SoldOut
    <2>1. BookedOnce
        BY <1>9 DEF AccountInv, Accounted
    <2>2. /\ Closed' <= Closed + n
          /\ \A e \in Entries : execs'[e].status = "closed" => execs'[e].closed >= Opened[e]
        BY <2>1, ResolveBooks
    <2>3. BookedOnce'
        <3>1. Closed' <= Closed + m
            BY <1>6, <2>2
        <3> QED
            BY <1>1, <1>6, <1>7, <2>1, <2>2, <3>1, SettledAccounted
    <2>4. FullJob' /\ TickJob'
        BY <1>1, <1>2, KeptJob DEF AccountInv
    <2> QED
        BY <2>3, <2>4 DEF AccountInv, Accounted
<1> QED
    BY <1>8, <1>9

(* The other orders of a new job are all there were.                       *)
LEMMA OtherOfNew ==
    ASSUME Shape, Shape', UNCHANGED setting, OrdersGrow, job'.ord \notin DOMAIN orders
    PROVE  Counted <= Other' /\ Counted \in Nat /\ Other' \in Nat
<1>1. /\ IsFiniteSet(DOMAIN orders') /\ DOMAIN orders \subseteq DOMAIN orders'
      /\ CountOf \in [DOMAIN orders -> Nat] /\ OtherOf' \in [DOMAIN orders' -> Nat]
      /\ Counted \in Nat /\ Other' \in Nat
    BY ShapeCounts, ShapeNextCounts DEF CountShapes, OrdersGrow
<1>2. \A o \in DOMAIN orders : CountOf[o] <= OtherOf'[o]
    <2> SUFFICES ASSUME NEW o \in DOMAIN orders PROVE CountOf[o] <= OtherOf'[o]
        OBVIOUS
    <2>1. CountOf[o] = Counts(o) /\ OtherOf'[o] = Counts(o)'
        BY <1>1 DEF CountOf, OtherOf
    <2>2. Counts(o) <= Counts(o)'
        BY CountsGrow
    <2> QED
        BY <2>1, <2>2
<1>3. PICK f, g : f = CountOf /\ g = OtherOf'
    OBVIOUS
<1>4. f \in [DOMAIN orders -> Nat] /\ g \in [DOMAIN orders' -> Nat] /\ \A o \in DOMAIN orders : f[o] <= g[o]
    BY <1>1, <1>2, <1>3
<1>5. Sum(f) <= Sum(g)
    BY <1>1, <1>4, SumWider
<1> QED
    BY <1>1, <1>3, <1>5 DEF Counted, Other

(* A close is placed.                                                      *)
LEMMA CloseAccount ==
    ASSUME Shape, Shape', Fresh, NoReuse, AccountInv, UNCHANGED setting, NEW c \in Closes, PlaceClose(c)
    PROVE  AccountInv'
<1>1. /\ UNCHANGED <<execs, live, csig, rows, todo, snap>> /\ todo = {} /\ job = NoJob
      /\ Place(c, Label(c), CloseQty(c), IsFull(c))
    BY DEF PlaceClose, bookVars, TakeNext, LockIdle
<1>2. /\ LineageQty(c) \in Nat /\ CloseBase(c) \in Nat /\ CloseCap(c) \in Nat /\ CloseQty(c) \in Nat
      /\ Label(c) \in 0..MaxQty /\ CloseQty(c) \in 0..MaxQty /\ IsFull(c) \in BOOLEAN /\ MaxQty \in Nat
    BY CloseQtyType, Story DEF Shape
<1>3. /\ DOMAIN orders \subseteq DOMAIN orders'
      /\ \A o \in DOMAIN orders : orders'[o] = orders[o]
      /\ job' = [who |-> c, label |-> Label(c), qty |-> CloseQty(c), full |-> IsFull(c), ord |-> job'.ord]
      /\ job'.ord \notin DOMAIN orders
    <2>1. PICK l, q, f : l = Label(c) /\ q = CloseQty(c) /\ f = IsFull(c)
        OBVIOUS
    <2>2. l \in 0..MaxQty /\ q \in 0..MaxQty /\ f \in BOOLEAN /\ Place(c, l, q, f)
        BY <1>1, <1>2, <2>1
    <2>3. c \in Closes \cup Entries
        OBVIOUS
    <2> QED
        BY <2>1, <2>2, <2>3, PlaceShape DEF NoReuse
<1>4. job'.who = c /\ job'.qty = CloseQty(c) /\ job'.full = IsFull(c)
    BY <1>3
<1>5. OrdersGrow
    BY <1>3, KeptGrow
<1>6. \A o \in DOMAIN orders : Loose(o)' => Loose(o)
    BY <1>1, <1>3 DEF Loose
<1>7. Accounted'
    BY <1>1, <1>5, <1>6, KeptAccounted DEF AccountInv
<1>8. Counted <= Other' /\ Counted \in Nat /\ Other' \in Nat
    BY <1>3, <1>5, OtherOfNew
<1>9. FullJob'
    <2>1. LineageQty(c)' = LineageQty(c)
        BY <1>1, StoryStays DEF LineageQty, OpenOf, Lineage, IsLive, Open
    <2>2. ASSUME IsFull(c)
          PROVE  CloseQty(c) >= LineageQty(c) \/ MaxQty <= CloseQty(c) + Counted
        <3>1. LineageQty(c) <= CloseBase(c)
            BY <1>2 DEF CloseBase
        <3>2. CASE CloseQty(c) >= CloseBase(c)
            BY <1>2, <3>1, <3>2
        <3>3. CASE c \notin Halves /\ LineageQty(c) = 0
            BY <1>2, <3>3
        <3>4. CASE c \notin Halves /\ LineageQty(c) > 0
            <4>1. CloseBase(c) = LineageQty(c)
                BY <3>4 DEF CloseBase
            <4>2. CloseQty(c) = Least(LineageQty(c), CloseCap(c))
                BY <3>4, <4>1 DEF CloseQty
            <4>3. CloseCap(c) \in {LineageQty(c), Net}
                BY DEF CloseCap
            <4>4. CloseQty(c) >= LineageQty(c) \/ CloseQty(c) = Net
                BY <1>2, <4>2, <4>3 DEF Least
            <4>5. MaxQty <= Net + Counted
                BY ShapeCounts DEF CountShapes
            <4> QED
                BY <4>4, <4>5
        <3> QED
            BY <1>2, <2>2, <3>2, <3>3, <3>4 DEF IsFull
    <2>3. MaxQty' = MaxQty
        BY StoryStays
    <2>4. IsFull(c) => CloseQty(c) >= LineageQty(c) \/ MaxQty <= CloseQty(c) + Other'
        <3>1. PICK m, q, a, b : m = MaxQty /\ q = CloseQty(c) /\ a = Counted /\ b = Other'
            OBVIOUS
        <3>2. m \in Nat /\ q \in Nat /\ a \in Nat /\ b \in Nat /\ a <= b
            BY <1>2, <1>8, <3>1
        <3>3. m <= q + a => m <= q + b
            BY <3>2
        <3> QED
            BY <2>2, <3>1, <3>3
    <2> QED
        BY <1>4, <2>1, <2>3, <2>4 DEF FullJob
<1>10. TickJob'
    <2>1. c \notin Entries /\ Entries' = Entries
        BY Story, StoryStays DEF Shape
    <2> QED
        BY <1>1, <1>4, <2>1 DEF TickJob
<1> QED
    BY <1>7, <1>9, <1>10 DEF AccountInv

(* A re-issue is placed.                                                   *)
LEMMA RetryAccount ==
    ASSUME Shape, Shape', Fresh, NoReuse, AccountInv, UNCHANGED setting, NEW e \in Entries, RetryClose(e)
    PROVE  AccountInv'
<1>1. /\ UNCHANGED <<execs, live, csig, rows, todo, snap>> /\ todo # {} /\ job = NoJob
      /\ Place(e, 0, ReissueQty(e), FALSE)
    BY DEF RetryClose, bookVars, NextRetry
<1>2. ReissueQty(e) \in 0..MaxQty /\ MaxQty \in Nat /\ snap \in Nat /\ Open(e) \in Nat
    <2>1. snap \in 0..MaxQty /\ MaxQty \in Nat
        BY Story DEF Shape, LockShape
    <2> QED
        BY <2>1, ReissueType, OpenType DEF Shape
<1>3. /\ DOMAIN orders \subseteq DOMAIN orders'
      /\ \A o \in DOMAIN orders : orders'[o] = orders[o]
      /\ job' = [who |-> e, label |-> 0, qty |-> ReissueQty(e), full |-> FALSE, ord |-> job'.ord]
      /\ job'.ord \notin DOMAIN orders
    <2>1. PICK l, q, f : l = 0 /\ q = ReissueQty(e) /\ f = FALSE
        OBVIOUS
    <2>2. l \in 0..MaxQty /\ q \in 0..MaxQty /\ f \in BOOLEAN /\ Place(e, l, q, f)
        <3>1. l \in 0..MaxQty
            BY <1>2, <2>1
        <3>2. q \in 0..MaxQty /\ f \in BOOLEAN
            BY <1>2, <2>1
        <3> QED
            BY <1>1, <2>1, <3>1, <3>2
    <2>3. e \in Closes \cup Entries
        OBVIOUS
    <2> QED
        BY <2>1, <2>2, <2>3, PlaceShape DEF NoReuse
<1>4. job'.who = e /\ job'.qty = ReissueQty(e) /\ ~job'.full
    BY <1>3
<1>5. OrdersGrow
    BY <1>3, KeptGrow
<1>6. \A o \in DOMAIN orders : Loose(o)' => Loose(o)
    BY <1>1, <1>3 DEF Loose
<1>7. Accounted'
    BY <1>1, <1>5, <1>6, KeptAccounted DEF AccountInv
<1>8. Counted <= Other' /\ Counted \in Nat /\ Other' \in Nat /\ Counted <= Counted' /\ Counted' \in Nat
    BY <1>3, <1>5, OtherOfNew, CountsGrow, ShapeNextCounts DEF CountShapes
<1>9. FullJob'
    BY <1>4 DEF FullJob
<1>10. TickJob'
    <2>1. MaxQty' = MaxQty /\ Entries' = Entries /\ Opened' = Opened
        BY StoryStays
    <2>2. MaxQty <= snap + Counted
        BY <1>1 DEF AccountInv, TickJob
    <2>3. MaxQty <= snap + Other' /\ MaxQty <= snap + Counted'
        <3>1. PICK m, s, a, b, d : m = MaxQty /\ s = snap /\ a = Counted /\ b = Other' /\ d = Counted'
            OBVIOUS
        <3>2. m \in Nat /\ s \in Nat /\ a \in Nat /\ b \in Nat /\ d \in Nat /\ a <= b /\ a <= d /\ m <= s + a
            BY <1>2, <1>8, <2>2, <3>1
        <3>3. m <= s + b /\ m <= s + d
            BY <3>2
        <3> QED
            BY <3>1, <3>3
    <2>4. execs[e].pending = 0 => ReissueQty(e) >= snap \/ execs[e].closed + ReissueQty(e) >= Opened[e]
        <3> SUFFICES ASSUME execs[e].pending = 0
                     PROVE  ReissueQty(e) >= snap \/ execs[e].closed + ReissueQty(e) >= Opened[e]
            OBVIOUS
        <3>1. execs[e].closed \in Nat /\ Opened[e] \in Nat
            BY Story DEF Shape, BookShape, Execs
        <3>2. CASE Open(e) = 0
            <4>1. ReissueQty(e) = Least(snap, Least(snap, snap))
                BY <3>2 DEF ReissueQty
            <4> QED
                BY <1>2, <4>1 DEF Least
        <3>3. CASE Open(e) > 0
            <4>1. ReissueQty(e) = Least(Open(e), Least(snap, Open(e)))
                BY <3>3 DEF ReissueQty
            <4>2. Open(e) = Opened[e] - execs[e].closed
                BY <3>1, <3>3 DEF Open, Minus
            <4> QED
                BY <1>2, <3>1, <4>1, <4>2 DEF Least
        <3> QED
            BY <1>2, <3>2, <3>3
    <2> QED
        BY <1>1, <1>4, <2>1, <2>3, <2>4 DEF TickJob
<1> QED
    BY <1>7, <1>9, <1>10 DEF AccountInv

LEMMA AccountInit ==
    ASSUME CloseInit, Shape
    PROVE  Fresh /\ AccountInv
<1>1. /\ execs = [e \in Entries |-> [status |-> "open", closed |-> 0, pending |-> 0]]
      /\ rows = {} /\ job = NoJob /\ todo = {}
    BY DEF CloseInit
<1>2. Closed = 0
    <2>1. ClosedOf \in [Entries -> Int] /\ \A e \in Entries : ClosedOf[e] = 0
        BY <1>1 DEF ClosedOf
    <2>2. Sum(ClosedOf) = 0
        BY <2>1, SumZero
    <2> QED
        BY <2>2, ClosedIs DEF Shape
<1>3. SettledFor \in Nat
    BY ShapeCounts DEF CountShapes
<1>4. BookedOnce
    BY <1>1, <1>2, <1>3 DEF BookedOnce
<1> QED
    BY <1>1, <1>4 DEF Fresh, AccountInv, Accounted, FullJob, TickJob

LEMMA AccountStep ==
    ASSUME Shape, Shape', NoReuse, Fresh, AccountInv, [CloseNext]_closeVars
    PROVE  AccountInv'
<1>1. OrdersGrow
    BY FreshStep
<1>2. ASSUME UNCHANGED setting, UNCHANGED <<execs, live, rows, snap>>, todo' \subseteq todo,
             job' = NoJob \/ job' = job
      PROVE  AccountInv'
    <2>1. \A o \in DOMAIN orders : Loose(o)' => Loose(o)
        BY <1>2 DEF Loose
    <2> QED
        BY <1>1, <1>2, <2>1, NothingBooked
<1>3. CASE UNCHANGED closeVars
    BY <1>2, <1>3 DEF closeVars, bookVars, lockVars
<1>4. ASSUME NEW c \in Closes, Deliver(c)
      PROVE  AccountInv'
    BY <1>2, <1>4 DEF Deliver, bookVars, lockVars
<1>5. ASSUME NEW c \in Closes, HandleStep(c)
      PROVE  AccountInv'
    <2>1. UNCHANGED setting
        BY <1>5 DEF HandleStep
    <2>2. CASE PlaceClose(c)
        BY <2>1, <2>2, CloseAccount
    <2>3. CASE AlreadyFlat(c)
        <3>1. UNCHANGED <<snap, todo, job>> /\ job = NoJob /\ Net = 0
            BY <2>3 DEF AlreadyFlat, lockVars, TakeNext, LockIdle
        <3>2. SoldOut
            <4>1. MaxQty <= Net + Counted /\ Counted \in Nat
                BY ShapeCounts DEF CountShapes
            <4> QED
                BY <3>1, <4>1 DEF SoldOut
        <3> QED
            BY <1>1, <2>1, <3>1, <3>2, NothingLeft
    <2>4. CASE ~PlaceClose(c) /\ ~AlreadyFlat(c)
        BY <1>2, <1>5, <2>1, <2>4 DEF HandleStep, RefuseClose, NothingOpen, WaitForPrior, Duplicate,
                                      CloseRefused, Reject, lockVars
    <2> QED
        BY <2>2, <2>3, <2>4
<1>6. ASSUME SettleStep
      PROVE  AccountInv'
    <2>1. UNCHANGED setting /\ job # NoJob /\ job.ord \in DOMAIN orders
          /\ orders[job.ord].fill \in Nat /\ orders[job.ord].qty \in Nat
        <3>1. UNCHANGED setting /\ job # NoJob
            BY <1>6 DEF SettleStep, SettleFilled, TrustAck, SettleUnfilled, PollTimeout, SettleTimeout, PlaceThrows
        <3> QED
            BY <3>1, JobIs
    <2>2. job.qty = orders[job.ord].qty /\ orders[job.ord].fill <= orders[job.ord].qty
        BY <2>1, OrdersAre DEF Fresh, Shape
    <2>3. CASE SettleFilled
        <3>1. ~adapter.acks /\ BookFill(Least(orders[job.ord].fill, job.qty))
            BY <2>3 DEF SettleFilled
        <3>2. PICK n \in Nat : n = Least(orders[job.ord].fill, job.qty)
            BY <2>1, FillsIt
        <3>3. n <= job.qty /\ n = Counts(job.ord)
            BY <2>1, <2>2, <3>1, <3>2 DEF Least, Counts
        <3> QED
            BY <2>1, <3>1, <3>2, <3>3, FillBooked
    <2>4. CASE TrustAck
        <3>1. /\ adapter.acks
              /\ BookFill(IF Report(job.ord) = "filled" THEN Least(orders[job.ord].fill, job.qty) ELSE job.qty)
            BY <2>4 DEF TrustAck
        <3>2. Report(job.ord) = "filled" => orders[job.ord].fill = orders[job.ord].qty
            <4>1. adapter.partial \in {"partially_filled", "cancelled"}
                BY Story DEF Shape
            <4> QED
                BY <4>1 DEF Report
        <3>3. BookFill(job.qty)
            BY <2>1, <2>2, <3>1, <3>2 DEF Least
        <3>4. PICK n \in Nat : n = job.qty
            BY <2>1, <2>2
        <3>5. n <= job.qty /\ n = Counts(job.ord) /\ BookFill(n)
            BY <2>2, <3>1, <3>3, <3>4 DEF Counts
        <3> QED
            BY <2>1, <3>5, FillBooked
    <2>5. ASSUME Unconfirmed, \A r \in rows' : r.status = "unknown" => r \in rows \/ r.ord = job.ord
          PROVE  AccountInv'
        <3>1. /\ job' = NoJob /\ snap' = snap /\ todo' \subseteq todo
              /\ execs' = execs \/ execs' = [e \in Entries |->
                                               IF e \in Lineage(job.who)
                                               THEN [execs[e] EXCEPT !.status = "closing", !.pending = job.qty]
                                               ELSE execs[e]]
            BY <2>5 DEF Unconfirmed, Done
        <3>2. \A e \in Entries : /\ execs'[e].closed = execs[e].closed
                                 /\ execs'[e].status = "closed" => execs[e].status = "closed"
            <4>1. \A e \in Entries : execs[e] \in Execs
                BY DEF Shape, BookShape
            <4>2. \A e \in Entries : \/ execs'[e] = execs[e]
                                     \/ execs'[e] = [execs[e] EXCEPT !.status = "closing", !.pending = job.qty]
                BY <3>1
            <4> QED
                BY <4>1, <4>2 DEF Execs
        <3>3. \A o \in DOMAIN orders : Loose(o)' => Loose(o)
            BY <2>1, <2>5, <3>1 DEF Loose
        <3> QED
            BY <1>1, <2>1, <3>1, <3>2, <3>3, NothingBooked
    <2>6. CASE SettleUnfilled
        BY <2>5, <2>6 DEF SettleUnfilled
    <2>7. CASE PollTimeout
        BY <1>2, <2>1, <2>7 DEF PollTimeout, bookVars
    <2>8. CASE SettleTimeout
        <3>1. Unconfirmed /\ rows' = Put(job.who, job.label, "unknown", job.ord)
            BY <2>8 DEF SettleTimeout
        <3> QED
            BY <2>5, <3>1 DEF Put
    <2>9. CASE PlaceThrows
        BY <1>2, <2>1, <2>9 DEF PlaceThrows, Done
    <2> QED
        BY <1>6, <2>3, <2>4, <2>6, <2>7, <2>8, <2>9 DEF SettleStep
<1>7. ASSUME RetryStep
      PROVE  AccountInv'
    <2>1. UNCHANGED setting
        BY <1>7 DEF RetryStep
    <2>2. CASE StartTick
        <3>1. /\ UNCHANGED <<execs, live, rows, job, orders>> /\ job = NoJob /\ snap' = Net
            BY <2>2 DEF StartTick, bookVars, LockIdle
        <3>2. \A o \in DOMAIN orders : Loose(o)' => Loose(o)
            BY <3>1 DEF Loose
        <3>3. Accounted'
            BY <1>1, <2>1, <3>1, <3>2, KeptAccounted DEF AccountInv
        <3>4. MaxQty' <= snap' + Counted'
            <4>1. MaxQty' = MaxQty /\ MaxQty \in Nat /\ Net \in Nat
                BY <2>1, StoryStays, Story, OrdersAre DEF Shape
            <4>2. MaxQty <= Net + Counted /\ Counted <= Counted' /\ Counted \in Nat /\ Counted' \in Nat
                BY <1>1, <2>1, CountsGrow, ShapeCounts, ShapeNextCounts DEF CountShapes
            <4>3. PICK m, s, a, b : m = MaxQty /\ s = Net /\ a = Counted /\ b = Counted'
                OBVIOUS
            <4>4. m \in Nat /\ s \in Nat /\ a \in Nat /\ b \in Nat /\ m <= s + a /\ a <= b
                BY <4>1, <4>2, <4>3
            <4>5. m <= s + b
                BY <4>4
            <4> QED
                BY <3>1, <4>1, <4>3, <4>5
        <3>5. FullJob' /\ TickJob'
            BY <3>1, <3>4 DEF FullJob, TickJob
        <3> QED
            BY <3>3, <3>5 DEF AccountInv
    <2>3. ASSUME NEW e \in Entries, RetryFlat(e)
          PROVE  AccountInv'
        <3>1. /\ UNCHANGED <<snap, job>> /\ job = NoJob /\ todo' \subseteq todo /\ todo # {} /\ snap = 0
            BY <2>3 DEF RetryFlat, NextRetry
        <3>2. SoldOut
            <4>1. MaxQty <= 0 + Counted /\ Counted \in Nat
                BY <3>1, ShapeCounts DEF CountShapes, AccountInv, TickJob
            <4> QED
                BY <4>1 DEF SoldOut
        <3> QED
            BY <1>1, <2>1, <3>1, <3>2, NothingLeft
    <2>4. ASSUME NEW e \in Entries, RetryWaits(e) \/ RetryPostponed(e)
          PROVE  AccountInv'
        BY <1>2, <2>1, <2>4 DEF RetryWaits, RetryPostponed, bookVars
    <2>5. ASSUME NEW e \in Entries, RetryClose(e)
          PROVE  AccountInv'
        BY <2>1, <2>5, RetryAccount
    <2> QED
        BY <1>7, <2>2, <2>3, <2>4, <2>5 DEF RetryStep
<1>8. ASSUME ResolveStep
      PROVE  AccountInv'
    <2>1. UNCHANGED setting
        BY <1>8 DEF ResolveStep
    <2>2. ASSUME NEW r \in rows, ResolveFilled(r)
          PROVE  AccountInv'
        BY <2>1, <2>2, ResolveAccount
    <2>3. ASSUME NEW r \in rows, ResolveUnfilled(r)
          PROVE  AccountInv'
        <3>1. /\ UNCHANGED <<execs, live, job, snap, todo>>
              /\ rows' = Put(r.who, r.label, "cancelled", r.ord)
            BY <2>3 DEF ResolveUnfilled, lockVars
        <3>2. \A q \in rows' : q.status = "unknown" => q \in rows
            BY <3>1 DEF Put
        <3>3. \A o \in DOMAIN orders : Loose(o)' => Loose(o)
            BY <3>1, <3>2 DEF Loose
        <3> QED
            BY <1>1, <2>1, <3>1, <3>3, NothingBooked
    <2> QED
        BY <1>8, <2>2, <2>3 DEF ResolveStep
<1>9. ASSUME MarketStep
      PROVE  AccountInv'
    <2>1. UNCHANGED <<setting, bookVars, lockVars>>
        BY <1>9, MarketIs
    <2> QED
        BY <1>2, <2>1 DEF bookVars, lockVars
<1>10. ASSUME Crash
       PROVE  AccountInv'
    BY <1>2, <1>10 DEF Crash, Done, bookVars
<1> QED
    BY <1>3, <1>4, <1>5, <1>6, <1>7, <1>8, <1>9, <1>10 DEF CloseNext

AccountAlways == Shape /\ (NoReuse => Fresh /\ AccountInv)

LEMMA AccountIsKept == CloseSpec => []AccountAlways
<1>1. CloseInit => AccountAlways
    BY ShapeInit, AccountInit DEF AccountAlways
<1>2. AccountAlways /\ [CloseNext]_closeVars => AccountAlways'
    <2> SUFFICES ASSUME AccountAlways, [CloseNext]_closeVars PROVE AccountAlways'
        OBVIOUS
    <2>1. Shape /\ Shape'
        BY ShapeStep DEF AccountAlways
    <2>2. NoReuse' = NoReuse
        <3>1. UNCHANGED setting
            BY DEF CloseNext, closeVars, setting, Deliver, HandleStep, SettleStep, RetryStep, ResolveStep,
                   MarketStep, Crash
        <3> QED
            BY <3>1, StoryStays DEF NoReuse
    <2>3. NoReuse => Fresh' /\ AccountInv'
        BY <2>1, FreshStep, AccountStep DEF AccountAlways
    <2> QED
        BY <2>1, <2>2, <2>3 DEF AccountAlways
<1> QED
    BY <1>1, <1>2, PTL DEF CloseSpec

OutOf == [o \in DOMAIN orders |-> IF orders[o].working THEN orders[o].qty ELSE 0]

(* Acknowledged orders that are filled or still work account for no more   *)
(* than was sold or is still to be.                                        *)
LEMMA CountedIsSold ==
    ASSUME Shape, AcksKept
    PROVE  /\ Counted <= Sold + IF adapter.acks THEN Outstanding ELSE 0
           /\ Outstanding \in Nat
<1>1. /\ FillOf \in [DOMAIN orders -> Nat] /\ Sold = Sum(FillOf) /\ Sold \in Nat
      /\ IsFiniteSet(DOMAIN orders)
      /\ \A o \in DOMAIN orders : /\ orders[o] \in Orders /\ orders[o].qty \in 0..MaxQty
                                  /\ orders[o].fill \in 0..MaxQty /\ orders[o].fill <= orders[o].qty
                                  /\ orders[o].working => orders[o].fill = 0
    BY OrdersAre DEF Shape, OrderShape, OrderOk
<1>2. MaxQty \in Nat /\ adapter.acks \in BOOLEAN
    BY Story DEF Shape
<1>3. OutOf \in [DOMAIN orders -> Nat]
    <2>1. \A o \in DOMAIN orders : orders[o].qty \in Nat
        BY <1>1, <1>2
    <2> QED
        BY <2>1 DEF OutOf
<1>4. Outstanding \in Nat /\ Outstanding = Sum(OutOf)
    BY <1>1, <1>3, SumUnits DEF Outstanding, OutOf
<1>5. CountOf \in [DOMAIN orders -> Nat] /\ Counted = Sum(CountOf)
    BY ShapeCounts DEF CountShapes, Counted
<1>6. CASE adapter.acks
    <2>1. \A o \in DOMAIN orders : CountOf[o] = FillOf[o] + OutOf[o]
        <3> SUFFICES ASSUME NEW o \in DOMAIN orders PROVE CountOf[o] = FillOf[o] + OutOf[o]
            OBVIOUS
        <3>1. CountOf[o] = orders[o].qty /\ FillOf[o] = orders[o].fill
              /\ OutOf[o] = IF orders[o].working THEN orders[o].qty ELSE 0
            BY <1>6 DEF CountOf, Counts, FillOf, OutOf
        <3>2. orders[o].working \/ orders[o].fill >= orders[o].qty
            BY <1>1, <1>2, <1>6 DEF AcksKept, Cancelled
        <3>3. CASE orders[o].working
            BY <1>1, <1>2, <3>1, <3>3
        <3>4. CASE ~orders[o].working
            BY <1>1, <1>2, <3>1, <3>2, <3>4
        <3> QED
            BY <3>3, <3>4
    <2>2. Sum(CountOf) = Sum(FillOf) + Sum(OutOf)
        BY <1>1, <1>3, <1>5, <2>1, SumPlus
    <2> QED
        BY <1>1, <1>4, <1>5, <1>6, <2>2
<1>7. CASE ~adapter.acks
    <2>1. CountOf = FillOf
        BY <1>7 DEF CountOf, FillOf, Counts
    <2> QED
        BY <1>1, <1>4, <1>5, <1>7, <2>1
<1> QED
    BY <1>6, <1>7

(* What is not booked is open.                                             *)
LEMMA OpenIsRest ==
    ASSUME Shape, BookedOnce
    PROVE  MaxQty <= BookNet + Closed /\ BookNet \in Nat /\ Closed \in Nat
<1>1. /\ IsFiniteSet(Entries) /\ Opened \in [Entries -> Nat] /\ MaxQty = Sum(Opened) /\ MaxQty \in Nat
      /\ ClosedOf \in [Entries -> Nat] /\ Closed = Sum(ClosedOf) /\ Closed \in Nat
    BY Story, ClosedIs DEF Shape, MaxQty
<1>2. OpenOf(Entries) \in [Entries -> Nat] /\ BookNet = Sum(OpenOf(Entries)) /\ BookNet \in Nat
    <2>1. OpenOf(Entries) \in [Entries -> Nat]
        BY OpenType DEF Shape
    <2> QED
        BY <1>1, <2>1, SumUnits DEF BookNet
<1> DEFINE h == [e \in Entries |-> OpenOf(Entries)[e] + ClosedOf[e]]
<1>3. h \in [Entries -> Nat] /\ \A e \in Entries : h[e] = OpenOf(Entries)[e] + ClosedOf[e]
    BY <1>1, <1>2
<1>4. \A e \in Entries : Opened[e] <= h[e]
    <2> SUFFICES ASSUME NEW e \in Entries PROVE Opened[e] <= h[e]
        OBVIOUS
    <2>1. execs[e].closed \in Nat /\ Opened[e] \in Nat /\ ClosedOf[e] = execs[e].closed
        BY <1>1 DEF Shape, BookShape, Execs, ClosedOf
    <2>2. Open(e) \in Nat /\ Open(e) >= Opened[e] - execs[e].closed
        BY <2>1 DEF Open, Minus
    <2>3. OpenOf(Entries)[e] = Open(e)
        BY OpenInIs DEF OpenIn
    <2> QED
        BY <1>3, <2>1, <2>2, <2>3
<1> HIDE DEF h
<1>5. Sum(h) = Sum(OpenOf(Entries)) + Sum(ClosedOf)
    <2>1. PICK f : f = OpenOf(Entries)
        OBVIOUS
    <2> QED
        BY <1>1, <1>2, <1>3, <2>1, SumPlus
<1>6. Sum(Opened) <= Sum(h)
    BY <1>1, <1>3, <1>4, SumGrows
<1> QED
    BY <1>1, <1>2, <1>5, <1>6

(* Where no order of the bot's is taken for a new one (Deribit's label),   *)
(* and what was acked as filled was filled, every contract still held at   *)
(* the venue is open in the book or an order for it is working: nothing    *)
(* the code does orphans a position.                                       *)
THEOREM NothingOrphaned == CloseSpec => [](NoReuse /\ AcksKept => Net <= BookNet + Outstanding)
<1>1. ASSUME AccountAlways, NoReuse, AcksKept
      PROVE  Net <= BookNet + Outstanding
    <2>1. Shape /\ Accounted
        BY <1>1 DEF AccountAlways, AccountInv
    <2>2. /\ Counted <= Sold + (IF adapter.acks THEN Outstanding ELSE 0)
          /\ Outstanding \in Nat /\ adapter.acks \in BOOLEAN
        BY <1>1, <2>1, CountedIsSold, Story DEF Shape
    <2>3. /\ Counted \in Nat /\ Sold \in Nat /\ Net = MaxQty - Sold /\ MaxQty \in Nat /\ SettledFor \in Nat
          /\ SettledFor <= Counted
        BY <2>1, ShapeCounts, OrdersAre, Story DEF Shape, CountShapes
    <2>4. Counted <= Sold + Outstanding
        BY <2>2, <2>3
    <2>5. BookNet \in Nat
        <3>1. OpenOf(Entries) \in [Entries -> Nat] /\ IsFiniteSet(Entries)
            BY <2>1, OpenType, Story DEF Shape
        <3> QED
            BY <3>1, SumUnits DEF BookNet
    <2>6. CASE SoldOut
        BY <2>2, <2>3, <2>4, <2>5, <2>6 DEF SoldOut
    <2>7. CASE BookedOnce
        <3>1. MaxQty <= BookNet + Closed /\ Closed \in Nat /\ Closed <= SettledFor
            BY <2>1, <2>7, OpenIsRest DEF BookedOnce
        <3> QED
            BY <2>2, <2>3, <2>4, <2>5, <3>1
    <2> QED
        BY <2>1, <2>6, <2>7 DEF Accounted
<1> QED
    BY <1>1, AccountIsKept, PTL

(* There the book matches the venue: besides, what is booked, summed over  *)
(* the entries, was sold, as long as none is booked beyond what it opened. *)
THEOREM BookKept == CloseSpec => [](NoReuse => BookMatchesVenue)
<1>1. ASSUME AccountAlways, NoReuse, NoEntryOverClosed, AcksKept
      PROVE  Closed <= Sold + IF adapter.acks THEN Outstanding ELSE 0
    <2>1. Shape /\ Accounted
        BY <1>1 DEF AccountAlways, AccountInv
    <2>2. PICK most : most = Sold + IF adapter.acks THEN Outstanding ELSE 0
        OBVIOUS
    <2>3. /\ Counted <= most /\ most \in Nat
          /\ Counted \in Nat /\ SettledFor \in Nat /\ SettledFor <= Counted /\ MaxQty \in Nat
        <3>1. Sold \in Nat /\ Outstanding \in Nat /\ adapter.acks \in BOOLEAN
            BY <1>1, <2>1, CountedIsSold, OrdersAre, Story DEF Shape
        <3>2. Counted <= most
            BY <1>1, <2>1, <2>2, CountedIsSold
        <3> QED
            BY <2>1, <2>2, <3>1, <3>2, ShapeCounts, Story DEF Shape, CountShapes
    <2>4. Closed \in Nat /\ Closed <= MaxQty
        <3>1. /\ ClosedOf \in [Entries -> Nat] /\ IsFiniteSet(Entries) /\ Closed = Sum(ClosedOf) /\ Closed \in Nat
              /\ Opened \in [Entries -> Nat]
            BY <2>1, ClosedIs, Story DEF Shape
        <3>2. \A e \in Entries : ClosedOf[e] <= Opened[e]
            BY <1>1 DEF NoEntryOverClosed, ClosedOf
        <3> QED
            BY <3>1, <3>2, SumGrows DEF MaxQty
    <2>5. Closed <= most
        <3>1. CASE SoldOut
            BY <2>3, <2>4, <3>1 DEF SoldOut
        <3>2. CASE BookedOnce
            BY <2>3, <2>4, <3>2 DEF BookedOnce
        <3> QED
            BY <2>1, <3>1, <3>2 DEF Accounted
    <2> QED
        BY <2>2, <2>5
<1>2. ASSUME AccountAlways, NoReuse, NoReuse /\ AcksKept => Net <= BookNet + Outstanding
      PROVE  BookMatchesVenue
    BY <1>1, <1>2 DEF BookMatchesVenue
<1> QED
    BY <1>2, AccountIsKept, NothingOrphaned, PTL

----------------------------------------------------------------------------
(* A quiet account: one entry a bot, orders whose outcome is always known  *)
(* and booked, an adapter that reports what was filled.                    *)

\* Orders are killed, filled in part or refused, and the adapter says so; no
\* order is lost, timed out, taken for another or acked before it is filled.
Calm == /\ scenario.faults \subseteq {"kill", "part", "refuse"}
        /\ adapter.dedup = "none" /\ ~adapter.acks
        /\ "part" \in scenario.faults => adapter.partial = "partially_filled"
Quiet == Calm /\ OneEntryEach

\* The order being settled is one of the entry's bot.
Owner(e) == job # NoJob /\ BotOf(job.who) = EntryBot[e]

\* What the bots sold and what their closes asked for.
SoldBy  == [b \in Bots |-> BotSold(b)]
AskedBy == [b \in Bots |-> BotAsked(b)]

\* What that order filled, and what the entry still owes.
Filled(e) == IF Owner(e) THEN orders[job.ord].fill ELSE 0
Owed(e)   == IF Owner(e) THEN job.qty - orders[job.ord].fill
             ELSE IF execs[e].status = "closing" THEN execs[e].pending ELSE 0

\* No close of the bot was delivered twice.
Once(b)   == \A c \in Closes : CloseBot[c] = b => got[c] <= 1

QuietOrders ==
    /\ pc # "poll2"
    /\ \A r \in rows : r.status = "filled"
    /\ \A o \in DOMAIN orders : /\ orders[o].working => job # NoJob /\ job.ord = o
                                /\ orders[o].fill \notin {0, orders[o].qty} => "part" \in scenario.faults

QuietSums ==
    /\ \A e \in Entries : SoldBy[EntryBot[e]] = execs[e].closed + Filled(e)
    /\ Sold = Closed + IF job = NoJob THEN 0 ELSE orders[job.ord].fill

QuietEntry(e) ==
    /\ execs[e].closed <= Opened[e]
    /\ e \in live <=> execs[e].closed < Opened[e]
    /\ e \in live <=> execs[e].status # "closed"
    /\ execs[e].status = "closing" => execs[e].pending \in 1..Open(e)

QuietTodo == \A e \in todo : execs[e].status = "closing" /\ Open(e) <= snap

QuietJob ==
    job # NoJob =>
        /\ orders[job.ord].who = job.who
        /\ \A e \in Entries : Owner(e) =>
             /\ e \in live /\ job.qty \in 1..Open(e)
             /\ job.who \in Entries => execs[e].pending = job.qty
             /\ job.who \in Closes => execs[e].status = "open" /\ (job.full <=> job.qty = Open(e))

QuietAsks ==
    /\ \A c \in Closes : /\ c \in inbox \/ asked[c] # 0 => got[c] >= 1
                         /\ c \in inbox /\ asked[c] # 0 => got[c] >= 2
    /\ \A e \in Entries : Once(EntryBot[e]) => SoldBy[EntryBot[e]] + Owed(e) <= AskedBy[EntryBot[e]]

\* There is nothing left for another order of a close of everything.
Over(c) ==
    \/ job # NoJob /\ job.who = c /\ job.full /\ job.label = 0
    \/ Processed(c, 0)
    \/ \E e \in Entries : /\ EntryBot[e] = CloseBot[c]
                          /\ e \notin live \/ (execs[e].status = "closing" /\ execs[e].pending = Open(e))

QuietOnce ==
    \A c \in Closes \ Halves : \A o \in DOMAIN orders : orders[o].who = c =>
        Over(c) /\ \A p \in DOMAIN orders : orders[p].who = c => p = o

QuietInv == QuietOrders /\ QuietSums /\ (\A e \in Entries : QuietEntry(e)) /\ QuietTodo
            /\ QuietJob /\ QuietAsks /\ QuietOnce

BotSoldOf(b)  == [o \in DOMAIN orders |-> IF BotOf(orders[o].who) = b THEN orders[o].fill ELSE 0]
BotAskedOf(b) == [c \in Closes |-> IF CloseBot[c] = b THEN asked[c] ELSE 0]

LEMMA BotOfStays ==
    ASSUME UNCHANGED setting, NEW who
    PROVE  BotOf(who)' = BotOf(who)
BY StoryStays DEF BotOf

LEMMA BotsAre == Shape => \A b \in Bots :
    /\ BotSoldOf(b) \in [DOMAIN orders -> Nat] /\ BotSold(b) = Sum(BotSoldOf(b)) /\ BotSold(b) \in Nat
    /\ BotAskedOf(b) \in [Closes -> Nat] /\ BotAsked(b) = Sum(BotAskedOf(b)) /\ BotAsked(b) \in Nat
<1> SUFFICES ASSUME Shape, NEW b \in Bots
             PROVE  /\ BotSoldOf(b) \in [DOMAIN orders -> Nat] /\ BotSold(b) = Sum(BotSoldOf(b))
                    /\ BotSold(b) \in Nat
                    /\ BotAskedOf(b) \in [Closes -> Nat] /\ BotAsked(b) = Sum(BotAskedOf(b))
                    /\ BotAsked(b) \in Nat
    OBVIOUS
<1>1. IsFiniteSet(DOMAIN orders) /\ IsFiniteSet(Closes)
    BY OrdersAre, Story DEF Shape
<1>2. \A o \in DOMAIN orders : orders[o].fill \in Nat
    <2>1. \A o \in DOMAIN orders : orders[o] \in Orders
        BY OrdersAre DEF Shape
    <2> QED
        BY <2>1 DEF Orders
<1>3. BotSoldOf(b) \in [DOMAIN orders -> Nat] /\ BotAskedOf(b) \in [Closes -> Nat]
    BY <1>2 DEF BotSoldOf, BotAskedOf, Shape, CountShape
<1>4. BotSold(b) = Sum(BotSoldOf(b)) /\ BotAsked(b) = Sum(BotAskedOf(b))
    BY DEF BotSold, BotSoldOf, BotAsked, BotAskedOf
<1> QED
    BY <1>1, <1>3, <1>4, SumUnits

LEMMA NextBotsAre == (Shape => \A b \in Bots :
    /\ BotSoldOf(b) \in [DOMAIN orders -> Nat] /\ BotSold(b) = Sum(BotSoldOf(b)) /\ BotSold(b) \in Nat
    /\ BotAskedOf(b) \in [Closes -> Nat] /\ BotAsked(b) = Sum(BotAskedOf(b)) /\ BotAsked(b) \in Nat)'
BY BotsAre, PTL

(* A bot sold no more for an order that has not filled.                    *)
LEMMA SoldByMore ==
    ASSUME Shape, Shape', UNCHANGED setting, NEW k, k \notin DOMAIN orders, DOMAIN orders' = DOMAIN orders \cup {k},
           \A o \in DOMAIN orders : orders'[o] = orders[o], orders'[k].fill = 0
    PROVE  SoldBy' = SoldBy
<1>1. Bots' = Bots
    BY StoryStays
<1>2. ASSUME NEW b \in Bots
      PROVE  BotSold(b)' = BotSold(b)
    <2>1. /\ BotSoldOf(b) \in [DOMAIN orders -> Nat] /\ BotSold(b) = Sum(BotSoldOf(b)) /\ BotSold(b) \in Nat
          /\ BotSoldOf(b)' \in [DOMAIN orders \cup {k} -> Nat] /\ BotSold(b)' = Sum(BotSoldOf(b)')
          /\ IsFiniteSet(DOMAIN orders)
        BY <1>1, BotsAre, NextBotsAre, OrdersAre DEF Shape
    <2>2. /\ \A o \in DOMAIN orders : BotSoldOf(b)'[o] = BotSoldOf(b)[o]
          /\ BotSoldOf(b)'[k] = 0
        BY StoryStays DEF BotSoldOf, BotOf
    <2>3. ASSUME NEW D, IsFiniteSet(D), k \notin D, NEW f \in [D -> Nat], NEW g \in [D \cup {k} -> Nat],
                 \A o \in D : g[o] = f[o]
          PROVE  Sum(g) = Sum(f) + g[k]
        BY <2>3, SumMore
    <2>4. PICK f, g : f = BotSoldOf(b) /\ g = BotSoldOf(b)'
        OBVIOUS
    <2>5. /\ f \in [DOMAIN orders -> Nat] /\ g \in [DOMAIN orders \cup {k} -> Nat]
          /\ (\A o \in DOMAIN orders : g[o] = f[o]) /\ g[k] = 0
        BY <2>1, <2>2, <2>4
    <2>6. Sum(g) = Sum(f) + g[k]
        BY <2>1, <2>3, <2>5
    <2> QED
        BY <2>1, <2>4, <2>5, <2>6
<1> QED
    BY <1>1, <1>2 DEF SoldBy

(* What an order fills its bot sold.                                       *)
LEMMA SoldByEnds ==
    ASSUME Shape, Shape', UNCHANGED setting, NEW o \in DOMAIN orders, NEW n \in Nat,
           DOMAIN orders' = DOMAIN orders, \A p \in DOMAIN orders \ {o} : orders'[p] = orders[p],
           orders[o].fill = 0, orders'[o].fill = n, orders'[o].who = orders[o].who
    PROVE  /\ Bots' = Bots
           /\ \A b \in Bots : SoldBy'[b] = SoldBy[b] + IF BotOf(orders[o].who) = b THEN n ELSE 0
<1>1. Bots' = Bots
    BY StoryStays
<1>2. ASSUME NEW b \in Bots
      PROVE  BotSold(b)' = BotSold(b) + IF BotOf(orders[o].who) = b THEN n ELSE 0
    <2>1. /\ BotSoldOf(b) \in [DOMAIN orders -> Nat] /\ BotSold(b) = Sum(BotSoldOf(b)) /\ BotSold(b) \in Nat
          /\ BotSoldOf(b)' \in [DOMAIN orders -> Nat] /\ BotSold(b)' = Sum(BotSoldOf(b)')
          /\ IsFiniteSet(DOMAIN orders)
        BY <1>1, BotsAre, NextBotsAre, OrdersAre DEF Shape
    <2>2. /\ \A p \in DOMAIN orders \ {o} : BotSoldOf(b)'[p] = BotSoldOf(b)[p]
          /\ BotSoldOf(b)[o] = 0
          /\ BotSoldOf(b)'[o] = IF BotOf(orders[o].who) = b THEN n ELSE 0
        BY StoryStays DEF BotSoldOf, BotOf
    <2>3. PICK f, g, m : /\ f = BotSoldOf(b) /\ g = BotSoldOf(b)'
                         /\ m = IF BotOf(orders[o].who) = b THEN n ELSE 0
        OBVIOUS
    <2>4. /\ f \in [DOMAIN orders -> Nat] /\ g \in [DOMAIN orders -> Nat]
          /\ f \in [DOMAIN orders -> Int] /\ g \in [DOMAIN orders -> Int]
          /\ (\A p \in DOMAIN orders \ {o} : g[p] = f[p]) /\ f[o] = 0 /\ g[o] = m
        BY <2>1, <2>2, <2>3, SumUnits
    <2>5. Sum(g) = Sum(f) + g[o] - f[o]
        BY <2>1, <2>4, SumChange
    <2>6. m \in Nat /\ Sum(f) \in Nat
        BY <2>1, <2>3
    <2>7. Sum(g) = Sum(f) + m
        BY <2>4, <2>5, <2>6
    <2> QED
        BY <2>1, <2>3, <2>7
<1> QED
    BY <1>1, <1>2 DEF SoldBy

(* A close asks for what its first order asks for.                         *)
LEMMA AskedByFirst ==
    ASSUME Shape, Shape', UNCHANGED setting, NEW c \in Closes, NEW q \in Nat,
           asked' = IF asked[c] = 0 THEN [asked EXCEPT ![c] = q] ELSE asked
    PROVE  /\ Bots' = Bots
           /\ \A b \in Bots : /\ AskedBy[b] <= AskedBy'[b]
                              /\ asked[c] = 0 /\ CloseBot[c] = b => AskedBy'[b] = AskedBy[b] + q
<1>1. Bots' = Bots
    BY StoryStays
<1>2. asked \in [Closes -> Nat]
    BY DEF Shape, CountShape
<1>3. ASSUME NEW b \in Bots
      PROVE  /\ BotAsked(b) <= BotAsked(b)'
             /\ asked[c] = 0 /\ CloseBot[c] = b => BotAsked(b)' = BotAsked(b) + q
    <2>1. /\ BotAskedOf(b) \in [Closes -> Nat] /\ BotAsked(b) = Sum(BotAskedOf(b)) /\ BotAsked(b) \in Nat
          /\ BotAskedOf(b)' \in [Closes -> Nat] /\ BotAsked(b)' = Sum(BotAskedOf(b)') /\ BotAsked(b)' \in Nat
          /\ IsFiniteSet(Closes)
        BY <1>1, BotsAre, NextBotsAre, Story DEF Shape
    <2>2. CASE asked[c] # 0
        <3>1. asked' = asked
            BY <2>2
        <3>2. BotAskedOf(b)' = BotAskedOf(b)
            BY <3>1, StoryStays DEF BotAskedOf
        <3> QED
            BY <2>1, <2>2, <3>2
    <2>3. CASE asked[c] = 0
        <3>1. asked' = [asked EXCEPT ![c] = q]
            BY <2>3
        <3>2. /\ \A d \in Closes \ {c} : BotAskedOf(b)'[d] = BotAskedOf(b)[d]
              /\ BotAskedOf(b)[c] = 0
              /\ BotAskedOf(b)'[c] = IF CloseBot[c] = b THEN q ELSE 0
            BY <1>2, <2>3, <3>1, StoryStays DEF BotAskedOf
        <3>3. PICK f, g, m : /\ f = BotAskedOf(b) /\ g = BotAskedOf(b)'
                             /\ m = IF CloseBot[c] = b THEN q ELSE 0
            OBVIOUS
        <3>4. /\ f \in [Closes -> Nat] /\ g \in [Closes -> Nat] /\ f \in [Closes -> Int] /\ g \in [Closes -> Int]
              /\ (\A d \in Closes \ {c} : g[d] = f[d]) /\ f[c] = 0 /\ g[c] = m
            BY <2>1, <3>2, <3>3, SumUnits
        <3>5. Sum(g) = Sum(f) + g[c] - f[c]
            BY <2>1, <3>4, SumChange
        <3>6. m \in Nat /\ Sum(f) \in Nat
            BY <2>1, <3>3
        <3>7. Sum(g) = Sum(f) + m
            BY <3>4, <3>5, <3>6
        <3> QED
            BY <2>1, <3>3, <3>6, <3>7
    <2> QED
        BY <2>2, <2>3
<1> QED
    BY <1>1, <1>3 DEF AskedBy

(* What the venue has is what the entries have open, as long as nothing of *)
(* an order is to be booked.                                               *)
LEMMA RoomAtVenue ==
    ASSUME Shape, \A e \in Entries : QuietEntry(e), Sold = Closed
    PROVE  /\ BookNet = Net
           /\ \A e \in Entries : /\ Open(e) = Opened[e] - execs[e].closed /\ Open(e) <= Net
                                 /\ e \in live => Open(e) > 0
<1>1. \A e \in Entries : /\ execs[e].closed \in Nat /\ Opened[e] \in Nat /\ execs[e].closed <= Opened[e]
                         /\ execs[e].status \in {"open", "closing", "closed"}
    BY Story DEF Shape, BookShape, Execs, QuietEntry
<1>2. \A e \in Entries : /\ Open(e) = Opened[e] - execs[e].closed /\ Open(e) \in Nat
                         /\ execs[e].status = "closed" => Open(e) = 0
                         /\ e \in live => Open(e) > 0
    BY <1>1 DEF Open, Minus, QuietEntry
<1>3. /\ IsFiniteSet(Entries) /\ Opened \in [Entries -> Nat] /\ MaxQty = Sum(Opened) /\ MaxQty \in Nat
      /\ ClosedOf \in [Entries -> Nat] /\ Closed = Sum(ClosedOf) /\ Closed \in Nat
    BY Story, ClosedIs DEF Shape, MaxQty
<1>4. \A e \in Entries : OpenOf(Entries)[e] = Open(e)
    BY <1>1, <1>2 DEF OpenOf, IsLive
<1>5. OpenOf(Entries) \in [Entries -> Nat]
    BY OpenType DEF Shape
<1>6. PICK f : f = OpenOf(Entries)
    OBVIOUS
<1>7. f \in [Entries -> Nat] /\ \A e \in Entries : f[e] = Open(e)
    BY <1>4, <1>5, <1>6
<1>8. \A e \in Entries : Opened[e] = f[e] + ClosedOf[e]
    BY <1>1, <1>2, <1>7 DEF ClosedOf
<1>9. Sum(Opened) = Sum(f) + Sum(ClosedOf)
    BY <1>3, <1>7, <1>8, SumPlus
<1>10. Sum(f) \in Nat
    BY <1>3, <1>7, SumUnits
<1>11. BookNet = Sum(f) /\ Net = Sum(f)
    BY <1>3, <1>6, <1>9, <1>10 DEF BookNet, Net
<1>12. \A e \in Entries : Open(e) <= Sum(f)
    BY <1>3, <1>7, SumElement
<1> QED
    BY <1>2, <1>11, <1>12

(* Every signal has one entry, the only one of its bot.                    *)
LEMMA AloneIs ==
    ASSUME Shape, Quiet, NEW who \in Closes \cup Entries
    PROVE  \E e \in Entries : /\ EntryBot[e] = BotOf(who)
                              /\ \A f \in Entries : EntryBot[f] = BotOf(who) => f = e
<1>1. BotOf(who) \in Bots
    BY Story DEF Shape, BotOf
<1>2. PICK e \in Entries : EntryBot[e] = BotOf(who)
    BY <1>1, Story DEF Shape
<1> QED
    BY <1>2 DEF Quiet, OneEntryEach

LEMMA QuietStays ==
    ASSUME Quiet, UNCHANGED setting
    PROVE  Quiet'
BY StoryStays DEF Quiet, Calm, OneEntryEach

\* What the quantities of an entry are.
LEMMA EntryIs ==
    ASSUME Shape, NEW e \in Entries
    PROVE  /\ execs[e].closed \in Nat /\ execs[e].pending \in Nat /\ Opened[e] \in Nat /\ Opened[e] > 0
           /\ execs[e].status \in {"open", "closing", "closed"} /\ Open(e) \in Nat
           /\ execs[e].closed <= Opened[e] => Open(e) = Opened[e] - execs[e].closed
<1>1. execs[e] \in Execs /\ MaxQty \in Nat
    BY Story DEF Shape, BookShape
<1>2. execs[e].closed \in Nat /\ execs[e].pending \in Nat /\ execs[e].status \in {"open", "closing", "closed"}
    BY <1>1 DEF Execs
<1>3. Opened[e] \in Nat /\ Opened[e] > 0
    BY Story DEF Shape
<1> QED
    BY <1>2, <1>3 DEF Open, Minus

(* What a step leaves alone stays as it is.                                *)
LEMMA SumsStay ==
    ASSUME UNCHANGED setting
    PROVE  /\ orders' = orders => SoldBy' = SoldBy /\ Sold' = Sold
           /\ asked' = asked => AskedBy' = AskedBy
           /\ execs' = execs => Closed' = Closed /\ \A e : Open(e)' = Open(e)
           /\ got' = got => \A b : Once(b)' = Once(b)
<1>1. scenario' = scenario /\ Bots' = Bots /\ Entries' = Entries /\ EntryBot' = EntryBot /\ CloseBot' = CloseBot /\ Opened' = Opened
    BY StoryStays
<1>2. ASSUME orders' = orders
      PROVE  SoldBy' = SoldBy /\ Sold' = Sold
    BY <1>1, <1>2 DEF SoldBy, BotSold, BotOf, Sold
<1>3. ASSUME asked' = asked
      PROVE  AskedBy' = AskedBy
    BY <1>1, <1>3 DEF AskedBy, BotAsked
<1>4. ASSUME execs' = execs
      PROVE  Closed' = Closed /\ \A e : Open(e)' = Open(e)
    BY <1>1, <1>4 DEF Closed, Open
<1>5. ASSUME got' = got
      PROVE  \A b : Once(b)' = Once(b)
    BY <1>1, <1>5 DEF Once
<1> QED
    BY <1>2, <1>3, <1>4, <1>5

(* Steps that neither sell nor book.                                       *)
LEMMA QuietKept ==
    ASSUME Shape, Quiet, QuietInv, UNCHANGED setting,
           UNCHANGED <<execs, live, rows, job, pc, orders, asked>>,
           \A c \in Closes : got'[c] \in Nat /\ got[c] \in Nat /\ got'[c] >= got[c],
           \A c \in Closes : /\ c \in inbox' \/ asked[c] # 0 => got'[c] >= 1
                             /\ c \in inbox' /\ asked[c] # 0 => got'[c] >= 2,
           \A e \in todo' : execs[e].status = "closing" /\ Open(e) <= snap'
    PROVE  QuietInv'
<1>1. /\ scenario' = scenario /\ Bots' = Bots /\ Entries' = Entries /\ EntryBot' = EntryBot
      /\ CloseBot' = CloseBot /\ Opened' = Opened /\ Halves' = Halves
    BY StoryStays
<1>2. SoldBy' = SoldBy /\ Sold' = Sold /\ AskedBy' = AskedBy /\ Closed' = Closed /\ \A e : Open(e)' = Open(e)
    BY SumsStay
<1>3. \A e : Owner(e)' = Owner(e) /\ Filled(e)' = Filled(e) /\ Owed(e)' = Owed(e)
    BY <1>1 DEF Owner, Filled, Owed, BotOf
<1>4. QuietOrders' /\ QuietSums' /\ (\A e \in Entries' : QuietEntry(e)') /\ QuietTodo' /\ QuietJob'
    BY <1>1, <1>2, <1>3 DEF QuietInv, QuietOrders, QuietSums, QuietEntry, QuietTodo, QuietJob
<1>5. QuietAsks'
    <2>1. \A e \in Entries : Once(EntryBot[e])' => Once(EntryBot[e])
        BY <1>1 DEF Once
    <2> QED
        BY <1>1, <1>2, <1>3, <2>1 DEF QuietInv, QuietAsks
<1>6. QuietOnce'
    <2>1. \A c : Over(c)' = Over(c)
        BY <1>1, <1>2 DEF Over, Processed
    <2> QED
        BY <1>1, <2>1 DEF QuietInv, QuietOnce
<1> QED
    BY <1>4, <1>5, <1>6 DEF QuietInv

(* An order for what its entry has open, or a part of it.                  *)
LEMMA QuietPlace ==
    ASSUME Shape, Shape', Quiet, QuietInv, UNCHANGED setting, job = NoJob, job' # NoJob,
           UNCHANGED <<execs, live, rows, todo, snap, got>>, inbox' \subseteq inbox,
           NEW who \in Closes \cup Entries, NEW label \in 0..MaxQty, NEW qty \in Nat, NEW full \in BOOLEAN,
           Place(who, label, qty, full),
           NEW e \in Entries, EntryBot[e] = BotOf(who), e \in live, qty >= 1, qty <= Open(e),
           who \in Entries => execs[e].pending = qty,
           who \in Closes => execs[e].status = "open" /\ (full <=> qty = Open(e)),
           who \in Closes \ Halves => full /\ label = 0 /\ ~Over(who),
           \A c \in Closes : /\ asked'[c] # 0 => got[c] >= 1
                             /\ c \in inbox' /\ asked'[c] # 0 => got[c] >= 2,
           \A f \in Entries : AskedBy[EntryBot[f]] <= AskedBy'[EntryBot[f]],
           Once(EntryBot[e]) => SoldBy[EntryBot[e]] + qty <= AskedBy'[EntryBot[e]]
    PROVE  QuietInv'
<1>1. /\ scenario' = scenario /\ Bots' = Bots /\ Entries' = Entries /\ EntryBot' = EntryBot
      /\ CloseBot' = CloseBot /\ Opened' = Opened /\ Halves' = Halves /\ \A w : BotOf(w)' = BotOf(w)
    BY StoryStays, BotOfStays
<1>2. qty \in 0..MaxQty
    <2>1. Open(e) <= MaxQty /\ Open(e) \in Nat /\ MaxQty \in Nat
        BY OpenType, Story DEF Shape
    <2> QED
        BY <2>1
<1>3. adapter.dedup # "reuse"
    BY DEF Quiet, Calm
<1>4. /\ Sold' = Sold /\ pc' = "reply"
      /\ \A o \in DOMAIN orders : orders'[o] = orders[o]
      /\ job' = [who |-> who, label |-> label, qty |-> qty, full |-> full, ord |-> job'.ord]
      /\ job'.ord \notin DOMAIN orders /\ DOMAIN orders' = DOMAIN orders \cup {job'.ord}
      /\ orders'[job'.ord] = [who |-> who, label |-> label, qty |-> qty, fill |-> 0, working |-> TRUE]
    <2>1. PICK l, q, f : l = label /\ q = qty /\ f = full
        OBVIOUS
    <2>2. l \in 0..MaxQty /\ q \in 0..MaxQty /\ f \in BOOLEAN /\ Place(who, l, q, f)
        BY <1>2, <2>1
    <2>3. /\ Sold' = Sold /\ pc' = "reply"
          /\ \A o \in DOMAIN orders : orders'[o] = orders[o]
          /\ job' = [who |-> who, label |-> l, qty |-> q, full |-> f, ord |-> job'.ord]
          /\ job'.ord \notin DOMAIN orders /\ DOMAIN orders' = DOMAIN orders \cup {job'.ord}
          /\ orders'[job'.ord] = [who |-> who, label |-> l, qty |-> q, fill |-> 0, working |-> TRUE]
        BY <1>3, <2>2, PlaceShape
    <2> QED
        BY <2>1, <2>3
<1>5. PICK j : j = job'
    OBVIOUS
<1>6. PICK k : k = job'.ord
    OBVIOUS
<1>7. /\ j # NoJob /\ j.who = who /\ j.label = label /\ j.qty = qty /\ j.full = full /\ j.ord = k
      /\ k \notin DOMAIN orders /\ DOMAIN orders' = DOMAIN orders \cup {k}
      /\ orders'[k].who = who /\ orders'[k].fill = 0 /\ orders'[k].qty = qty /\ orders'[k].working
    BY <1>4, <1>5, <1>6
<1>8. SoldBy' = SoldBy
    BY <1>4, <1>7, SoldByMore
<1>9. Closed' = Closed /\ \A f : Open(f)' = Open(f)
    BY SumsStay
<1>10. \A f \in Entries : Owner(f)' <=> f = e
    BY <1>1, <1>5, <1>7 DEF Owner, Quiet, OneEntryEach
<1>11. \A f \in Entries : ~Owner(f) /\ Filled(f) = 0 /\ Filled(f)' = 0
    BY <1>5, <1>7 DEF Owner, Filled
<1>12. QuietOrders'
    BY <1>1, <1>4, <1>5, <1>7 DEF QuietInv, QuietOrders
<1>13. QuietSums'
    <2>1. \A f \in Entries : SoldBy[EntryBot[f]] = execs[f].closed + 0 /\ Sold = Closed + 0
        BY <1>11 DEF QuietInv, QuietSums
    <2>2. Sold' = Closed' + IF job' = NoJob THEN 0 ELSE orders'[job'.ord].fill
        BY <1>4, <1>5, <1>7, <1>9, <2>1
    <2> QED
        BY <1>1, <1>8, <1>11, <2>1, <2>2 DEF QuietSums
<1>14. (\A f \in Entries' : QuietEntry(f)') /\ QuietTodo'
    BY <1>1, <1>9 DEF QuietInv, QuietEntry, QuietTodo
<1>15. QuietJob'
    <2>1. j.qty \in 1..Open(e)
        BY <1>7, EntryIs
    <2> QED
        BY <1>1, <1>5, <1>7, <1>9, <1>10, <2>1 DEF QuietJob
<1>16. QuietAsks'
    <2>1. \A f \in Entries : Once(EntryBot[f])' = Once(EntryBot[f])
        BY <1>1, SumsStay
    <2>2. Owed(e)' = qty
        BY <1>1, <1>5, <1>7, <1>10 DEF Owed
    <2>3. \A f \in Entries \ {e} : Owed(f)' = Owed(f)
        BY <1>1, <1>10, <1>11 DEF Owed
    <2>4. \A f \in Entries : Once(EntryBot[f]) => SoldBy[EntryBot[f]] + Owed(f)' <= AskedBy'[EntryBot[f]]
        <3> SUFFICES ASSUME NEW f \in Entries, Once(EntryBot[f])
                     PROVE  SoldBy[EntryBot[f]] + Owed(f)' <= AskedBy'[EntryBot[f]]
            OBVIOUS
        <3>1. CASE f = e
            BY <2>2, <3>1
        <3>2. CASE f # e
            <4>1. SoldBy[EntryBot[f]] + Owed(f) <= AskedBy[EntryBot[f]]
                BY DEF QuietInv, QuietAsks
            <4>2. EntryBot[f] \in Bots
                BY Story DEF Shape
            <4>3. SoldBy[EntryBot[f]] \in Nat /\ AskedBy[EntryBot[f]] \in Nat /\ AskedBy'[EntryBot[f]] \in Nat
                BY <1>1, <4>2, BotsAre, NextBotsAre DEF SoldBy, AskedBy
            <4>4. Owed(f) \in Nat
                BY <1>11, EntryIs DEF Owed
            <4>5. PICK s, d, a, b : /\ s = SoldBy[EntryBot[f]] /\ d = Owed(f) /\ a = AskedBy[EntryBot[f]]
                                    /\ b = AskedBy'[EntryBot[f]]
                OBVIOUS
            <4>6. s + d <= b
                BY <4>1, <4>3, <4>4, <4>5
            <4> QED
                BY <2>3, <3>2, <4>5, <4>6
        <3> QED
            BY <3>1, <3>2
    <2>5. \A c \in Closes : c \in inbox' => got[c] >= 1
        BY DEF QuietInv, QuietAsks
    <2> QED
        BY <1>1, <1>8, <2>1, <2>4, <2>5 DEF QuietAsks
<1>17. QuietOnce'
    <2>1. \A c \in Closes : Over(c) => Over(c)'
        BY <1>1, <1>9 DEF Over, Processed
    <2>2. ASSUME NEW c \in Closes \ Halves, NEW o \in DOMAIN orders', orders'[o].who = c
          PROVE  Over(c)' /\ \A p \in DOMAIN orders' : orders'[p].who = c => p = o
        <3>1. CASE who = c
            <4>1. \A p \in DOMAIN orders : orders[p].who # c
                BY <3>1, <2>2 DEF QuietInv, QuietOnce
            <4>2. \A p \in DOMAIN orders' : orders'[p].who = c => p = k
                BY <1>4, <1>7, <4>1
            <4>3. Over(c)'
                BY <1>5, <1>7, <3>1, <2>2 DEF Over
            <4> QED
                BY <2>2, <4>2, <4>3
        <3>2. CASE who # c
            <4>1. \A p \in DOMAIN orders' : orders'[p].who = c => p \in DOMAIN orders /\ orders[p].who = c
                BY <1>4, <1>7, <3>2
            <4> QED
                BY <2>1, <2>2, <4>1 DEF QuietInv, QuietOnce
        <3> QED
            BY <3>1, <3>2
    <2> QED
        BY <1>1, <2>2 DEF QuietOnce
<1> QED
    BY <1>12, <1>13, <1>14, <1>15, <1>16, <1>17 DEF QuietInv

LEMMA SumOne ==
    ASSUME NEW S, IsFiniteSet(S), NEW f \in [S -> Nat], NEW x \in S, \A s \in S \ {x} : f[s] = 0
    PROVE  Sum(f) = f[x]
<1> DEFINE g == [s \in S |-> 0]
<1>1. g \in [S -> Int] /\ \A s \in S : g[s] = 0
    OBVIOUS
<1> HIDE DEF g
<1>2. Sum(g) = 0 /\ g[x] = 0
    BY <1>1, SumZero
<1>3. f \in [S -> Int] /\ f[x] \in Nat /\ \A s \in S \ {x} : f[s] = g[s]
    BY <1>1, SumUnits
<1>4. Sum(f) = Sum(g) + f[x] - g[x]
    BY <1>1, <1>3, SumChange
<1> QED
    BY <1>2, <1>3, <1>4

(* A close finds its one entry, unless it is retired.                      *)
LEMMA LineageIs ==
    ASSUME Shape, Quiet, NEW c \in Closes, NEW e \in Entries, EntryBot[e] = CloseBot[c]
    PROVE  /\ \A f \in Entries : EntryBot[f] = CloseBot[c] => f = e
           /\ e \in live => Lineage(c) = {e}
           /\ e \notin live => Lineage(c) = {}
<1>1. live \subseteq Entries
    BY DEF Shape, BookShape
<1>2. \A f \in Entries : EntryBot[f] = CloseBot[c] => f = e
    BY DEF Quiet, OneEntryEach
<1> QED
    BY <1>1, <1>2 DEF Lineage

(* A close asks for what its entry has open, or for half of it.            *)
LEMMA CloseAsks ==
    ASSUME Shape, Quiet, QuietInv, job = NoJob, NEW c \in Closes, NEW e \in Entries, EntryBot[e] = CloseBot[c], e \in live
    PROVE  /\ CloseQty(c) \in 1..Open(e) /\ (IsFull(c) <=> CloseQty(c) = Open(e))
           /\ c \notin Halves => IsFull(c) /\ Label(c) = 0
<1>1. Sold = Closed
    <2>1. Sold = Closed + 0 /\ Closed \in Nat
        BY ClosedIs DEF QuietInv, QuietSums, Shape
    <2> QED
        BY <2>1
<1>2. BookNet = Net /\ Open(e) > 0 /\ Open(e) <= Net /\ Open(e) \in Nat /\ Net \in Nat
    <2>1. Net \in 0..MaxQty /\ MaxQty \in Nat
        BY OrdersAre, Story DEF Shape
    <2> QED
        BY <1>1, <2>1, RoomAtVenue, EntryIs DEF QuietInv
<1>3. LineageQty(c) = Open(e)
    <2>1. OpenOf({e}) \in [Entries -> Nat] /\ IsFiniteSet(Entries)
        BY OpenType, Story DEF Shape
    <2>2. execs[e].status \in {"open", "closing"}
        BY EntryIs DEF QuietInv, QuietEntry
    <2>3. OpenOf({e})[e] = Open(e) /\ \A f \in Entries \ {e} : OpenOf({e})[f] = 0
        BY <2>2 DEF OpenOf, IsLive
    <2>4. Sum(OpenOf({e})) = Open(e)
        BY <2>1, <2>3, SumOne
    <2> QED
        BY <2>4, LineageIs DEF LineageQty
<1>4. PICK b : b = Open(e) /\ b \in Nat /\ b > 0
    BY <1>2
<1>5. CloseBase(c) = b /\ CloseCap(c) = b
    BY <1>2, <1>3, <1>4 DEF CloseBase, CloseCap
<1>6. b \div 2 \in Nat /\ b \div 2 <= b
    BY <1>4, HalfIs
<1>7. CloseQty(c) = IF c \in Halves THEN Least(IF b \div 2 = 0 THEN b ELSE b \div 2, b) ELSE Least(b, b)
    BY <1>4, <1>5 DEF CloseQty
<1>8. CloseQty(c) \in 1..b /\ (c \notin Halves => CloseQty(c) = b)
    <2>1. PICK h : h = b \div 2
        OBVIOUS
    <2>2. h \in Nat /\ h <= b /\ CloseQty(c) = IF c \in Halves THEN Least(IF h = 0 THEN b ELSE h, b) ELSE Least(b, b)
        BY <1>6, <1>7, <2>1
    <2> QED
        BY <1>4, <2>2 DEF Least
<1>9. (IsFull(c) <=> CloseQty(c) = b) /\ (c \notin Halves => IsFull(c))
    BY <1>4, <1>5, <1>8 DEF IsFull
<1> QED
    BY <1>4, <1>8, <1>9 DEF Label

LEMMA PlacedJob ==
    ASSUME Shape, Shape', UNCHANGED setting, NEW who \in Closes \cup Entries, NEW label \in 0..MaxQty,
           NEW qty \in 0..MaxQty, NEW full \in BOOLEAN, Place(who, label, qty, full)
    PROVE  job' # NoJob
<1>1. job' \in Jobs'
    BY PlaceShape
<1>2. Entries' \subseteq Nat /\ MaxQty' \in Nat
    BY Story, StoryStays DEF Shape
<1>3. DOMAIN orders' \subseteq Nat
    <2>1. orders' \in Seq(Orders')
        BY DEF Shape, OrderShape
    <2> QED
        BY <2>1
<1>4. PICK j, E, D, m : j = job' /\ E = Entries' /\ D = DOMAIN orders' /\ m = MaxQty'
    OBVIOUS
<1>5. j \in [who : Closes \cup E, label : 0..m, qty : 0..m, full : BOOLEAN, ord : D]
    BY <1>1, <1>4 DEF Jobs
<1>6. E \subseteq Nat /\ D \subseteq Nat /\ m \in Nat
    BY <1>2, <1>3, <1>4
<1>7. j \in [who : Closes \cup Nat, label : Nat, qty : Nat, full : BOOLEAN, ord : Nat]
    <2>1. /\ j = [who |-> j.who, label |-> j.label, qty |-> j.qty, full |-> j.full, ord |-> j.ord]
          /\ j.who \in Closes \cup E /\ j.label \in 0..m /\ j.qty \in 0..m /\ j.full \in BOOLEAN /\ j.ord \in D
        BY <1>5
    <2>2. j.who \in Closes \cup Nat /\ j.label \in Nat /\ j.qty \in Nat /\ j.ord \in Nat
        BY <1>6, <2>1
    <2> QED
        BY <2>1, <2>2
<1> QED
    BY <1>4, <1>7, NoJobAssumption

LEMMA QuietClose ==
    ASSUME Shape, Shape', Quiet, QuietInv, UNCHANGED setting, NEW c \in Closes, PlaceClose(c)
    PROVE  QuietInv'
<1>1. /\ job = NoJob /\ c \in inbox /\ inbox' = inbox \ {c}
      /\ Lineage(c) # {} /\ (\A f \in Lineage(c) : execs[f].status # "closing")
      /\ ~Processed(c, Label(c))
      /\ Place(c, Label(c), CloseQty(c), IsFull(c))
      /\ asked' = IF asked[c] = 0 THEN [asked EXCEPT ![c] = CloseQty(c)] ELSE asked
      /\ UNCHANGED <<execs, live, rows, todo, snap, got>>
    BY DEF PlaceClose, TakeNext, LockIdle, CanPlace, MayPlace, bookVars
<1>2. c \in Closes \cup Entries /\ c \notin Entries /\ BotOf(c) = CloseBot[c]
    BY Story DEF Shape, BotOf
<1>3. PICK e \in Entries : EntryBot[e] = CloseBot[c]
    BY <1>2, AloneIs
<1>4. e \in live /\ Lineage(c) = {e} /\ (\A f \in Entries : EntryBot[f] = CloseBot[c] => f = e)
    BY <1>1, <1>3, LineageIs
<1>5. execs[e].status = "open"
    BY <1>1, <1>4, EntryIs DEF QuietInv, QuietEntry
<1>6. PICK l, q, full : l = Label(c) /\ q = CloseQty(c) /\ full = IsFull(c)
    OBVIOUS
<1>7. /\ l \in 0..MaxQty /\ full \in BOOLEAN
      /\ q \in 1..Open(e) /\ (full <=> q = Open(e)) /\ (c \notin Halves => full /\ l = 0)
      /\ Place(c, l, q, full) /\ ~Processed(c, l)
    BY <1>1, <1>3, <1>4, <1>6, CloseQtyType, CloseAsks DEF Shape
<1>8. q \in Nat /\ q >= 1 /\ q <= Open(e)
    BY <1>7, EntryIs
<1>9. c \in Closes \ Halves => ~Over(c)
    BY <1>1, <1>4, <1>5, <1>7 DEF Over
<1>10. asked \in [Closes -> Nat] /\ got \in [Closes -> Nat]
    BY DEF Shape, CountShape
<1>11. \A d \in Closes : /\ asked'[d] # 0 => got[d] >= 1
                         /\ d \in inbox' /\ asked'[d] # 0 => got[d] >= 2
    <2>1. \A d \in Closes \ {c} : asked'[d] = asked[d]
        BY <1>1, <1>10
    <2> QED
        BY <1>1, <2>1 DEF QuietInv, QuietAsks
<1>12. /\ \A b \in Bots : /\ AskedBy[b] <= AskedBy'[b]
                          /\ asked[c] = 0 /\ CloseBot[c] = b => AskedBy'[b] = AskedBy[b] + q
    <2>1. asked' = IF asked[c] = 0 THEN [asked EXCEPT ![c] = q] ELSE asked
        BY <1>1, <1>6
    <2> QED
        BY <1>8, <2>1, AskedByFirst
<1>13. \A f \in Entries : EntryBot[f] \in Bots
    BY Story DEF Shape
<1>14. Once(EntryBot[e]) => SoldBy[EntryBot[e]] + q <= AskedBy'[EntryBot[e]]
    <2> SUFFICES ASSUME Once(EntryBot[e]) PROVE SoldBy[EntryBot[e]] + q <= AskedBy'[EntryBot[e]]
        OBVIOUS
    <2>1. got[c] <= 1 /\ got[c] \in Nat
        BY <1>3, <1>10 DEF Once
    <2>2. asked[c] = 0
        BY <1>1, <2>1 DEF QuietInv, QuietAsks
    <2>3. AskedBy'[EntryBot[e]] = AskedBy[EntryBot[e]] + q
        BY <1>3, <1>12, <1>13, <2>2
    <2>4. Owed(e) = 0
        BY <1>1, <1>5 DEF Owed, Owner
    <2>5. SoldBy[EntryBot[e]] + 0 <= AskedBy[EntryBot[e]]
        BY <2>4 DEF QuietInv, QuietAsks
    <2>6. SoldBy[EntryBot[e]] \in Nat /\ AskedBy[EntryBot[e]] \in Nat
        BY <1>13, BotsAre DEF SoldBy, AskedBy
    <2> QED
        BY <1>8, <2>3, <2>5, <2>6
<1>15. job' # NoJob
    <2>1. q \in 0..MaxQty
        BY <1>1, <1>6, CloseQtyType DEF Shape
    <2> QED
        BY <1>2, <1>7, <2>1, PlacedJob
<1> QED
    BY <1>1, <1>2, <1>3, <1>4, <1>5, <1>7, <1>8, <1>9, <1>11, <1>12, <1>13, <1>14, <1>15, QuietPlace

(* A re-issue asks for what the close left.                                *)
LEMMA QuietRetry ==
    ASSUME Shape, Shape', Quiet, QuietInv, UNCHANGED setting, NEW e \in Entries, RetryClose(e)
    PROVE  QuietInv'
<1>1. /\ job = NoJob /\ todo # {} /\ e = Min(todo) /\ Place(e, 0, ReissueQty(e), FALSE)
      /\ UNCHANGED <<execs, live, rows, todo, snap, got, asked, inbox>>
    BY DEF RetryClose, NextRetry, bookVars
<1>2. /\ e \in todo /\ e \in Closes \cup Entries /\ e \notin Closes /\ BotOf(e) = EntryBot[e]
    BY <1>1, NextIs, Story DEF Shape, BotOf
<1>3. /\ execs[e].status = "closing" /\ Open(e) <= snap /\ e \in live
      /\ execs[e].pending \in 1..Open(e) /\ Open(e) \in Nat /\ snap \in Nat
    <2>1. execs[e].status = "closing" /\ Open(e) <= snap /\ execs[e].pending \in 1..Open(e) /\ e \in live
        BY <1>2 DEF QuietInv, QuietTodo, QuietEntry
    <2>2. snap \in 0..MaxQty /\ MaxQty \in Nat
        BY Story DEF Shape, LockShape
    <2> QED
        BY <2>1, <2>2, EntryIs
<1>4. ReissueQty(e) = execs[e].pending
    <2>1. PICK p, b, s : p = execs[e].pending /\ b = Open(e) /\ s = snap
        OBVIOUS
    <2>2. p \in 1..b /\ b \in Nat /\ s \in Nat /\ b <= s
        BY <1>3, <2>1
    <2>3. ReissueQty(e) = Least(IF p > 0 THEN p ELSE IF b > 0 THEN b ELSE s, Least(s, IF b > 0 THEN b ELSE s))
        BY <2>1 DEF ReissueQty
    <2>4. ReissueQty(e) = Least(p, Least(s, b))
        BY <2>2, <2>3
    <2> QED
        BY <2>1, <2>2, <2>4 DEF Least
<1>5. PICK q, z : q = ReissueQty(e) /\ z = 0
    OBVIOUS
<1>6. /\ z \in 0..MaxQty /\ q \in 0..MaxQty /\ q \in Nat /\ q >= 1 /\ q <= Open(e) /\ q = execs[e].pending
      /\ Place(e, z, q, FALSE) /\ FALSE \in BOOLEAN
    <2>1. MaxQty \in Nat /\ execs[e].pending \in 0..MaxQty
        BY Story DEF Shape, BookShape, Execs
    <2>2. Place(e, z, q, FALSE) /\ FALSE \in BOOLEAN
        BY <1>1, <1>5
    <2>3. q = execs[e].pending /\ q \in 0..MaxQty /\ q \in 1..Open(e)
        BY <1>3, <1>4, <1>5, <2>1
    <2>4. z \in 0..MaxQty
        BY <1>5, <2>1
    <2>5. q \in Nat /\ q >= 1 /\ q <= Open(e)
        BY <1>3, <2>3
    <2> QED
        BY <2>2, <2>3, <2>4, <2>5
<1>7. job' # NoJob
    BY <1>2, <1>6, PlacedJob
<1>8. AskedBy' = AskedBy
    BY <1>1, SumsStay
<1>9. \A f \in Entries : AskedBy[EntryBot[f]] \in Nat
    BY Story, BotsAre DEF Shape, AskedBy
<1>10. Once(EntryBot[e]) => SoldBy[EntryBot[e]] + q <= AskedBy'[EntryBot[e]]
    <2>1. Owed(e) = q
        BY <1>1, <1>3, <1>6 DEF Owed, Owner
    <2> QED
        BY <1>8, <2>1 DEF QuietInv, QuietAsks
<1>11. \A c \in Closes : /\ asked'[c] # 0 => got[c] >= 1
                         /\ c \in inbox' /\ asked'[c] # 0 => got[c] >= 2
    BY <1>1 DEF QuietInv, QuietAsks
<1>12. \A f \in Entries : AskedBy[EntryBot[f]] <= AskedBy'[EntryBot[f]]
    BY <1>8, <1>9
<1> QED
    BY <1>1, <1>2, <1>3, <1>6, <1>7, <1>10, <1>11, <1>12, QuietPlace

(* The venue fills the one order working, or kills it.                     *)
LEMMA QuietMarket ==
    ASSUME Shape, Shape', Fresh, Quiet, QuietInv, UNCHANGED setting, NEW o \in DOMAIN orders, NEW n \in Nat,
           orders[o].working, orders[o].fill = 0, n <= orders[o].qty, n <= Net, EndsAt(o, n),
           n \in {0, orders[o].qty} \/ "part" \in scenario.faults,
           UNCHANGED <<bookVars, lockVars, inbox, got, acks, asked>>
    PROVE  QuietInv'
<1>1. /\ scenario' = scenario /\ Bots' = Bots /\ Entries' = Entries /\ EntryBot' = EntryBot
      /\ CloseBot' = CloseBot /\ Opened' = Opened /\ Halves' = Halves /\ \A w : BotOf(w)' = BotOf(w)
    BY StoryStays, BotOfStays
<1>2. UNCHANGED <<execs, live, rows, job, pc, todo, snap>>
    BY DEF bookVars, lockVars
<1>3. job # NoJob /\ job.ord = o /\ orders[o].who = job.who /\ job.qty = orders[o].qty
    BY DEF QuietInv, QuietOrders, QuietJob, Fresh
<1>4. /\ Sold' = Sold + n - orders[o].fill
      /\ DOMAIN orders' = DOMAIN orders
      /\ \A p \in DOMAIN orders \ {o} : orders'[p] = orders[p]
      /\ ~orders'[o].working /\ orders'[o].fill = n
      /\ orders'[o].qty = orders[o].qty /\ orders'[o].who = orders[o].who
    <2>1. n <= orders[o].fill + Net
        BY OrdersAre DEF Shape
    <2> QED
        BY <2>1, EndedShape DEF Shape
<1>5. Sold' = Sold + n
    BY <1>4, OrdersAre DEF Shape
<1>6. Closed' = Closed /\ (\A f : Open(f)' = Open(f)) /\ AskedBy' = AskedBy
    BY <1>2, SumsStay
<1>7. \A f : /\ Owner(f)' <=> Owner(f)
             /\ Filled(f) = 0 /\ Filled(f)' = IF Owner(f) THEN n ELSE 0
             /\ Owner(f) <=> EntryBot[f] = BotOf(job.who)
    BY <1>1, <1>2, <1>3, <1>4 DEF Owner, Filled
<1>8. \A f \in Entries : /\ EntryBot[f] \in Bots
                         /\ SoldBy'[EntryBot[f]] = SoldBy[EntryBot[f]] + IF Owner(f) THEN n ELSE 0
    <2>1. \A f \in Entries : EntryBot[f] \in Bots
        BY Story DEF Shape
    <2>2. \A b \in Bots : SoldBy'[b] = SoldBy[b] + IF BotOf(orders[o].who) = b THEN n ELSE 0
        BY <1>4, SoldByEnds
    <2> QED
        BY <1>3, <1>7, <2>1, <2>2
<1>9. QuietOrders'
    <2>1. ASSUME NEW p \in DOMAIN orders'
          PROVE  /\ orders'[p].working => job' # NoJob /\ job'.ord = p
                 /\ orders'[p].fill \notin {0, orders'[p].qty} => "part" \in scenario.faults
        <3>1. CASE p = o
            BY <1>4, <3>1
        <3>2. CASE p # o
            BY <1>2, <1>4, <3>2, <2>1 DEF QuietInv, QuietOrders
        <3> QED
            BY <3>1, <3>2
    <2> QED
        BY <1>1, <1>2, <2>1 DEF QuietInv, QuietOrders
<1>10. QuietSums'
    <2>1. Sold' = Closed' + IF job' = NoJob THEN 0 ELSE orders'[job'.ord].fill
        <3>1. Sold = Closed + 0
            BY <1>3 DEF QuietInv, QuietSums
        <3>2. Closed \in Nat
            BY ClosedIs DEF Shape
        <3> QED
            BY <1>2, <1>3, <1>4, <1>5, <1>6, <3>1, <3>2
    <2>2. ASSUME NEW f \in Entries
          PROVE  SoldBy'[EntryBot[f]] = execs[f].closed + Filled(f)'
        <3>1. SoldBy[EntryBot[f]] = execs[f].closed + 0 /\ execs[f].closed \in Nat
            BY <1>7, EntryIs DEF QuietInv, QuietSums
        <3>2. PICK a, b, c : a = SoldBy'[EntryBot[f]] /\ b = SoldBy[EntryBot[f]] /\ c = Filled(f)'
            OBVIOUS
        <3>3. a = b + c /\ c \in Nat
            BY <1>7, <1>8, <3>2
        <3> QED
            BY <3>1, <3>2, <3>3
    <2> QED
        BY <1>1, <1>2, <2>1, <2>2 DEF QuietSums
<1>11. (\A f \in Entries' : QuietEntry(f)') /\ QuietTodo'
    BY <1>1, <1>2, <1>6 DEF QuietInv, QuietEntry, QuietTodo
<1>12. QuietJob'
    BY <1>1, <1>2, <1>3, <1>4, <1>6, <1>7 DEF QuietInv, QuietJob
<1>13. QuietAsks'
    <2>1. \A f \in Entries : Once(EntryBot[f])' = Once(EntryBot[f])
        BY <1>1, SumsStay
    <2>2. ASSUME NEW f \in Entries
          PROVE  SoldBy'[EntryBot[f]] + Owed(f)' = SoldBy[EntryBot[f]] + Owed(f)
        <3>1. SoldBy[EntryBot[f]] \in Nat /\ job.qty \in Nat /\ execs[f].pending \in Nat
            BY <1>3, <1>8, BotsAre, EntryIs, JobIs DEF SoldBy
        <3>2. CASE Owner(f)
            <4>1. Owed(f) = job.qty - 0 /\ Owed(f)' = job.qty - n
                BY <1>2, <1>3, <1>4, <1>7, <3>2 DEF Owed
            <4>2. PICK a, b, s, t, q : a = Owed(f) /\ b = Owed(f)' /\ s = SoldBy[EntryBot[f]] /\ t = SoldBy'[EntryBot[f]] /\ q = job.qty
                OBVIOUS
            <4>3. t = s + n
                BY <1>8, <3>2, <4>2
            <4>4. t + b = s + a
                BY <3>1, <4>1, <4>2, <4>3
            <4> QED
                BY <4>2, <4>4
        <3>3. CASE ~Owner(f)
            <4>1. Owed(f)' = Owed(f)
                BY <1>2, <1>7, <3>3 DEF Owed
            <4>2. SoldBy'[EntryBot[f]] = SoldBy[EntryBot[f]]
                BY <1>8, <3>1, <3>3
            <4> QED
                BY <4>1, <4>2
        <3> QED
            BY <3>2, <3>3
    <2> QED
        BY <1>1, <1>6, <2>1, <2>2 DEF QuietInv, QuietAsks
<1>14. QuietOnce'
    <2>1. \A c : Over(c)' = Over(c)
        BY <1>1, <1>2, <1>6 DEF Over, Processed
    <2>2. \A p \in DOMAIN orders : orders'[p].who = orders[p].who
        BY <1>4
    <2> QED
        BY <1>1, <1>4, <2>1, <2>2 DEF QuietInv, QuietOnce
<1> QED
    BY <1>9, <1>10, <1>11, <1>12, <1>13, <1>14 DEF QuietInv

(* An order that is over is booked on its bot's entry with all it filled.  *)
LEMMA QuietBooked ==
    ASSUME Shape, Shape', Fresh, Quiet, QuietInv, UNCHANGED setting, job # NoJob,
           NEW e \in Entries, EntryBot[e] = BotOf(job.who), NEW n \in Nat, n = orders[job.ord].fill,
           ~orders[job.ord].working,
           job' = NoJob, pc' = "idle", todo' = todo \ {job.who}, UNCHANGED <<orders, snap, inbox, got, asked>>,
           \A f \in Entries \ {e} : execs'[f] = execs[f] /\ (f \in live' <=> f \in live),
           execs'[e].closed = execs[e].closed + n,
           e \in live' <=> execs[e].closed + n < Opened[e],
           execs'[e].status = IF n < job.qty THEN "closing"
                              ELSE IF execs[e].closed + n < Opened[e] THEN "open" ELSE "closed",
           n < job.qty => execs'[e].pending = job.qty - n,
           \A r \in rows' : r.status = "filled",
           \A c \in Closes : Processed(c, 0) => Processed(c, 0)',
           job.who \in Closes /\ n > 0 => \E r \in rows' : r.who = job.who /\ r.label = job.label
    PROVE  QuietInv'
<1>1. /\ scenario' = scenario /\ Bots' = Bots /\ Entries' = Entries /\ EntryBot' = EntryBot
      /\ CloseBot' = CloseBot /\ Opened' = Opened /\ Halves' = Halves /\ \A w : BotOf(w)' = BotOf(w)
    BY StoryStays, BotOfStays
<1>2. /\ \A f \in Entries : Owner(f) <=> f = e
      /\ \A f : ~Owner(f)' /\ Filled(f)' = 0
    BY <1>1 DEF Owner, Filled, Quiet, OneEntryEach
<1>3. Filled(e) = n /\ \A f \in Entries \ {e} : Filled(f) = 0
    BY <1>2 DEF Filled
<1>4. /\ e \in live /\ job.qty \in 1..Open(e)
      /\ job.who \in Entries => execs[e].pending = job.qty
      /\ job.who \in Closes => execs[e].status = "open" /\ (job.full <=> job.qty = Open(e))
    BY <1>2 DEF QuietInv, QuietJob
<1>5. n <= job.qty /\ job.qty \in Nat /\ job.qty >= 1 /\ job.qty <= Open(e)
    <2>1. job.qty = orders[job.ord].qty /\ job.ord \in DOMAIN orders
        BY JobIs DEF Fresh
    <2>2. n <= job.qty
        BY <2>1, OrdersAre DEF Shape
    <2> QED
        BY <1>4, <2>2, EntryIs
<1>6. /\ Open(e) = Opened[e] - execs[e].closed /\ execs[e].closed \in Nat /\ Opened[e] \in Nat /\ Open(e) \in Nat
      /\ execs[e].closed <= Opened[e] /\ execs[e].closed + n <= Opened[e]
    <2>1. execs[e].closed <= Opened[e]
        BY DEF QuietInv, QuietEntry
    <2>2. /\ Open(e) = Opened[e] - execs[e].closed /\ execs[e].closed \in Nat /\ Opened[e] \in Nat /\ Open(e) \in Nat
        BY <2>1, EntryIs
    <2> QED
        BY <1>5, <2>1, <2>2
<1>7. Open(e)' = Open(e) - n /\ Open(e)' \in Nat
    <2>1. Open(e)' = Minus(Opened[e], execs[e].closed + n)
        BY <1>1 DEF Open
    <2> QED
        BY <1>6, <2>1 DEF Minus
<1>8. \A f \in Entries \ {e} : Open(f)' = Open(f)
    BY <1>1 DEF Open
<1>9. SoldBy' = SoldBy /\ Sold' = Sold /\ AskedBy' = AskedBy /\ \A b : Once(b)' = Once(b)
    BY SumsStay
<1>10. QuietOrders'
    <2>1. \A o \in DOMAIN orders : ~orders[o].working
        BY DEF QuietInv, QuietOrders
    <2> QED
        BY <1>1, <2>1 DEF QuietInv, QuietOrders
<1>11. QuietSums'
    <2>1. Closed' = Closed + n
        BY ClosedOne
    <2>2. Closed \in Nat
        BY ClosedIs DEF Shape
    <2>3. Sold = Closed + n
        BY DEF QuietInv, QuietSums
    <2>4. \A f \in Entries : SoldBy[EntryBot[f]] = execs'[f].closed + Filled(f)'
        <3> SUFFICES ASSUME NEW f \in Entries PROVE SoldBy[EntryBot[f]] = execs'[f].closed + Filled(f)'
            OBVIOUS
        <3>1. SoldBy[EntryBot[f]] = execs[f].closed + Filled(f)
            BY DEF QuietInv, QuietSums
        <3>2. CASE f = e
            <4>1. SoldBy[EntryBot[f]] = execs[e].closed + n
                BY <1>3, <3>1, <3>2
            <4> QED
                BY <1>2, <1>6, <3>2, <4>1
        <3>3. CASE f # e
            BY <1>2, <1>3, <3>1, <3>3
        <3> QED
            BY <3>2, <3>3
    <2> QED
        BY <1>1, <1>9, <2>1, <2>2, <2>3, <2>4 DEF QuietSums
<1>12. \A f \in Entries' : QuietEntry(f)'
    <2>1. QuietEntry(e)'
        <3>1. execs'[e].closed <= Opened[e]
            BY <1>6
        <3>2. e \in live' <=> execs'[e].closed < Opened[e]
            OBVIOUS
        <3>3. e \in live' <=> execs'[e].status # "closed"
            BY <1>5, <1>6
        <3>4. execs'[e].status = "closing" => execs'[e].pending \in 1..(Open(e) - n)
            BY <1>5, <1>6
        <3> QED
            BY <1>1, <1>7, <3>1, <3>2, <3>3, <3>4 DEF QuietEntry
    <2>2. \A f \in Entries \ {e} : QuietEntry(f)'
        BY <1>1, <1>8 DEF QuietInv, QuietEntry
    <2> QED
        BY <1>1, <2>1, <2>2
<1>13. QuietTodo'
    <2>1. \A f \in todo' : f \in Entries \ {e}
        <3>1. todo \subseteq Entries
            BY DEF Shape, LockShape
        <3>2. CASE job.who \in Closes
            BY <3>2 DEF Fresh
        <3>3. CASE job.who \in Entries
            <4>1. e = job.who
                BY <3>3, Story DEF Shape, BotOf, Quiet, OneEntryEach
            <4> QED
                BY <3>1, <4>1
        <3> QED
            BY <3>2, <3>3, JobIs
    <2> QED
        BY <1>8, <2>1 DEF QuietInv, QuietTodo
<1>14. QuietJob'
    BY DEF QuietJob
<1>15. QuietAsks'
    <2>1. Owed(e) = job.qty - n /\ Owed(e)' = job.qty - n
        <3>1. Owed(e) = job.qty - n
            BY <1>2 DEF Owed
        <3>2. CASE n < job.qty
            BY <1>2, <3>1, <3>2 DEF Owed
        <3>3. CASE ~(n < job.qty)
            <4>1. execs'[e].status # "closing"
                BY <3>3
            <4>2. Owed(e)' = 0
                BY <1>2, <4>1 DEF Owed
            <4> QED
                BY <1>5, <3>1, <3>3, <4>2
        <3> QED
            BY <3>1, <3>2, <3>3
    <2>2. \A f \in Entries \ {e} : Owed(f)' = Owed(f)
        BY <1>2 DEF Owed
    <2> QED
        BY <1>1, <1>9, <2>1, <2>2 DEF QuietInv, QuietAsks
<1>16. QuietOnce'
    <2> SUFFICES ASSUME NEW c \in Closes \ Halves, Over(c) PROVE Over(c)'
        BY <1>1 DEF QuietInv, QuietOnce
    <2>1. CASE job.who = c /\ job.full /\ job.label = 0
        <3>1. CASE n > 0
            BY <2>1, <3>1 DEF Over, Processed
        <3>2. CASE n = 0
            <4>1. job.qty = Open(e) /\ EntryBot[e] = CloseBot[c]
                BY <1>4, <2>1 DEF BotOf
            <4>2. execs'[e].status = "closing" /\ execs'[e].pending = Open(e)'
                BY <1>5, <1>7, <3>2, <4>1
            <4> QED
                BY <1>1, <4>1, <4>2 DEF Over
        <3> QED
            BY <3>1, <3>2
    <2>2. CASE Processed(c, 0)
        BY <2>2 DEF Over
    <2>3. ASSUME NEW f \in Entries, EntryBot[f] = CloseBot[c],
                 f \notin live \/ (execs[f].status = "closing" /\ execs[f].pending = Open(f))
          PROVE  Over(c)'
        <3>1. CASE f # e
            BY <1>1, <1>8, <2>3, <3>1 DEF Over
        <3>2. CASE f = e
            <4>1. job.who \in Entries /\ job.qty = Open(e)
                BY <1>4, <2>3, <3>2, JobIs
            <4>2. CASE n < job.qty
                <5>1. execs'[e].status = "closing" /\ execs'[e].pending = Open(e)'
                    BY <1>7, <4>1, <4>2
                <5> QED
                    BY <1>1, <2>3, <3>2, <5>1 DEF Over
            <4>3. CASE ~(n < job.qty)
                <5>1. e \notin live'
                    BY <1>5, <1>6, <4>1, <4>3
                <5> QED
                    BY <1>1, <2>3, <3>2, <5>1 DEF Over
            <4> QED
                BY <4>2, <4>3
        <3> QED
            BY <3>1, <3>2
    <2> QED
        BY <2>1, <2>2, <2>3 DEF Over
<1> QED
    BY <1>10, <1>11, <1>12, <1>13, <1>14, <1>15, <1>16 DEF QuietInv

(* A lineage of one entry takes all of an exit.                            *)
LEMMA ShareIs ==
    ASSUME Shape, NEW e \in Entries, Open(e) > 0, NEW n \in Nat, n >= 1, n <= Open(e),
           NEW full \in BOOLEAN, full => n = Open(e)
    PROVE  /\ ExitShares({e}, n, full) \in [Entries -> Nat]
           /\ ExitShares({e}, n, full)[e] = n
           /\ \A f \in Entries \ {e} : ExitShares({e}, n, full)[f] = 0
<1>1. IsFiniteSet(Entries) /\ Entries \subseteq Nat /\ Open(e) \in Nat
    BY Story, EntryIs DEF Shape
<1>2. /\ ExitShares({e}, n, full) \in [Entries -> Nat]
      /\ \A f \in Entries \ {e} : ExitShares({e}, n, full)[f] = 0
    <2>1. PICK es : es = {e}
        OBVIOUS
    <2>2. /\ ExitShares(es, n, full) \in [Entries -> Nat]
          /\ \A f \in Entries \ es : ExitShares(es, n, full)[f] = 0
        BY SharesFit DEF Shape
    <2> QED
        BY <2>1, <2>2
<1> DEFINE offer == [f \in Entries |-> IF f \notin {e} THEN 0
                                      ELSE IF full \/ Open(f) > 0 THEN Open(f) ELSE n]
<1>3. offer[e] = Open(e) /\ \A f \in Entries \ {e} : offer[f] = 0
    OBVIOUS
<1>4. ExitShares({e}, n, full)
        = IF full THEN [f \in Entries |-> IF n > Newer(offer, f) THEN offer[f] ELSE 0] ELSE Spread(n, offer)
    BY DEF ExitShares
<1> HIDE DEF offer
<1>5. Newer(offer, e) = 0
    <2>1. PICK g : g = [f \in Entries |-> IF f > e THEN offer[f] ELSE 0]
        OBVIOUS
    <2>2. g \in [Entries -> Int] /\ \A f \in Entries : g[f] = 0
        BY <1>1, <1>3, <2>1
    <2>3. Sum(g) = 0
        BY <2>2, SumZero
    <2> QED
        BY <2>1, <2>3 DEF Newer
<1>6. CASE full
    BY <1>2, <1>3, <1>4, <1>5, <1>6
<1>7. CASE ~full
    <2>1. Spread(n, offer)[e] = Least(offer[e], Minus(n, 0))
        BY <1>5 DEF Spread
    <2>2. Spread(n, offer)[e] = n
        BY <1>1, <1>3, <2>1 DEF Least, Minus
    <2> QED
        BY <1>2, <1>4, <1>7, <2>2
<1> QED
    BY <1>6, <1>7

\* What is known of the order being settled.
LEMMA JobAlone ==
    ASSUME Shape, Fresh, Quiet, QuietInv, job # NoJob
    PROVE  \E e \in Entries :
              /\ EntryBot[e] = BotOf(job.who) /\ \A f \in Entries : EntryBot[f] = BotOf(job.who) => f = e
              /\ e \in live /\ job.qty \in 1..Open(e) /\ job.qty \in Nat /\ Open(e) \in Nat
              /\ Open(e) = Opened[e] - execs[e].closed /\ execs[e].closed \in Nat /\ Opened[e] \in Nat
              /\ job.who \in Entries => /\ e = job.who /\ execs[e].pending = job.qty /\ e \in todo
                                        /\ execs[e].status = "closing" /\ Open(e) <= snap
              /\ job.who \in Closes => /\ Lineage(job.who) = {e} /\ todo = {}
                                       /\ execs[e].status = "open" /\ (job.full <=> job.qty = Open(e))
              /\ orders[job.ord].qty = job.qty /\ orders[job.ord].fill \in Nat /\ orders[job.ord].fill <= job.qty
<1>1. job.who \in Closes \cup Entries /\ job.ord \in DOMAIN orders /\ job.qty \in 0..MaxQty /\ MaxQty \in Nat
    BY JobIs, Story DEF Shape
<1>2. PICK e \in Entries : /\ EntryBot[e] = BotOf(job.who)
                           /\ \A f \in Entries : EntryBot[f] = BotOf(job.who) => f = e
    BY <1>1, AloneIs
<1>3. /\ e \in live /\ job.qty \in 1..Open(e)
      /\ job.who \in Entries => execs[e].pending = job.qty
      /\ job.who \in Closes => execs[e].status = "open" /\ (job.full <=> job.qty = Open(e))
    BY <1>2 DEF QuietInv, QuietJob, Owner
<1>4. /\ Open(e) = Opened[e] - execs[e].closed /\ execs[e].closed \in Nat /\ Opened[e] \in Nat /\ Open(e) \in Nat
    BY EntryIs DEF QuietInv, QuietEntry
<1>5. orders[job.ord].qty = job.qty /\ orders[job.ord].fill \in Nat /\ orders[job.ord].fill <= job.qty
    BY <1>1, JobIs, OrdersAre DEF Fresh, Shape
<1>6. job.who \in Entries => e = job.who /\ e \in todo /\ execs[e].status = "closing" /\ Open(e) <= snap
    <2> SUFFICES ASSUME job.who \in Entries
                 PROVE  e = job.who /\ e \in todo /\ execs[e].status = "closing" /\ Open(e) <= snap
        OBVIOUS
    <2>1. e = job.who
        BY <1>2, Story DEF Shape, BotOf
    <2>2. e \in todo
        BY <2>1 DEF Fresh
    <2> QED
        BY <2>1, <2>2 DEF QuietInv, QuietTodo
<1>7. job.who \in Closes => Lineage(job.who) = {e} /\ todo = {}
    <2> SUFFICES ASSUME job.who \in Closes PROVE Lineage(job.who) = {e} /\ todo = {}
        OBVIOUS
    <2>1. EntryBot[e] = CloseBot[job.who]
        BY <1>2 DEF BotOf
    <2> QED
        BY <1>3, <2>1, LineageIs DEF Fresh
<1>8. job.qty \in Nat
    BY <1>1
<1> QED
    BY <1>2, <1>3, <1>4, <1>5, <1>6, <1>7, <1>8

LEMMA QuietFilled ==
    ASSUME Shape, Shape', Fresh, Quiet, QuietInv, UNCHANGED setting, SettleFilled
    PROVE  QuietInv'
<1>1. job # NoJob /\ FillReport(job.ord)
    BY DEF SettleFilled
<1>2. PICK e \in Entries :
              /\ EntryBot[e] = BotOf(job.who) /\ \A f \in Entries : EntryBot[f] = BotOf(job.who) => f = e
              /\ e \in live /\ job.qty \in 1..Open(e) /\ job.qty \in Nat /\ Open(e) \in Nat
              /\ Open(e) = Opened[e] - execs[e].closed /\ execs[e].closed \in Nat /\ Opened[e] \in Nat
              /\ job.who \in Entries => /\ e = job.who /\ execs[e].pending = job.qty /\ e \in todo
                                        /\ execs[e].status = "closing" /\ Open(e) <= snap
              /\ job.who \in Closes => /\ Lineage(job.who) = {e} /\ todo = {}
                                       /\ execs[e].status = "open" /\ (job.full <=> job.qty = Open(e))
              /\ orders[job.ord].qty = job.qty /\ orders[job.ord].fill \in Nat /\ orders[job.ord].fill <= job.qty
    BY <1>1, JobAlone
<1>3. PICK n \in Nat : n = orders[job.ord].fill
    BY <1>2
<1>4. ~orders[job.ord].working /\ n >= 1 /\ n <= job.qty
    <2>1. ~orders[job.ord].working
        BY <1>1 DEF FillReport, Report
    <2>2. n # 0
        BY <1>1, <1>2, <1>3, <2>1 DEF FillReport, Report
    <2> QED
        BY <1>2, <1>3, <2>1, <2>2
<1>5. BookFill(n)
    <2>1. BookFill(Least(orders[job.ord].fill, job.qty))
        BY DEF SettleFilled
    <2>2. Least(orders[job.ord].fill, job.qty) = n
        BY <1>2, <1>3, <1>4 DEF Least
    <2> QED
        BY <2>1, <2>2
<1>6. /\ job' = NoJob /\ pc' = "idle" /\ todo' = todo \ {job.who}
      /\ UNCHANGED <<orders, snap, inbox, got, asked>>
    BY <1>5 DEF BookFill, Done
<1>7. live \subseteq Entries /\ execs \in [Entries -> Execs] /\ execs[e] \in Execs
    BY DEF Shape, BookShape
<1>8. PICK q : q = job.qty
    OBVIOUS
<1>9. q \in Nat /\ n <= q /\ q <= Open(e) /\ (n < q <=> n # q) /\ Open(e) > 0 /\ n <= Open(e)
    <2>1. q \in 1..Open(e) /\ Open(e) \in Nat /\ n <= q
        BY <1>2, <1>4, <1>8
    <2> QED
        BY <2>1
<1> DEFINE now == /\ \A f \in Entries \ {e} : execs'[f] = execs[f] /\ (f \in live' <=> f \in live)
                  /\ execs'[e].closed = execs[e].closed + n
                  /\ e \in live' <=> execs[e].closed + n < Opened[e]
                  /\ execs'[e].status = IF n < job.qty THEN "closing"
                                        ELSE IF execs[e].closed + n < Opened[e] THEN "open" ELSE "closed"
                  /\ n < job.qty => execs'[e].pending = job.qty - n
                  /\ \A r \in rows' : r.status = "filled"
                  /\ \A c \in Closes : Processed(c, 0) => Processed(c, 0)'
                  /\ job.who \in Closes /\ n > 0 => \E r \in rows' : r.who = job.who /\ r.label = job.label
<1>10. ASSUME job.who \in Closes PROVE now
    <2>1. PICK full \in BOOLEAN : full = (n = q /\ job.full)
        OBVIOUS
    <2>2. PICK shares : shares = ExitShares({e}, n, full)
        OBVIOUS
    <2>3. BookClose(job.who, n) /\ Lineage(job.who) = {e}
        BY <1>2, <1>5, <1>10 DEF BookFill
    <2>4. (full <=> n = q /\ job.full) /\ (job.full <=> q = Open(e)) /\ (full => n = Open(e))
        BY <1>2, <1>8, <1>10, <2>1
    <2>5. shares \in [Entries -> Nat] /\ shares[e] = n /\ \A f \in Entries \ {e} : shares[f] = 0
        <3>1. CASE full
            <4>1. shares = ExitShares({e}, n, TRUE) /\ n = Open(e)
                BY <2>1, <2>2, <2>4, <3>1
            <4>2. /\ ExitShares({e}, n, TRUE) \in [Entries -> Nat]
                  /\ ExitShares({e}, n, TRUE)[e] = n
                  /\ \A f \in Entries \ {e} : ExitShares({e}, n, TRUE)[f] = 0
                BY <1>3, <1>4, <1>9, <4>1, ShareIs
            <4> QED
                BY <4>1, <4>2
        <3>2. CASE ~full
            <4>1. shares = ExitShares({e}, n, FALSE)
                BY <2>1, <2>2, <3>2
            <4>2. /\ ExitShares({e}, n, FALSE) \in [Entries -> Nat]
                  /\ ExitShares({e}, n, FALSE)[e] = n
                  /\ \A f \in Entries \ {e} : ExitShares({e}, n, FALSE)[f] = 0
                BY <1>3, <1>4, <1>9, ShareIs
            <4> QED
                BY <4>1, <4>2
        <3> QED
            BY <3>1, <3>2
    <2>6. /\ execs' = IF n = q THEN Book(shares)
                      ELSE [f \in Entries |->
                              IF f \in {e} THEN [Book(shares)[f] EXCEPT !.status = "closing", !.pending = q - n]
                              ELSE Book(shares)[f]]
          /\ rows' = Put(job.who, job.label, "filled", job.ord)
          /\ live' = IF full THEN live \ {e} ELSE live
        BY <1>8, <2>1, <2>2, <2>3 DEF BookClose
    <2>7. /\ \A f \in Entries \ {e} : Book(shares)[f] = execs[f]
          /\ Book(shares)[e] = [execs[e] EXCEPT !.closed = execs[e].closed + n,
                                   !.status = IF execs[e].closed + n >= Opened[e] THEN "closed" ELSE "open"]
        <3>1. Book(shares) = [x \in Entries |->
                 IF shares[x] = 0 THEN execs[x]
                 ELSE [execs[x] EXCEPT !.closed = execs[x].closed + shares[x],
                         !.status = IF execs[x].closed + shares[x] >= Opened[x] THEN "closed" ELSE "open"]]
            BY DEF Book
        <3>2. n # 0
            BY <1>4
        <3> QED
            BY <2>5, <3>1, <3>2
    <2>8. PICK b : b = Book(shares)
        OBVIOUS
    <2>9. /\ \A f \in Entries \ {e} : b[f] = execs[f]
          /\ b[e].closed = execs[e].closed + n
          /\ b[e].status = IF execs[e].closed + n >= Opened[e] THEN "closed" ELSE "open"
          /\ b[e] \in Execs
        <3>1. b[e] = [execs[e] EXCEPT !.closed = execs[e].closed + n,
                                   !.status = IF execs[e].closed + n >= Opened[e] THEN "closed" ELSE "open"]
            BY <2>7, <2>8
        <3>2. execs[e].closed + n \in Nat
            BY <1>2
        <3> QED
            BY <1>7, <2>7, <2>8, <3>1, <3>2 DEF Execs
    <2>10. /\ \A f \in Entries \ {e} : execs'[f] = execs[f] /\ (f \in live' <=> f \in live)
           /\ execs'[e].closed = execs[e].closed + n
        BY <2>6, <2>8, <2>9 DEF Execs
    <2>11. execs'[e].status = IF n < q THEN "closing"
                              ELSE IF execs[e].closed + n < Opened[e] THEN "open" ELSE "closed"
        <3>1. CASE n = q
            BY <1>2, <1>9, <2>6, <2>8, <2>9, <3>1
        <3>2. CASE n # q
            BY <1>9, <2>6, <2>8, <2>9, <3>2 DEF Execs
        <3> QED
            BY <3>1, <3>2
    <2>12. n < q => execs'[e].pending = q - n
        BY <1>9, <2>6, <2>8, <2>9 DEF Execs
    <2>13. e \in live' <=> execs[e].closed + n < Opened[e]
        <3>1. e \in live' <=> ~full
            BY <1>2, <2>6
        <3>2. PICK o, k, p : o = Opened[e] /\ k = execs[e].closed /\ p = Open(e)
            OBVIOUS
        <3>3. o \in Nat /\ k \in Nat /\ p = o - k /\ n <= q /\ q <= p /\ (full <=> n = q /\ q = p)
            BY <1>2, <1>9, <2>4, <3>2
        <3>4. full <=> ~(k + n < o)
            BY <1>9, <3>3
        <3> QED
            BY <3>1, <3>2, <3>4
    <2>14. /\ \A r \in rows' : r.status = "filled"
           /\ \A c \in Closes : Processed(c, 0) => Processed(c, 0)'
           /\ \E r \in rows' : r.who = job.who /\ r.label = job.label
        <3>1. \A r \in rows : r.status = "filled"
            BY DEF QuietInv, QuietOrders
        <3> DEFINE new == [who |-> job.who, label |-> job.label, status |-> "filled", ord |-> job.ord]
        <3>2. new.who = job.who /\ new.label = job.label /\ new.status = "filled"
            OBVIOUS
        <3>3. \A r : r \in rows' <=> r = new \/ (r \in rows /\ (r.who # job.who \/ r.label # job.label))
            BY <2>6 DEF Put
        <3> HIDE DEF new
        <3> QED
            BY <3>1, <3>2, <3>3 DEF Processed
    <2> QED
        BY <1>8, <2>10, <2>11, <2>12, <2>13, <2>14
<1>11. ASSUME job.who \in Entries PROVE now
    <2>1. BookRetry(e, n) /\ e = job.who /\ job.who \notin Closes
        BY <1>2, <1>5, <1>11, Story DEF BookFill, Shape
    <2>2. /\ execs[e].pending = q /\ Open(e) <= snap /\ snap \in Nat /\ q >= 1
        <3>1. snap \in 0..MaxQty /\ MaxQty \in Nat
            BY Story DEF Shape, LockShape
        <3> QED
            BY <1>2, <1>8, <1>11, <3>1
    <2>3. PICK ends \in BOOLEAN :
              /\ ends = (n >= snap \/ execs[e].closed + n >= Opened[e] \/ (execs[e].pending = 0 /\ n = q))
              /\ execs' = [execs EXCEPT ![e] =
                      [status  |-> IF ends THEN "closed" ELSE IF n = q THEN "open" ELSE "closing",
                       closed  |-> execs[e].closed + n,
                       pending |-> IF ends \/ n = q \/ execs[e].pending = 0 THEN 0 ELSE q - n]]
              /\ live' = IF ends THEN live \ {e} ELSE live
              /\ rows' = rows
        <3>1. n = orders[job.ord].fill
            BY <1>3
        <3> QED
            BY <1>8, <2>1 DEF BookRetry
    <2>4. /\ ends <=> ~(execs[e].closed + n < Opened[e])
          /\ ends => n = q
        <3>1. PICK o, k, p, s : o = Opened[e] /\ k = execs[e].closed /\ p = Open(e) /\ s = snap
            OBVIOUS
        <3>2. o \in Nat /\ k \in Nat /\ s \in Nat /\ p = o - k /\ n <= q /\ q <= p /\ p <= s /\ q >= 1
            BY <1>2, <1>9, <2>2, <3>1
        <3>3. ends <=> n >= s \/ k + n >= o \/ (q = 0 /\ n = q)
            BY <2>2, <2>3, <3>1
        <3>4. (ends <=> ~(k + n < o)) /\ (ends => n = q)
            BY <1>9, <3>2, <3>3
        <3> QED
            BY <3>1, <3>4
    <2>5. /\ execs'[e].status = IF ends THEN "closed" ELSE IF n = q THEN "open" ELSE "closing"
          /\ execs'[e].closed = execs[e].closed + n
          /\ n < q => execs'[e].pending = q - n
          /\ \A f \in Entries \ {e} : execs'[f] = execs[f]
        BY <1>7, <1>9, <2>2, <2>3, <2>4
    <2>6. /\ e \in live' <=> ~ends
          /\ \A f \in Entries \ {e} : f \in live' <=> f \in live
        BY <1>2, <2>3
    <2>7. /\ \A r \in rows' : r.status = "filled"
          /\ \A c \in Closes : Processed(c, 0) => Processed(c, 0)'
        BY <2>3 DEF QuietInv, QuietOrders, Processed
    <2> QED
        BY <1>8, <1>9, <2>1, <2>4, <2>5, <2>6, <2>7
<1>12. now
    BY <1>1, <1>10, <1>11, JobIs
<1> QED
    BY <1>1, <1>2, <1>3, <1>4, <1>6, <1>12, QuietBooked

LEMMA QuietUnfilled ==
    ASSUME Shape, Shape', Fresh, Quiet, QuietInv, UNCHANGED setting, SettleUnfilled
    PROVE  QuietInv'
<1>1. /\ job # NoJob /\ Report(job.ord) \notin {"working", "filled", "partially_filled"}
      /\ Unconfirmed /\ UNCHANGED <<rows, orders>>
    BY DEF SettleUnfilled
<1>2. PICK e \in Entries :
              /\ EntryBot[e] = BotOf(job.who) /\ \A f \in Entries : EntryBot[f] = BotOf(job.who) => f = e
              /\ e \in live /\ job.qty \in 1..Open(e) /\ job.qty \in Nat /\ Open(e) \in Nat
              /\ Open(e) = Opened[e] - execs[e].closed /\ execs[e].closed \in Nat /\ Opened[e] \in Nat
              /\ job.who \in Entries => /\ e = job.who /\ execs[e].pending = job.qty /\ e \in todo
                                        /\ execs[e].status = "closing" /\ Open(e) <= snap
              /\ job.who \in Closes => /\ Lineage(job.who) = {e} /\ todo = {}
                                       /\ execs[e].status = "open" /\ (job.full <=> job.qty = Open(e))
              /\ orders[job.ord].qty = job.qty /\ orders[job.ord].fill \in Nat /\ orders[job.ord].fill <= job.qty
    BY <1>1, JobAlone
<1>3. ~orders[job.ord].working /\ orders[job.ord].fill = 0
    <2>1. job.ord \in DOMAIN orders
        BY <1>1, JobIs
    <2>2. ~orders[job.ord].working /\ orders[job.ord].fill # orders[job.ord].qty
        <3>1. ~orders[job.ord].working
            BY <1>1 DEF Report
        <3>2. ASSUME orders[job.ord].fill = orders[job.ord].qty PROVE FALSE
            BY <1>1, <1>2, <3>1, <3>2 DEF Report
        <3> QED
            BY <3>1, <3>2
    <2>3. orders[job.ord].fill # 0 => adapter.partial = "partially_filled"
        BY <2>1, <2>2 DEF QuietInv, QuietOrders, Quiet, Calm
    <2> QED
        BY <1>1, <2>2, <2>3 DEF Report
<1>4. /\ job' = NoJob /\ pc' = "idle" /\ todo' = todo \ {job.who}
      /\ UNCHANGED <<live, snap, inbox, got, asked>>
    BY <1>1 DEF Unconfirmed, Done
<1>5. execs \in [Entries -> Execs] /\ execs[e] \in Execs
    BY DEF Shape, BookShape
<1>6. PICK n \in Nat : n = 0
    OBVIOUS
<1>7. /\ \A f \in Entries \ {e} : execs'[f] = execs[f]
      /\ execs'[e].closed = execs[e].closed
      /\ execs'[e].status = "closing" /\ execs'[e].pending = job.qty
    <2>1. CASE job.who \in Closes
        <3>1. execs' = [f \in Entries |-> IF f \in {e} THEN [execs[f] EXCEPT !.status = "closing", !.pending = job.qty]
                                          ELSE execs[f]]
            BY <1>1, <1>2, <2>1 DEF Unconfirmed
        <3> QED
            BY <1>5, <3>1 DEF Execs
    <2>2. CASE job.who \in Entries
        <3>1. job.who \notin Closes
            BY <2>2, Story DEF Shape
        <3>2. execs' = execs
            BY <1>1, <3>1 DEF Unconfirmed
        <3> QED
            BY <1>2, <2>2, <3>2
    <2> QED
        BY <1>1, <2>1, <2>2, JobIs
<1>8. /\ n = orders[job.ord].fill /\ n < job.qty
      /\ execs'[e].closed = execs[e].closed + n /\ execs[e].closed + n < Opened[e]
      /\ execs'[e].pending = job.qty - n
    <2>1. job.qty >= 1 /\ Open(e) >= 1
        BY <1>2
    <2> QED
        BY <1>2, <1>3, <1>6, <1>7, <2>1
<1>9. /\ \A r \in rows' : r.status = "filled"
      /\ \A c \in Closes : Processed(c, 0) => Processed(c, 0)'
    BY <1>1 DEF QuietInv, QuietOrders, Processed
<1> QED
    BY <1>1, <1>2, <1>3, <1>4, <1>6, <1>7, <1>8, <1>9, QuietBooked

LEMMA QuietVenue ==
    ASSUME Shape, Shape', Fresh, Quiet, QuietInv, MarketStep
    PROVE  QuietInv'
<1>1. UNCHANGED setting
    BY DEF MarketStep
<1>2. PICK o \in DOMAIN orders : VenueFill(o) \/ VenueKill(o)
    BY DEF MarketStep
<1>3. orders[o].working /\ UNCHANGED <<bookVars, lockVars, inbox, got, acks, asked>>
    BY <1>2 DEF VenueFill, VenueKill
<1>4. orders[o].fill = 0 /\ orders[o].qty \in Nat /\ Net \in Nat
    <2>1. orders[o].qty \in 0..MaxQty /\ Net \in 0..MaxQty /\ MaxQty \in Nat
        BY OrdersAre, Story DEF Shape
    <2> QED
        BY <1>3, <2>1 DEF Shape, OrderShape, OrderOk
<1>5. job # NoJob /\ job.ord = o /\ orders[o].qty <= Net
    <2>1. job # NoJob /\ job.ord = o
        BY <1>3 DEF QuietInv, QuietOrders
    <2>2. PICK e \in Entries : job.qty \in 1..Open(e) /\ Open(e) \in Nat /\ orders[job.ord].qty = job.qty
        BY <2>1, JobAlone
    <2>3. Sold = Closed
        <3>1. Sold = Closed + 0 /\ Closed \in Nat
            BY <1>4, <2>1, ClosedIs DEF QuietInv, QuietSums, Shape
        <3> QED
            BY <3>1
    <2>4. Open(e) <= Net
        BY <2>3, RoomAtVenue DEF QuietInv
    <2>5. PICK a, b : a = Open(e) /\ b = orders[o].qty
        OBVIOUS
    <2>6. b \in 1..a /\ a \in Nat /\ a <= Net
        BY <2>1, <2>2, <2>4, <2>5
    <2>7. b <= Net
        BY <1>4, <2>6
    <2> QED
        BY <2>1, <2>5, <2>7
<1>6. \E n \in Nat : /\ n <= orders[o].qty /\ n <= Net /\ VenueFills(o, n)
                     /\ n \in {0, orders[o].qty} \/ "part" \in scenario.faults
    <2>1. CASE VenueFill(o)
        <3>1. Least(orders[o].qty, Net) = orders[o].qty
            BY <1>4, <1>5 DEF Least
        <3>2. VenueFills(o, orders[o].qty)
            BY <2>1, <3>1 DEF VenueFill
        <3> QED
            BY <1>4, <1>5, <3>2
    <2>2. CASE VenueKill(o)
        <3>1. CASE VenueFills(o, 0)
            BY <1>4, <3>1
        <3>2. ASSUME NEW n \in 1..(Least(orders[o].qty, Net + 1) - 1), VenueFills(o, n), "part" \in scenario.faults
              PROVE  \E m \in Nat : /\ m <= orders[o].qty /\ m <= Net /\ VenueFills(o, m)
                                    /\ m \in {0, orders[o].qty} \/ "part" \in scenario.faults
            <4>1. n \in Nat /\ n <= orders[o].qty /\ n <= Net
                BY <1>4 DEF Least
            <4> QED
                BY <3>2, <4>1
        <3> QED
            BY <2>2, <3>1, <3>2 DEF VenueKill, Trouble
    <2> QED
        BY <1>2, <2>1, <2>2
<1>7. PICK n \in Nat : /\ n <= orders[o].qty /\ n <= Net /\ VenueFills(o, n)
                       /\ n \in {0, orders[o].qty} \/ "part" \in scenario.faults
    BY <1>6
<1>8. EndsAt(o, n)
    BY <1>7, RefillIs DEF EndsAt, VenueFills, Shape
<1> QED
    BY <1>1, <1>3, <1>4, <1>7, <1>8, QuietMarket

(* What a quiet account never does.                                        *)
LEMMA QuietNever ==
    ASSUME Shape, Fresh, Quiet, QuietInv
    PROVE  /\ ~TrustAck /\ ~PollTimeout /\ ~SettleTimeout /\ ~PlaceThrows /\ ~Crash
           /\ \A c \in Closes : ~AlreadyFlat(c) /\ ~CloseRefused(c)
           /\ \A e \in Entries : ~RetryWaits(e) /\ ~RetryFlat(e)
           /\ \A r \in rows : ~ResolveFilled(r) /\ ~ResolveUnfilled(r)
<1>1. ~TrustAck /\ ~PollTimeout /\ ~SettleTimeout /\ ~PlaceThrows /\ ~Crash
    BY DEF TrustAck, PollTimeout, SettleTimeout, PlaceThrows, Crash, Trouble, Quiet, Calm, QuietInv, QuietOrders
<1>2. Unresolved = {}
    BY DEF Unresolved, QuietInv, QuietOrders
<1>3. ASSUME NEW c \in Closes, AlreadyFlat(c)
      PROVE  FALSE
    <2>1. job = NoJob /\ Lineage(c) # {} /\ Net = 0
        BY <1>3 DEF AlreadyFlat, TakeNext, LockIdle, MayPlace
    <2>2. PICK e \in Entries : e \in live
        BY <2>1 DEF Lineage, Shape, BookShape
    <2>3. Sold = Closed
        <3>1. Sold = Closed + 0 /\ Closed \in Nat
            BY <2>1, ClosedIs DEF QuietInv, QuietSums, Shape
        <3> QED
            BY <3>1
    <2>4. Open(e) > 0 /\ Open(e) <= 0 /\ Open(e) \in Nat
        BY <2>1, <2>2, <2>3, RoomAtVenue, EntryIs DEF QuietInv
    <2> QED
        BY <2>4
<1>4. ASSUME NEW c \in Closes, CloseRefused(c)
      PROVE  FALSE
    BY <1>4 DEF CloseRefused, Refused, Quiet, Calm
<1>5. ASSUME NEW e \in Entries, RetryFlat(e)
      PROVE  FALSE
    <2>1. e \in todo /\ snap = 0
        BY <1>5, NextIs DEF RetryFlat, NextRetry, Shape
    <2>2. execs[e].pending \in 1..Open(e) /\ Open(e) <= 0 /\ Open(e) \in Nat
        BY <2>1, EntryIs DEF QuietInv, QuietTodo, QuietEntry
    <2> QED
        BY <2>2
<1>6. ASSUME NEW e \in Entries, RetryWaits(e)
      PROVE  FALSE
    BY <1>2, <1>6 DEF RetryWaits
<1>7. ASSUME NEW r \in rows, ResolveFilled(r) \/ ResolveUnfilled(r)
      PROVE  FALSE
    BY <1>2, <1>7 DEF ResolveFilled, ResolveUnfilled
<1> QED
    BY <1>1, <1>3, <1>4, <1>5, <1>6, <1>7

LEMMA QuietDeliver ==
    ASSUME Shape, Quiet, QuietInv, NEW c \in Closes, Deliver(c)
    PROVE  QuietInv'
<1>1. /\ got' = [got EXCEPT ![c] = @ + 1] /\ inbox' = inbox \cup {c}
      /\ UNCHANGED setting /\ UNCHANGED <<execs, live, rows, job, pc, todo, snap, orders, asked>>
    BY DEF Deliver, bookVars, lockVars
<1>2. got \in [Closes -> Nat]
    BY DEF Shape, CountShape
<1>3. \A d \in Closes : got'[d] \in Nat /\ got[d] \in Nat /\ got'[d] = IF d = c THEN got[d] + 1 ELSE got[d]
    BY <1>1, <1>2
<1>4. \A d \in Closes : got'[d] >= got[d]
    BY <1>3
<1>5. ASSUME NEW d \in Closes
      PROVE  /\ d \in inbox' \/ asked[d] # 0 => got'[d] >= 1
             /\ d \in inbox' /\ asked[d] # 0 => got'[d] >= 2
    <2>1. /\ d \in inbox \/ asked[d] # 0 => got[d] >= 1
          /\ d \in inbox /\ asked[d] # 0 => got[d] >= 2
        BY DEF QuietInv, QuietAsks
    <2>2. PICK a, b : a = got[d] /\ b = got'[d]
        OBVIOUS
    <2>3. a \in Nat /\ b \in Nat /\ b = IF d = c THEN a + 1 ELSE a
        BY <1>3, <2>2
    <2> QED
        BY <1>1, <2>1, <2>2, <2>3
<1>6. \A e \in todo' : execs[e].status = "closing" /\ Open(e) <= snap'
    BY <1>1 DEF QuietInv, QuietTodo
<1> QED
    BY <1>1, <1>3, <1>4, <1>5, <1>6, QuietKept

LEMMA QuietStep ==
    ASSUME Shape, Shape', Fresh, Quiet, QuietInv, [CloseNext]_closeVars
    PROVE  QuietInv'
<1>1. ASSUME UNCHANGED setting, UNCHANGED <<execs, live, rows, job, pc, orders, asked, got>>, inbox' \subseteq inbox,
             \A e \in todo' : execs[e].status = "closing" /\ Open(e) <= snap'
      PROVE  QuietInv'
    <2>1. got \in [Closes -> Nat]
        BY DEF Shape, CountShape
    <2>2. \A c \in Closes : got'[c] \in Nat /\ got[c] \in Nat /\ got'[c] >= got[c]
        BY <1>1, <2>1
    <2>3. \A c \in Closes : /\ c \in inbox' \/ asked[c] # 0 => got'[c] >= 1
                            /\ c \in inbox' /\ asked[c] # 0 => got'[c] >= 2
        BY <1>1 DEF QuietInv, QuietAsks
    <2> QED
        BY <1>1, <2>2, <2>3, QuietKept
<1>2. \A e \in todo : execs[e].status = "closing" /\ Open(e) <= snap
    BY DEF QuietInv, QuietTodo
<1>3. CASE UNCHANGED closeVars
    BY <1>1, <1>2, <1>3 DEF closeVars, bookVars, lockVars
<1>4. ASSUME NEW c \in Closes, HandleStep(c)
      PROVE  QuietInv'
    <2>1. UNCHANGED setting
        BY <1>4 DEF HandleStep
    <2>2. RefuseClose(c) \/ NothingOpen(c) \/ WaitForPrior(c) \/ Duplicate(c) \/ PlaceClose(c)
        BY <1>4, QuietNever DEF HandleStep
    <2>3. CASE PlaceClose(c)
        BY <2>1, <2>3, QuietClose
    <2>4. CASE ~PlaceClose(c)
        BY <1>1, <1>2, <2>1, <2>2, <2>4 DEF RefuseClose, NothingOpen, WaitForPrior, Duplicate, Reject, TakeNext, lockVars
    <2> QED
        BY <2>3, <2>4
<1>5. ASSUME SettleStep
      PROVE  QuietInv'
    BY <1>5, QuietNever, QuietFilled, QuietUnfilled DEF SettleStep
<1>6. ASSUME RetryStep
      PROVE  QuietInv'
    <2>1. UNCHANGED setting
        BY <1>6 DEF RetryStep
    <2>2. CASE StartTick
        <3>1. /\ UNCHANGED <<execs, live, rows, job, pc, inbox, got, asked, orders>> /\ job = NoJob
              /\ todo' = {e \in Entries : execs[e].status = "closing"} /\ snap' = Net
            BY <2>2 DEF StartTick, LockIdle, bookVars
        <3>2. Sold = Closed
            <4>1. Sold = Closed + 0 /\ Closed \in Nat
                BY <3>1, ClosedIs DEF QuietInv, QuietSums, Shape
            <4> QED
                BY <4>1
        <3>3. \A e \in todo' : execs[e].status = "closing" /\ Open(e) <= snap'
            BY <3>1, <3>2, RoomAtVenue DEF QuietInv
        <3> QED
            BY <1>1, <2>1, <3>1, <3>3
    <2>3. ASSUME NEW e \in Entries, RetryPostponed(e)
          PROVE  QuietInv'
        BY <1>1, <1>2, <2>1, <2>3 DEF RetryPostponed, bookVars
    <2> QED
        BY <1>6, <2>1, <2>2, <2>3, QuietNever, QuietRetry DEF RetryStep
<1>7. ASSUME ResolveStep
      PROVE  FALSE
    BY <1>7, QuietNever DEF ResolveStep
<1> QED
    BY <1>3, <1>4, <1>5, <1>6, <1>7, QuietDeliver, QuietVenue, QuietNever DEF CloseNext

LEMMA QuietInit ==
    ASSUME CloseInit, Quiet
    PROVE  QuietInv
<1>1. Shape
    BY ShapeInit
<1>2. /\ execs = [e \in Entries |-> [status |-> "open", closed |-> 0, pending |-> 0]] /\ live = Entries
      /\ rows = {} /\ job = NoJob /\ pc = "idle" /\ todo = {} /\ inbox = {}
      /\ got = [c \in Closes |-> 0] /\ asked = [c \in Closes |-> 0] /\ orders = <<>> /\ DOMAIN orders = {}
    BY DEF CloseInit
<1>3. \A e \in Entries : EntryBot[e] \in Bots /\ Opened[e] \in Nat /\ Opened[e] > 0 /\ Open(e) = Opened[e]
    BY <1>1, <1>2, Story DEF Shape, Open, Minus
<1>4. \A b \in Bots : SoldBy[b] = 0 /\ AskedBy[b] = 0
    <2> SUFFICES ASSUME NEW b \in Bots PROVE BotSold(b) = 0 /\ BotAsked(b) = 0
        BY DEF SoldBy, AskedBy
    <2>1. PICK f, g : f = BotSoldOf(b) /\ g = BotAskedOf(b)
        OBVIOUS
    <2>2. f \in [{} -> Int] /\ \A o \in {} : f[o] = 0
        BY <1>2, <2>1 DEF BotSoldOf
    <2>3. g \in [Closes -> Int] /\ \A c \in Closes : g[c] = 0
        BY <1>2, <2>1 DEF BotAskedOf
    <2>4. Sum(f) = 0 /\ Sum(g) = 0
        BY <2>2, <2>3, SumZero
    <2> QED
        BY <1>1, <2>1, <2>4, BotsAre
<1>5. Sold = 0
    <2>1. PICK f : f = FillOf
        OBVIOUS
    <2>2. f \in [{} -> Int] /\ \A o \in {} : f[o] = 0
        BY <1>2, <2>1 DEF FillOf
    <2>3. Sum(f) = 0
        BY <2>2, SumZero
    <2> QED
        BY <1>1, <2>1, <2>3, OrdersAre DEF Shape
<1>6. Closed = 0
    <2>1. PICK f : f = ClosedOf
        OBVIOUS
    <2>2. f \in [Entries -> Int] /\ \A e \in Entries : f[e] = 0
        BY <1>2, <2>1 DEF ClosedOf
    <2>3. Sum(f) = 0
        BY <2>2, SumZero
    <2> QED
        BY <1>1, <2>1, <2>3, ClosedIs DEF Shape
<1>7. QuietOrders /\ QuietTodo /\ QuietJob /\ QuietOnce
    BY <1>2 DEF QuietOrders, QuietTodo, QuietJob, QuietOnce
<1>8. QuietSums
    BY <1>2, <1>3, <1>4, <1>5, <1>6 DEF QuietSums, Filled, Owner
<1>9. \A e \in Entries : QuietEntry(e)
    BY <1>2, <1>3 DEF QuietEntry
<1>10. QuietAsks
    BY <1>2, <1>3, <1>4 DEF QuietAsks, Owed, Owner
<1> QED
    BY <1>7, <1>8, <1>9, <1>10 DEF QuietInv

LEMMA SettingStays ==
    ASSUME [CloseNext]_closeVars
    PROVE  UNCHANGED setting
BY DEF CloseNext, closeVars, Deliver, HandleStep, SettleStep, RetryStep, ResolveStep, MarketStep, Crash

LEMMA QuietAlways == CloseSpec => [](AccountAlways /\ (Quiet => QuietInv))
<1>1. CloseInit => (Quiet => QuietInv)
    BY QuietInit
<1>2. ASSUME AccountAlways, AccountAlways', Quiet => QuietInv, [CloseNext]_closeVars, Quiet'
      PROVE  QuietInv'
    <2>1. UNCHANGED setting
        BY <1>2, SettingStays
    <2>2. Quiet
        BY <1>2, <2>1, StoryStays DEF Quiet, Calm, OneEntryEach
    <2>3. Shape /\ Shape' /\ Fresh
        BY <1>2, <2>2 DEF AccountAlways, NoReuse, Quiet, Calm
    <2> QED
        BY <1>2, <2>2, <2>3, QuietStep
<1> QED
    BY <1>1, <1>2, AccountIsKept, PTL DEF CloseSpec

(* Two bots may share a position: as long as their orders are filled,      *)
(* killed, filled in part or refused, and the adapter tells which, a       *)
(* bot's closes sell no more than it bought, what they sold is booked on   *)
(* its own entry and no further than it opened, closes delivered once sell *)
(* no more than they asked for, and of a close of everything there is one  *)
(* order.                                                                  *)
THEOREM OwnLineage == CloseSpec => [](Calm => ClosesItsOwn)
<1>1. ASSUME Shape, Fresh, Quiet, QuietInv
      PROVE  ClosesItsOwn
    <2>1. \A e \in Entries : /\ execs[e].closed \in Nat /\ Opened[e] \in Nat /\ execs[e].closed <= Opened[e]
                             /\ EntryBot[e] \in Bots
        BY <1>1, EntryIs, Story DEF Shape, QuietInv, QuietEntry
    <2>2. IsFiniteSet(Entries) /\ \A b \in Bots : \E e \in Entries : EntryBot[e] = b
        BY <1>1, Story DEF Shape
    <2>3. ASSUME NEW e \in Entries
          PROVE  Filled(e) \in Nat /\ execs[e].closed + Filled(e) <= Opened[e] /\ Owed(e) \in Nat
        <3>1. CASE Owner(e)
            <4>1. job # NoJob /\ job.qty \in 1..Open(e)
                BY <1>1, <3>1 DEF QuietInv, QuietJob, Owner
            <4>2. /\ orders[job.ord].fill \in Nat /\ orders[job.ord].fill <= job.qty /\ job.qty \in Nat
                BY <1>1, <4>1, JobAlone
            <4>3. Open(e) = Opened[e] - execs[e].closed /\ Open(e) \in Nat
                BY <1>1, <2>1, EntryIs
            <4>4. PICK f, q, o, k, p : /\ f = orders[job.ord].fill /\ q = job.qty /\ o = Opened[e]
                                       /\ k = execs[e].closed /\ p = Open(e)
                OBVIOUS
            <4>5. f \in Nat /\ q \in Nat /\ o \in Nat /\ k \in Nat /\ p = o - k /\ f <= q /\ q <= p
                BY <2>1, <4>1, <4>2, <4>3, <4>4
            <4>6. k + f <= o /\ q - f \in Nat
                BY <4>5
            <4> QED
                BY <3>1, <4>4, <4>5, <4>6 DEF Filled, Owed
        <3>2. CASE ~Owner(e)
            BY <1>1, <2>1, <3>2, EntryIs DEF Filled, Owed
        <3> QED
            BY <3>1, <3>2
    <2>4. ASSUME NEW b \in Bots
          PROVE  /\ BotSold(b) <= BotSize(b) /\ BotClosed(b) <= BotSold(b)
                 /\ Once(b) => BotSold(b) <= BotAsked(b)
        <3>1. PICK e \in Entries : EntryBot[e] = b
            BY <2>2
        <3>2. \A f \in Entries \ {e} : EntryBot[f] # b
            BY <1>1, <3>1 DEF Quiet, OneEntryEach
        <3>3. BotSold(b) = execs[e].closed + Filled(e)
            BY <1>1, <3>1 DEF QuietInv, QuietSums, SoldBy
        <3>4. BotSize(b) = Opened[e] /\ BotClosed(b) = execs[e].closed
            <4>1. PICK f, g : /\ f = [x \in Entries |-> IF EntryBot[x] = b THEN Opened[x] ELSE 0]
                              /\ g = [x \in Entries |-> IF EntryBot[x] = b THEN execs[x].closed ELSE 0]
                OBVIOUS
            <4>2. /\ f \in [Entries -> Nat] /\ f[e] = Opened[e] /\ \A x \in Entries \ {e} : f[x] = 0
                  /\ g \in [Entries -> Nat] /\ g[e] = execs[e].closed /\ \A x \in Entries \ {e} : g[x] = 0
                BY <2>1, <3>1, <3>2, <4>1
            <4>3. Sum(f) = Opened[e] /\ Sum(g) = execs[e].closed
                BY <2>2, <4>2, SumOne
            <4> QED
                BY <4>1, <4>3 DEF BotSize, BotClosed
        <3>5. Once(b) => BotSold(b) <= BotAsked(b)
            <4>1. Once(b) => BotSold(b) + Owed(e) <= BotAsked(b)
                BY <1>1, <3>1 DEF QuietInv, QuietAsks, SoldBy, AskedBy
            <4>2. BotSold(b) \in Nat /\ BotAsked(b) \in Nat /\ Owed(e) \in Nat
                BY <1>1, <2>3, BotsAre
            <4> QED
                BY <4>1, <4>2
        <3> QED
            BY <2>1, <2>3, <3>3, <3>4, <3>5
    <2>5. ASSUME NEW c \in Closes \ Halves
          PROVE  Cardinality({o \in DOMAIN orders : orders[o].who = c}) <= 1
        <3>1. CASE {o \in DOMAIN orders : orders[o].who = c} = {}
            BY <3>1, FS_EmptySet
        <3>2. CASE {o \in DOMAIN orders : orders[o].who = c} # {}
            <4>1. PICK o \in DOMAIN orders : orders[o].who = c
                BY <3>2
            <4>2. {p \in DOMAIN orders : orders[p].who = c} = {o}
                BY <1>1, <4>1 DEF QuietInv, QuietOnce
            <4>3. Cardinality({o}) = 1
                BY FS_Singleton
            <4> QED
                BY <4>2, <4>3
        <3> QED
            BY <3>1, <3>2
    <2>6. OwnLineageOnly
        BY <2>1, <2>4 DEF OwnLineageOnly, NeverSellsSibling, BookedOnOwnLineage, NoEntryOverClosed
    <2>7. SellsWhatWasAsked
        BY <2>4, <2>5 DEF SellsWhatWasAsked, Once
    <2> QED
        BY <2>6, <2>7 DEF ClosesItsOwn
<1>2. ASSUME AccountAlways, Quiet => QuietInv, Calm
      PROVE  ClosesItsOwn
    <2>1. CASE OneEntryEach
        BY <1>1, <1>2, <2>1 DEF AccountAlways, Quiet, Calm, NoReuse
    <2>2. CASE ~OneEntryEach
        BY <2>2 DEF ClosesItsOwn, OwnLineageOnly, SellsWhatWasAsked
    <2> QED
        BY <2>1, <2>2
<1> QED
    BY <1>2, QuietAlways, PTL
=============================================================================
