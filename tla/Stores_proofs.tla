---------------------------- MODULE Stores_proofs ----------------------------
(***************************************************************************)
(* Proofs about the components that MCStores checks: the shop, the managed *)
(* services, the mailboxes and the backups, for any number of clients, any *)
(* sets of data and any bounds.  Each section has an inductive invariant,  *)
(* one lemma per kind of step, and the theorems it carries.                *)
(***************************************************************************)
EXTENDS MCStores, FiniteSetTheorems, TLAPS

-----------------------------------------------------------------------------
(* The shop *)

\* Clients whose purchase is at one of some places.
In(P) == {c \in Clients : buy[c].at \in P}
Count(P) == Cardinality(In(P))
Buying == [at : ShopPlaces, purse : Int, alive : BOOLEAN]
\* Purchases that are begun and have no outcome, no order, no end yet.
Undecided == {"debit", "grant"}
Unordered == {"debit", "grant", "order"}
Unfinished == {"grant", "refund", "order"}

ShopTypes ==
    /\ player \in [there : BOOLEAN, points : Int, link : BOOLEAN]
    /\ ledger \in [Reasons -> Nat]
    /\ {orders, sold, begun, goods} \subseteq Nat
    /\ buy \in [Clients -> Buying]
    /\ broken \in BOOLEAN /\ lied \in BOOLEAN

\* Every purchase that is begun has at most one outcome and one order.
ShopBounds ==
    /\ begun <= MaxBuys
    /\ sold + Count(Undecided) <= begun
    /\ orders + Count(Unordered) <= begun

\* Every order that is written or may yet be, and every refund, has a debit.
OrderedInv == orders + ledger["refund"] + Count(Unfinished) <= ledger["debit"]

ShopInv == ShopTypes /\ ShopBounds /\ OrderedInv /\ NeverOverdrawn /\ Settled

\* A request goes from one place to another.
Moves(c, from, to) ==
    /\ buy[c].at = from /\ buy'[c].at = to
    /\ \A d \in Clients \ {c} : buy'[d] = buy[d]

LEMMA CountType ==
    ASSUME NEW P
    PROVE  IsFiniteSet(In(P)) /\ Count(P) \in Nat
<1>1. In(P) \subseteq Clients /\ IsFiniteSet(Clients)
  BY RequestsAssumption DEF In
<1>2. IsFiniteSet(In(P))
  BY <1>1, FS_Subset
<1>3. QED
  BY <1>2, FS_CardinalityType DEF Count

LEMMA CountMoves ==
    ASSUME NEW P, NEW c \in Clients, NEW from, NEW to, Moves(c, from, to)
    PROVE  /\ from \in P /\ to \notin P => Count(P)' = Count(P) - 1
           /\ from \notin P /\ to \in P => Count(P)' = Count(P) + 1
           /\ (from \in P <=> to \in P) => Count(P)' = Count(P)
<1>0. IsFiniteSet(In(P)) /\ Count(P) \in Nat
  BY CountType
<1>1. ASSUME from \in P, to \notin P
      PROVE  Count(P)' = Count(P) - 1
  <2>1. In(P)' = In(P) \ {c} /\ c \in In(P)
    BY <1>1 DEF Moves, In
  <2>2. QED
    BY <1>0, <2>1, FS_RemoveElement DEF Count
<1>2. ASSUME from \notin P, to \in P
      PROVE  Count(P)' = Count(P) + 1
  <2>1. In(P)' = In(P) \cup {c} /\ c \notin In(P)
    BY <1>2 DEF Moves, In
  <2>2. QED
    BY <1>0, <2>1, FS_AddElement DEF Count
<1>3. ASSUME from \in P <=> to \in P
      PROVE  Count(P)' = Count(P)
  <2>1. In(P)' = In(P)
    BY <1>3 DEF Moves, In
  <2>2. QED
    BY <2>1 DEF Count
<1>4. QED
  BY <1>1, <1>2, <1>3

LEMMA CountStill ==
    ASSUME NEW P, buy' = buy
    PROVE  Count(P)' = Count(P)
BY DEF Count, In

LEMMA UnaskedType == Unasked \in Buying /\ Unasked.at = "idle"
BY DEF Unasked, Buying, ShopPlaces

LEMMA QuitsEffect ==
    ASSUME ShopTypes, NEW c \in Clients, Quits(c)
    PROVE  Moves(c, buy[c].at, "idle") /\ buy' \in [Clients -> Buying]
BY UnaskedType DEF ShopTypes, Quits, Moves

LEMMA StepsEffect ==
    ASSUME ShopTypes, NEW c \in Clients, NEW at \in ShopPlaces, Steps(c, at)
    PROVE  Moves(c, buy[c].at, at) /\ buy' \in [Clients -> Buying]
<1>1. [buy[c] EXCEPT !.at = at] \in Buying /\ [buy[c] EXCEPT !.at = at].at = at
  BY DEF ShopTypes, Buying
<1>2. buy' = [buy EXCEPT ![c] = [buy[c] EXCEPT !.at = at]]
  BY DEF Steps, ShopTypes
<1>3. QED
  BY <1>1, <1>2 DEF ShopTypes, Moves

\* The ledger's transaction: the balance it leaves is checked, one row is added.
LEMMA AppendEffect ==
    ASSUME ShopTypes, NEW c, NEW delta \in Int, NEW r \in Reasons, AppendLedger(c, delta, r)
    PROVE  /\ player' \in [there : BOOLEAN, points : Int, link : BOOLEAN] /\ player'.points >= 0
           /\ ledger' \in [Reasons -> Nat] /\ ledger'[r] = ledger[r] + 1
           /\ \A q \in Reasons \ {r} : ledger'[q] = ledger[q]
<1>1. player' = [player EXCEPT !.points = player.points + delta] /\ player.points + delta >= 0
  BY DEF AppendLedger, Enough
<1>2. player.points \in Int
  BY DEF ShopTypes
<1>3. player' \in [there : BOOLEAN, points : Int, link : BOOLEAN] /\ player'.points >= 0
  BY <1>1, <1>2 DEF ShopTypes
<1>4. ledger' = [ledger EXCEPT ![r] = ledger[r] + 1] /\ ledger[r] \in Nat
  BY DEF AppendLedger, ShopTypes
<1>5. QED
  BY <1>3, <1>4 DEF ShopTypes

Numbers == <<orders, sold, begun, goods, broken, lied>>

\* What a step of the shop counts.
LEMMA TradeShape ==
    ASSUME ShopTypes, NEW c \in Clients, Trades(c)
    PROVE  /\ buy' \in [Clients -> Buying]
           /\ player' \in [there : BOOLEAN, points : Int, link : BOOLEAN] /\ ledger' \in [Reasons -> Nat]
           /\ player'.points = player.points \/ player'.points >= 0
           /\ \/ /\ buy' = buy \/ \E to \in {"insert", "idle", "welcome"}, from \in {"idle", "insert", "welcome"} :
                                    Moves(c, from, to)
                 /\ ledger'["debit"] = ledger["debit"] /\ ledger'["refund"] = ledger["refund"]
                 /\ UNCHANGED Numbers
              \/ /\ Moves(c, "idle", "debit") /\ begun < MaxBuys /\ begun' = begun + 1
                 /\ UNCHANGED <<ledger, orders, sold, goods, broken, lied>>
              \/ /\ Moves(c, "debit", "grant") /\ UNCHANGED Numbers
                 /\ ledger'["debit"] = ledger["debit"] + 1 /\ ledger'["refund"] = ledger["refund"]
              \/ Moves(c, "debit", "idle") /\ UNCHANGED Numbers /\ UNCHANGED ledger
              \/ /\ Moves(c, "grant", "order") /\ sold' = sold + 1
                 /\ \E n \in 0 .. 2 : goods' = goods + n /\ lied' = (lied \/ n # 1)
                 /\ UNCHANGED <<ledger, orders, begun, broken>>
              \/ /\ Moves(c, "grant", "refund")
                 /\ \E n \in 0 .. 2 : goods' = goods + n /\ lied' = (lied \/ n # 0)
                 /\ UNCHANGED <<ledger, orders, sold, begun, broken>>
              \/ /\ Moves(c, "refund", "idle") /\ UNCHANGED Numbers
                 /\ ledger'["debit"] = ledger["debit"] /\ ledger'["refund"] = ledger["refund"] + 1
              \/ /\ Moves(c, "refund", "idle") /\ broken' = TRUE
                 /\ UNCHANGED <<ledger, orders, sold, begun, goods, lied>>
              \/ /\ Moves(c, "order", "idle") /\ orders' \in {orders, orders + 1}
                 /\ UNCHANGED <<ledger, sold, begun, goods, broken, lied>>
              \/ /\ \E at : Moves(c, at, at)
                 /\ broken' = TRUE /\ UNCHANGED <<ledger, orders, sold, begun, goods, lied>>
<1>0. /\ player \in [there : BOOLEAN, points : Int, link : BOOLEAN] /\ ledger \in [Reasons -> Nat]
      /\ buy \in [Clients -> Buying] /\ {"debit", "refund", "welcome", "credit"} \subseteq Reasons
      /\ Price \in Int /\ -Price \in Int /\ Welcome \in Int
      /\ {"insert", "welcome", "debit", "grant", "refund", "order"} \subseteq ShopPlaces
  BY ShopAssumption DEF ShopTypes, Reasons, ShopPlaces
<1>1. CASE RegisterPlayer(c)
  BY <1>0, <1>1, StepsEffect DEF RegisterPlayer, Numbers
<1>2. CASE InsertPlayer(c)
  <2>1. CASE Quits(c) /\ player' = player
    BY <1>0, <1>2, <2>1, QuitsEffect DEF InsertPlayer, Numbers
  <2>2. CASE Steps(c, "welcome") /\ player' = [player EXCEPT !.there = TRUE]
    BY <1>0, <1>2, <2>2, StepsEffect DEF InsertPlayer, Numbers
  <2>3. QED
    BY <1>2, <2>1, <2>2 DEF InsertPlayer
<1>3. CASE GiveWelcome(c)
  <2>1. Moves(c, "welcome", "idle") /\ buy' \in [Clients -> Buying]
    BY <1>3, QuitsEffect DEF GiveWelcome
  <2>2. CASE AppendLedger(c, Welcome, "welcome")
    <3>1. /\ player' \in [there : BOOLEAN, points : Int, link : BOOLEAN] /\ player'.points >= 0
          /\ ledger' \in [Reasons -> Nat]
          /\ ledger'["debit"] = ledger["debit"] /\ ledger'["refund"] = ledger["refund"]
      BY <1>0, <2>2, AppendEffect
    <3>2. QED
      BY <1>3, <2>1, <3>1 DEF GiveWelcome, Numbers
  <2>3. CASE UNCHANGED <<player, ledger>>
    BY <1>0, <1>3, <2>1, <2>3 DEF GiveWelcome, Numbers
  <2>4. QED
    BY <1>3, <2>2, <2>3 DEF GiveWelcome
<1>4. CASE LinkGame(c)
  BY <1>0, <1>4 DEF LinkGame, Numbers
<1>5. CASE AdminCredit(c)
  <2>1. /\ player' \in [there : BOOLEAN, points : Int, link : BOOLEAN] /\ player'.points >= 0
        /\ ledger' \in [Reasons -> Nat]
        /\ ledger'["debit"] = ledger["debit"] /\ ledger'["refund"] = ledger["refund"]
    BY <1>0, <1>5, AppendEffect DEF AdminCredit
  <2>2. QED
    BY <1>0, <1>5, <2>1 DEF AdminCredit, Numbers
<1>6. CASE Buy(c)
  <2>1. [at |-> "debit", purse |-> player.points, alive |-> TRUE] \in Buying
    BY <1>0 DEF Buying
  <2>2. Moves(c, "idle", "debit") /\ buy' \in [Clients -> Buying]
    BY <1>0, <1>6, <2>1 DEF Buy, Moves
  <2>3. QED
    BY <1>0, <1>6, <2>2 DEF Buy
<1>7. CASE Debit(c)
  <2>1. Moves(c, "debit", "grant") /\ buy' \in [Clients -> Buying]
    BY <1>0, <1>7, StepsEffect DEF Debit
  <2>2. /\ player' \in [there : BOOLEAN, points : Int, link : BOOLEAN] /\ player'.points >= 0
        /\ ledger' \in [Reasons -> Nat]
        /\ ledger'["debit"] = ledger["debit"] + 1 /\ ledger'["refund"] = ledger["refund"]
    BY <1>0, <1>7, AppendEffect DEF Debit
  <2>3. QED
    BY <1>7, <2>1, <2>2 DEF Debit, Numbers
<1>8. CASE DebitFails(c)
  BY <1>0, <1>8, QuitsEffect DEF DebitFails, Numbers
<1>9. CASE Grant(c)
  <2>1. Moves(c, "grant", "order") /\ buy' \in [Clients -> Buying]
    BY <1>0, <1>9, StepsEffect DEF Grant
  <2>2. QED
    BY <1>0, <1>9, <2>1 DEF Grant, Booked
<1>10. CASE GrantFails(c)
  <2>1. Moves(c, "grant", "refund") /\ buy' \in [Clients -> Buying]
    BY <1>0, <1>10, StepsEffect DEF GrantFails
  <2>2. QED
    BY <1>0, <1>10, <2>1 DEF GrantFails, Booked
<1>11. CASE Refund(c)
  <2>1. Moves(c, "refund", "idle") /\ buy' \in [Clients -> Buying]
    BY <1>0, <1>11, QuitsEffect DEF Refund
  <2>2. CASE AppendLedger(c, Price, "refund") /\ broken' = broken
    <3>1. /\ player' \in [there : BOOLEAN, points : Int, link : BOOLEAN] /\ player'.points >= 0
          /\ ledger' \in [Reasons -> Nat]
          /\ ledger'["debit"] = ledger["debit"] /\ ledger'["refund"] = ledger["refund"] + 1
      BY <1>0, <2>2, AppendEffect
    <3>2. QED
      BY <1>11, <2>1, <2>2, <3>1 DEF Refund, Numbers
  <2>3. CASE broken' = TRUE /\ UNCHANGED <<player, ledger>>
    BY <1>0, <1>11, <2>1, <2>3 DEF Refund
  <2>4. QED
    BY <1>11, <2>2, <2>3 DEF Refund
<1>12. CASE CreateOrder(c)
  <2>1. Moves(c, "order", "idle") /\ buy' \in [Clients -> Buying]
    BY <1>0, <1>12, QuitsEffect DEF CreateOrder
  <2>2. QED
    BY <1>0, <1>12, <2>1 DEF CreateOrder
<1>13. CASE HangUp(c)
  <2>1. [buy[c] EXCEPT !.alive = FALSE] \in Buying /\ [buy[c] EXCEPT !.alive = FALSE].at = buy[c].at
    BY <1>0 DEF Buying
  <2>2. buy' = [buy EXCEPT ![c] = [buy[c] EXCEPT !.alive = FALSE]]
    BY <1>0, <1>13 DEF HangUp
  <2>3. Moves(c, buy[c].at, buy[c].at) /\ buy' \in [Clients -> Buying]
    BY <1>0, <2>1, <2>2 DEF Moves
  <2>4. QED
    BY <1>0, <1>13, <2>3 DEF HangUp
<1>14. QED
  BY <1>1, <1>2, <1>3, <1>4, <1>5, <1>6, <1>7, <1>8, <1>9, <1>10, <1>11, <1>12, <1>13 DEF Trades

\* Purchases that were paid for and have no outcome yet.
Paid == {"grant", "refund"}

\* Every bound holds if a request that moves from one place to another counts what it must.
LEMMA CountsKept ==
    ASSUME ShopInv, NEW c \in Clients, Trades(c)
    PROVE  ShopTypes' /\ ShopBounds' /\ OrderedInv' /\ Settled'
<1>0. /\ ShopTypes /\ ShopBounds /\ OrderedInv
      /\ ~broken => ledger["debit"] = ledger["refund"] + sold + Count(Paid)
      /\ ~lied => goods = sold
  BY DEF ShopInv, Settled, Open, Count, In, Paid
<1>1. /\ ledger["debit"] \in Nat /\ ledger["refund"] \in Nat /\ orders \in Nat /\ sold \in Nat /\ begun \in Nat /\ goods \in Nat
      /\ Count(Undecided) \in Nat /\ Count(Unordered) \in Nat /\ Count(Unfinished) \in Nat /\ Count(Paid) \in Nat
      /\ broken \in BOOLEAN /\ lied \in BOOLEAN /\ MaxBuys \in Nat
  BY <1>0, CountType, ShopAssumption DEF ShopTypes, Reasons
<1> DEFINE Holds ==
        /\ orders' \in Nat /\ sold' \in Nat /\ begun' \in Nat /\ goods' \in Nat /\ begun' <= MaxBuys
        /\ broken' \in BOOLEAN /\ lied' \in BOOLEAN
        /\ sold' + Count(Undecided)' <= begun'
        /\ orders' + Count(Unordered)' <= begun'
        /\ orders' + ledger'["refund"] + Count(Unfinished)' <= ledger'["debit"]
        /\ ~broken' => ledger'["debit"] = ledger'["refund"] + sold' + Count(Paid)'
        /\ ~lied' => goods' = sold'
<1>2. SUFFICES Holds
  <2>1. ASSUME Holds
        PROVE  ShopTypes' /\ ShopBounds' /\ OrderedInv' /\ Settled'
    <3>1. ShopTypes'
      BY <1>0, <2>1, TradeShape DEF ShopTypes
    <3>2. ShopBounds' /\ OrderedInv'
      BY <2>1 DEF ShopBounds, OrderedInv
    <3>3. Open' = Count(Paid)'
      BY DEF Open, Count, In, Paid
    <3>4. Settled'
      BY <2>1, <3>3 DEF Settled
    <3>5. QED
      BY <3>1, <3>2, <3>4
  <2>2. QED
    BY <2>1
<1>3. CASE /\ buy' = buy \/ \E to \in {"insert", "idle", "welcome"}, from \in {"idle", "insert", "welcome"} :
                               Moves(c, from, to)
           /\ ledger'["debit"] = ledger["debit"] /\ ledger'["refund"] = ledger["refund"]
           /\ UNCHANGED Numbers
  <2>1. /\ Count(Undecided)' = Count(Undecided) /\ Count(Unordered)' = Count(Unordered)
        /\ Count(Unfinished)' = Count(Unfinished) /\ Count(Paid)' = Count(Paid)
    BY <1>3, CountMoves, CountStill DEF Undecided, Unordered, Unfinished, Paid
  <2>2. QED
    BY <1>0, <1>1, <1>3, <2>1 DEF ShopBounds, OrderedInv, Numbers
<1>4. CASE /\ Moves(c, "idle", "debit") /\ begun < MaxBuys /\ begun' = begun + 1
           /\ UNCHANGED <<ledger, orders, sold, goods, broken, lied>>
  <2>1. /\ Count(Undecided)' = Count(Undecided) + 1 /\ Count(Unordered)' = Count(Unordered) + 1
        /\ Count(Unfinished)' = Count(Unfinished) /\ Count(Paid)' = Count(Paid)
    BY <1>4, CountMoves DEF Undecided, Unordered, Unfinished, Paid
  <2>2. QED
    BY <1>0, <1>1, <1>4, <2>1 DEF ShopBounds, OrderedInv, Numbers
<1>5. CASE /\ Moves(c, "debit", "grant") /\ UNCHANGED Numbers
           /\ ledger'["debit"] = ledger["debit"] + 1 /\ ledger'["refund"] = ledger["refund"]
  <2>1. /\ Count(Undecided)' = Count(Undecided) /\ Count(Unordered)' = Count(Unordered)
        /\ Count(Unfinished)' = Count(Unfinished) + 1 /\ Count(Paid)' = Count(Paid) + 1
    BY <1>5, CountMoves DEF Undecided, Unordered, Unfinished, Paid
  <2>2. QED
    BY <1>0, <1>1, <1>5, <2>1 DEF ShopBounds, OrderedInv, Numbers
<1>6. CASE Moves(c, "debit", "idle") /\ UNCHANGED Numbers /\ UNCHANGED ledger
  <2>1. /\ Count(Undecided)' = Count(Undecided) - 1 /\ Count(Unordered)' = Count(Unordered) - 1
        /\ Count(Unfinished)' = Count(Unfinished) /\ Count(Paid)' = Count(Paid)
    BY <1>6, CountMoves DEF Undecided, Unordered, Unfinished, Paid
  <2>2. QED
    BY <1>0, <1>1, <1>6, <2>1 DEF ShopBounds, OrderedInv, Numbers
<1>7. CASE /\ Moves(c, "grant", "order") /\ sold' = sold + 1
           /\ \E n \in 0 .. 2 : goods' = goods + n /\ lied' = (lied \/ n # 1)
           /\ UNCHANGED <<ledger, orders, begun, broken>>
  <2>1. /\ Count(Undecided)' = Count(Undecided) - 1 /\ Count(Unordered)' = Count(Unordered)
        /\ Count(Unfinished)' = Count(Unfinished) /\ Count(Paid)' = Count(Paid) - 1
    BY <1>7, CountMoves DEF Undecided, Unordered, Unfinished, Paid
  <2>2. goods' \in Nat /\ lied' \in BOOLEAN /\ sold' = sold + 1 /\ (~lied' => ~lied /\ goods' = goods + 1)
    <3>1. PICK n \in 0 .. 2 : goods' = goods + n /\ lied' = (lied \/ n # 1)
      BY <1>7
    <3>2. goods' \in Nat
      BY <1>1, <3>1
    <3>3. lied' \in BOOLEAN /\ (~lied' => ~lied /\ n = 1)
      BY <1>1, <3>1
    <3>4. QED
      BY <1>7, <3>1, <3>2, <3>3
  <2>3. ~lied' => goods' = sold'
    BY <1>0, <1>1, <2>2
  <2>4. ~broken' => ledger'["debit"] = ledger'["refund"] + sold' + Count(Paid)'
    BY <1>0, <1>1, <1>7, <2>1
  <2>5. QED
    BY <1>0, <1>1, <1>7, <2>1, <2>2, <2>3, <2>4 DEF ShopBounds, OrderedInv
<1>8. CASE /\ Moves(c, "grant", "refund")
           /\ \E n \in 0 .. 2 : goods' = goods + n /\ lied' = (lied \/ n # 0)
           /\ UNCHANGED <<ledger, orders, sold, begun, broken>>
  <2>1. /\ Count(Undecided)' = Count(Undecided) - 1 /\ Count(Unordered)' = Count(Unordered) - 1
        /\ Count(Unfinished)' = Count(Unfinished) /\ Count(Paid)' = Count(Paid)
    BY <1>8, CountMoves DEF Undecided, Unordered, Unfinished, Paid
  <2>2. goods' \in Nat /\ lied' \in BOOLEAN /\ sold' = sold /\ (~lied' => ~lied /\ goods' = goods + 0)
    <3>1. PICK n \in 0 .. 2 : goods' = goods + n /\ lied' = (lied \/ n # 0)
      BY <1>8
    <3>2. goods' \in Nat
      BY <1>1, <3>1
    <3>3. lied' \in BOOLEAN /\ (~lied' => ~lied /\ n = 0)
      BY <1>1, <3>1
    <3>4. QED
      BY <1>8, <3>1, <3>2, <3>3
  <2>3. ~lied' => goods' = sold'
    BY <1>0, <1>1, <2>2
  <2>4. ~broken' => ledger'["debit"] = ledger'["refund"] + sold' + Count(Paid)'
    BY <1>0, <1>1, <1>8, <2>1
  <2>5. QED
    BY <1>0, <1>1, <1>8, <2>1, <2>2, <2>3, <2>4 DEF ShopBounds, OrderedInv
<1>9. CASE /\ Moves(c, "refund", "idle") /\ UNCHANGED Numbers
           /\ ledger'["debit"] = ledger["debit"] /\ ledger'["refund"] = ledger["refund"] + 1
  <2>1. /\ Count(Undecided)' = Count(Undecided) /\ Count(Unordered)' = Count(Unordered)
        /\ Count(Unfinished)' = Count(Unfinished) - 1 /\ Count(Paid)' = Count(Paid) - 1
    BY <1>9, CountMoves DEF Undecided, Unordered, Unfinished, Paid
  <2>2. UNCHANGED orders /\ UNCHANGED sold /\ UNCHANGED begun /\ UNCHANGED goods /\ broken' = broken /\ lied' = lied
    BY <1>9 DEF Numbers
  <2>3. /\ ~broken' => ledger'["debit"] = ledger'["refund"] + sold' + Count(Paid)'
        /\ ~lied' => goods' = sold'
    BY <1>0, <1>1, <1>9, <2>1, <2>2
  <2>4. QED
    BY <1>0, <1>1, <1>9, <2>1, <2>2, <2>3 DEF ShopBounds, OrderedInv
<1>10. CASE /\ Moves(c, "refund", "idle") /\ broken' = TRUE
           /\ UNCHANGED <<ledger, orders, sold, begun, goods, lied>>
  <2>1. /\ Count(Undecided)' = Count(Undecided) /\ Count(Unordered)' = Count(Unordered)
        /\ Count(Unfinished)' = Count(Unfinished) - 1 /\ Count(Paid)' = Count(Paid) - 1
    BY <1>10, CountMoves DEF Undecided, Unordered, Unfinished, Paid
  <2>2. QED
    BY <1>0, <1>1, <1>10, <2>1 DEF ShopBounds, OrderedInv, Numbers
<1>11. CASE /\ Moves(c, "order", "idle") /\ orders' \in {orders, orders + 1}
           /\ UNCHANGED <<ledger, sold, begun, goods, broken, lied>>
  <2>1. /\ Count(Undecided)' = Count(Undecided) /\ Count(Unordered)' = Count(Unordered) - 1
        /\ Count(Unfinished)' = Count(Unfinished) - 1 /\ Count(Paid)' = Count(Paid)
    BY <1>11, CountMoves DEF Undecided, Unordered, Unfinished, Paid
  <2>2. QED
    BY <1>0, <1>1, <1>11, <2>1 DEF ShopBounds, OrderedInv, Numbers
<1>12. CASE /\ \E at : Moves(c, at, at)
           /\ broken' = TRUE /\ UNCHANGED <<ledger, orders, sold, begun, goods, lied>>
  <2>1. /\ Count(Undecided)' = Count(Undecided) /\ Count(Unordered)' = Count(Unordered)
        /\ Count(Unfinished)' = Count(Unfinished) /\ Count(Paid)' = Count(Paid)
    BY <1>12, CountMoves DEF Undecided, Unordered, Unfinished, Paid
  <2>2. QED
    BY <1>0, <1>1, <1>12, <2>1 DEF ShopBounds, OrderedInv, Numbers
<1>13. QED
  BY <1>0, <1>3, <1>4, <1>5, <1>6, <1>7, <1>8, <1>9, <1>10, <1>11, <1>12, TradeShape

LEMMA ShopInitInv == ShopInit => ShopInv
<1> SUFFICES ASSUME ShopInit PROVE ShopInv
  OBVIOUS
<1>1. ShopTypes
  <2>1. player \in [there : BOOLEAN, points : Int, link : BOOLEAN] /\ ledger \in [Reasons -> Nat]
    BY DEF ShopInit
  <2>2. buy \in [Clients -> Buying]
    BY UnaskedType DEF ShopInit
  <2>3. {orders, sold, begun, goods} \subseteq Nat
    <3>1. orders = 0 /\ sold = 0 /\ begun = 0 /\ goods = 0
      BY DEF ShopInit
    <3>2. QED
      BY <3>1
  <2>4. broken \in BOOLEAN /\ lied \in BOOLEAN
    BY DEF ShopInit
  <2>5. QED
    BY <2>1, <2>2, <2>3, <2>4 DEF ShopTypes
<1>2. ASSUME NEW P, "idle" \notin P
      PROVE  Count(P) = 0
  <2>1. In(P) = {}
    BY <1>2, UnaskedType DEF ShopInit, In
  <2>2. QED
    BY <2>1, FS_EmptySet DEF Count
<1>3. Count(Undecided) = 0 /\ Count(Unordered) = 0 /\ Count(Unfinished) = 0 /\ Count(Paid) = 0
  BY <1>2 DEF Undecided, Unordered, Unfinished, Paid
<1>4. ledger["debit"] = 0 /\ ledger["refund"] = 0 /\ MaxBuys \in Nat
  BY ShopAssumption DEF ShopInit, Reasons
<1>5. ShopBounds /\ OrderedInv
  BY <1>3, <1>4 DEF ShopInit, ShopBounds, OrderedInv
<1>6. Open = 0
  BY <1>3 DEF Open, Count, In, Paid
<1>7. NeverOverdrawn /\ Settled
  BY <1>4, <1>6 DEF ShopInit, NeverOverdrawn, Settled
<1>8. QED
  BY <1>1, <1>5, <1>7 DEF ShopInv

LEMMA ShopKept ==
    ASSUME ShopInv, [ShopNext]_shopVars
    PROVE  ShopInv'
<1>0. ShopTypes /\ NeverOverdrawn
  BY DEF ShopInv
<1>1. ASSUME NEW c \in Clients, Trades(c)
      PROVE  ShopInv'
  <2>1. NeverOverdrawn'
    BY <1>0, <1>1, TradeShape DEF NeverOverdrawn
  <2>2. QED
    BY <1>1, <2>1, CountsKept DEF ShopInv
<1>2. CASE ShopCrash
  <2>1. buy' = [c \in Clients |-> Unasked] /\ broken' = TRUE /\ UNCHANGED <<player, ledger, orders, goods, begun, sold, lied>>
    BY <1>2 DEF ShopCrash
  <2>2. ASSUME NEW P, "idle" \notin P
        PROVE  Count(P)' = 0
    <3>1. In(P)' = {}
      BY <2>1, <2>2, UnaskedType DEF In
    <3>2. QED
      BY <3>1, FS_EmptySet DEF Count
  <2>3. Count(Undecided)' = 0 /\ Count(Unordered)' = 0 /\ Count(Unfinished)' = 0
    BY <2>2 DEF Undecided, Unordered, Unfinished
  <2>4. Count(Undecided) \in Nat /\ Count(Unordered) \in Nat /\ Count(Unfinished) \in Nat
    BY CountType
  <2>5. ShopTypes'
    BY <1>0, <2>1, UnaskedType DEF ShopTypes
  <2>6. orders \in Nat /\ sold \in Nat /\ begun \in Nat /\ ledger["refund"] \in Nat /\ ledger["debit"] \in Nat /\ MaxBuys \in Nat
    BY <1>0, ShopAssumption DEF ShopTypes, Reasons
  <2>7. ShopBounds'
    BY <2>1, <2>3, <2>4, <2>6 DEF ShopInv, ShopBounds
  <2>8. OrderedInv'
    BY <2>1, <2>3, <2>4, <2>6 DEF ShopInv, OrderedInv
  <2>9. Settled' /\ NeverOverdrawn'
    BY <2>1 DEF ShopInv, Settled, NeverOverdrawn
  <2>10. QED
    BY <2>5, <2>7, <2>8, <2>9 DEF ShopInv
<1>3. CASE UNCHANGED shopVars
  BY <1>3 DEF shopVars, ShopInv, ShopTypes, ShopBounds, OrderedInv, NeverOverdrawn, Settled, Open, Count, In
<1>4. QED
  BY <1>1, <1>2, <1>3 DEF ShopNext

LEMMA ShopInvHolds == ShopSpec => []ShopInv
BY ShopInitInv, ShopKept, PTL DEF ShopSpec

LEMMA ShopInvTells == ShopInv => ShopTypeOK
<1> SUFFICES ASSUME ShopInv PROVE ShopTypeOK
  OBVIOUS
<1>1. Count(Undecided) \in Nat /\ Count(Unordered) \in Nat /\ MaxBuys \in Nat
  BY CountType, ShopAssumption
<1>2. orders \in 0 .. MaxBuys /\ sold \in 0 .. MaxBuys /\ begun \in 0 .. MaxBuys
  BY <1>1 DEF ShopInv, ShopTypes, ShopBounds
<1>3. QED
  BY <1>2 DEF ShopInv, ShopTypes, ShopTypeOK, Buying

\* Rows, counters and requests are what the code knows, within their bounds.
THEOREM ShopTyped == ShopSpec => []ShopTypeOK
BY ShopInvTells, ShopInvHolds, PTL

\* For any number of purchases at once, hang-ups and crashes: no account is overdrawn,
\* no order is unpaid, and what was paid is delivered or given back where nothing broke.
THEOREM ShopIsSound == ShopSpec => []PurchasesAreSound
<1>1. ShopInv => PurchasesAreSound
  <2> SUFFICES ASSUME ShopInv PROVE PurchasesAreSound
    OBVIOUS
  <2>1. Count(Unfinished) \in Nat /\ orders \in Nat /\ ledger["refund"] \in Nat /\ ledger["debit"] \in Nat
    BY CountType DEF ShopInv, ShopTypes, Reasons
  <2>2. OrdersArePaid
    BY <2>1 DEF ShopInv, OrderedInv, OrdersArePaid
  <2>3. QED
    BY <2>2 DEF ShopInv, PurchasesAreSound
<1>2. QED
  BY <1>1, ShopInvHolds, PTL
-----------------------------------------------------------------------------
(* The managed services *)

Requested == [at : Places, app : Apps \cup {NoApp}, type : Types \cup {"none"}, row : Row,
              dropped : BOOLEAN, todo : [Types -> Row], whole : BOOLEAN]
\* A request that may yet insert a row.
MayInsert(c) == req[c].at \in {"make", "insert"}
Claims(a) == {c \in Clients : MayInsert(c) /\ req[c].app = a /\ req[c].row.counted}
Cell(c) == <<req[c].app, req[c].type>>

\* A request knows what it is about; a new password is none of no user.
SvcPlaces ==
    \A c \in Clients :
        /\ MayInsert(c) => req[c].app \in Apps /\ req[c].type \in Types /\ req[c].row.id # 0
        /\ req[c].at = "make" => req[c].row.key \in 1 .. MaxRequests /\ ~req[c].row.embedded
        /\ req[c].at = "insert" /\ ~req[c].row.embedded /\ req[c].type # "redis" => req[c].row.key # 0
        /\ req[c].at = "insert" /\ req[c].row.embedded => req[c].type = "mysql"
        /\ req[c].at = "remove" => req[c].app \in Apps
        /\ req[c].at = "remove" /\ req[c].dropped => req[c].type \in Types

\* Rows of what is on a shared server have a password.
SvcKeyed ==
    \A a \in Apps, t \in Types \cap CreatesOnce : Exists(a, t) /\ ~svc[a][t].embedded => svc[a][t].key # 0

\* Who is alone with a service finds no row of it, and inserts the password it set.
SvcAlone ==
    \A c, d \in Clients : \A p \in Subject(c) \cap Subject(d) : p \in crossed \/ c = d
SvcFresh ==
    \A c \in Clients : MayInsert(c) /\ Cell(c) \notin crossed =>
        /\ ~Exists(req[c].app, req[c].type)
        /\ req[c].at = "insert" /\ req[c].type \in Overwrites => server[req[c].app][req[c].type] = req[c].row.key

\* Where a command goes on nobody inserts a row unnoticed, nor was one inserted that
\* the command spoils.
SvcLate ==
    \A l \in late : <<l.app, l.type>> \notin crossed =>
        /\ \A c \in Clients : MayInsert(c) => Cell(c) # <<l.app, l.type>>
        /\ l.key # 0 => ~Exists(l.app, l.type)

\* Every request that was counted counts as if its row were there.
SvcQuota ==
    \A a \in Apps : Cardinality(Owned(a)) + Cardinality(Claims(a)) <= MaxServices - 1 + Cardinality(Clients)

SvcInv ==
    /\ ServicesTypeOK /\ SvcPlaces /\ SvcKeyed
    /\ SvcAlone /\ SvcFresh /\ SvcLate /\ NoWrongPassword /\ SvcQuota

SvcOthers(c) == \A d \in Clients \ {c} : req'[d] = req[d]

LEMMA NoRowType == NoRow \in Row /\ NoRow.id = 0 /\ NoTodo \in [Types -> Row]
BY ServicesAssumption DEF NoRow, Row, NoTodo

LEMMA IdleType == Idle \in Requested /\ Idle.at = "idle"
BY NoRowType DEF Idle, Requested, Places

\* One cell of a table by app and type is written.
LEMMA CellWritten ==
    ASSUME NEW S, NEW f \in [Apps -> [Types -> S]], NEW a \in Apps, NEW t \in Types, NEW v \in S,
           NEW g, g = [f EXCEPT ![a][t] = v]
    PROVE  /\ g \in [Apps -> [Types -> S]] /\ g[a][t] = v
           /\ \A b \in Apps, u \in Types : b # a \/ u # t => g[b][u] = f[b][u]
<1>1. g = [f EXCEPT ![a] = [f[a] EXCEPT ![t] = v]]
  OBVIOUS
<1>2. QED
  BY <1>1

LEMMA EndsEffect ==
    ASSUME ServicesTypeOK, NEW c \in Clients, Ends(c)
    PROVE  req'[c].at = "idle" /\ SvcOthers(c) /\ req' \in [Clients -> Requested] /\ Subject(c)' = {}
<1>1. req'[c] = Idle /\ SvcOthers(c) /\ req' \in [Clients -> Requested]
  BY IdleType DEF Ends, ServicesTypeOK, SvcOthers, Requested
<1>2. QED
  BY <1>1, IdleType DEF Subject, Busy

\* A request for a new row begins.
SvcBegins(c, a, t) ==
    /\ ~Busy(c) /\ a \in apps /\ ~Exists(a, t) /\ a \in Apps /\ t \in Types
    /\ MayInsert(c)' /\ req'[c].app = a /\ req'[c].type = t /\ req'[c].row.id # 0
    /\ UnderPlanLimit(a, req'[c].row.counted)
    /\ \/ /\ req'[c].at = "make" /\ ~req'[c].row.embedded
          /\ req'[c].row.key \in 1 .. MaxRequests
       \/ req'[c].at = "insert" /\ req'[c].row.embedded /\ t = "mysql"
    /\ SvcOthers(c) /\ Crossing({<<a, t>>}) /\ UNCHANGED <<apps, svc, server, late>>

LEMMA AskedType ==
    ASSUME NEW a \in Apps, NEW t \in Types, NEW at \in Places, NEW row \in Row
    PROVE  /\ Asked(a, t, at, row) \in Requested
           /\ Asked(a, t, at, row).at = at /\ Asked(a, t, at, row).app = a
           /\ Asked(a, t, at, row).type = t /\ Asked(a, t, at, row).row = row
BY IdleType DEF Asked, Requested

LEMMA BeginEffect ==
    ASSUME ServicesTypeOK, NEW c \in Clients, NEW a \in Apps, NEW t \in Types,
           Provision(c, a, t) \/ (Register(c, a) /\ t = "mysql")
    PROVE  SvcBegins(c, a, t) /\ ServicesTypeOK'
<1>1. seq \in 0 .. MaxRequests /\ MaxRequests \in Nat /\ seq < MaxRequests
  BY ServicesAssumption DEF ServicesTypeOK, Provision, Register
<1>2. seq + 1 \in 1 .. MaxRequests /\ seq + 1 \in 0 .. MaxRequests /\ seq + 1 \in Nat /\ seq + 1 # 0
  BY <1>1
<1>3. PICK q \in Requested :
          /\ req' = [req EXCEPT ![c] = q]
          /\ q.app = a /\ q.type = t /\ q.row.id # 0 /\ UnderPlanLimit(a, q.row.counted)
          /\ \/ q.at = "make" /\ ~q.row.embedded /\ q.row.key \in 1 .. MaxRequests
             \/ q.at = "insert" /\ q.row.embedded /\ t = "mysql"
  <2>1. CASE Provision(c, a, t)
    <3>0. PICK listed \in BOOLEAN :
              /\ UnderPlanLimit(a, listed)
              /\ req' = [req EXCEPT ![c] = Asked(a, t, "make", [id |-> seq + 1, key |-> seq + 1,
                                                             embedded |-> FALSE, counted |-> listed])]
      BY <2>1 DEF Provision
    <3>1. PICK row \in Row : row = [id |-> seq + 1, key |-> seq + 1, embedded |-> FALSE, counted |-> listed]
      <4>1. [id |-> seq + 1, key |-> seq + 1, embedded |-> FALSE, counted |-> listed] \in Row
        BY <1>2 DEF Row
      <4>2. QED
        BY <4>1
    <3>2. row.id # 0 /\ ~row.embedded /\ row.key \in 1 .. MaxRequests /\ UnderPlanLimit(a, row.counted)
      BY <1>2, <3>0, <3>1
    <3>3. req' = [req EXCEPT ![c] = Asked(a, t, "make", row)]
      BY <3>0, <3>1
    <3>4. /\ Asked(a, t, "make", row) \in Requested /\ Asked(a, t, "make", row).at = "make"
          /\ Asked(a, t, "make", row).app = a /\ Asked(a, t, "make", row).type = t
          /\ Asked(a, t, "make", row).row = row
      BY AskedType DEF Places
    <3>5. QED
      BY <3>2, <3>3, <3>4
  <2>2. CASE Register(c, a) /\ t = "mysql"
    <3>1. PICK row \in Row : row = [id |-> seq + 1, key |-> 0, embedded |-> TRUE, counted |-> FALSE]
      <4>1. [id |-> seq + 1, key |-> 0, embedded |-> TRUE, counted |-> FALSE] \in Row
        BY <1>2 DEF Row
      <4>2. QED
        BY <4>1
    <3>2. row.id # 0 /\ row.embedded /\ UnderPlanLimit(a, row.counted)
      BY <1>2, <3>1 DEF UnderPlanLimit
    <3>3. req' = [req EXCEPT ![c] = Asked(a, t, "insert", row)]
      BY <2>2, <3>1 DEF Register
    <3>4. /\ Asked(a, t, "insert", row) \in Requested /\ Asked(a, t, "insert", row).at = "insert"
          /\ Asked(a, t, "insert", row).app = a /\ Asked(a, t, "insert", row).type = t
          /\ Asked(a, t, "insert", row).row = row
      BY AskedType DEF Places
    <3>5. QED
      BY <2>2, <3>2, <3>3, <3>4
  <2>3. QED
    BY <2>1, <2>2
<1>4. /\ ~Busy(c) /\ a \in apps /\ ~Exists(a, t) /\ seq' = seq + 1
      /\ Crossing({<<a, t>>}) /\ UNCHANGED <<apps, svc, server, late>>
  BY DEF Provision, Register
<1>5. req' \in [Clients -> Requested] /\ req'[c] = q /\ SvcOthers(c)
  BY <1>3 DEF ServicesTypeOK, Requested, SvcOthers
<1>6. SvcBegins(c, a, t)
  BY <1>3, <1>4, <1>5 DEF SvcBegins, MayInsert
<1>7. crossed' \subseteq Apps \X Types
  BY <1>4 DEF Crossing, ServicesTypeOK
<1>8. seq' \in 0 .. MaxRequests
  BY <1>1, <1>4
<1>9. QED
  BY <1>4, <1>5, <1>6, <1>7, <1>8 DEF ServicesTypeOK, Requested

\* What is made on the server, where nothing or something was before.
LEMMA MadeType ==
    ASSUME NEW t, NEW old \in 0 .. MaxRequests, NEW key \in 1 .. MaxRequests
    PROVE  /\ Made(t, old, key) \in 0 .. MaxRequests
           /\ t \in Overwrites => Made(t, old, key) = key
           /\ t \in CreatesOnce /\ old # 0 => Made(t, old, key) = old
BY ServicesAssumption DEF Made, Overwrites, CreatesOnce

SvcServes(c, v) ==
    /\ server'[req[c].app][req[c].type] = v
    /\ \A b \in Apps, u \in Types : b # req[c].app \/ u # req[c].type => server'[b][u] = server[b][u]

LEMMA MakeEffect ==
    ASSUME ServicesTypeOK, SvcPlaces, NEW c \in Clients, Make(c)
    PROVE  /\ req[c].at = "make" /\ req'[c].at = "insert" /\ SvcOthers(c)
           /\ req'[c].app = req[c].app /\ req'[c].type = req[c].type
           /\ req'[c].row.id = req[c].row.id /\ ~req'[c].row.embedded
           /\ req'[c].row.counted = req[c].row.counted
           /\ req[c].type # "redis" => req'[c].row.key = req[c].row.key
           /\ SvcServes(c, Made(req[c].type, server[req[c].app][req[c].type], req[c].row.key))
           /\ UNCHANGED <<apps, svc, late, crossed>> /\ ServicesTypeOK'
<1>0. PICK id : id = req[c].row.id
  OBVIOUS
<1>1. PICK a \in Apps, t \in Types, key \in 1 .. MaxRequests :
          a = req[c].app /\ t = req[c].type /\ key = req[c].row.key
  BY DEF Make, SvcPlaces, MayInsert
<1>2. PICK v \in 0 .. MaxRequests : v = Made(t, server[a][t], key)
  <2>1. server[a][t] \in 0 .. MaxRequests
    BY DEF ServicesTypeOK
  <2>2. QED
    BY <2>1, MadeType
<1>3. server' = [server EXCEPT ![a][t] = v]
  BY <1>1, <1>2 DEF Make
<1>4. server' \in [Apps -> [Types -> 0 .. MaxRequests]] /\ SvcServes(c, v)
  BY <1>1, <1>3, CellWritten DEF ServicesTypeOK, SvcServes
<1>5. PICK k \in Nat : k = IF t = "redis" THEN RedisCount % RedisDBs ELSE key
  <2>1. IsFiniteSet(apps)
    BY ServicesAssumption, FS_Subset DEF ServicesTypeOK
  <2>2. RedisCount \in Nat
    BY <2>1, FS_Subset, FS_CardinalityType DEF RedisCount
  <2>3. QED
    BY <2>2, ServicesAssumption
<1>6. req[c] \in Requested /\ req[c].row \in Row
  BY DEF ServicesTypeOK, Requested
<1>7. req' = [req EXCEPT ![c] = [req[c] EXCEPT !.at = "insert", !.row = [req[c].row EXCEPT !.key = k]]]
  BY <1>1, <1>5, <1>6 DEF Make, ServicesTypeOK
<1>8. PICK q \in Requested :
          /\ q.at = "insert" /\ q.app = a /\ q.type = t /\ q.row.id = id /\ q.row.key = k
          /\ q.row.embedded = req[c].row.embedded /\ q.row.counted = req[c].row.counted
          /\ req' = [req EXCEPT ![c] = q]
  BY <1>0, <1>1, <1>6, <1>7 DEF Requested, Row, Places
<1>9. req' \in [Clients -> Requested] /\ req'[c] = q /\ SvcOthers(c)
  BY <1>8 DEF ServicesTypeOK, Requested, SvcOthers
<1>10. UNCHANGED <<apps, svc, late, seq, crossed>> /\ req[c].at = "make" /\ ~req[c].row.embedded
  BY DEF Make, SvcPlaces
<1>11. ServicesTypeOK'
  BY <1>4, <1>9, <1>10 DEF ServicesTypeOK, Requested
<1>12. QED
  BY <1>0, <1>1, <1>2, <1>4, <1>5, <1>8, <1>9, <1>10, <1>11

\* The count of the Redis services fails: their number is taken to be 0.
LEMMA RedisUncountedEffect ==
    ASSUME ServicesTypeOK, SvcPlaces, NEW c \in Clients, RedisUncounted(c)
    PROVE  /\ req[c].at = "make" /\ req'[c].at = "insert" /\ SvcOthers(c)
           /\ req'[c].app = req[c].app /\ req'[c].type = req[c].type /\ req[c].type = "redis"
           /\ req'[c].row.id = req[c].row.id /\ ~req'[c].row.embedded
           /\ req'[c].row.counted = req[c].row.counted
           /\ UNCHANGED <<apps, svc, server, late, crossed>> /\ ServicesTypeOK'
<1>1. req[c] \in Requested /\ req[c].row \in Row /\ ~req[c].row.embedded
  BY DEF ServicesTypeOK, Requested, SvcPlaces, RedisUncounted
<1>2. req' = [req EXCEPT ![c] = [req[c] EXCEPT !.at = "insert", !.row = [req[c].row EXCEPT !.key = 0]]]
  BY <1>1 DEF RedisUncounted, ServicesTypeOK
<1>3. PICK q \in Requested :
          /\ q.at = "insert" /\ q.app = req[c].app /\ q.type = req[c].type /\ q.row.id = req[c].row.id
          /\ q.row.embedded = req[c].row.embedded /\ q.row.counted = req[c].row.counted
          /\ req' = [req EXCEPT ![c] = q]
  BY <1>1, <1>2 DEF Requested, Row, Places
<1>4. req' \in [Clients -> Requested] /\ req'[c] = q /\ SvcOthers(c)
  BY <1>3 DEF ServicesTypeOK, Requested, SvcOthers
<1>5. UNCHANGED <<apps, svc, server, late, seq, crossed>> /\ req[c].at = "make" /\ req[c].type = "redis"
  BY DEF RedisUncounted
<1>6. ServicesTypeOK'
  BY <1>4, <1>5 DEF ServicesTypeOK, Requested
<1>7. QED
  BY <1>1, <1>3, <1>4, <1>5, <1>6

\* Of the commands that may go on, at most one more does.
SvcLeaves(S) == late \subseteq late' /\ late' \subseteq late \cup S

LEMMA UnattendedEffect ==
    ASSUME ServicesTypeOK, NEW S, S \subseteq Command, GoUnattended(S)
    PROVE  SvcLeaves(S) /\ late' \in SUBSET Command
BY DEF GoUnattended, SvcLeaves, ServicesTypeOK

LEMMA MakeFailsEffect ==
    ASSUME ServicesTypeOK, NEW c \in Clients, MakeFails(c)
    PROVE  /\ req[c].at = "make" /\ req'[c].at = "idle" /\ Subject(c)' = {} /\ SvcOthers(c)
           /\ SvcLeaves(Making(c))
           /\ UNCHANGED <<apps, svc, server, crossed>> /\ ServicesTypeOK'
<1>1. SvcLeaves(Making(c)) /\ late' \in SUBSET Command
  BY UnattendedEffect DEF MakeFails, Making
<1>2. req'[c].at = "idle" /\ SvcOthers(c) /\ req' \in [Clients -> Requested] /\ Subject(c)' = {}
  BY EndsEffect DEF MakeFails
<1>3. UNCHANGED <<apps, svc, server, seq, crossed>> /\ req[c].at = "make"
  BY DEF MakeFails
<1>4. ServicesTypeOK'
  BY <1>1, <1>2, <1>3 DEF ServicesTypeOK, Requested
<1>5. QED
  BY <1>1, <1>2, <1>3, <1>4

\* A command that went on does its work.
LEMMA GoesOnEffect ==
    ASSUME ServicesTypeOK, NEW l \in late, GoesOn(l)
    PROVE  /\ l \in Command /\ late' \subseteq late /\ UNCHANGED <<apps, svc, seq, req, crossed>>
           /\ server'[l.app][l.type] = IF l.key = 0 THEN 0 ELSE Made(l.type, server[l.app][l.type], l.key)
           /\ \A b \in Apps, u \in Types : b # l.app \/ u # l.type => server'[b][u] = server[b][u]
           /\ ServicesTypeOK'
<1>1. PICK a \in Apps, t \in Types, key \in 0 .. MaxRequests : a = l.app /\ t = l.type /\ key = l.key /\ l \in Command
  BY DEF ServicesTypeOK, Command
<1>2. PICK v \in 0 .. MaxRequests : v = IF key = 0 THEN 0 ELSE Made(t, server[a][t], key)
  <2>1. server[a][t] \in 0 .. MaxRequests /\ 0 \in 0 .. MaxRequests /\ (key # 0 => key \in 1 .. MaxRequests)
    BY ServicesAssumption DEF ServicesTypeOK
  <2>2. QED
    BY <2>1, MadeType
<1>3. server' = [server EXCEPT ![a][t] = v]
  BY <1>1, <1>2 DEF GoesOn
<1>4. /\ server' \in [Apps -> [Types -> 0 .. MaxRequests]] /\ server'[a][t] = v
      /\ \A b \in Apps, u \in Types : b # a \/ u # t => server'[b][u] = server[b][u]
  BY <1>3, CellWritten DEF ServicesTypeOK
<1>5. late' \subseteq late /\ UNCHANGED <<apps, svc, seq, req, crossed>>
  BY DEF GoesOn
<1>6. ServicesTypeOK'
  BY <1>4, <1>5 DEF ServicesTypeOK, Requested
<1>7. QED
  BY <1>1, <1>2, <1>4, <1>5, <1>6

SvcRows(a, t, row) ==
    /\ svc'[a][t] = row
    /\ \A b \in Apps, u \in Types : b # a \/ u # t => svc'[b][u] = svc[b][u]

LEMMA InsertEffect ==
    ASSUME ServicesTypeOK, SvcPlaces, NEW c \in Clients, Insert(c)
    PROVE  /\ req[c].at = "insert" /\ req'[c].at = "idle" /\ Subject(c)' = {} /\ SvcOthers(c)
           /\ \/ ~Exists(req[c].app, req[c].type) /\ SvcRows(req[c].app, req[c].type, req[c].row)
              \/ svc' = svc
           /\ UNCHANGED <<apps, server, late, crossed>> /\ ServicesTypeOK'
<1>1. PICK a \in Apps, t \in Types, row \in Row : a = req[c].app /\ t = req[c].type /\ row = req[c].row
  BY DEF Insert, SvcPlaces, MayInsert, ServicesTypeOK
<1>2. (~Exists(a, t) /\ svc' = [svc EXCEPT ![a][t] = row]) \/ svc' = svc
  BY <1>1 DEF Insert
<1>3. svc' \in [Apps -> [Types -> Row]] /\ ((~Exists(a, t) /\ SvcRows(a, t, row)) \/ svc' = svc)
  <2>1. CASE svc' = svc
    BY <2>1 DEF ServicesTypeOK
  <2>2. CASE ~Exists(a, t) /\ svc' = [svc EXCEPT ![a][t] = row]
    BY <2>2, CellWritten DEF ServicesTypeOK, SvcRows
  <2>3. QED
    BY <1>2, <2>1, <2>2
<1>4. req'[c].at = "idle" /\ SvcOthers(c) /\ req' \in [Clients -> Requested] /\ Subject(c)' = {}
  BY EndsEffect DEF Insert
<1>5. UNCHANGED <<apps, server, late, seq, crossed>> /\ req[c].at = "insert"
  BY DEF Insert
<1>6. ServicesTypeOK'
  BY <1>3, <1>4, <1>5 DEF ServicesTypeOK, Requested
<1>7. QED
  BY <1>1, <1>3, <1>4, <1>5, <1>6

LEMMA BeginRemoveEffect ==
    ASSUME ServicesTypeOK, NEW c \in Clients, NEW a \in Apps, NEW read \in SUBSET Types, NEW whole \in BOOLEAN,
           BeginRemove(c, a, read, whole)
    PROVE  /\ ~Busy(c) /\ req'[c].at = "remove" /\ req'[c].app = a /\ ~req'[c].dropped /\ SvcOthers(c)
           /\ Crossing(Subject(c)') /\ UNCHANGED <<apps, svc, server, late>> /\ ServicesTypeOK'
<1>1. PICK todo \in [Types -> Row] : todo = [t \in Types |-> IF t \in read THEN svc[a][t] ELSE NoRow]
  <2>1. [t \in Types |-> IF t \in read THEN svc[a][t] ELSE NoRow] \in [Types -> Row]
    BY NoRowType DEF ServicesTypeOK
  <2>2. QED
    BY <2>1
<1>2. PICK q \in Requested :
          /\ q.at = "remove" /\ q.app = a /\ q.todo = todo /\ q.dropped = FALSE
          /\ req' = [req EXCEPT ![c] = q]
  <2>1. req' = [req EXCEPT ![c] = [Idle EXCEPT !.at = "remove", !.app = a, !.whole = whole, !.todo = todo]]
    BY <1>1 DEF BeginRemove
  <2>2. PICK i \in Requested : i = Idle
    BY IdleType
  <2>3. i.dropped = FALSE
    BY <2>2 DEF Idle
  <2>4. QED
    BY <2>1, <2>2, <2>3 DEF Requested, Places
<1>3. req' \in [Clients -> Requested] /\ req'[c] = q /\ SvcOthers(c)
  BY <1>2 DEF ServicesTypeOK, Requested, SvcOthers
<1>4. Subject(c)' = {<<a, t>> : t \in {u \in read : Exists(a, u)}}
  <2>1. \A u \in Types : todo[u].id # 0 <=> u \in read /\ Exists(a, u)
    BY <1>1, NoRowType DEF Exists
  <2>2. Subject(c)' = {<<a, t>> : t \in {u \in Types : todo[u].id # 0}}
    BY <1>2, <1>3 DEF Subject, Busy
  <2>3. {u \in Types : todo[u].id # 0} = {u \in read : Exists(a, u)}
    BY <2>1
  <2>4. QED
    BY <2>2, <2>3
<1>5. Crossing(Subject(c)') /\ crossed' \subseteq Apps \X Types
  BY <1>4 DEF BeginRemove, Crossing, ServicesTypeOK
<1>6. /\ ~Busy(c) /\ UNCHANGED <<apps, svc, server, late>>
      /\ seq' \in 0 .. MaxRequests
  BY ServicesAssumption DEF BeginRemove, ServicesTypeOK
<1>7. ServicesTypeOK'
  BY <1>3, <1>5, <1>6 DEF ServicesTypeOK, Requested
<1>8. QED
  BY <1>2, <1>3, <1>5, <1>6, <1>7

\* A removal goes on, at no other service than before.
SvcGoesOn(c) ==
    /\ req[c].at = "remove" /\ req'[c].at = "remove" /\ req'[c].app = req[c].app
    /\ SvcOthers(c) /\ Subject(c)' \subseteq Subject(c)

LEMMA DropEffect ==
    ASSUME ServicesTypeOK, SvcPlaces, NEW c \in Clients, NEW t \in Types, Drop(c, t)
    PROVE  /\ SvcGoesOn(c) /\ req'[c].dropped /\ req'[c].type = t
           /\ <<req[c].app, t>> \in Subject(c) /\ req[c].todo[t].id # 0
           /\ server'[req[c].app][t] \in {0, server[req[c].app][t]}
           /\ \A b \in Apps, u \in Types : b # req[c].app \/ u # t => server'[b][u] = server[b][u]
           /\ SvcLeaves({l \in Dropping(c) : l.type = t})
           /\ UNCHANGED <<apps, svc, crossed>> /\ ServicesTypeOK'
<1>0. SvcLeaves({l \in Dropping(c) : l.type = t}) /\ late' \in SUBSET Command
  <2>1. CASE late' = late
    BY <2>1 DEF SvcLeaves, ServicesTypeOK
  <2>2. CASE GoUnattended({l \in Dropping(c) : l.type = t})
    <3>1. {l \in Dropping(c) : l.type = t} \subseteq Command
      BY DEF Dropping
    <3>2. QED
      BY <2>2, <3>1, UnattendedEffect
  <2>3. QED
    BY <2>1, <2>2 DEF Drop
<1>1. PICK a \in Apps : a = req[c].app
  BY DEF Drop, SvcPlaces
<1>2. server[a][t] \in 0 .. MaxRequests /\ 0 \in 0 .. MaxRequests
  BY ServicesAssumption DEF ServicesTypeOK
<1>3. PICK v \in 0 .. MaxRequests : v \in {0, server[a][t]} /\ server' = [server EXCEPT ![a][t] = v]
  BY <1>1, <1>2 DEF Drop, Undone
<1>4. /\ server' \in [Apps -> [Types -> 0 .. MaxRequests]] /\ server'[a][t] = v
      /\ \A b \in Apps, u \in Types : b # a \/ u # t => server'[b][u] = server[b][u]
  BY <1>3, CellWritten DEF ServicesTypeOK
<1>5. req[c] \in Requested
  BY DEF ServicesTypeOK, Requested
<1>6. PICK q \in Requested :
          /\ q.at = req[c].at /\ q.app = a /\ q.todo = req[c].todo /\ q.dropped /\ q.type = t
          /\ req' = [req EXCEPT ![c] = q]
  <2>1. req' = [req EXCEPT ![c] = [req[c] EXCEPT !.dropped = TRUE, !.type = t]]
    BY DEF Drop, ServicesTypeOK
  <2>2. QED
    BY <1>1, <1>5, <2>1 DEF Requested
<1>7. req' \in [Clients -> Requested] /\ req'[c] = q /\ SvcOthers(c)
  BY <1>6 DEF ServicesTypeOK, Requested, SvcOthers
<1>8. req[c].at = "remove" /\ req[c].todo[t].id # 0 /\ UNCHANGED <<apps, svc, seq, crossed>>
  BY DEF Drop
<1>9. Subject(c)' = Subject(c) /\ <<a, t>> \in Subject(c)
  BY <1>1, <1>6, <1>7, <1>8 DEF Subject, Busy
<1>10. SvcGoesOn(c)
  BY <1>1, <1>6, <1>7, <1>8, <1>9 DEF SvcGoesOn
<1>11. ServicesTypeOK'
  BY <1>0, <1>4, <1>7, <1>8 DEF ServicesTypeOK, Requested
<1>12. QED
  BY <1>0, <1>1, <1>3, <1>4, <1>6, <1>7, <1>8, <1>9, <1>10, <1>11

LEMMA DeleteRowEffect ==
    ASSUME ServicesTypeOK, SvcPlaces, NEW c \in Clients, DeleteRow(c)
    PROVE  /\ SvcGoesOn(c) /\ ~req'[c].dropped
           /\ svc' = svc \/ SvcRows(req[c].app, req[c].type, NoRow)
           /\ UNCHANGED <<apps, server, late, crossed>> /\ ServicesTypeOK'
<1>1. PICK a \in Apps, t \in Types : a = req[c].app /\ t = req[c].type
  BY DEF DeleteRow, SvcPlaces
<1>2. svc' = svc \/ svc' = [svc EXCEPT ![a][t] = NoRow]
  BY <1>1 DEF DeleteRow
<1>3. svc' \in [Apps -> [Types -> Row]] /\ (svc' = svc \/ SvcRows(a, t, NoRow))
  <2>1. CASE svc' = svc
    BY <2>1 DEF ServicesTypeOK
  <2>2. CASE svc' = [svc EXCEPT ![a][t] = NoRow]
    BY <2>2, CellWritten, NoRowType DEF ServicesTypeOK, SvcRows
  <2>3. QED
    BY <1>2, <2>1, <2>2
<1>4. req[c] \in Requested
  BY DEF ServicesTypeOK, Requested
<1>5. PICK todo \in [Types -> Row] : todo = [req[c].todo EXCEPT ![t] = NoRow]
  BY <1>4, NoRowType DEF Requested
<1>6. PICK q \in Requested :
          /\ q.at = req[c].at /\ q.app = a /\ q.todo = todo /\ ~q.dropped
          /\ req' = [req EXCEPT ![c] = q]
  <2>1. req' = [req EXCEPT ![c] = [req[c] EXCEPT !.dropped = FALSE, !.todo = todo]]
    BY <1>1, <1>5 DEF DeleteRow, ServicesTypeOK
  <2>2. QED
    BY <1>1, <1>4, <2>1 DEF Requested
<1>7. req' \in [Clients -> Requested] /\ req'[c] = q /\ SvcOthers(c)
  BY <1>6 DEF ServicesTypeOK, Requested, SvcOthers
<1>8. req[c].at = "remove" /\ UNCHANGED <<apps, server, late, seq, crossed>>
  BY DEF DeleteRow
<1>9. Subject(c)' \subseteq Subject(c)
  <2>1. \A u \in Types : todo[u].id # 0 => req[c].todo[u].id # 0
    BY <1>4, <1>5, NoRowType DEF Requested
  <2>2. Subject(c)' = {<<a, u>> : u \in {x \in Types : todo[x].id # 0}}
    BY <1>6, <1>7, <1>8 DEF Subject, Busy
  <2>3. Subject(c) = {<<a, u>> : u \in {x \in Types : req[c].todo[x].id # 0}}
    BY <1>1, <1>8 DEF Subject, Busy
  <2>4. QED
    BY <2>1, <2>2, <2>3
<1>10. SvcGoesOn(c)
  BY <1>1, <1>6, <1>7, <1>8, <1>9 DEF SvcGoesOn
<1>11. ServicesTypeOK'
  BY <1>3, <1>7, <1>8 DEF ServicesTypeOK, Requested
<1>12. QED
  BY <1>1, <1>3, <1>6, <1>7, <1>8, <1>10, <1>11

LEMMA EndRemoveEffect ==
    ASSUME ServicesTypeOK, SvcPlaces, NEW c \in Clients, EndRemove(c)
    PROVE  /\ req'[c].at = "idle" /\ Subject(c)' = {} /\ SvcOthers(c)
           /\ apps' \subseteq apps
           /\ \A a \in Apps, t \in Types : svc'[a][t] \in {svc[a][t], NoRow}
           /\ UNCHANGED <<server, late, crossed>> /\ ServicesTypeOK'
<1>1. PICK a \in Apps : a = req[c].app
  BY DEF EndRemove, SvcPlaces
<1>2. (apps' = apps \ {a} /\ svc' = [svc EXCEPT ![a] = NoTodo]) \/ UNCHANGED <<apps, svc>>
  BY <1>1 DEF EndRemove
<1>3. svc' \in [Apps -> [Types -> Row]] /\ \A b \in Apps, t \in Types : svc'[b][t] \in {svc[b][t], NoRow}
  <2>1. CASE svc' = [svc EXCEPT ![a] = NoTodo]
    <3>1. \A t \in Types : NoTodo[t] = NoRow
      BY DEF NoTodo
    <3>2. QED
      BY <2>1, <3>1, NoRowType DEF ServicesTypeOK
  <2>2. CASE svc' = svc
    BY <2>2 DEF ServicesTypeOK
  <2>3. QED
    BY <1>2, <2>1, <2>2
<1>4. req'[c].at = "idle" /\ SvcOthers(c) /\ req' \in [Clients -> Requested] /\ Subject(c)' = {}
  BY EndsEffect DEF EndRemove
<1>5. UNCHANGED <<server, late, seq, crossed>>
  BY DEF EndRemove
<1>6. apps' \subseteq apps
  BY <1>2
<1>7. ServicesTypeOK'
  BY <1>3, <1>4, <1>5, <1>6 DEF ServicesTypeOK, Requested
<1>8. QED
  BY <1>3, <1>4, <1>5, <1>6, <1>7

\* The invariants through a step of one request.

LEMMA SvcAloneKept ==
    ASSUME SvcAlone, NEW c \in Clients, SvcOthers(c), crossed \subseteq crossed',
           \A p \in Subject(c)' : p \in Subject(c) \cup crossed' \/ \A d \in Clients \ {c} : p \notin Subject(d)
    PROVE  SvcAlone'
<1>1. \A d \in Clients \ {c} : Subject(d)' = Subject(d)
  BY DEF SvcOthers, Subject, Busy
<1>2. SUFFICES ASSUME NEW d \in Clients, NEW e \in Clients, NEW p \in Subject(d)' \cap Subject(e)', d # e
               PROVE  p \in crossed'
  BY DEF SvcAlone
<1>3. CASE d # c /\ e # c
  BY <1>1, <1>2, <1>3 DEF SvcAlone
<1>4. CASE d = c
  <2>1. p \in Subject(e) /\ p \in Subject(c)'
    BY <1>1, <1>2, <1>4
  <2>2. QED
    BY <1>2, <1>4, <2>1 DEF SvcAlone
<1>5. CASE e = c
  <2>1. p \in Subject(d) /\ p \in Subject(c)'
    BY <1>1, <1>2, <1>5
  <2>2. QED
    BY <1>2, <1>5, <2>1 DEF SvcAlone
<1>6. QED
  BY <1>3, <1>4, <1>5

LEMMA InsertsAbout ==
    ASSUME NEW c \in Clients, MayInsert(c)
    PROVE  Subject(c) = {Cell(c)}
BY DEF MayInsert, Subject, Busy, Cell

\* A step of a request leaves commands behind only where it is alone.
LEMMA SvcLateKept ==
    ASSUME SvcAlone, SvcLate, NEW c \in Clients, NEW S, SvcOthers(c), crossed \subseteq crossed', SvcLeaves(S),
           S # {} => ~MayInsert(c)',
           \A l \in S : <<l.app, l.type>> \in Subject(c),
           \A l \in S : l.key # 0 /\ <<l.app, l.type>> \notin crossed' => ~Exists(l.app, l.type)',
           MayInsert(c)' /\ Cell(c)' \notin crossed' =>
               \/ MayInsert(c) /\ Cell(c)' = Cell(c)
               \/ \A l \in late : Cell(c)' # <<l.app, l.type>>,
           \A l \in late : Exists(l.app, l.type)' /\ <<l.app, l.type>> \notin crossed' =>
               Exists(l.app, l.type) \/ (MayInsert(c) /\ Cell(c) = <<l.app, l.type>>)
    PROVE  SvcLate'
<1>1. SUFFICES ASSUME NEW l \in late', <<l.app, l.type>> \notin crossed'
               PROVE  /\ \A d \in Clients : MayInsert(d)' => Cell(d)' # <<l.app, l.type>>
                      /\ l.key # 0 => ~Exists(l.app, l.type)'
  BY DEF SvcLate
<1>2. ASSUME NEW d \in Clients \ {c}
      PROVE  MayInsert(d)' = MayInsert(d) /\ Cell(d)' = Cell(d)
  BY <1>2 DEF SvcOthers, MayInsert, Cell
<1>3. CASE l \in late
  <2>1. /\ \A d \in Clients : MayInsert(d) => Cell(d) # <<l.app, l.type>>
        /\ l.key # 0 => ~Exists(l.app, l.type)
    BY <1>1, <1>3 DEF SvcLate
  <2>2. MayInsert(c)' => Cell(c)' # <<l.app, l.type>>
    BY <1>1, <1>3, <2>1
  <2>3. l.key # 0 => ~Exists(l.app, l.type)'
    BY <1>1, <1>3, <2>1
  <2>4. QED
    BY <1>2, <2>1, <2>2, <2>3
<1>4. CASE l \in S
  <2>1. <<l.app, l.type>> \in Subject(c) /\ ~MayInsert(c)'
    BY <1>4
  <2>2. ASSUME NEW d \in Clients \ {c}, MayInsert(d)
        PROVE  Cell(d) # <<l.app, l.type>>
    <3>1. Subject(d) = {Cell(d)}
      BY <2>2, InsertsAbout
    <3>2. QED
      BY <1>1, <2>1, <3>1 DEF SvcAlone
  <2>3. QED
    BY <1>1, <1>2, <1>4, <2>1, <2>2
<1>5. QED
  BY <1>3, <1>4 DEF SvcLeaves

\* Others find their service as it was: they are alone with it.
LEMMA SvcFreshKept ==
    ASSUME SvcPlaces, SvcAlone, SvcFresh, NEW c \in Clients, SvcOthers(c), crossed \subseteq crossed',
           \A a \in Apps, t \in Types : <<a, t>> \in Subject(c) \/
               ((Exists(a, t)' => Exists(a, t)) /\ server'[a][t] = server[a][t]),
           MayInsert(c)' /\ Cell(c)' \notin crossed' =>
               /\ ~Exists(req[c].app, req[c].type)'
               /\ req'[c].at = "insert" /\ req'[c].type \in Overwrites
                      => server'[req'[c].app][req'[c].type] = req'[c].row.key
    PROVE  SvcFresh'
<1>1. SUFFICES ASSUME NEW d \in Clients, MayInsert(d)', Cell(d)' \notin crossed', d # c
               PROVE  /\ ~Exists(req[d].app, req[d].type)'
                      /\ req'[d].at = "insert" /\ req'[d].type \in Overwrites
                             => server'[req'[d].app][req'[d].type] = req'[d].row.key
  BY DEF SvcFresh
<1>2. req'[d] = req[d] /\ MayInsert(d) /\ Cell(d) \notin crossed
  BY <1>1 DEF SvcOthers, MayInsert, Cell
<1>3. Cell(d) \notin Subject(c)
  BY <1>1, <1>2, InsertsAbout DEF SvcAlone
<1>4. req[d].app \in Apps /\ req[d].type \in Types
  BY <1>2 DEF SvcPlaces
<1>5. /\ Exists(req[d].app, req[d].type)' => Exists(req[d].app, req[d].type)
      /\ server'[req[d].app][req[d].type] = server[req[d].app][req[d].type]
  <2>1. PICK a \in Apps, t \in Types : a = req[d].app /\ t = req[d].type
    BY <1>4
  <2>2. (Exists(a, t)' => Exists(a, t)) /\ server'[a][t] = server[a][t]
    BY <1>3, <2>1 DEF Cell
  <2>3. QED
    BY <1>2, <2>1, <2>2 DEF Exists
<1>6. QED
  BY <1>2, <1>5 DEF SvcFresh

LEMMA SvcQuotaKept ==
    ASSUME ServicesTypeOK, SvcQuota,
           \A a \in Apps : Owned(a)' \subseteq Owned(a) /\ Claims(a)' \subseteq Claims(a)
    PROVE  SvcQuota'
<1>1. SUFFICES ASSUME NEW a \in Apps
               PROVE  Cardinality(Owned(a))' + Cardinality(Claims(a))' <= MaxServices - 1 + Cardinality(Clients)
  BY DEF SvcQuota
<1>2. IsFiniteSet(Owned(a)) /\ IsFiniteSet(Claims(a)) /\ IsFiniteSet(Clients)
  BY ServicesAssumption, RequestsAssumption, FS_Subset DEF Owned, Claims
<1>3. Cardinality(Owned(a))' <= Cardinality(Owned(a)) /\ Cardinality(Claims(a))' <= Cardinality(Claims(a))
  BY <1>2, FS_Subset
<1>4. /\ Cardinality(Owned(a)) \in Nat /\ Cardinality(Claims(a)) \in Nat /\ Cardinality(Clients) \in Nat
      /\ Cardinality(Owned(a))' \in Nat /\ Cardinality(Claims(a))' \in Nat /\ MaxServices \in Nat
  <2>1. IsFiniteSet(Owned(a)') /\ IsFiniteSet(Claims(a)')
    BY <1>2, FS_Subset
  <2>2. QED
    BY <1>2, <2>1, FS_CardinalityType, ServicesAssumption
<1>5. Cardinality(Owned(a)) + Cardinality(Claims(a)) <= MaxServices - 1 + Cardinality(Clients)
  BY DEF SvcQuota
<1>6. QED
  BY <1>3, <1>4, <1>5

\* The passwords through a step that breaks none.
LEMMA PasswordsKept ==
    ASSUME ServicesTypeOK, NoWrongPassword, apps' \subseteq apps, crossed \subseteq crossed',
           \A a \in Apps, t \in Types \cap Overwrites : <<a, t>> \notin crossed' =>
               \/ svc'[a][t] \in {svc[a][t], NoRow} /\ server'[a][t] \in {server[a][t], 0}
               \/ Exists(a, t)' => server'[a][t] \in {0, svc'[a][t].key}
    PROVE  NoWrongPassword'
<1>1. SUFFICES ASSUME NEW a \in apps', NEW t \in Types \cap Overwrites, Exists(a, t)', <<a, t>> \notin crossed'
               PROVE  server'[a][t] \in {0, svc'[a][t].key}
  BY DEF NoWrongPassword
<1>2. a \in Apps /\ a \in apps
  BY <1>1 DEF ServicesTypeOK
<1>3. CASE svc'[a][t] = svc[a][t] /\ server'[a][t] \in {server[a][t], 0}
  BY <1>1, <1>2, <1>3 DEF NoWrongPassword, Exists
<1>4. CASE svc'[a][t] = NoRow
  BY <1>1, <1>4, NoRowType DEF Exists
<1>5. QED
  BY <1>1, <1>2, <1>3, <1>4

SvcRest == SvcPlaces /\ SvcKeyed /\ SvcAlone /\ SvcFresh /\ SvcLate /\ NoWrongPassword /\ SvcQuota

\* A new request for a row.
LEMMA SvcBeginKept ==
    ASSUME SvcInv, NEW c \in Clients, NEW a, NEW t, SvcBegins(c, a, t)
    PROVE  SvcRest'
<1>0. /\ ServicesTypeOK /\ SvcRest /\ a \in Apps /\ t \in Types /\ SvcOthers(c)
      /\ crossed \subseteq crossed' /\ svc' = svc /\ server' = server /\ apps' = apps /\ late' = late
  BY DEF SvcInv, SvcRest, SvcBegins, Crossing
<1>1. Subject(c)' = {<<a, t>>} /\ Cell(c)' = <<a, t>> /\ ~MayInsert(c)
  BY DEF SvcBegins, MayInsert, Subject, Busy, Cell
<1>2. SvcPlaces'
  <2>1. \A d \in Clients \ {c} : req'[d] = req[d]
    BY <1>0 DEF SvcOthers
  <2>2. \A d \in Clients \ {c} : MayInsert(d)' = MayInsert(d)
    BY <2>1 DEF MayInsert
  <2>3. /\ MayInsert(c)' => req'[c].app \in Apps /\ req'[c].type \in Types /\ req'[c].row.id # 0
        /\ req'[c].at = "make" => req'[c].row.key \in 1 .. MaxRequests /\ ~req'[c].row.embedded
        /\ req'[c].at = "insert" => req'[c].row.embedded /\ req'[c].type = "mysql"
        /\ req'[c].at # "remove"
    BY <1>0 DEF SvcBegins
  <2>4. QED
    BY <1>0, <2>1, <2>2, <2>3 DEF SvcPlaces, SvcRest
<1>3. SvcKeyed'
  BY <1>0 DEF SvcKeyed, SvcRest, Exists
<1>4. SvcAlone'
  <2>1. <<a, t>> \in crossed' \/ \A d \in Clients \ {c} : <<a, t>> \notin Subject(d)
    BY DEF SvcBegins, Crossing
  <2>2. QED
    BY <1>0, <1>1, <2>1, SvcAloneKept DEF SvcRest
<1>5. SvcFresh'
  <2>1. \A b \in Apps, u \in Types : (Exists(b, u)' => Exists(b, u)) /\ server'[b][u] = server[b][u]
    BY <1>0 DEF Exists
  <2>2. ~Exists(req[c].app, req[c].type)'
    BY <1>0 DEF SvcBegins, Exists
  <2>3. ~(req'[c].at = "insert" /\ req'[c].type \in Overwrites)
    BY DEF SvcBegins, Overwrites
  <2>4. QED
    BY <1>0, <2>1, <2>2, <2>3, SvcFreshKept DEF SvcRest
<1>6. NoWrongPassword'
  BY <1>0, PasswordsKept DEF SvcRest
<1>7. SvcQuota'
  <2>1. \A b \in Apps : Owned(b)' = Owned(b)
    BY <1>0 DEF Owned, Exists
  <2>2. CASE ~req'[c].row.counted
    <3>1. \A b \in Apps : Claims(b)' \subseteq Claims(b)
      BY <1>0, <2>2 DEF Claims, SvcOthers, MayInsert, SvcBegins
    <3>2. QED
      BY <1>0, <2>1, <3>1, SvcQuotaKept DEF SvcRest
  <2>3. CASE req'[c].row.counted
    <3>1. Cardinality({u \in Types : Exists(a, u)}) < MaxServices
      BY <2>3 DEF SvcBegins, UnderPlanLimit
    <3>2. IsFiniteSet({u \in Types : Exists(a, u)}) /\ Owned(a) \subseteq {u \in Types : Exists(a, u)}
      BY ServicesAssumption, FS_Subset DEF Owned
    <3>3. Cardinality(Owned(a)) <= Cardinality({u \in Types : Exists(a, u)})
      BY <3>2, FS_Subset
    <3>4. /\ Cardinality(Owned(a)) \in Nat /\ Cardinality({u \in Types : Exists(a, u)}) \in Nat
          /\ MaxServices \in Nat /\ Cardinality(Clients) \in Nat
      BY <3>2, FS_Subset, FS_CardinalityType, ServicesAssumption, RequestsAssumption
    <3>5. Cardinality(Claims(a)') \in Nat /\ Cardinality(Claims(a)') <= Cardinality(Clients)
      <4>1. Claims(a)' \subseteq Clients
        BY DEF Claims
      <4>2. QED
        BY <4>1, FS_Subset, FS_CardinalityType, RequestsAssumption
    <3>6. Cardinality(Owned(a)') + Cardinality(Claims(a)') <= MaxServices - 1 + Cardinality(Clients)
      BY <1>0, <2>1, <3>1, <3>3, <3>4, <3>5
    <3>7. ASSUME NEW b \in Apps, b # a
          PROVE  Cardinality(Owned(b)') + Cardinality(Claims(b)') <= MaxServices - 1 + Cardinality(Clients)
      <4>1. Claims(b)' = Claims(b)
        BY <1>0, <1>1, <3>7 DEF Claims, SvcOthers, MayInsert, SvcBegins
      <4>2. QED
        BY <1>0, <2>1, <3>7, <4>1 DEF SvcQuota, SvcRest
    <3>8. QED
      BY <3>6, <3>7 DEF SvcQuota
  <2>4. QED
    BY <2>2, <2>3
<1>8. SvcLate'
  <2>1. SvcLeaves({})
    BY <1>0 DEF SvcLeaves
  <2>2. <<a, t>> \notin crossed' => \A l \in late : <<a, t>> # <<l.app, l.type>>
    BY DEF SvcBegins, Crossing, GoingOn
  <2>3. \A l \in late : Exists(l.app, l.type)' => Exists(l.app, l.type)
    BY <1>0 DEF Exists
  <2>4. QED
    BY <1>0, <1>1, <2>1, <2>2, <2>3, SvcLateKept DEF SvcRest
<1>9. QED
  BY <1>2, <1>3, <1>4, <1>5, <1>6, <1>7, <1>8 DEF SvcRest

\* Rows and requests that are not touched stay as they are known.
LEMMA PlacesKept ==
    ASSUME SvcPlaces, NEW c \in Clients, SvcOthers(c),
           /\ MayInsert(c)' => req'[c].app \in Apps /\ req'[c].type \in Types /\ req'[c].row.id # 0
           /\ req'[c].at = "make" => req'[c].row.key \in 1 .. MaxRequests /\ ~req'[c].row.embedded
           /\ req'[c].at = "insert" /\ ~req'[c].row.embedded /\ req'[c].type # "redis" => req'[c].row.key # 0
           /\ req'[c].at = "insert" /\ req'[c].row.embedded => req'[c].type = "mysql"
           /\ req'[c].at = "remove" => req'[c].app \in Apps
           /\ req'[c].at = "remove" /\ req'[c].dropped => req'[c].type \in Types
    PROVE  SvcPlaces'
<1>1. \A d \in Clients \ {c} : req'[d] = req[d]
  BY DEF SvcOthers
<1>2. \A d \in Clients \ {c} : MayInsert(d)' = MayInsert(d)
  BY <1>1 DEF MayInsert
<1>3. QED
  BY <1>1, <1>2 DEF SvcPlaces

\* Who makes or inserts for a service that exists works beside somebody.
LEMMA SvcServeKept ==
    ASSUME SvcInv, NEW c \in Clients, req[c].at = "make", SvcOthers(c), UNCHANGED <<apps, svc, crossed>>,
           \/ SvcServes(c, Made(req[c].type, server[req[c].app][req[c].type], req[c].row.key))
           \/ server' = server
    PROVE  /\ \A a \in Apps, t \in Types : <<a, t>> \in Subject(c) \/
                  ((Exists(a, t)' => Exists(a, t)) /\ server'[a][t] = server[a][t])
           /\ NoWrongPassword' /\ SvcKeyed'
           /\ \A a \in Apps : Owned(a)' = Owned(a)
<1>1. SvcPlaces /\ SvcFresh /\ NoWrongPassword /\ ServicesTypeOK /\ MayInsert(c) /\ SvcKeyed
  BY DEF SvcInv, MayInsert
<1>2. Subject(c) = {Cell(c)}
  BY <1>1, InsertsAbout
<1>3. \A a \in Apps, t \in Types : <<a, t>> \in Subject(c) \/ server'[a][t] = server[a][t]
  BY <1>2 DEF SvcServes, Cell
<1>4. \A a \in Apps, t \in Types : Exists(a, t)' = Exists(a, t)
  BY DEF Exists
<1>5. NoWrongPassword'
  <2>1. ASSUME NEW a \in Apps, NEW t \in Types, <<a, t>> \notin crossed, <<a, t>> \in Subject(c)
        PROVE  ~Exists(a, t)'
    <3>1. a = req[c].app /\ t = req[c].type /\ Cell(c) \notin crossed
      BY <1>2, <2>1 DEF Cell
    <3>2. QED
      BY <1>1, <1>4, <3>1 DEF SvcFresh
  <2>2. QED
    BY <1>1, <1>3, <2>1, PasswordsKept
<1>6. SvcKeyed' /\ \A a \in Apps : Owned(a)' = Owned(a)
  BY <1>1 DEF SvcKeyed, Exists, Owned
<1>7. QED
  BY <1>3, <1>4, <1>5, <1>6

LEMMA MakeKept ==
    ASSUME SvcInv, NEW c \in Clients, Make(c) \/ RedisUncounted(c) \/ MakeFails(c)
    PROVE  SvcRest' /\ ServicesTypeOK'
<1>0. ServicesTypeOK /\ SvcPlaces /\ SvcAlone /\ SvcFresh /\ SvcLate /\ SvcQuota
  BY DEF SvcInv
<1>1. CASE Make(c) \/ RedisUncounted(c)
  <2>1. /\ req[c].at = "make" /\ req'[c].at = "insert" /\ SvcOthers(c)
        /\ req'[c].app = req[c].app /\ req'[c].type = req[c].type
        /\ req'[c].row.id = req[c].row.id /\ ~req'[c].row.embedded
        /\ req'[c].row.counted = req[c].row.counted
        /\ req[c].type # "redis" => req'[c].row.key = req[c].row.key
        /\ \/ SvcServes(c, Made(req[c].type, server[req[c].app][req[c].type], req[c].row.key))
           \/ server' = server /\ req[c].type = "redis"
        /\ UNCHANGED <<apps, svc, late, crossed>> /\ ServicesTypeOK'
    BY <1>0, <1>1, MakeEffect, RedisUncountedEffect
  <2>2. /\ req[c].app \in Apps /\ req[c].type \in Types /\ req[c].row.id # 0
        /\ req[c].row.key \in 1 .. MaxRequests /\ ~req[c].row.embedded /\ MayInsert(c) /\ MayInsert(c)'
    BY <1>0, <2>1 DEF SvcPlaces, MayInsert
  <2>3. /\ \A a \in Apps, t \in Types : <<a, t>> \in Subject(c) \/
               ((Exists(a, t)' => Exists(a, t)) /\ server'[a][t] = server[a][t])
        /\ NoWrongPassword' /\ SvcKeyed' /\ \A a \in Apps : Owned(a)' = Owned(a)
    BY <2>1, SvcServeKept
  <2>4. SvcPlaces'
    <3>1. req[c].row.key # 0
      BY <2>2
    <3>2. QED
      BY <1>0, <2>1, <2>2, <3>1, PlacesKept
  <2>5. Subject(c)' = Subject(c) /\ Cell(c)' = Cell(c)
    BY <2>1 DEF Subject, Busy, Cell
  <2>6. SvcAlone'
    BY <1>0, <2>1, <2>5, SvcAloneKept
  <2>7. SvcFresh'
    <3>1. Cell(c) \notin crossed => ~Exists(req[c].app, req[c].type)
      BY <1>0, <2>2 DEF SvcFresh
    <3>2. Cell(c)' \notin crossed' => ~Exists(req[c].app, req[c].type)'
      BY <2>1, <2>5, <3>1 DEF Exists
    <3>3. req[c].type \in Overwrites => server'[req'[c].app][req'[c].type] = req'[c].row.key
      <4>1. server[req[c].app][req[c].type] \in 0 .. MaxRequests
        BY <1>0, <2>2 DEF ServicesTypeOK
      <4>2. req[c].type \in Overwrites => req[c].type # "redis"
        BY DEF Overwrites
      <4>3. req[c].type \in Overwrites => server'[req[c].app][req[c].type] = req[c].row.key
        BY <2>1, <2>2, <4>1, <4>2, MadeType DEF SvcServes
      <4>4. QED
        BY <2>1, <4>2, <4>3
    <3>4. QED
      BY <1>0, <2>1, <2>3, <3>2, <3>3, SvcFreshKept
  <2>8. SvcQuota'
    <3>1. \A a \in Apps : Claims(a)' \subseteq Claims(a)
      BY <2>1, <2>2 DEF Claims, SvcOthers, MayInsert
    <3>2. QED
      BY <1>0, <2>3, <3>1, SvcQuotaKept
  <2>9. SvcLate'
    <3>1. SvcLeaves({})
      BY <2>1 DEF SvcLeaves
    <3>2. \A l \in late : Exists(l.app, l.type)' => Exists(l.app, l.type)
      BY <2>1 DEF Exists
    <3>3. QED
      BY <1>0, <2>1, <2>2, <2>5, <3>1, <3>2, SvcLateKept
  <2>10. QED
    BY <2>1, <2>3, <2>4, <2>6, <2>7, <2>8, <2>9 DEF SvcRest
<1>2. CASE MakeFails(c)
  <2>1. /\ req[c].at = "make" /\ req'[c].at = "idle" /\ Subject(c)' = {} /\ SvcOthers(c)
        /\ SvcLeaves(Making(c))
        /\ UNCHANGED <<apps, svc, server, crossed>> /\ ServicesTypeOK'
    BY <1>0, <1>2, MakeFailsEffect
  <2>2. /\ \A a \in Apps, t \in Types : <<a, t>> \in Subject(c) \/
               ((Exists(a, t)' => Exists(a, t)) /\ server'[a][t] = server[a][t])
        /\ NoWrongPassword' /\ SvcKeyed' /\ \A a \in Apps : Owned(a)' = Owned(a)
    BY <2>1, SvcServeKept
  <2>3. ~MayInsert(c)'
    BY <2>1 DEF MayInsert
  <2>4. SvcPlaces'
    BY <1>0, <2>1, <2>3, PlacesKept
  <2>5. SvcAlone' /\ SvcFresh'
    BY <1>0, <2>1, <2>2, <2>3, SvcAloneKept, SvcFreshKept
  <2>6. SvcQuota'
    <3>1. \A a \in Apps : Claims(a)' \subseteq Claims(a)
      BY <2>1, <2>3 DEF Claims, SvcOthers, MayInsert
    <3>2. QED
      BY <1>0, <2>2, <3>1, SvcQuotaKept
  <2>7. SvcLate'
    <3>1. Subject(c) = {Cell(c)} /\ MayInsert(c)
      BY <2>1, InsertsAbout DEF MayInsert
    <3>2. \A l \in Making(c) : <<l.app, l.type>> = Cell(c)
      BY DEF Making, Cell
    <3>3. Cell(c) \notin crossed => ~Exists(req[c].app, req[c].type)
      BY <1>0, <3>1 DEF SvcFresh
    <3>4. \A l \in Making(c) : <<l.app, l.type>> \notin crossed' => ~Exists(l.app, l.type)'
      BY <2>1, <3>3 DEF Making, Cell, Exists
    <3>5. \A l \in late : Exists(l.app, l.type)' => Exists(l.app, l.type)
      BY <2>1 DEF Exists
    <3>6. \A l \in Making(c) : <<l.app, l.type>> \in Subject(c)
      BY <3>1, <3>2
    <3>7. QED
      BY <1>0, <2>1, <2>3, <3>4, <3>5, <3>6, SvcLateKept
  <2>8. QED
    BY <2>1, <2>2, <2>4, <2>5, <2>6, <2>7 DEF SvcRest
<1>3. QED
  BY <1>1, <1>2

LEMMA InsertKept ==
    ASSUME SvcInv, NEW c \in Clients, Insert(c)
    PROVE  SvcRest' /\ ServicesTypeOK'
<1>0. /\ ServicesTypeOK /\ SvcPlaces /\ SvcAlone /\ SvcFresh /\ SvcLate /\ SvcQuota /\ SvcKeyed
      /\ NoWrongPassword
  BY DEF SvcInv
<1>1. /\ req[c].at = "insert" /\ req'[c].at = "idle" /\ Subject(c)' = {} /\ SvcOthers(c)
      /\ \/ ~Exists(req[c].app, req[c].type) /\ SvcRows(req[c].app, req[c].type, req[c].row)
         \/ svc' = svc
      /\ UNCHANGED <<apps, server, late, crossed>> /\ ServicesTypeOK'
  BY <1>0, InsertEffect
<1>2. MayInsert(c) /\ ~MayInsert(c)'
  BY <1>1 DEF MayInsert
<1>3. PICK a \in Apps, t \in Types, row \in Row : a = req[c].app /\ t = req[c].type /\ row = req[c].row
  BY <1>0, <1>2 DEF SvcPlaces, ServicesTypeOK
<1>4. /\ row.id # 0 /\ Cell(c) = <<a, t>> /\ Subject(c) = {<<a, t>>}
      /\ ~row.embedded /\ t # "redis" => row.key # 0
      /\ row.embedded => t = "mysql"
      /\ <<a, t>> \notin crossed => ~Exists(a, t) /\ (t \in Overwrites => server[a][t] = row.key)
  BY <1>0, <1>1, <1>2, <1>3, InsertsAbout DEF SvcPlaces, SvcFresh, Cell
<1>5. SvcPlaces' /\ SvcAlone' /\ SvcLate'
  <2>1. SvcLeaves({})
    BY <1>1 DEF SvcLeaves
  <2>2. ASSUME NEW l \in late, Exists(l.app, l.type)'
        PROVE  Exists(l.app, l.type) \/ Cell(c) = <<l.app, l.type>>
    <3>1. l.app \in Apps /\ l.type \in Types
      BY <1>0, <2>2 DEF ServicesTypeOK, Command
    <3>2. QED
      BY <1>1, <2>2, <3>1 DEF SvcRows, Exists, Cell
  <2>3. QED
    BY <1>0, <1>1, <1>2, <2>1, <2>2, PlacesKept, SvcAloneKept, SvcLateKept
<1>6. CASE ~Exists(a, t) /\ SvcRows(a, t, row)
  <2>1. \A b \in Apps, u \in Types : b # a \/ u # t => svc'[b][u] = svc[b][u]
    BY <1>6 DEF SvcRows
  <2>2. svc'[a][t] = row
    BY <1>6 DEF SvcRows
  <2>3. SvcKeyed'
    <3>1. t \in CreatesOnce => t # "redis"
      BY DEF CreatesOnce
    <3>2. QED
      BY <1>0, <1>4, <2>1, <2>2, <3>1 DEF SvcKeyed, Exists
  <2>4. SvcFresh'
    <3>1. \A b \in Apps, u \in Types : <<b, u>> \in Subject(c) \/
               ((Exists(b, u)' => Exists(b, u)) /\ server'[b][u] = server[b][u])
      BY <1>1, <1>4, <2>1 DEF Exists
    <3>2. QED
      BY <1>0, <1>1, <1>2, <3>1, SvcFreshKept
  <2>5. NoWrongPassword'
    BY <1>0, <1>1, <1>4, <2>1, <2>2, PasswordsKept
  <2>6. SvcQuota'
    <3>1. CASE ~row.counted
      <4>1. \A b \in Apps : Owned(b)' \subseteq Owned(b)
        BY <2>1, <2>2, <3>1 DEF Owned, Exists
      <4>2. \A b \in Apps : Claims(b)' \subseteq Claims(b)
        BY <1>1, <1>2 DEF Claims, SvcOthers, MayInsert
      <4>3. QED
        BY <1>0, <4>1, <4>2, SvcQuotaKept
    <3>2. CASE row.counted
      <4>1. Owned(a)' = Owned(a) \cup {t} /\ t \notin Owned(a)
        BY <1>4, <1>6, <2>1, <2>2, <3>2 DEF Owned, Exists
      <4>2. Claims(a)' = Claims(a) \ {c} /\ c \in Claims(a)
        BY <1>1, <1>2, <1>3, <3>2 DEF Claims, SvcOthers, MayInsert
      <4>3. IsFiniteSet(Owned(a)) /\ IsFiniteSet(Claims(a))
        BY ServicesAssumption, RequestsAssumption, FS_Subset DEF Owned, Claims
      <4>4. /\ Cardinality(Owned(a)') = Cardinality(Owned(a)) + 1
            /\ Cardinality(Claims(a)') = Cardinality(Claims(a)) - 1
            /\ Cardinality(Owned(a)) \in Nat /\ Cardinality(Claims(a)) \in Nat
        <5>1. Cardinality(Owned(a)') = Cardinality(Owned(a)) + 1 /\ Cardinality(Owned(a)) \in Nat
          BY <4>1, <4>3, FS_AddElement, FS_CardinalityType
        <5>2. Cardinality(Claims(a)') = Cardinality(Claims(a)) - 1 /\ Cardinality(Claims(a)) \in Nat
          BY <4>2, <4>3, FS_RemoveElement, FS_CardinalityType
        <5>3. QED
          BY <5>1, <5>2
      <4>5. ASSUME NEW b \in Apps, b # a
            PROVE  Owned(b)' = Owned(b) /\ Claims(b)' = Claims(b)
        BY <1>1, <1>2, <1>3, <2>1, <4>5 DEF Owned, Exists, Claims, SvcOthers, MayInsert
      <4>6. QED
        BY <1>0, <4>4, <4>5 DEF SvcQuota
    <3>3. QED
      BY <3>1, <3>2
  <2>7. QED
    BY <1>1, <1>5, <2>3, <2>4, <2>5, <2>6 DEF SvcRest
<1>7. CASE svc' = svc
  <2>1. SvcKeyed' /\ \A b \in Apps : Owned(b)' = Owned(b)
    BY <1>0, <1>7 DEF SvcKeyed, Exists, Owned
  <2>2. \A b \in Apps : Claims(b)' \subseteq Claims(b)
    BY <1>1, <1>2 DEF Claims, SvcOthers, MayInsert
  <2>3. SvcFresh'
    <3>1. \A b \in Apps, u \in Types : (Exists(b, u)' => Exists(b, u)) /\ server'[b][u] = server[b][u]
      BY <1>1, <1>7 DEF Exists
    <3>2. QED
      BY <1>0, <1>1, <1>2, <3>1, SvcFreshKept
  <2>4. NoWrongPassword'
    BY <1>0, <1>1, <1>7, PasswordsKept
  <2>5. SvcQuota'
    BY <1>0, <2>1, <2>2, SvcQuotaKept
  <2>6. QED
    BY <1>1, <1>5, <2>1, <2>3, <2>4, <2>5 DEF SvcRest
<1>8. QED
  BY <1>1, <1>3, <1>6, <1>7

\* A removal never makes a row, nor anything on a server.
SvcTakes(c) ==
    /\ SvcOthers(c) /\ ~MayInsert(c)' /\ apps' \subseteq apps /\ crossed \subseteq crossed'
    /\ \A a \in Apps, t \in Types :
           /\ svc'[a][t] \in {svc[a][t], NoRow}
           /\ server'[a][t] = server[a][t] \/ (server'[a][t] = 0 /\ <<a, t>> \in Subject(c))
    /\ \A p \in Subject(c)' : p \in Subject(c) \cup crossed' \/ \A d \in Clients \ {c} : p \notin Subject(d)
    /\ SvcLeaves({l \in Dropping(c) : <<l.app, l.type>> \in Subject(c)})
    /\ req'[c].at = "remove" => req'[c].app \in Apps /\ (req'[c].dropped => req'[c].type \in Types)

LEMMA SvcTakesKept ==
    ASSUME SvcInv, NEW c \in Clients, SvcTakes(c)
    PROVE  SvcRest'
<1>0. /\ ServicesTypeOK /\ SvcPlaces /\ SvcAlone /\ SvcFresh /\ SvcLate /\ SvcQuota /\ SvcKeyed /\ NoWrongPassword
      /\ SvcOthers(c) /\ ~MayInsert(c)' /\ crossed \subseteq crossed' /\ apps' \subseteq apps
  BY DEF SvcInv, SvcTakes
<1>1. \A a \in Apps, t \in Types : svc'[a][t] \in {svc[a][t], NoRow}
  BY DEF SvcTakes
<1>2. \A a \in Apps, t \in Types : Exists(a, t)' => Exists(a, t) /\ svc'[a][t] = svc[a][t]
  BY <1>1, NoRowType DEF Exists
<1>3. SvcPlaces'
  <2>1. req'[c].at \notin {"make", "insert"}
    BY <1>0 DEF MayInsert
  <2>2. req'[c].at = "remove" => req'[c].app \in Apps /\ (req'[c].dropped => req'[c].type \in Types)
    BY DEF SvcTakes
  <2>3. QED
    BY <1>0, <2>1, <2>2, PlacesKept
<1>4. SvcKeyed'
  BY <1>0, <1>2 DEF SvcKeyed
<1>5. SvcAlone'
  BY <1>0, SvcAloneKept DEF SvcTakes
<1>6. SvcFresh'
  <2>1. \A a \in Apps, t \in Types : <<a, t>> \in Subject(c) \/
             ((Exists(a, t)' => Exists(a, t)) /\ server'[a][t] = server[a][t])
    BY <1>2 DEF SvcTakes
  <2>2. QED
    BY <1>0, <2>1, SvcFreshKept
<1>7. NoWrongPassword'
  BY <1>0, PasswordsKept DEF SvcTakes
<1>8. SvcQuota'
  <2>1. \A a \in Apps : Owned(a)' \subseteq Owned(a)
    BY <1>2 DEF Owned
  <2>2. \A a \in Apps : Claims(a)' \subseteq Claims(a)
    BY <1>0 DEF Claims, SvcOthers, MayInsert
  <2>3. QED
    BY <1>0, <2>1, <2>2, SvcQuotaKept
<1>9. SvcLate'
  <2>1. \A l \in {k \in Dropping(c) : <<k.app, k.type>> \in Subject(c)} :
            <<l.app, l.type>> \in Subject(c) /\ l.key = 0
    BY DEF Dropping
  <2>2. \A l \in late : l.app \in Apps /\ l.type \in Types
    BY <1>0 DEF ServicesTypeOK, Command
  <2>3. \A l \in late : Exists(l.app, l.type)' => Exists(l.app, l.type)
    BY <1>2, <2>2
  <2>4. SvcLeaves({k \in Dropping(c) : <<k.app, k.type>> \in Subject(c)})
    BY DEF SvcTakes
  <2>5. QED
    BY <1>0, <2>1, <2>3, <2>4, SvcLateKept
<1>10. QED
  BY <1>3, <1>4, <1>5, <1>6, <1>7, <1>8, <1>9 DEF SvcRest

LEMMA RemoveShape ==
    ASSUME SvcInv, NEW c \in Clients,
           \/ \E a \in Apps : DeleteApp(c, a) \/ \E t \in Types : Delete(c, a, t)
           \/ (\E t \in Types : Drop(c, t)) \/ DeleteRow(c) \/ EndRemove(c)
    PROVE  SvcTakes(c) /\ ServicesTypeOK'
<1>0. ServicesTypeOK /\ SvcPlaces
  BY DEF SvcInv
<1>1. ASSUME NEW a \in Apps, NEW read \in SUBSET Types, NEW whole \in BOOLEAN, BeginRemove(c, a, read, whole)
      PROVE  SvcTakes(c) /\ ServicesTypeOK'
  <2>1. /\ req'[c].at = "remove" /\ req'[c].app = a /\ ~req'[c].dropped /\ SvcOthers(c)
        /\ Crossing(Subject(c)') /\ UNCHANGED <<apps, svc, server, late>> /\ ServicesTypeOK'
    BY <1>0, <1>1, BeginRemoveEffect
  <2>2. \A p \in Subject(c)' : p \in crossed' \/ \A d \in Clients \ {c} : p \notin Subject(d)
    BY <2>1 DEF Crossing
  <2>3. crossed \subseteq crossed' /\ ~MayInsert(c)'
    BY <2>1 DEF Crossing, MayInsert
  <2>4. QED
    BY <2>1, <2>2, <2>3 DEF SvcTakes, SvcLeaves
<1>2. ASSUME NEW t \in Types, Drop(c, t)
      PROVE  SvcTakes(c) /\ ServicesTypeOK'
  <2>1. /\ SvcGoesOn(c) /\ req'[c].dropped /\ req'[c].type = t
        /\ <<req[c].app, t>> \in Subject(c)
        /\ server'[req[c].app][t] \in {0, server[req[c].app][t]}
        /\ \A b \in Apps, u \in Types : b # req[c].app \/ u # t => server'[b][u] = server[b][u]
        /\ SvcLeaves({l \in Dropping(c) : l.type = t})
        /\ UNCHANGED <<apps, svc, crossed>> /\ ServicesTypeOK'
    BY <1>0, <1>2, DropEffect
  <2>2. ~MayInsert(c)' /\ req[c].app \in Apps
    BY <1>0, <2>1 DEF SvcGoesOn, MayInsert, SvcPlaces
  <2>3. SvcLeaves({l \in Dropping(c) : <<l.app, l.type>> \in Subject(c)})
    <3>1. \A l \in Dropping(c) : l.type = t => <<l.app, l.type>> \in Subject(c)
      BY <2>1 DEF Dropping
    <3>2. QED
      BY <2>1, <3>1 DEF SvcLeaves
  <2>4. QED
    BY <2>1, <2>2, <2>3 DEF SvcTakes, SvcGoesOn
<1>3. CASE DeleteRow(c)
  <2>1. /\ SvcGoesOn(c) /\ ~req'[c].dropped
        /\ svc' = svc \/ SvcRows(req[c].app, req[c].type, NoRow)
        /\ UNCHANGED <<apps, server, late, crossed>> /\ ServicesTypeOK'
    BY <1>0, <1>3, DeleteRowEffect
  <2>2. ~MayInsert(c)' /\ req[c].app \in Apps
    BY <1>0, <2>1 DEF SvcGoesOn, MayInsert, SvcPlaces
  <2>3. \A a \in Apps, t \in Types : svc'[a][t] \in {svc[a][t], NoRow}
    BY <2>1 DEF SvcRows
  <2>4. QED
    BY <2>1, <2>2, <2>3 DEF SvcTakes, SvcGoesOn, SvcLeaves
<1>4. CASE EndRemove(c)
  <2>1. /\ req'[c].at = "idle" /\ Subject(c)' = {} /\ SvcOthers(c)
        /\ apps' \subseteq apps
        /\ \A a \in Apps, t \in Types : svc'[a][t] \in {svc[a][t], NoRow}
        /\ UNCHANGED <<server, late, crossed>> /\ ServicesTypeOK'
    BY <1>0, <1>4, EndRemoveEffect
  <2>2. QED
    BY <2>1 DEF SvcTakes, MayInsert, SvcLeaves
<1>5. QED
  BY <1>1, <1>2, <1>3, <1>4 DEF DeleteApp, Delete

LEMMA SvcCrashKept ==
    ASSUME SvcInv, ServicesCrash
    PROVE  SvcInv'
<1>0. /\ ServicesTypeOK /\ SvcPlaces /\ SvcAlone /\ SvcFresh /\ SvcLate /\ SvcQuota /\ SvcKeyed /\ NoWrongPassword
      /\ UNCHANGED <<apps, svc, server, seq, crossed>>
  BY DEF SvcInv, ServicesCrash
<1>1. \A c \in Clients : req'[c] = Idle /\ req'[c].at = "idle"
  BY IdleType DEF ServicesCrash
<1>a. SvcLeaves(UNION {Making(c) \cup Dropping(c) : c \in Clients}) /\ late' \in SUBSET Command
  <2>1. UNION {Making(c) \cup Dropping(c) : c \in Clients} \subseteq Command
    BY DEF Making, Dropping
  <2>2. QED
    BY <1>0, <2>1, UnattendedEffect DEF ServicesCrash
<1>b. SvcLate'
  <2>1. SUFFICES ASSUME NEW l \in late', <<l.app, l.type>> \notin crossed', l.key # 0
                 PROVE  ~Exists(l.app, l.type)
    BY <1>0, <1>1 DEF SvcLate, MayInsert, Exists
  <2>2. CASE l \in late
    BY <1>0, <2>1, <2>2 DEF SvcLate
  <2>3. CASE \E c \in Clients : l \in Making(c) \cup Dropping(c)
    <3>1. PICK c \in Clients : l \in Making(c) \cup Dropping(c)
      BY <2>3
    <3>2. req[c].at = "make" /\ l.app = req[c].app /\ l.type = req[c].type
      BY <2>1, <3>1 DEF Making, Dropping
    <3>3. QED
      BY <1>0, <2>1, <3>2 DEF SvcFresh, MayInsert, Cell
  <2>4. QED
    BY <1>a, <2>2, <2>3 DEF SvcLeaves
<1>2. ServicesTypeOK'
  BY <1>0, <1>a, IdleType DEF ServicesCrash, ServicesTypeOK, Requested
<1>3. SvcPlaces' /\ SvcFresh'
  BY <1>1 DEF SvcPlaces, SvcFresh, MayInsert
<1>4. SvcAlone'
  BY <1>1 DEF SvcAlone, Subject, Busy
<1>5. SvcKeyed' /\ NoWrongPassword'
  BY <1>0 DEF SvcKeyed, NoWrongPassword, Exists
<1>6. SvcQuota'
  <2>1. \A a \in Apps : Owned(a)' = Owned(a) /\ Claims(a)' \subseteq Claims(a)
    BY <1>0, <1>1 DEF Owned, Exists, Claims, MayInsert
  <2>2. QED
    BY <1>0, <2>1, SvcQuotaKept
<1>7. QED
  BY <1>2, <1>3, <1>4, <1>5, <1>6, <1>b DEF SvcInv

\* A command that went on unattended spoils no row that nobody crossed.
LEMMA SvcGoesOnKept ==
    ASSUME SvcInv, NEW l \in late, GoesOn(l)
    PROVE  SvcInv'
<1>0. /\ ServicesTypeOK /\ SvcPlaces /\ SvcAlone /\ SvcFresh /\ SvcLate /\ SvcQuota /\ SvcKeyed /\ NoWrongPassword
  BY DEF SvcInv
<1>1. /\ l \in Command /\ late' \subseteq late /\ UNCHANGED <<apps, svc, seq, req, crossed>>
      /\ l.key = 0 => server'[l.app][l.type] = 0
      /\ \A b \in Apps, u \in Types : b # l.app \/ u # l.type => server'[b][u] = server[b][u]
      /\ ServicesTypeOK'
  BY <1>0, GoesOnEffect
<1>2. /\ SvcPlaces' /\ SvcKeyed' /\ SvcAlone'
      /\ \A a \in Apps, t \in Types : Exists(a, t)' = Exists(a, t)
      /\ \A c \in Clients : MayInsert(c)' = MayInsert(c) /\ Cell(c)' = Cell(c)
  BY <1>0, <1>1 DEF SvcPlaces, SvcKeyed, SvcAlone, Exists, MayInsert, Subject, Busy, Cell
<1>3. SvcFresh'
  <2>1. SUFFICES ASSUME NEW c \in Clients, MayInsert(c), Cell(c) \notin crossed
                 PROVE  /\ ~Exists(req[c].app, req[c].type)
                        /\ req[c].at = "insert" /\ req[c].type \in Overwrites
                               => server'[req[c].app][req[c].type] = req[c].row.key
    BY <1>1, <1>2 DEF SvcFresh, Exists
  <2>2. Cell(c) # <<l.app, l.type>> /\ req[c].app \in Apps /\ req[c].type \in Types
    BY <1>0, <2>1 DEF SvcLate, SvcPlaces
  <2>3. server'[req[c].app][req[c].type] = server[req[c].app][req[c].type]
    BY <1>1, <2>2 DEF Cell
  <2>4. QED
    BY <1>0, <2>1, <2>3 DEF SvcFresh
<1>4. SvcLate'
  BY <1>0, <1>1, <1>2 DEF SvcLate, Exists
<1>5. NoWrongPassword'
  <2>1. ASSUME NEW a \in Apps, NEW t \in Types, <<a, t>> \notin crossed'
        PROVE  \/ svc'[a][t] \in {svc[a][t], NoRow} /\ server'[a][t] \in {server[a][t], 0}
               \/ ~Exists(a, t)'
    <3>1. CASE a = l.app /\ t = l.type
      BY <1>0, <1>1, <1>2, <2>1, <3>1 DEF SvcLate
    <3>2. QED
      BY <1>1, <3>1
  <2>2. QED
    BY <1>0, <1>1, <2>1, PasswordsKept
<1>6. SvcQuota'
  <2>1. \A a \in Apps : Owned(a)' = Owned(a) /\ Claims(a)' = Claims(a)
    BY <1>1 DEF Owned, Exists, Claims, MayInsert
  <2>2. QED
    BY <1>0, <2>1, SvcQuotaKept
<1>7. QED
  BY <1>1, <1>2, <1>3, <1>4, <1>5, <1>6 DEF SvcInv

LEMMA SvcInvInit == ServicesInit => SvcInv
<1> SUFFICES ASSUME ServicesInit PROVE SvcInv
  OBVIOUS
<1>1. MaxRequests \in Nat /\ MaxServices \in Nat \ {0} /\ Cardinality(Clients) \in Nat
  BY ServicesAssumption, RequestsAssumption, FS_CardinalityType
<1>2. \A c \in Clients : req[c] = Idle /\ req[c].at = "idle"
  BY IdleType DEF ServicesInit
<1>3. \A a \in Apps, t \in Types : ~Exists(a, t)
  BY NoRowType DEF ServicesInit, Exists
<1>4. ServicesTypeOK
  <2>1. svc \in [Apps -> [Types -> Row]] /\ server \in [Apps -> [Types -> 0 .. MaxRequests]]
    BY <1>1, NoRowType DEF ServicesInit
  <2>2. req \in [Clients -> Requested] /\ seq \in 0 .. MaxRequests
    BY <1>1, IdleType DEF ServicesInit
  <2>3. QED
    BY <2>1, <2>2 DEF ServicesInit, ServicesTypeOK, Requested
<1>5. SvcPlaces /\ SvcFresh /\ SvcAlone /\ SvcLate
  BY <1>2 DEF SvcPlaces, SvcFresh, MayInsert, SvcAlone, Subject, Busy, SvcLate, ServicesInit
<1>6. SvcKeyed /\ NoWrongPassword
  BY <1>3, <1>4 DEF SvcKeyed, NoWrongPassword, ServicesTypeOK
<1>7. SvcQuota
  <2>1. ASSUME NEW a \in Apps
        PROVE  Owned(a) = {} /\ Claims(a) = {}
    BY <1>2, <1>3 DEF Owned, Claims, MayInsert
  <2>2. QED
    BY <1>1, <2>1, FS_EmptySet DEF SvcQuota
<1>8. QED
  BY <1>4, <1>5, <1>6, <1>7 DEF SvcInv

LEMMA SvcInvKept == SvcInv /\ [ServicesNext]_svcVars => SvcInv'
<1> SUFFICES ASSUME SvcInv, [ServicesNext]_svcVars PROVE SvcInv'
  OBVIOUS
<1>0. ServicesTypeOK
  BY DEF SvcInv
<1>1. ASSUME NEW c \in Clients, Request(c)
      PROVE  SvcInv'
  <2>1. ASSUME NEW a \in Apps, NEW t \in Types, Provision(c, a, t)
        PROVE  SvcInv'
    BY <1>0, <2>1, BeginEffect, SvcBeginKept DEF SvcInv, SvcRest
  <2>2. ASSUME NEW a \in Apps, Register(c, a)
        PROVE  SvcInv'
    <3>1. "mysql" \in Types
      BY <2>2 DEF Register
    <3>2. SvcBegins(c, a, "mysql") /\ ServicesTypeOK'
      BY <1>0, <2>2, <3>1, BeginEffect
    <3>3. QED
      BY <3>2, SvcBeginKept DEF SvcInv, SvcRest
  <2>3. CASE Make(c) \/ RedisUncounted(c) \/ MakeFails(c)
    BY <2>3, MakeKept DEF SvcInv, SvcRest
  <2>4. CASE Insert(c)
    BY <2>4, InsertKept DEF SvcInv, SvcRest
  <2>5. CASE \/ \E a \in Apps : DeleteApp(c, a) \/ \E t \in Types : Delete(c, a, t)
             \/ (\E t \in Types : Drop(c, t)) \/ DeleteRow(c) \/ EndRemove(c)
    <3>1. SvcTakes(c) /\ ServicesTypeOK'
      BY <2>5, RemoveShape
    <3>2. QED
      BY <3>1, SvcTakesKept DEF SvcInv, SvcRest
  <2>6. QED
    BY <1>1, <2>1, <2>2, <2>3, <2>4, <2>5 DEF Request
<1>2. CASE ServicesCrash \/ \E l \in Command : GoesOn(l)
  <2>1. ASSUME NEW l \in Command, GoesOn(l)
        PROVE  SvcInv'
    <3>1. l \in late
      BY <2>1 DEF GoesOn
    <3>2. QED
      BY <2>1, <3>1, SvcGoesOnKept
  <2>2. QED
    BY <1>2, <2>1, SvcCrashKept
<1>3. CASE UNCHANGED svcVars
  <2>1. UNCHANGED <<apps, svc, server, late, seq, req, crossed>>
    BY <1>3 DEF svcVars
  <2>2. ServicesTypeOK' /\ SvcPlaces'
    BY <2>1 DEF SvcInv, ServicesTypeOK, SvcPlaces, MayInsert
  <2>3. SvcKeyed' /\ NoWrongPassword'
    BY <2>1 DEF SvcInv, SvcKeyed, NoWrongPassword, Exists
  <2>4. SvcAlone' /\ SvcFresh' /\ SvcLate'
    BY <2>1 DEF SvcInv, SvcAlone, SvcFresh, SvcLate, MayInsert, Cell, Subject, Busy, Exists
  <2>5. SvcQuota'
    BY <2>1 DEF SvcInv, SvcQuota, MayInsert, Exists, Owned, Claims
  <2>6. QED
    BY <2>2, <2>3, <2>4, <2>5 DEF SvcInv
<1>4. QED
  BY <1>1, <1>2, <1>3 DEF ServicesNext

LEMMA SvcInvHolds == ServicesSpec => []SvcInv
BY SvcInvInit, SvcInvKept, PTL DEF ServicesSpec

\* Rows, servers and requests are what the code knows, within their bounds.
THEOREM ServicesTyped == ServicesSpec => []ServicesTypeOK
BY SvcInvHolds, PTL DEF SvcInv

\* For any apps, service types, plans and clients: an app overruns its plan by no more
\* than the requests that were counted at once, beside those whose count failed, and a
\* row that one request at a time worked on, with no command of an earlier one going
\* on, never has another password than MongoDB or RabbitMQ.
THEOREM ServicesSound == ServicesSpec => []ServicesAreSound
<1>1. SvcInv => ServicesAreSound
  <2> SUFFICES ASSUME SvcInv, NEW a \in Apps
               PROVE  Cardinality(Owned(a)) <= MaxServices + Cardinality(Clients) - 1
    BY DEF ServicesAreSound, ServiceLimit, SvcInv
  <2>1. IsFiniteSet(Owned(a)) /\ IsFiniteSet(Claims(a)) /\ IsFiniteSet(Clients)
    BY ServicesAssumption, RequestsAssumption, FS_Subset DEF Owned, Claims
  <2>2. /\ Cardinality(Owned(a)) \in Nat /\ Cardinality(Claims(a)) \in Nat
        /\ Cardinality(Clients) \in Nat /\ MaxServices \in Nat
    BY <2>1, FS_CardinalityType, ServicesAssumption
  <2>3. QED
    BY <2>2 DEF SvcInv, SvcQuota
<1>2. QED
  BY <1>1, SvcInvHolds, PTL

\* For any number of racing requests, a PostgreSQL or MySQL row that works keeps working
\* until someone removes it.
THEOREM WorkingStays == ServicesSpec => WorkingStaysWorking
<1>1. SvcInv /\ [ServicesNext]_svcVars =>
          [\A a \in Apps, t \in Types \cap CreatesOnce :
               Works(a, t) /\ Exists(a, t)' /\ ~svc[a][t].embedded /\ ~Removing(a, t) => Works(a, t)']_svcVars
  <2> SUFFICES ASSUME SvcInv, ServicesNext, NEW a \in Apps, NEW t \in Types \cap CreatesOnce,
                      Works(a, t), Exists(a, t)', ~svc[a][t].embedded, ~Removing(a, t)
               PROVE  Works(a, t)'
    BY DEF svcVars
  <2>0. /\ ServicesTypeOK /\ SvcPlaces /\ server[a][t] = svc[a][t].key /\ Exists(a, t)
        /\ server[a][t] # 0 /\ server[a][t] \in 0 .. MaxRequests
    BY DEF SvcInv, Works, SvcKeyed, ServicesTypeOK
  <2>1. SUFFICES svc'[a][t] = svc[a][t] /\ server'[a][t] = server[a][t]
    BY <2>0 DEF Works
  <2>2. ASSUME NEW c \in Clients, Request(c)
        PROVE  svc'[a][t] = svc[a][t] /\ server'[a][t] = server[a][t]
    <3>1. ASSUME NEW b \in Apps, NEW u \in Types, Provision(c, b, u) \/ Register(c, b)
          PROVE  svc' = svc /\ server' = server
      BY <3>1 DEF Provision, Register
    <3>2. CASE Make(c) \/ RedisUncounted(c) \/ MakeFails(c)
      <4>1. /\ req[c].at = "make" /\ svc' = svc
            /\ \/ SvcServes(c, Made(req[c].type, server[req[c].app][req[c].type], req[c].row.key))
               \/ server' = server
        BY <2>0, <3>2, MakeEffect, RedisUncountedEffect, MakeFailsEffect
      <4>2. req[c].app \in Apps /\ req[c].type \in Types /\ req[c].row.key \in 1 .. MaxRequests
        BY <2>0, <4>1 DEF SvcPlaces, MayInsert
      <4>3. Made(t, server[a][t], req[c].row.key) = server[a][t]
        BY <2>0, <4>2, MadeType
      <4>4. QED
        BY <4>1, <4>2, <4>3 DEF SvcServes
    <3>3. CASE Insert(c)
      <4>1. /\ \/ ~Exists(req[c].app, req[c].type) /\ SvcRows(req[c].app, req[c].type, req[c].row)
               \/ svc' = svc
            /\ server' = server
        BY <2>0, <3>3, InsertEffect
      <4>2. QED
        BY <2>0, <4>1 DEF SvcRows
    <3>4. ASSUME NEW u \in Types, Drop(c, u)
          PROVE  svc' = svc /\ server'[a][t] = server[a][t]
      <4>1. /\ req[c].at = "remove" /\ req[c].todo[u].id # 0 /\ svc' = svc
            /\ \A b \in Apps, x \in Types : b # req[c].app \/ x # u => server'[b][x] = server[b][x]
        BY <2>0, <3>4, DropEffect DEF SvcGoesOn
      <4>2. ~\E d \in Clients : req[d].at = "remove" /\ req[d].app = a /\ req[d].todo[t].id # 0
        BY DEF Removing
      <4>3. a # req[c].app \/ t # u
        BY <4>1, <4>2
      <4>4. QED
        BY <4>1, <4>3
    <3>5. CASE (\E b \in Apps : DeleteApp(c, b) \/ \E u \in Types : Delete(c, b, u)) \/ DeleteRow(c) \/ EndRemove(c)
      <4>1. svc'[a][t] \in {svc[a][t], NoRow}
        BY <3>5, RemoveShape DEF SvcTakes
      <4>2. server' = server
        BY <3>5 DEF DeleteApp, Delete, BeginRemove, DeleteRow, EndRemove
      <4>3. QED
        BY <4>1, <4>2, NoRowType DEF Exists
    <3>6. QED
      BY <2>2, <3>1, <3>2, <3>3, <3>4, <3>5 DEF Request
  <2>3. CASE ServicesCrash
    BY <2>3 DEF ServicesCrash
  <2>4. ASSUME NEW l \in Command, GoesOn(l)
        PROVE  svc'[a][t] = svc[a][t] /\ server'[a][t] = server[a][t]
    <3>1. l \in late
      BY <2>4 DEF GoesOn
    <3>2. /\ svc' = svc
          /\ server'[l.app][l.type] = IF l.key = 0 THEN 0 ELSE Made(l.type, server[l.app][l.type], l.key)
          /\ \A b \in Apps, u \in Types : b # l.app \/ u # l.type => server'[b][u] = server[b][u]
      BY <2>0, <2>4, <3>1, GoesOnEffect
    <3>3. ASSUME a = l.app, t = l.type
          PROVE  server'[a][t] = server[a][t]
      <4>1. l = [app |-> l.app, type |-> l.type, key |-> l.key]
        BY DEF Command
      <4>2. l.key # 0
        BY <3>1, <3>3, <4>1 DEF Removing
      <4>3. l.key \in 1 .. MaxRequests
        BY <4>2, ServicesAssumption DEF Command
      <4>4. Made(t, server[a][t], l.key) = server[a][t]
        BY <2>0, <4>3, MadeType
      <4>5. QED
        BY <3>2, <3>3, <4>2, <4>4
    <3>4. QED
      BY <3>2, <3>3
  <2>5. QED
    BY <2>2, <2>3, <2>4 DEF ServicesNext
<1>2. QED
  BY <1>1, SvcInvHolds, PTL DEF ServicesSpec, WorkingStaysWorking
-----------------------------------------------------------------------------
(* The mailboxes *)

Mail == [at : MailPlaces, addr : Addresses \cup {NoAddress}, id : 0 .. MaxBoxes, left : SUBSET Addresses]
\* A request that is about one address, and one that was counted against the plan.
AtOne == {"add", "insert", "del", "delrow", "reset"}
Adding == {c \in Clients : mreq[c].at \in {"add", "insert"}}
Pending == {c \in Adding : mreq[c].id \notin unseen}
\* A request that works with an id: its own, or that of the row it read.
Named == {"add", "insert", "del", "delrow"}

MailPlacesInv ==
    \A c \in Clients :
        /\ mreq[c].at \in AtOne => mreq[c].addr \in Addresses
        /\ mreq[c].at \in {"purge", "purgerows"} => mreq[c].addr = NoAddress

\* No id is given twice: a removal by id hits no other row than the one that was read.
MailIds ==
    /\ \A m \in Addresses : box[m] <= ids
    /\ \A m, n \in Addresses : box[m] = box[n] /\ box[m] # 0 => m = n
    /\ \A c \in Clients : mreq[c].at \in Named => mreq[c].id \in 1 .. ids
    /\ \A c \in Clients : mreq[c].at \in {"del", "delrow"} =>
           \A m \in Addresses : box[m] = mreq[c].id => m = mreq[c].addr
    /\ \A c \in Adding : \A m \in Addresses : box[m] # mreq[c].id
    /\ \A c \in Adding, d \in Clients : mreq[d].at \in Named /\ c # d => mreq[c].id # mreq[d].id

MailAlone == \A c, d \in Clients : \A m \in About(c) \cap About(d) : m \in marred \/ c = d

\* Who is alone with an address knows what is done there, and what is still to do.
MailWork ==
    \A c \in Clients : \A m \in About(c) \ marred :
        /\ mreq[c].at = "insert" => box[m] = 0 /\ acct[m] = "set"
        /\ mreq[c].at \in {"del", "delrow", "reset"} => box[m] = mreq[c].id /\ box[m] # 0
        /\ mreq[c].at = "delrow" => acct[m] # "set"
        /\ mreq[c].at = "purge" /\ m \notin mreq[c].left => acct[m] # "set"
        /\ mreq[c].at = "purgerows" => acct[m] # "set"

\* Every request that was counted counts as if its row were there.
MailQuota == Cardinality(Counted) + Cardinality(Pending) <= MaxMailboxes - 1 + Cardinality(Clients)

\* ListedBoxWorks and UnlistedIsDead, address by address.
MailSteady ==
    \A m \in Addresses \ marred :
        /\ box[m] # 0 => acct[m] = "set" \/ Deleting(m)
        /\ box[m] = 0 => acct[m] # "set" \/ Creating(m)

MailInv == MailTypeOK /\ MailPlacesInv /\ MailIds /\ MailAlone /\ MailWork /\ MailQuota /\ MailSteady

MailOthers(c) == \A d \in Clients \ {c} : mreq'[d] = mreq[d]

LEMMA NoMailType == NoMail \in Mail /\ NoMail.at = "idle" /\ NoMail.addr = NoAddress /\ NoMail.id = 0 /\ NoMail.left = {}
BY MailboxesAssumption DEF NoMail, Mail, MailPlaces

LEMMA RestsEffect ==
    ASSUME MailTypeOK, NEW c \in Clients, Rests(c)
    PROVE  /\ mreq' \in [Clients -> Mail] /\ MailOthers(c)
           /\ mreq'[c].at = "idle" /\ About(c)' = {}
<1>1. mreq'[c] = NoMail /\ MailOthers(c) /\ mreq' \in [Clients -> Mail]
  BY NoMailType DEF Rests, MailTypeOK, MailOthers, Mail
<1>2. QED
  BY <1>1, NoMailType DEF About, Free

LEMMA TurnsEffect ==
    ASSUME MailTypeOK, NEW c \in Clients, NEW at \in MailPlaces \ {"idle"}, Turns(c, at), ~Free(c)
    PROVE  /\ mreq' \in [Clients -> Mail] /\ MailOthers(c)
           /\ mreq'[c].at = at /\ mreq'[c].addr = mreq[c].addr /\ mreq'[c].id = mreq[c].id
           /\ mreq'[c].left = mreq[c].left /\ About(c)' = About(c)
<1>1. mreq[c] \in Mail
  BY DEF MailTypeOK, Mail
<1>2. PICK q \in Mail : /\ q.at = at /\ q.addr = mreq[c].addr /\ q.id = mreq[c].id /\ q.left = mreq[c].left
                        /\ mreq' = [mreq EXCEPT ![c] = q]
  <2>1. mreq' = [mreq EXCEPT ![c] = [mreq[c] EXCEPT !.at = at]]
    BY DEF Turns, MailTypeOK
  <2>2. QED
    BY <1>1, <2>1 DEF Mail
<1>3. mreq' \in [Clients -> Mail] /\ mreq'[c] = q /\ MailOthers(c)
  BY <1>2 DEF MailTypeOK, Mail, MailOthers
<1>4. About(c)' = About(c)
  BY <1>2, <1>3 DEF About, Free
<1>5. QED
  BY <1>2, <1>3, <1>4

\* A request begins, about one address or about all.
MailBegins(c, at, addr, id, left) ==
    /\ Free(c) /\ mreq' \in [Clients -> Mail] /\ MailOthers(c)
    /\ mreq'[c].at = at /\ mreq'[c].addr = addr /\ mreq'[c].id = id /\ mreq'[c].left = left

LEMMA MailBeginsEffect ==
    ASSUME MailTypeOK, NEW c \in Clients, Free(c), NEW q \in Mail, mreq' = [mreq EXCEPT ![c] = q]
    PROVE  MailBegins(c, q.at, q.addr, q.id, q.left)
BY DEF MailTypeOK, Mail, MailOthers, MailBegins

LEMMA RowsFinite ==
    /\ IsFiniteSet(Rows) /\ Cardinality(Rows) \in Nat
    /\ IsFiniteSet(Counted) /\ Cardinality(Counted) \in Nat /\ Cardinality(Counted) <= Cardinality(Rows)
    /\ IsFiniteSet(Pending) /\ Cardinality(Pending) \in Nat
    /\ Cardinality(Pending) <= Cardinality(Clients) /\ Cardinality(Clients) \in Nat
<1>1. Rows \subseteq Addresses /\ Counted \subseteq Rows /\ Pending \subseteq Clients
  BY DEF Rows, Counted, Adding, Pending
<1>2. IsFiniteSet(Addresses) /\ IsFiniteSet(Clients)
  BY MailboxesAssumption, RequestsAssumption
<1>3. QED
  BY <1>1, <1>2, FS_Subset, FS_CardinalityType

LEMMA RowsFiniteNext ==
    /\ IsFiniteSet(Counted') /\ Cardinality(Counted') \in Nat
    /\ IsFiniteSet(Pending') /\ Cardinality(Pending') \in Nat /\ Cardinality(Pending') <= Cardinality(Clients)
<1>1. Counted' \subseteq Addresses /\ Pending' \subseteq Clients
  BY DEF Rows, Counted, Adding, Pending
<1>2. IsFiniteSet(Addresses) /\ IsFiniteSet(Clients)
  BY MailboxesAssumption, RequestsAssumption
<1>3. QED
  BY <1>1, <1>2, FS_Subset, FS_CardinalityType

LEMMA MailQuotaKept ==
    ASSUME MailQuota, Counted' \subseteq Counted, Pending' \subseteq Pending
    PROVE  MailQuota'
<1>1. Cardinality(Counted') <= Cardinality(Counted) /\ Cardinality(Pending') <= Cardinality(Pending)
  BY RowsFinite, FS_Subset
<1>2. QED
  BY <1>1, RowsFinite, RowsFiniteNext, MailboxesAssumption DEF MailQuota

\* A step that adds no row and begins no creation that was counted.
LEMMA MailNoMore ==
    ASSUME MailQuota, NEW c \in Clients, MailOthers(c), unseen \subseteq unseen',
           \A m \in Addresses : box'[m] \in {box[m], 0},
           mreq'[c].at \in {"add", "insert"} =>
               \/ mreq'[c].id \in unseen'
               \/ mreq[c].at \in {"add", "insert"} /\ mreq'[c].id = mreq[c].id
    PROVE  MailQuota'
<1>1. Counted' \subseteq Counted
  BY DEF Counted, Rows
<1>2. Pending' \subseteq Pending
  BY DEF Pending, Adding, MailOthers
<1>3. QED
  BY <1>1, <1>2, MailQuotaKept

LEMMA MailIdsKept ==
    ASSUME MailTypeOK, MailIds, NEW c \in Clients, MailOthers(c), ids' \in {ids, ids + 1},
           \A m \in Addresses : box'[m] \in {box[m], 0},
           mreq'[c].at \in Named => mreq'[c].id \in 1 .. ids',
           mreq'[c].at \in {"del", "delrow"} => \A m \in Addresses : box[m] = mreq'[c].id => m = mreq'[c].addr,
           mreq'[c].at \in {"add", "insert"} => \A m \in Addresses : box[m] # mreq'[c].id,
           \A d \in Clients \ {c} :
               /\ mreq'[c].at \in Named /\ mreq[d].at \in {"add", "insert"} => mreq'[c].id # mreq[d].id
               /\ mreq'[c].at \in {"add", "insert"} /\ mreq[d].at \in Named => mreq'[c].id # mreq[d].id
    PROVE  MailIds'
<1>1. ids \in Nat /\ \A m \in Addresses : box[m] \in Nat
  BY MailboxesAssumption DEF MailTypeOK
<1>2. \A m \in Addresses : box'[m] <= ids'
  BY <1>1 DEF MailIds
<1>3. \A m, n \in Addresses : box'[m] = box'[n] /\ box'[m] # 0 => m = n
  BY DEF MailIds
<1>4. ASSUME NEW d \in Clients, mreq'[d].at \in Named
      PROVE  mreq'[d].id \in 1 .. ids' /\ mreq'[d].id # 0
  <2>1. mreq'[d].id \in 1 .. ids'
    <3>1. CASE d = c
      BY <1>4, <3>1
    <3>2. CASE d # c
      <4>1. mreq[d].id \in 1 .. ids /\ mreq'[d] = mreq[d]
        BY <1>4, <3>2 DEF MailIds, MailOthers
      <4>2. QED
        BY <1>1, <4>1
    <3>3. QED
      BY <3>1, <3>2
  <2>2. QED
    BY <1>1, <2>1
<1>5. ASSUME NEW d \in Clients, mreq'[d].at \in {"del", "delrow"}, NEW m \in Addresses, box'[m] = mreq'[d].id
      PROVE  m = mreq'[d].addr
  <2>1. box[m] = mreq'[d].id
    BY <1>4, <1>5 DEF Named
  <2>2. QED
    BY <1>5, <2>1 DEF MailIds, MailOthers
<1>6. ASSUME NEW d \in Adding', NEW m \in Addresses
      PROVE  box'[m] # mreq'[d].id
  <2>1. mreq'[d].id # 0 /\ d \in Clients /\ mreq'[d].at \in {"add", "insert"}
    BY <1>4, <1>6 DEF Adding, Named
  <2>2. box[m] # mreq'[d].id
    BY <2>1 DEF MailIds, MailOthers, Adding
  <2>3. QED
    BY <2>1, <2>2
<1>7. ASSUME NEW d \in Adding', NEW e \in Clients, mreq'[e].at \in Named, d # e
      PROVE  mreq'[d].id # mreq'[e].id
  <2>1. d \in Clients /\ mreq'[d].at \in {"add", "insert"}
    BY <1>7 DEF Adding
  <2>2. CASE d = c
    BY <1>7, <2>1, <2>2 DEF MailOthers
  <2>3. CASE e = c
    BY <1>7, <2>1, <2>3 DEF MailOthers
  <2>4. CASE d # c /\ e # c
    BY <1>7, <2>1, <2>4 DEF MailOthers, MailIds, Adding
  <2>5. QED
    BY <2>2, <2>3, <2>4
<1>8. QED
  BY <1>2, <1>3, <1>4, <1>5, <1>6, <1>7 DEF MailIds

LEMMA MailPlacesKept ==
    ASSUME MailPlacesInv, NEW c \in Clients, MailOthers(c),
           mreq'[c].at \in AtOne => mreq'[c].addr \in Addresses,
           mreq'[c].at \in {"purge", "purgerows"} => mreq'[c].addr = NoAddress
    PROVE  MailPlacesInv'
BY DEF MailPlacesInv, MailOthers

\* What request c must know of address m, and what must hold of it.
Known(c, m) ==
    /\ mreq[c].at = "insert" => box[m] = 0 /\ acct[m] = "set"
    /\ mreq[c].at \in {"del", "delrow", "reset"} => box[m] = mreq[c].id /\ box[m] # 0
    /\ mreq[c].at = "delrow" => acct[m] # "set"
    /\ mreq[c].at = "purge" /\ m \notin mreq[c].left => acct[m] # "set"
    /\ mreq[c].at = "purgerows" => acct[m] # "set"
Steady(m) ==
    /\ box[m] # 0 => acct[m] = "set" \/ Deleting(m)
    /\ box[m] = 0 => acct[m] # "set" \/ Creating(m)
Quiet(m) == (box[m] # 0 => acct[m] = "set") /\ (box[m] = 0 => acct[m] # "set")

LEMMA AboutAddresses ==
    ASSUME MailTypeOK, NEW c \in Clients
    PROVE  About(c) \subseteq Addresses
BY DEF About, MailTypeOK

\* A request disturbs nobody: what it is not about stays as it is, and what it is
\* about nobody else is.
LEMMA MailLocal ==
    ASSUME MailPlacesInv, MailTypeOK, MailAlone, MailWork, MailSteady, NEW c \in Clients, MailOthers(c),
           marred \subseteq marred', marred' \subseteq Addresses,
           \A m \in Addresses \ (marred' \cup About(c)) : box'[m] = box[m] /\ acct'[m] = acct[m],
           \A m \in About(c)' : m \in Addresses /\ (m \in About(c) \cup marred' \/ \A d \in Clients \ {c} : m \notin About(d)),
           \A m \in About(c)' \ marred' : Known(c, m)',
           \A m \in Addresses \cap (About(c) \cup About(c)') : m \notin marred' => Steady(m)'
    PROVE  MailAlone' /\ MailWork' /\ MailSteady'
<1>1. \A d \in Clients \ {c} : About(d)' = About(d) /\ mreq'[d] = mreq[d]
  BY DEF MailOthers, About, Free
<1>2. MailAlone'
  <2>1. SUFFICES ASSUME NEW d \in Clients, NEW e \in Clients, NEW m \in About(d)' \cap About(e)', d # e
                 PROVE  m \in marred'
    BY DEF MailAlone
  <2>2. CASE d # c /\ e # c
    BY <1>1, <2>1, <2>2 DEF MailAlone
  <2>3. CASE d = c
    <3>1. m \in About(e) /\ m \in About(c)' /\ e # c
      BY <1>1, <2>1, <2>3
    <3>2. QED
      BY <2>1, <3>1 DEF MailAlone
  <2>4. CASE e = c
    <3>1. m \in About(d) /\ m \in About(c)' /\ d # c
      BY <1>1, <2>1, <2>4
    <3>2. QED
      BY <2>1, <3>1 DEF MailAlone
  <2>5. QED
    BY <2>2, <2>3, <2>4
<1>3. MailWork'
  <2>1. SUFFICES ASSUME NEW d \in Clients, NEW m \in About(d)', m \notin marred', d # c
                 PROVE  Known(d, m)'
    BY DEF MailWork, Known
  <2>2. m \in About(d) /\ m \notin marred /\ Known(d, m)
    BY <1>1, <2>1 DEF MailWork, Known
  <2>3. m \notin About(c)
    BY <2>1, <2>2 DEF MailAlone
  <2>4. m \in Addresses
    BY <2>2, AboutAddresses
  <2>5. QED
    BY <1>1, <2>1, <2>2, <2>3, <2>4 DEF Known
<1>4. MailSteady'
  <2>1. SUFFICES ASSUME NEW m \in Addresses, m \notin marred', m \notin About(c), m \notin About(c)'
                 PROVE  Steady(m)'
    BY DEF MailSteady, Steady
  <2>2. Steady(m) /\ box'[m] = box[m] /\ acct'[m] = acct[m]
    BY <2>1 DEF MailSteady, Steady
  <2>3. Deleting(m) => Deleting(m)'
    BY <1>1, <2>1 DEF Deleting
  <2>4. Creating(m) => Creating(m)'
    BY <1>1, <2>1 DEF Creating
  <2>5. QED
    BY <2>2, <2>3, <2>4 DEF Steady
<1>5. QED
  BY <1>2, <1>3, <1>4

\* Nothing is under way at an address that only a request is about that has done nothing yet.
LEMMA AloneQuiet ==
    ASSUME MailAlone, MailSteady, NEW m \in Addresses \ marred,
           \/ \E c \in Clients : m \in About(c) /\ mreq[c].at \notin {"insert", "delrow", "purge", "purgerows"}
           \/ \A d \in Clients : m \notin About(d)
    PROVE  Quiet(m)
<1>1. ~Deleting(m) /\ ~Creating(m)
  BY DEF MailAlone, Deleting, Creating
<1>2. QED
  BY <1>1 DEF MailSteady, Quiet

MailParts == MailTypeOK /\ MailPlacesInv /\ MailIds /\ MailAlone /\ MailWork /\ MailQuota /\ MailSteady

LEMMA MeetsEffect ==
    ASSUME MailTypeOK, NEW S \in SUBSET Addresses, Meets(S), NEW c \in Clients, Free(c)
    PROVE  /\ marred \subseteq marred' /\ marred' \subseteq Addresses
           /\ \A m \in S : m \in marred' \/ \A d \in Clients : m \notin About(d)
           /\ About(c) = {}
BY DEF Meets, MailTypeOK, About

LEMMA MarsEffect ==
    ASSUME MailTypeOK, NEW c \in Clients, Mars(c)
    PROVE  marred \subseteq marred' /\ marred' \subseteq Addresses /\ About(c) \subseteq marred'
BY AboutAddresses DEF Mars, MailTypeOK

\* A request begins at one address that its plan or its row allows.
LEMMA MailOneKept ==
    ASSUME MailInv, NEW c \in Clients, NEW m \in Addresses, NEW at \in {"add", "del", "reset"}, NEW id \in 0 .. MaxBoxes,
           MailBegins(c, at, m, id, {}), Meets({m}), UNCHANGED <<service, box, acct>>,
           ids' = ids + 1, ids' \in 0 .. MaxBoxes, unseen \subseteq unseen', unseen' \subseteq 1 .. MaxBoxes,
           at = "add" => id = ids + 1 /\ (id \in unseen' \/ Cardinality(Rows) < MaxMailboxes),
           at # "add" => box[m] # 0 /\ id = box[m]
    PROVE  MailInv'
<1>0. MailParts /\ MailOthers(c) /\ mreq' \in [Clients -> Mail] /\ Free(c) /\ ids \in Nat
  BY MailboxesAssumption DEF MailInv, MailParts, MailBegins, MailTypeOK
<1>1. /\ marred \subseteq marred' /\ marred' \subseteq Addresses /\ About(c) = {}
      /\ m \in marred' \/ \A d \in Clients : m \notin About(d)
  BY <1>0, MeetsEffect DEF MailParts
<1>2. About(c)' = {m}
  BY MailboxesAssumption DEF MailBegins, About, Free
<1>3. MailTypeOK'
  BY <1>0, <1>1 DEF MailParts, MailTypeOK, Mail
<1>4. MailPlacesInv'
  <2>1. mreq'[c].at = at /\ mreq'[c].addr = m
    BY DEF MailBegins
  <2>2. QED
    BY <1>0, <2>1, MailPlacesKept DEF MailParts
<1>5. MailIds'
  <2>1. mreq'[c].at = at /\ mreq'[c].id = id /\ mreq'[c].addr = m
    BY DEF MailBegins
  <2>2. \A n \in Addresses : box[n] \in Nat /\ box[n] <= ids
    BY <1>0, MailboxesAssumption DEF MailParts, MailTypeOK, MailIds
  <2>3. at # "reset" => id \in 1 .. ids'
    BY <1>0, <2>2
  <2>4. at = "del" => \A n \in Addresses : box[n] = id => n = m
    BY <1>0 DEF MailParts, MailIds
  <2>5. at = "add" => \A n \in Addresses : box[n] # id
    BY <1>0, <2>2
  <2>6. \A d \in Clients : mreq[d].at \in Named => mreq[d].id \in 1 .. ids
    BY <1>0 DEF MailParts, MailIds
  <2>7. at = "add" => \A d \in Clients : mreq[d].at \in Named => id # mreq[d].id
    BY <1>0, <2>6
  <2>8. at = "del" => \A d \in Clients : mreq[d].at \in {"add", "insert"} => id # mreq[d].id
    BY <1>0 DEF MailParts, MailIds, Adding
  <2>9. QED
    BY <1>0, <2>1, <2>3, <2>4, <2>5, <2>7, <2>8, MailIdsKept DEF MailParts, Named
<1>6. MailAlone' /\ MailWork' /\ MailSteady'
  <2>1. m \notin marred' => Quiet(m)
    BY <1>0, <1>1, AloneQuiet DEF MailParts
  <2>2. m \notin marred' => Steady(m)'
    BY <2>1 DEF Quiet, Steady
  <2>3. Known(c, m)'
    BY DEF MailBegins, Known
  <2>4. QED
    BY <1>0, <1>1, <1>2, <2>2, <2>3, MailLocal DEF MailParts
<1>7. MailQuota'
  <2>1. CASE at = "add" /\ Cardinality(Rows) < MaxMailboxes
    <3>1. Counted' \subseteq Counted
      BY DEF Counted, Rows
    <3>2. Cardinality(Counted') <= Cardinality(Counted)
      BY <3>1, RowsFinite, FS_Subset
    <3>3. QED
      BY <2>1, <3>2, RowsFinite, RowsFiniteNext, MailboxesAssumption DEF MailQuota
  <2>2. CASE at = "add" => id \in unseen'
    BY <1>0, <2>2, MailNoMore DEF MailParts, MailBegins
  <2>3. QED
    BY <2>1, <2>2
<1>8. QED
  BY <1>3, <1>4, <1>5, <1>6, <1>7 DEF MailInv

LEMMA MailBeginKept ==
    ASSUME MailInv, NEW c \in Clients, NEW m \in Addresses, CreateBox(c, m) \/ DeleteBox(c, m) \/ ResetPassword(c, m)
    PROVE  MailInv'
<1>0. MailTypeOK /\ MaxBoxes \in Nat /\ ids \in Nat /\ unseen \subseteq 1 .. MaxBoxes
  BY MailboxesAssumption DEF MailInv, MailTypeOK
<1>1. CASE CreateBox(c, m)
  <2>1. Begins(c)
    BY <1>1 DEF CreateBox
  <2>2. Free(c) /\ ids' = ids + 1 /\ ids + 1 \in 0 .. MaxBoxes /\ ids + 1 \in 1 .. MaxBoxes
    BY <1>0, <2>1 DEF Begins
  <2>3. PICK counted \in BOOLEAN :
            /\ UnderMailboxLimit(counted)
            /\ mreq' = [mreq EXCEPT ![c] = [NoMail EXCEPT !.at = "add", !.addr = m, !.id = ids + 1]]
            /\ unseen' = IF counted THEN unseen ELSE unseen \cup {ids + 1}
    BY <1>1 DEF CreateBox
  <2>4. PICK q \in Mail : /\ q.at = "add" /\ q.addr = m /\ q.id = ids + 1 /\ q.left = {}
                          /\ mreq' = [mreq EXCEPT ![c] = q]
    BY <2>2, <2>3, NoMailType DEF Mail, MailPlaces
  <2>5. MailBegins(c, "add", m, ids + 1, {})
    <3>1. MailBegins(c, q.at, q.addr, q.id, q.left)
      BY <1>0, <2>2, <2>4, MailBeginsEffect
    <3>2. QED
      BY <2>4, <3>1
  <2>6. /\ unseen \subseteq unseen' /\ unseen' \subseteq 1 .. MaxBoxes
        /\ ids + 1 \in unseen' \/ Cardinality(Rows) < MaxMailboxes
    BY <1>0, <2>2, <2>3 DEF UnderMailboxLimit
  <2>7. Meets({m}) /\ UNCHANGED <<service, box, acct>>
    BY <1>1 DEF CreateBox
  <2>8. QED
    BY <2>2, <2>5, <2>6, <2>7, MailOneKept
<1>2. ASSUME NEW at \in {"del", "reset"}, ReadBox(c, m, at)
      PROVE  MailInv'
  <2>1. Begins(c) /\ box[m] # 0 /\ Meets({m}) /\ UNCHANGED <<service, box, acct, unseen>>
    BY <1>2 DEF ReadBox
  <2>2. Free(c) /\ ids' = ids + 1 /\ ids + 1 \in 0 .. MaxBoxes
    BY <1>0, <2>1 DEF Begins
  <2>3. box[m] \in 0 .. MaxBoxes /\ at \in MailPlaces
    BY <1>0 DEF MailTypeOK, MailPlaces
  <2>4. PICK q \in Mail : /\ q.at = at /\ q.addr = m /\ q.id = box[m] /\ q.left = {}
                          /\ mreq' = [mreq EXCEPT ![c] = q]
    BY <1>2, <2>3, NoMailType DEF ReadBox, Mail
  <2>5. MailBegins(c, at, m, box[m], {})
    <3>1. MailBegins(c, q.at, q.addr, q.id, q.left)
      BY <1>0, <2>2, <2>4, MailBeginsEffect
    <3>2. QED
      BY <2>4, <3>1
  <2>6. QED
    BY <1>0, <2>1, <2>2, <2>3, <2>5, MailOneKept
<1>3. QED
  BY <1>1, <1>2 DEF DeleteBox, ResetPassword

\* The steps of a request at one address: where it goes, what it does there.
LEMMA MailStepKept ==
    ASSUME MailInv, NEW c \in Clients, mreq[c].at \in AtOne, MailOthers(c), mreq' \in [Clients -> Mail],
           \/ mreq'[c].at = "idle" /\ About(c)' = {}
           \/ /\ <<mreq[c].at, mreq'[c].at>> \in {<<"add", "insert">>, <<"del", "delrow">>}
              /\ mreq'[c].addr = mreq[c].addr /\ mreq'[c].id = mreq[c].id /\ About(c)' = About(c),
           acct' \in [Addresses -> Account], box' \in [Addresses -> 0 .. MaxBoxes], service' = service, ids' = ids, unseen' = unseen,
           marred \subseteq marred', marred' \subseteq Addresses,
           mreq[c].addr \in Addresses => \A m \in Addresses \ {mreq[c].addr} : box'[m] = box[m] /\ acct'[m] = acct[m],
           \A m \in Addresses : box'[m] \in {box[m], 0},
           \A m \in About(c) \ marred' : Steady(m)' /\ (mreq'[c].at # "idle" => Known(c, m)')
    PROVE  MailInv'
<1>0. MailParts
  BY DEF MailInv, MailParts
<1>1. MailTypeOK'
  BY <1>0 DEF MailParts, MailTypeOK, Mail
<1>2. mreq[c].addr \in Addresses /\ About(c) = {mreq[c].addr}
  BY <1>0, MailboxesAssumption DEF MailParts, MailPlacesInv, AtOne, About, Free
<1>3. MailPlacesInv'
  <2>1. (mreq'[c].at \in AtOne => mreq'[c].addr \in Addresses) /\ mreq'[c].at \notin {"purge", "purgerows"}
    BY <1>2 DEF AtOne
  <2>2. QED
    BY <1>0, <2>1, MailPlacesKept DEF MailParts
<1>4. MailIds'
  <2>1. mreq'[c].at \in Named =>
            /\ mreq[c].at \in Named /\ mreq'[c].addr = mreq[c].addr /\ mreq'[c].id = mreq[c].id
            /\ mreq'[c].at \in {"add", "insert"} <=> mreq[c].at \in {"add", "insert"}
            /\ mreq'[c].at \in {"del", "delrow"} <=> mreq[c].at \in {"del", "delrow"}
    BY DEF Named
  <2>2. \A d \in Clients \ {c} :
            /\ mreq'[c].at \in Named /\ mreq[d].at \in {"add", "insert"} => mreq'[c].id # mreq[d].id
            /\ mreq'[c].at \in {"add", "insert"} /\ mreq[d].at \in Named => mreq'[c].id # mreq[d].id
    BY <1>0, <2>1 DEF MailParts, MailIds, Adding, Named
  <2>3. /\ mreq'[c].at \in Named => mreq'[c].id \in 1 .. ids'
        /\ mreq'[c].at \in {"del", "delrow"} => \A m \in Addresses : box[m] = mreq'[c].id => m = mreq'[c].addr
        /\ mreq'[c].at \in {"add", "insert"} => \A m \in Addresses : box[m] # mreq'[c].id
    BY <1>0, <2>1 DEF MailParts, MailIds, Adding, Named
  <2>4. QED
    BY <1>0, <2>2, <2>3, MailIdsKept DEF MailParts
<1>5. MailAlone' /\ MailWork' /\ MailSteady'
  <2>1. \A m \in Addresses \ (marred' \cup About(c)) : box'[m] = box[m] /\ acct'[m] = acct[m]
    BY <1>2
  <2>2. About(c)' \subseteq About(c)
    OBVIOUS
  <2>3. \A m \in About(c)' \ marred' : Known(c, m)'
    OBVIOUS
  <2>4. QED
    BY <1>0, <1>2, <2>1, <2>2, <2>3, MailLocal DEF MailParts
<1>6. MailQuota'
  BY <1>0, MailNoMore DEF MailParts
<1>7. QED
  BY <1>1, <1>3, <1>4, <1>5, <1>6 DEF MailInv

\* What is known at the addresses a request is about.
LEMMA MailKnown ==
    ASSUME MailInv, NEW c \in Clients
    PROVE  \A m \in About(c) \ marred : Known(c, m) /\ m \in Addresses
BY AboutAddresses DEF MailInv, MailWork, Known

\* Commands that make an account, and the statements that end a creation or a reset.
LEMMA MailAddKept ==
    ASSUME MailInv, NEW c \in Clients,
           AddEmail(c) \/ AddFails(c) \/ InsertFails(c) \/ NewPassword(c) \/ ResetFails(c)
    PROVE  MailInv'
<1>0. MailParts
  BY DEF MailInv, MailParts
<1>1. mreq[c].at \in AtOne /\ ~Free(c)
  BY DEF AddEmail, AddFails, InsertFails, NewPassword, ResetFails, AtOne, Free
<1>2. PICK a \in Addresses : a = mreq[c].addr /\ About(c) = {a}
  BY <1>0, <1>1, MailboxesAssumption DEF MailParts, MailPlacesInv, About
<1>3. acct \in [Addresses -> Account] /\ box \in [Addresses -> 0 .. MaxBoxes] /\ marred \subseteq Addresses /\ MailTypeOK
  BY <1>0 DEF MailParts, MailTypeOK
<1>4. a \notin marred /\ mreq[c].at \in {"add", "reset"} => Quiet(a)
  BY <1>0, <1>2, AloneQuiet DEF MailParts
<1>5. a \notin marred => Known(c, a)
  BY <1>2, MailKnown
<1>6. CASE AddEmail(c)
  <2>1. acct' = [acct EXCEPT ![a] = "set"] /\ UNCHANGED <<service, box, ids, unseen, marred>> /\ acct[a] = "none" /\ mreq[c].at = "add"
    BY <1>2, <1>6 DEF AddEmail
  <2>2. acct' \in [Addresses -> Account] /\ acct'[a] = "set" /\ \A m \in Addresses \ {a} : acct'[m] = acct[m]
    BY <1>3, <2>1 DEF Account
  <2>3. /\ mreq' \in [Clients -> Mail] /\ MailOthers(c)
        /\ mreq'[c].at = "insert" /\ mreq'[c].addr = a /\ mreq'[c].id = mreq[c].id /\ About(c)' = About(c)
    BY <1>1, <1>2, <1>3, <1>6, TurnsEffect DEF AddEmail, MailPlaces
  <2>4. a \notin marred => box'[a] = 0
    BY <1>4, <2>1 DEF Quiet
  <2>5. Creating(a)'
    BY <1>2, <2>3 DEF Creating
  <2>6. a \notin marred' => Steady(a)' /\ Known(c, a)'
    BY <2>1, <2>2, <2>3, <2>4, <2>5 DEF Steady, Known
  <2>7. QED
    BY <1>1, <1>2, <1>3, <2>1, <2>2, <2>3, <2>6, MailStepKept
<1>7. CASE AddFails(c)
  <2>1. UNCHANGED <<service, box, ids, unseen>> /\ mreq[c].at = "add"
    BY <1>7 DEF AddFails
  <2>2. mreq' \in [Clients -> Mail] /\ MailOthers(c) /\ mreq'[c].at = "idle" /\ About(c)' = {}
    BY <1>3, <1>7, RestsEffect DEF AddFails
  <2>3. CASE acct' = acct /\ marred' = marred
    <3>1. a \notin marred' => Steady(a)'
      BY <1>4, <2>1, <2>3 DEF Steady, Quiet
    <3>2. QED
      BY <1>1, <1>2, <1>3, <2>1, <2>2, <2>3, <3>1, MailStepKept
  <2>4. CASE acct' = [acct EXCEPT ![a] = "set"] /\ Mars(c)
    <3>1. acct' \in [Addresses -> Account] /\ \A m \in Addresses \ {a} : acct'[m] = acct[m]
      BY <1>3, <2>4 DEF Account
    <3>2. marred \subseteq marred' /\ marred' \subseteq Addresses /\ About(c) \subseteq marred'
      BY <1>3, <2>4, MarsEffect
    <3>3. QED
      BY <1>1, <1>2, <1>3, <2>1, <2>2, <3>1, <3>2, MailStepKept
  <2>5. QED
    BY <1>2, <1>7, <2>3, <2>4 DEF AddFails
<1>8. CASE InsertFails(c)
  <2>1. UNCHANGED <<service, box, ids, unseen>> /\ mreq[c].at = "insert"
    BY <1>8 DEF InsertFails
  <2>2. mreq' \in [Clients -> Mail] /\ MailOthers(c) /\ mreq'[c].at = "idle" /\ About(c)' = {}
    BY <1>3, <1>8, RestsEffect DEF InsertFails
  <2>3. CASE acct' = [acct EXCEPT ![a] = Blanked(acct[a])] /\ marred' = marred
    <3>1. Blanked(acct[a]) \in Account /\ Blanked(acct[a]) # "set"
      BY <1>3 DEF Blanked, Account
    <3>2. acct' \in [Addresses -> Account] /\ acct'[a] # "set" /\ \A m \in Addresses \ {a} : acct'[m] = acct[m]
      BY <1>3, <2>3, <3>1
    <3>3. a \notin marred' => Steady(a)'
      BY <1>5, <2>1, <2>3, <3>2 DEF Known, Steady
    <3>4. QED
      BY <1>1, <1>2, <1>3, <2>1, <2>2, <2>3, <3>2, <3>3, MailStepKept
  <2>4. CASE acct' = acct /\ Mars(c)
    <3>1. marred \subseteq marred' /\ marred' \subseteq Addresses /\ About(c) \subseteq marred'
      BY <1>3, <2>4, MarsEffect
    <3>2. QED
      BY <1>1, <1>2, <1>3, <2>1, <2>2, <2>4, <3>1, MailStepKept
  <2>5. QED
    BY <1>2, <1>8, <2>3, <2>4 DEF InsertFails
<1>9. CASE NewPassword(c)
  <2>1. acct' = [acct EXCEPT ![a] = IF acct[a] = "none" THEN acct[a] ELSE "set"] /\ UNCHANGED <<service, box, ids, unseen, marred>>
    BY <1>2, <1>9 DEF NewPassword
  <2>2. /\ acct' \in [Addresses -> Account] /\ acct'[a] \in {acct[a], "set"}
        /\ \A m \in Addresses \ {a} : acct'[m] = acct[m]
    BY <1>3, <2>1 DEF Account
  <2>3. mreq' \in [Clients -> Mail] /\ MailOthers(c) /\ mreq'[c].at = "idle" /\ About(c)' = {} /\ mreq[c].at = "reset"
    BY <1>3, <1>9, RestsEffect DEF NewPassword
  <2>4. a \notin marred' => Steady(a)'
    BY <1>4, <1>5, <2>1, <2>2, <2>3 DEF Known, Steady, Quiet
  <2>5. QED
    BY <1>1, <1>2, <1>3, <2>1, <2>2, <2>3, <2>4, MailStepKept
<1>10. CASE ResetFails(c)
  <2>1. UNCHANGED <<service, box, acct, ids, unseen>> /\ Mars(c)
    BY <1>10 DEF ResetFails
  <2>2. mreq' \in [Clients -> Mail] /\ MailOthers(c) /\ mreq'[c].at = "idle" /\ About(c)' = {}
    BY <1>3, <1>10, RestsEffect DEF ResetFails
  <2>3. marred \subseteq marred' /\ marred' \subseteq Addresses /\ About(c) \subseteq marred'
    BY <1>3, <2>1, MarsEffect
  <2>4. QED
    BY <1>1, <1>2, <1>3, <2>1, <2>2, <2>3, MailStepKept
<1>11. QED
  BY <1>6, <1>7, <1>8, <1>9, <1>10

\* A removal: the account, then the row with the id that was read.
LEMMA MailDeleteKept ==
    ASSUME MailInv, NEW c \in Clients, DelEmail(c) \/ DelRow(c)
    PROVE  MailInv'
<1>0. MailParts
  BY DEF MailInv, MailParts
<1>1. mreq[c].at \in AtOne /\ ~Free(c)
  BY DEF DelEmail, DelRow, AtOne, Free
<1>2. PICK a \in Addresses : a = mreq[c].addr /\ About(c) = {a}
  BY <1>0, <1>1, MailboxesAssumption DEF MailParts, MailPlacesInv, About
<1>3. acct \in [Addresses -> Account] /\ box \in [Addresses -> 0 .. MaxBoxes] /\ marred \subseteq Addresses /\ MailTypeOK
  BY <1>0 DEF MailParts, MailTypeOK
<1>4. a \notin marred => Known(c, a)
  BY <1>2, MailKnown
<1>5. CASE DelEmail(c)
  <2>1. UNCHANGED <<service, box, ids, unseen>> /\ mreq[c].at = "del"
    BY <1>5 DEF DelEmail
  <2>2. /\ mreq' \in [Clients -> Mail] /\ MailOthers(c)
        /\ mreq'[c].at = "delrow" /\ mreq'[c].addr = a /\ mreq'[c].id = mreq[c].id /\ About(c)' = About(c)
    BY <1>1, <1>2, <1>3, <1>5, TurnsEffect DEF DelEmail, MailPlaces
  <2>3. CASE acct' = [acct EXCEPT ![a] = "none"] /\ marred' = marred
    <3>1. acct' \in [Addresses -> Account] /\ acct'[a] = "none" /\ \A m \in Addresses \ {a} : acct'[m] = acct[m]
      BY <1>3, <2>3 DEF Account
    <3>2. Deleting(a)'
      BY <1>2, <2>2 DEF Deleting
    <3>3. a \notin marred' => Steady(a)' /\ Known(c, a)'
      BY <1>4, <2>1, <2>2, <2>3, <3>1, <3>2 DEF Steady, Known
    <3>4. QED
      BY <1>1, <1>2, <1>3, <2>1, <2>2, <2>3, <3>1, <3>3, MailStepKept
  <2>4. CASE acct' = acct /\ Mars(c)
    <3>1. marred \subseteq marred' /\ marred' \subseteq Addresses /\ About(c) \subseteq marred'
      BY <1>3, <2>4, MarsEffect
    <3>2. QED
      BY <1>1, <1>2, <1>3, <2>1, <2>2, <2>4, <3>1, MailStepKept
  <2>5. QED
    BY <1>2, <1>5, <2>3, <2>4 DEF DelEmail
<1>6. CASE DelRow(c)
  <2>1. UNCHANGED <<service, acct, ids, unseen>> /\ mreq[c].at = "delrow"
    BY <1>6 DEF DelRow
  <2>2. mreq' \in [Clients -> Mail] /\ MailOthers(c) /\ mreq'[c].at = "idle" /\ About(c)' = {}
    BY <1>3, <1>6, RestsEffect DEF DelRow
  <2>3. CASE box' = [m \in Addresses |-> IF box[m] = mreq[c].id THEN 0 ELSE box[m]] /\ marred' = marred
    <3>1. \A m \in Addresses : box'[m] \in {box[m], 0}
      BY <2>3
    <3>2. box' \in [Addresses -> 0 .. MaxBoxes]
      BY <1>3, <2>3, MailboxesAssumption
    <3>3. \A m \in Addresses \ {a} : box'[m] = box[m]
      BY <1>0, <1>2, <2>1, <2>3 DEF MailParts, MailIds
    <3>4. a \notin marred' => Steady(a)'
      BY <1>4, <2>1, <2>3 DEF Steady, Known
    <3>5. QED
      BY <1>1, <1>2, <1>3, <2>1, <2>2, <2>3, <3>1, <3>2, <3>3, <3>4, MailStepKept
  <2>4. CASE box' = box /\ Mars(c)
    <3>1. marred \subseteq marred' /\ marred' \subseteq Addresses /\ About(c) \subseteq marred'
      BY <1>3, <2>4, MarsEffect
    <3>2. QED
      BY <1>1, <1>2, <1>3, <2>1, <2>2, <2>4, <3>1, MailStepKept
  <2>5. QED
    BY <1>6, <2>3, <2>4 DEF DelRow
<1>7. QED
  BY <1>5, <1>6

LEMMA InsertBoxKept ==
    ASSUME MailInv, NEW c \in Clients, InsertBox(c)
    PROVE  MailInv'
<1>0. MailParts /\ mreq[c].at = "insert" /\ ids \in Nat /\ MaxBoxes \in Nat /\ ids <= MaxBoxes
  BY MailboxesAssumption DEF MailInv, MailParts, InsertBox, MailTypeOK
<1>1. PICK a \in Addresses : a = mreq[c].addr /\ About(c) = {a}
  BY <1>0, MailboxesAssumption DEF MailParts, MailPlacesInv, AtOne, About, Free
<1> DEFINE new == mreq[c].id
<1>2. box' = [box EXCEPT ![a] = new] /\ box[a] = 0 /\ UNCHANGED <<service, acct, ids, unseen, marred>>
  BY <1>1 DEF InsertBox
<1>3. box'[a] = new /\ \A m \in Addresses \ {a} : box'[m] = box[m]
  BY <1>0, <1>2 DEF MailParts, MailTypeOK
<1>20. new \in 1 .. ids /\ new # 0 /\ \A m \in Addresses : box[m] # new
  BY <1>0 DEF MailParts, MailIds, Named, Adding
<1> HIDE DEF new
<1>4. mreq' \in [Clients -> Mail] /\ MailOthers(c) /\ mreq'[c].at = "idle" /\ About(c)' = {}
  BY <1>0, RestsEffect DEF InsertBox, MailParts
<1>5. MailTypeOK'
  <2>1. new \in 0 .. MaxBoxes
    BY <1>0, <1>20
  <2>2. box' \in [Addresses -> 0 .. MaxBoxes]
    BY <1>0, <1>2, <2>1 DEF MailParts, MailTypeOK
  <2>3. QED
    BY <1>0, <1>2, <1>4, <2>2 DEF MailParts, MailTypeOK, Mail
<1>6. MailPlacesInv'
  BY <1>0, <1>4, MailPlacesKept DEF MailParts, AtOne
<1>7. MailIds'
  <2>1. \A m \in Addresses : box'[m] <= ids'
    BY <1>0, <1>2, <1>3, <1>20 DEF MailParts, MailIds
  <2>2. \A m, n \in Addresses : box'[m] = box'[n] /\ box'[m] # 0 => m = n
    BY <1>0, <1>3, <1>20 DEF MailParts, MailIds
  <2>3. ASSUME NEW d \in Clients, mreq'[d].at \in Named
        PROVE  d # c /\ mreq'[d] = mreq[d] /\ mreq[d].id # new /\ mreq[d].id \in 1 .. ids'
    <3>1. d # c /\ mreq'[d] = mreq[d]
      BY <1>4, <2>3 DEF MailOthers, Named
    <3>2. c \in Adding
      BY <1>0 DEF Adding
    <3>3. QED
      BY <1>0, <1>2, <2>3, <3>1, <3>2 DEF MailParts, MailIds, new
  <2>4. ASSUME NEW d \in Clients, mreq'[d].at \in {"del", "delrow"}, NEW m \in Addresses, box'[m] = mreq'[d].id
        PROVE  m = mreq'[d].addr
    <3>1. mreq'[d] = mreq[d] /\ mreq[d].id # new
      BY <2>3, <2>4 DEF Named
    <3>2. box[m] = mreq[d].id
      BY <1>3, <2>4, <3>1
    <3>3. QED
      BY <1>0, <2>4, <3>1, <3>2 DEF MailParts, MailIds
  <2>5. ASSUME NEW d \in Adding'
        PROVE  d \in Adding /\ mreq'[d] = mreq[d] /\ mreq[d].id # new
    BY <2>3 DEF Adding, Named
  <2>6. \A d \in Adding' : \A m \in Addresses : box'[m] # mreq'[d].id
    BY <1>0, <1>3, <2>5 DEF MailParts, MailIds
  <2>7. \A d \in Adding', e \in Clients : mreq'[e].at \in Named /\ d # e => mreq'[d].id # mreq'[e].id
    BY <1>0, <2>3, <2>5 DEF MailParts, MailIds
  <2>8. \A d \in Clients : mreq'[d].at \in Named => mreq'[d].id \in 1 .. ids'
    BY <2>3
  <2>9. QED
    BY <2>1, <2>2, <2>4, <2>6, <2>7, <2>8 DEF MailIds
<1>8. MailAlone' /\ MailWork' /\ MailSteady'
  <2>1. a \notin marred => acct[a] = "set"
    BY <1>0, <1>1 DEF MailParts, MailWork
  <2>2. box'[a] # 0
    BY <1>3, <1>20
  <2>3. a \notin marred' => Steady(a)'
    BY <1>2, <2>1, <2>2 DEF Steady
  <2>4. marred \subseteq marred' /\ marred' \subseteq Addresses
    BY <1>0, <1>2 DEF MailParts, MailTypeOK
  <2>5. QED
    BY <1>0, <1>1, <1>2, <1>3, <1>4, <2>3, <2>4, MailLocal DEF MailParts
<1>9. MailQuota'
  <2>1. Rows' = Rows \cup {a} /\ a \notin Rows
    BY <1>0, <1>2, <1>3, <1>20 DEF Rows
  <2>2. Adding' = Adding \ {c} /\ c \in Adding /\ \A d \in Adding' : mreq'[d].id = mreq[d].id
    BY <1>0, <1>4 DEF Adding, MailOthers
  <2>3. CASE new \in unseen
    <3>1. Counted' \subseteq Counted
      BY <1>2, <1>3, <2>1, <2>3 DEF Counted, Rows
    <3>2. Pending' \subseteq Pending
      BY <1>2, <2>2 DEF Pending
    <3>3. QED
      BY <1>0, <3>1, <3>2, MailQuotaKept DEF MailParts
  <2>4. CASE new \notin unseen
    <3>1. Counted' = Counted \cup {a} /\ a \notin Counted
      BY <1>2, <1>3, <2>1, <2>4 DEF Counted, Rows
    <3>2. Pending' = Pending \ {c} /\ c \in Pending
      BY <1>2, <2>2, <2>4 DEF Pending, new
    <3>3. Cardinality(Counted') = Cardinality(Counted) + 1
      BY <3>1, RowsFinite, FS_AddElement
    <3>4. Cardinality(Pending') = Cardinality(Pending) - 1
      BY <3>2, RowsFinite, FS_RemoveElement
    <3>5. QED
      BY <1>0, <3>3, <3>4, RowsFinite DEF MailParts, MailQuota
  <2>5. QED
    BY <2>3, <2>4
<1>10. QED
  BY <1>5, <1>6, <1>7, <1>8, <1>9 DEF MailInv

\* A removal of the service is about every address: what it leaves, nobody else is at.
LEMMA MailPurgeKept ==
    ASSUME MailInv, NEW c \in Clients, MailOthers(c), mreq' \in [Clients -> Mail],
           mreq'[c].at \in {"idle", "purge", "purgerows"},
           mreq'[c].at # "idle" => mreq'[c].addr = NoAddress,
           Free(c) => Meets(Addresses),
           ~Free(c) => mreq[c].at \in {"purge", "purgerows"} /\ marred \subseteq marred' /\ marred' \subseteq Addresses,
           acct' \in [Addresses -> Account], \A m \in Addresses : box'[m] \in {box[m], 0},
           box' \in [Addresses -> 0 .. MaxBoxes], service' \in BOOLEAN,
           ids' \in {ids, ids + 1} \cap (0 .. MaxBoxes), unseen' = unseen,
           Free(c) => box' = box /\ acct' = acct,
           \A m \in Addresses \ marred' : Steady(m)' /\ (mreq'[c].at # "idle" => Known(c, m)')
    PROVE  MailInv'
<1>0. MailParts
  BY DEF MailInv, MailParts
<1>1. /\ marred \subseteq marred' /\ marred' \subseteq Addresses
      /\ Free(c) => \A m \in Addresses : m \in marred' \/ \A d \in Clients : m \notin About(d)
  BY <1>0, MeetsEffect DEF MailParts
<1>2. /\ ~Free(c) => About(c) = Addresses
      /\ About(c)' \subseteq Addresses
  BY <1>0 DEF MailParts, MailPlacesInv, About, Free
<1>3. MailTypeOK'
  BY <1>0, <1>1 DEF MailParts, MailTypeOK, Mail
<1>4. MailPlacesInv'
  <2>1. mreq'[c].at \notin AtOne
    BY DEF AtOne
  <2>2. QED
    BY <1>0, <2>1, MailPlacesKept DEF MailParts
<1>5. MailIds'
  <2>1. mreq'[c].at \notin Named
    BY DEF Named
  <2>2. QED
    BY <1>0, <2>1, MailIdsKept DEF MailParts, Named
<1>6. MailAlone' /\ MailWork' /\ MailSteady'
  <2>1. \A m \in Addresses \ (marred' \cup About(c)) : box'[m] = box[m] /\ acct'[m] = acct[m]
    BY <1>2
  <2>2. \A m \in About(c)' : m \in Addresses /\ (m \in About(c) \cup marred' \/ \A d \in Clients \ {c} : m \notin About(d))
    BY <1>1, <1>2
  <2>3. \A m \in About(c)' \ marred' : Known(c, m)'
    BY <1>2 DEF About, Free
  <2>4. \A m \in Addresses \cap (About(c) \cup About(c)') : m \notin marred' => Steady(m)'
    OBVIOUS
  <2>5. QED
    BY <1>0, <1>1, <2>1, <2>2, <2>3, <2>4, MailLocal DEF MailParts
<1>7. MailQuota'
  BY <1>0, MailNoMore DEF MailParts
<1>8. QED
  BY <1>3, <1>4, <1>5, <1>6, <1>7 DEF MailInv

LEMMA MailServiceKept ==
    ASSUME MailInv, NEW c \in Clients,
           \/ DeleteService(c) \/ ListFails(c) \/ \E m \in Addresses : PurgeEmail(c, m)
           \/ PurgeRows(c) \/ PurgeService(c)
    PROVE  MailInv'
<1>0. MailParts
  BY DEF MailInv, MailParts
<1>1. /\ acct \in [Addresses -> Account] /\ box \in [Addresses -> 0 .. MaxBoxes] /\ marred \subseteq Addresses
      /\ service \in BOOLEAN /\ MailTypeOK /\ 0 \in 0 .. MaxBoxes /\ mreq[c] \in Mail
      /\ ids \in 0 .. MaxBoxes /\ MaxBoxes \in Nat
  BY <1>0, MailboxesAssumption DEF MailParts, MailTypeOK, Mail
<1>2. mreq[c].at \in {"purge", "purgerows"} => mreq[c].addr = NoAddress /\ ~Free(c) /\ About(c) = Addresses
  BY <1>0 DEF MailParts, MailPlacesInv, About, Free
<1>3. ~Free(c) /\ mreq[c].at \in {"purge", "purgerows"} => \A m \in Addresses \ marred : Known(c, m)
  BY <1>2, MailKnown
<1>4. CASE DeleteService(c)
  <2>1. PICK q \in Mail : /\ q.at = "purge" /\ q.addr = NoAddress /\ q.left = Rows
                          /\ mreq' = [mreq EXCEPT ![c] = q]
    <3>1. Rows \subseteq Addresses
      BY DEF Rows
    <3>2. QED
      BY <1>4, <3>1, NoMailType DEF DeleteService, Mail, MailPlaces
  <2>2. Free(c) /\ Meets(Addresses) /\ UNCHANGED <<service, box, acct, unseen>> /\ ids' \in {ids + 1} \cap (0 .. MaxBoxes)
    BY <1>1, <1>4 DEF DeleteService, Begins
  <2>3. MailBegins(c, "purge", NoAddress, q.id, Rows)
    BY <1>1, <2>1, <2>2, MailBeginsEffect
  <2>4. ASSUME NEW m \in Addresses, m \notin marred'
        PROVE  Steady(m)' /\ Known(c, m)'
    <3>1. m \notin marred /\ \A d \in Clients : m \notin About(d)
      BY <1>1, <2>2, <2>4, MeetsEffect
    <3>2. Quiet(m)
      BY <1>0, <2>4, <3>1, AloneQuiet DEF MailParts
    <3>3. m \notin Rows => box[m] = 0
      BY <2>4 DEF Rows
    <3>4. QED
      BY <2>2, <2>3, <3>2, <3>3 DEF Quiet, Steady, Known, MailBegins
  <2>5. QED
    BY <1>1, <2>2, <2>3, <2>4, MailPurgeKept DEF MailBegins
<1>5. ASSUME NEW a \in Addresses, PurgeEmail(c, a)
      PROVE  MailInv'
  <2>1. mreq[c].at = "purge" /\ UNCHANGED <<service, box, ids, unseen>>
    BY <1>5 DEF PurgeEmail
  <2>2. PICK q \in Mail : /\ q.at = "purge" /\ q.addr = NoAddress /\ q.left = mreq[c].left \ {a}
                          /\ mreq' = [mreq EXCEPT ![c] = q]
    <3>1. mreq' = [mreq EXCEPT ![c] = [mreq[c] EXCEPT !.left = mreq[c].left \ {a}]]
      BY <1>1, <1>5 DEF PurgeEmail, MailTypeOK
    <3>2. QED
      BY <1>1, <1>2, <2>1, <3>1 DEF Mail
  <2>3. mreq'[c] = q /\ MailOthers(c) /\ mreq' \in [Clients -> Mail]
    BY <1>1, <2>2 DEF MailTypeOK, Mail, MailOthers
  <2>4. \A m \in Addresses : Deleting(m)'
    BY <2>2, <2>3 DEF Deleting, About, Free
  <2>5. \A m \in Addresses : Creating(m) => m \in marred
    BY <1>0, <1>2, <2>1 DEF Creating, MailParts, MailAlone
  <2>6. CASE acct' = [acct EXCEPT ![a] = "none"] /\ marred' = marred
    <3>1. acct' \in [Addresses -> Account] /\ acct'[a] = "none" /\ \A m \in Addresses \ {a} : acct'[m] = acct[m]
      BY <1>1, <2>6 DEF Account
    <3>2. ASSUME NEW m \in Addresses, m \notin marred'
          PROVE  Steady(m)' /\ Known(c, m)'
      <4>1. Steady(m) /\ Known(c, m)
        BY <1>0, <1>2, <1>3, <2>1, <2>6, <3>2 DEF MailParts, MailSteady, Steady
      <4>2. Known(c, m)'
        BY <2>1, <2>2, <2>3, <3>1, <4>1 DEF Known
      <4>3. Steady(m)'
        BY <2>1, <2>4, <2>5, <2>6, <3>1, <3>2, <4>1 DEF Steady
      <4>4. QED
        BY <4>2, <4>3
    <3>3. QED
      BY <1>1, <1>2, <2>1, <2>2, <2>3, <2>6, <3>1, <3>2, MailPurgeKept
  <2>7. CASE acct' = acct /\ marred' = marred \cup {a}
    <3>1. ASSUME NEW m \in Addresses, m \notin marred'
          PROVE  Steady(m)' /\ Known(c, m)'
      <4>1. Steady(m) /\ Known(c, m) /\ m # a
        BY <1>0, <1>2, <1>3, <2>1, <2>7, <3>1 DEF MailParts, MailSteady, Steady
      <4>2. Known(c, m)'
        BY <2>1, <2>2, <2>3, <2>7, <4>1 DEF Known
      <4>3. Steady(m)'
        BY <2>1, <2>4, <2>5, <2>7, <3>1, <4>1 DEF Steady
      <4>4. QED
        BY <4>2, <4>3
    <3>2. QED
      BY <1>1, <1>2, <2>1, <2>2, <2>3, <2>7, <3>1, MailPurgeKept
  <2>8. QED
    BY <1>5, <2>6, <2>7 DEF PurgeEmail
<1>6. CASE PurgeRows(c)
  <2>1. /\ mreq[c].at = "purge" /\ mreq[c].left = {}
        /\ box' \in [Addresses -> 0 .. MaxBoxes] /\ \A m \in Addresses : box'[m] \in {box[m], 0}
        /\ UNCHANGED <<service, acct, ids, unseen, marred>>
    BY <1>1, <1>6 DEF PurgeRows
  <2>2. /\ mreq' \in [Clients -> Mail] /\ MailOthers(c)
        /\ mreq'[c].at = "purgerows" /\ mreq'[c].addr = mreq[c].addr
    BY <1>1, <1>2, <1>6, <2>1, TurnsEffect DEF PurgeRows, MailPlaces
  <2>3. \A m \in Addresses : Deleting(m)'
    BY <1>2, <2>1, <2>2 DEF Deleting, About, Free
  <2>4. ASSUME NEW m \in Addresses, m \notin marred'
        PROVE  Steady(m)' /\ Known(c, m)'
    <3>1. acct[m] # "set"
      BY <1>2, <1>3, <2>1, <2>4 DEF Known
    <3>2. QED
      BY <2>1, <2>2, <2>3, <3>1 DEF Steady, Known
  <2>5. QED
    BY <1>1, <1>2, <2>1, <2>2, <2>4, MailPurgeKept
<1>7. CASE PurgeService(c)
  <2>1. mreq[c].at = "purgerows" /\ UNCHANGED <<acct, ids, unseen>>
    BY <1>7 DEF PurgeService
  <2>2. mreq' \in [Clients -> Mail] /\ MailOthers(c) /\ mreq'[c].at = "idle"
    BY <1>1, <1>7, RestsEffect DEF PurgeService
  <2>3. CASE service' = FALSE /\ box' = [m \in Addresses |-> 0] /\ marred' = marred
    <3>1. ASSUME NEW m \in Addresses, m \notin marred'
          PROVE  Steady(m)'
      <4>1. acct[m] # "set"
        BY <1>2, <1>3, <2>1, <2>3, <3>1 DEF Known
      <4>2. QED
        BY <2>1, <2>3, <4>1 DEF Steady
    <3>2. QED
      BY <1>1, <1>2, <2>1, <2>2, <2>3, <3>1, MailPurgeKept
  <2>4. CASE UNCHANGED <<service, box>> /\ Mars(c)
    <3>1. marred \subseteq marred' /\ marred' \subseteq Addresses /\ Addresses \subseteq marred'
      BY <1>1, <1>2, <2>1, <2>4, MarsEffect
    <3>2. QED
      BY <1>1, <1>2, <2>1, <2>2, <2>4, <3>1, MailPurgeKept
  <2>5. QED
    BY <1>7, <2>3, <2>4 DEF PurgeService
<1>8. CASE ListFails(c)
  <2>1. mreq[c].at = "purge" /\ UNCHANGED <<service, box, acct, ids, unseen>> /\ Mars(c)
    BY <1>8 DEF ListFails
  <2>2. PICK q \in Mail : q.at = "purgerows" /\ q.addr = NoAddress /\ mreq' = [mreq EXCEPT ![c] = q]
    <3>1. mreq' = [mreq EXCEPT ![c] = [mreq[c] EXCEPT !.at = "purgerows", !.left = {}]]
      BY <1>1, <1>8 DEF ListFails, MailTypeOK
    <3>2. QED
      BY <1>1, <1>2, <2>1, <3>1 DEF Mail, MailPlaces
  <2>3. mreq'[c] = q /\ MailOthers(c) /\ mreq' \in [Clients -> Mail]
    BY <1>1, <2>2 DEF MailTypeOK, Mail, MailOthers
  <2>4. marred \subseteq marred' /\ marred' \subseteq Addresses /\ Addresses \subseteq marred'
    BY <1>1, <1>2, <2>1, MarsEffect
  <2>5. QED
    BY <1>1, <1>2, <2>1, <2>2, <2>3, <2>4, MailPurgeKept
<1>9. QED
  BY <1>4, <1>5, <1>6, <1>7, <1>8

LEMMA MailCrashKept ==
    ASSUME MailInv, MailCrash
    PROVE  MailInv'
<1>0. MailParts /\ UNCHANGED <<service, box, acct, ids, unseen>> /\ mreq' = [c \in Clients |-> NoMail]
  BY DEF MailInv, MailParts, MailCrash
<1>1. \A c \in Clients : mreq'[c] = NoMail /\ mreq'[c].at = "idle" /\ About(c)' = {}
  BY <1>0, NoMailType DEF About, Free
<1>2. marred \subseteq marred' /\ marred' \subseteq Addresses /\ \A c \in Clients : About(c) \subseteq marred'
  BY <1>0, AboutAddresses DEF MailCrash, MailParts, MailTypeOK
<1>3. MailTypeOK'
  BY <1>0, <1>2, NoMailType DEF MailParts, MailTypeOK, Mail
<1>4. MailPlacesInv' /\ MailAlone' /\ MailWork'
  BY <1>1 DEF MailPlacesInv, AtOne, MailAlone, MailWork
<1>5. MailIds'
  <2>1. \A c \in Clients : mreq'[c].at \notin Named /\ c \notin Adding'
    BY <1>1 DEF Named, Adding
  <2>2. QED
    BY <1>0, <2>1 DEF MailParts, MailIds, Adding, Named
<1>6. MailQuota'
  <2>1. Counted' \subseteq Counted /\ Pending' \subseteq Pending
    BY <1>0, <1>1 DEF Rows, Counted, Adding, Pending
  <2>2. QED
    BY <1>0, <2>1, MailQuotaKept DEF MailParts
<1>7. MailSteady'
  <2>1. SUFFICES ASSUME NEW m \in Addresses \ marred'
                 PROVE  Quiet(m)
    BY <1>0 DEF MailSteady, Quiet
  <2>2. \A d \in Clients : m \notin About(d)
    BY <1>2
  <2>3. QED
    BY <1>0, <1>2, <2>2, AloneQuiet DEF MailParts
<1>8. QED
  BY <1>3, <1>4, <1>5, <1>6, <1>7 DEF MailInv

LEMMA MailQuiet ==
    ASSUME MailInv, UNCHANGED <<box, acct, ids, mreq, unseen, marred>>, service' \in BOOLEAN
    PROVE  MailInv'
<1>1. MailTypeOK' /\ MailPlacesInv' /\ MailIds'
  BY DEF MailInv, MailTypeOK, MailPlacesInv, MailIds, Adding
<1>2. MailAlone' /\ MailWork'
  BY DEF MailInv, MailAlone, MailWork, About, Free
<1>3. MailSteady'
  BY DEF MailInv, MailSteady, Deleting, Creating, About, Free
<1>4. MailQuota'
  BY DEF MailInv, MailQuota, Rows, Counted, Adding, Pending
<1>5. QED
  BY <1>1, <1>2, <1>3, <1>4 DEF MailInv

LEMMA MailInvInit == MailInit => MailInv
<1> SUFFICES ASSUME MailInit PROVE MailInv
  OBVIOUS
<1>1. \A c \in Clients : mreq[c] = NoMail /\ mreq[c].at = "idle" /\ About(c) = {}
  BY NoMailType DEF MailInit, About, Free
<1>2. MailTypeOK
  BY NoMailType, MailboxesAssumption DEF MailInit, MailTypeOK, Mail, Account
<1>3. MailPlacesInv /\ MailAlone /\ MailWork
  BY <1>1 DEF MailPlacesInv, AtOne, MailAlone, MailWork
<1>4. MailIds
  <2>1. \A c \in Clients : mreq[c].at \notin Named /\ c \notin Adding
    BY <1>1 DEF Named, Adding
  <2>2. QED
    BY <2>1 DEF MailInit, MailIds, Adding, Named
<1>5. MailSteady
  BY DEF MailInit, MailSteady
<1>6. MailQuota
  <2>1. Counted = {} /\ Pending = {}
    BY <1>1 DEF MailInit, Rows, Counted, Adding, Pending
  <2>2. QED
    BY <2>1, FS_EmptySet, RowsFinite, MailboxesAssumption DEF MailQuota
<1>7. QED
  BY <1>2, <1>3, <1>4, <1>5, <1>6 DEF MailInv

LEMMA MailInvKept == MailInv /\ [MailNext]_mailVars => MailInv'
<1> SUFFICES ASSUME MailInv, [MailNext]_mailVars PROVE MailInv'
  OBVIOUS
<1>1. ASSUME NEW c \in Clients, MailRequest(c)
      PROVE  MailInv'
  BY <1>1, MailBeginKept, MailAddKept, MailDeleteKept, InsertBoxKept, MailServiceKept DEF MailRequest
<1>2. CASE AddService
  BY <1>2, MailQuiet DEF AddService
<1>3. CASE MailCrash
  BY <1>3, MailCrashKept
<1>4. CASE UNCHANGED mailVars
  BY <1>4, MailQuiet DEF mailVars, MailInv, MailTypeOK
<1>5. QED
  BY <1>1, <1>2, <1>3, <1>4 DEF MailNext

LEMMA MailInvHolds == MailSpec => []MailInv
BY MailInvInit, MailInvKept, PTL DEF MailSpec

\* Rows, accounts and requests are what the code knows, within their bounds.
THEOREM MailboxesTyped == MailSpec => []MailTypeOK
BY MailInvHolds, PTL DEF MailInv

\* For any addresses, plans and clients: the plan is overrun by no more than the requests
\* that were counted at once; what is listed can be logged into and what is not cannot,
\* wherever requests, failures of the mail server and crashes met.
THEOREM MailboxesSound == MailSpec => []MailboxesAgree
<1>1. MailInv => MailboxesAgree
  <2> SUFFICES ASSUME MailInv PROVE MailboxesAgree
    OBVIOUS
  <2>1. MailboxLimit
    BY RowsFinite, MailboxesAssumption DEF MailInv, MailQuota, MailboxLimit
  <2>2. ListedBoxWorks /\ UnlistedIsDead
    BY DEF MailInv, MailSteady, ListedBoxWorks, UnlistedIsDead, Rows
  <2>3. QED
    BY <2>1, <2>2 DEF MailboxesAgree
<1>2. QED
  BY <1>1, MailInvHolds, PTL
-----------------------------------------------------------------------------
(* The backups *)

Proc == [at : BackupPlaces, bid : 0 .. MaxBackups, where : DirName, left : SUBSET Databases,
         todo : SUBSET Ids, alive : BOOLEAN, result : {"none", "completed", "failed"}]
\* A backup that can be restored, or that a removal or a second run has reached.
Whole(b) == bak[b].dir \in touched \/ dir[bak[b].dir].dumps = Databases

\* Rows at work are there; the nightly run never restores, and has a context that lives.
BakPlaces ==
    /\ \A g \in Goroutines :
        /\ proc[g].at \in {"dump", "find", "mark", "restore", "close"} =>
               proc[g].bid \in Ids /\ bak[proc[g].bid].status # "none"
        /\ proc[g].at = "close" => proc[g].result \in {"completed", "failed"}
        /\ \A b \in proc[g].todo : bak[b].status # "none"
    /\ proc[Scheduler].alive /\ proc[Scheduler].at \notin {"find", "mark", "restore"}

\* A removal leaves its mark before the rows go.
BakTouched ==
    /\ \A b \in Ids : bak[b].status = "gone" => bak[b].dir \in touched
    /\ \A g \in Goroutines : proc[g].at = "rows" => \A b \in proc[g].todo : bak[b].dir \in touched

\* No two listed backups share a directory that is not touched.
BakUnique == \A b, c \in Ids : Listed(b) /\ Listed(c) /\ bak[b].dir = bak[c].dir => b = c \/ bak[b].dir \in touched

\* What who has the flag knows of the row and the directory it works on.
BakWorks(g) ==
    /\ proc[g].at \in {"create", "dump"} => proc[g].where[2] = (g # Scheduler)
    /\ proc[g].at = "create" =>
           /\ proc[g].left = Databases
           /\ \A b \in Ids : Listed(b) /\ bak[b].dir = proc[g].where => proc[g].where \in touched
    /\ proc[g].at = "dump" =>
           /\ bak[proc[g].bid].dir = proc[g].where /\ bak[proc[g].bid].status \in {"running", "gone"}
           /\ proc[g].where \in touched \/ Databases \ proc[g].left \subseteq dir[proc[g].where].dumps
    /\ proc[g].at \in {"mark", "restore", "close"} => bak[proc[g].bid].dir = proc[g].where
    /\ proc[g].at \in {"mark", "restore"} \/ (proc[g].at = "close" /\ proc[g].result = "completed")
           => Whole(proc[g].bid)
BakWork == \A g \in Goroutines : BakWorks(g)

\* A directory has a row that stays, or its run is about to insert one, unless a
\* statement or a removal failed there.
Doomed == UNION {proc[g].todo : g \in {h \in Goroutines : proc[h].at = "rows"}}
Covered(d) == \E b \in Ids \ Doomed : Listed(b) /\ bak[b].dir = d
Orphaned(d) == dir[d].made /\ ~d[2] /\ d \notin failed /\ ~Covered(d) /\ ~(proc[Scheduler].at = "create" /\ proc[Scheduler].where = d)
BakNightly ==
    crashes = 0 =>
        /\ \A b \in Ids : bak[b].status = "running" /\ ~Manual(b) /\ bak[b].dir \notin failed =>
               proc[Scheduler].at \in {"dump", "close"} /\ proc[Scheduler].bid = b
        /\ \A d \in DirName : ~Orphaned(d)

BakInv ==
    /\ BackupsTypeOK /\ BakPlaces /\ BakTouched /\ BakUnique /\ BakWork
    /\ OneAtATime /\ CompletedIsWhole /\ BakNightly /\ crashes \in Nat

BakOthers(g) == \A h \in Goroutines \ {g} : proc'[h] = proc[h]

LEMMA NoProcType == NoProc \in Proc /\ NoProc.at = "idle" /\ NoProc.todo = {} /\ NoProc.alive
<1>1. <<0, FALSE>> \in DirName /\ 0 \in 0 .. MaxBackups
  <2>1. 0 \in 0 .. MaxSeconds /\ 0 \in 0 .. MaxBackups
    BY BackupsAssumption
  <2>2. QED
    BY <2>1 DEF DirName
<1>2. QED
  BY <1>1 DEF NoProc, Proc, BackupPlaces

LEMMA ReturnsEffect ==
    ASSUME BackupsTypeOK, NEW g \in Goroutines, Returns(g)
    PROVE  /\ proc' \in [Goroutines -> Proc] /\ BakOthers(g)
           /\ proc'[g].at \in {"idle", "clean"} /\ proc'[g].todo = {} /\ proc'[g].alive
<1>1. Returned(g) \in Proc /\ Returned(g).at \in {"idle", "clean"} /\ Returned(g).todo = {} /\ Returned(g).alive
  BY NoProcType DEF Returned, Proc, BackupPlaces
<1>2. QED
  BY <1>1 DEF Returns, BackupsTypeOK, Proc, BakOthers

LEMMA DoesEffect ==
    ASSUME BackupsTypeOK, NEW g \in Goroutines, NEW at \in BackupPlaces, Does(g, at)
    PROVE  /\ proc' \in [Goroutines -> Proc] /\ BakOthers(g)
           /\ proc'[g].at = at /\ proc'[g].bid = proc[g].bid /\ proc'[g].where = proc[g].where
           /\ proc'[g].left = proc[g].left /\ proc'[g].todo = proc[g].todo /\ proc'[g].alive = proc[g].alive
           /\ proc'[g].result = proc[g].result
<1>1. proc[g] \in Proc
  BY DEF BackupsTypeOK, Proc
<1>2. PICK q \in Proc :
          /\ q.at = at /\ q.bid = proc[g].bid /\ q.where = proc[g].where /\ q.left = proc[g].left
          /\ q.todo = proc[g].todo /\ q.alive = proc[g].alive /\ q.result = proc[g].result
          /\ proc' = [proc EXCEPT ![g] = q]
  <2>1. proc' = [proc EXCEPT ![g] = [proc[g] EXCEPT !.at = at]]
    BY DEF Does, BackupsTypeOK
  <2>2. QED
    BY <1>1, <2>1 DEF Proc
<1>3. QED
  BY <1>2 DEF BackupsTypeOK, Proc, BakOthers

\* A step of who has no flag and takes none: rows, directories and marks stay.
BakQuiet(g) ==
    /\ proc' \in [Goroutines -> Proc] /\ BakOthers(g)
    /\ UNCHANGED <<bak, dir, running, touched, failed, crashes>> /\ second' \in 0 .. MaxSeconds /\ asks' \in 0 .. MaxAsks
    /\ \/ /\ ~Runs(g) /\ proc'[g].at \in {"idle", "run", "find", "clean", "files"}
          /\ proc'[g].at = "find" => proc'[g].bid \in Ids /\ bak[proc'[g].bid].status # "none" /\ g # Scheduler
          /\ \A b \in proc'[g].todo : b \in Ids /\ bak[b].status # "none"
          /\ g = Scheduler => proc'[g].alive
       \/ /\ g # Scheduler
          /\ proc'[g].at = proc[g].at /\ proc'[g].bid = proc[g].bid /\ proc'[g].where = proc[g].where
          /\ proc'[g].left = proc[g].left /\ proc'[g].todo = proc[g].todo /\ proc'[g].result = proc[g].result

LEMMA BakQuietKept ==
    ASSUME BakInv, NEW g \in Goroutines, BakQuiet(g)
    PROVE  BakInv'
<1>0. /\ BackupsTypeOK /\ BakPlaces /\ BakTouched /\ BakUnique /\ BakWork
      /\ OneAtATime /\ CompletedIsWhole /\ BakNightly
      /\ UNCHANGED <<bak, dir, running, touched, failed, crashes>> /\ BakOthers(g)
  BY DEF BakInv, BakQuiet
<1>1. \A h \in Goroutines \ {g} : proc'[h] = proc[h]
  BY <1>0 DEF BakOthers
<1>2. \/ /\ ~Runs(g) /\ proc'[g].at \in {"idle", "run", "find", "clean", "files"}
      \/ proc'[g].at = proc[g].at
  BY DEF BakQuiet
<1>3. \A h \in Goroutines : Runs(h)' <=> Runs(h)
  BY <1>1, <1>2 DEF Runs
<1>4. BackupsTypeOK'
  BY <1>0 DEF BakQuiet, BackupsTypeOK, Proc
<1>5. BakPlaces'
  <2>1. /\ proc'[g].at \in {"dump", "find", "mark", "restore", "close"} =>
               proc'[g].bid \in Ids /\ bak'[proc'[g].bid].status # "none"
        /\ proc'[g].at = "close" => proc'[g].result \in {"completed", "failed"}
        /\ \A b \in proc'[g].todo : bak'[b].status # "none"
        /\ g = Scheduler => proc'[g].alive /\ proc'[g].at \notin {"find", "mark", "restore"}
    BY <1>0 DEF BakQuiet, BakPlaces, Runs
  <2>2. \A h \in Goroutines \ {g} :
            /\ proc'[h].at \in {"dump", "find", "mark", "restore", "close"} =>
                   proc'[h].bid \in Ids /\ bak'[proc'[h].bid].status # "none"
            /\ proc'[h].at = "close" => proc'[h].result \in {"completed", "failed"}
            /\ \A b \in proc'[h].todo : bak'[b].status # "none"
    BY <1>0, <1>1 DEF BakPlaces
  <2>3. Scheduler \in Goroutines /\ (g # Scheduler => proc'[Scheduler] = proc[Scheduler])
    BY <1>1 DEF Goroutines
  <2>4. proc'[Scheduler].alive /\ proc'[Scheduler].at \notin {"find", "mark", "restore"}
    BY <1>0, <2>1, <2>3 DEF BakPlaces
  <2>5. QED
    BY <2>1, <2>2, <2>4 DEF BakPlaces
<1>6. BakTouched'
  BY <1>0, <1>1 DEF BakTouched, BakQuiet
<1>7. BakUnique' /\ CompletedIsWhole'
  BY <1>0 DEF BakUnique, CompletedIsWhole, Listed
<1>8. BakWork'
  <2>1. BakWorks(g)'
    BY <1>0 DEF BakQuiet, BakWork, BakWorks, Listed, Whole
  <2>2. ASSUME NEW h \in Goroutines, h # g
        PROVE  BakWorks(h)'
    <3>1. BakWorks(h) /\ proc'[h] = proc[h]
      BY <1>0, <1>1, <2>2 DEF BakWork
    <3>2. QED
      BY <1>0, <3>1 DEF BakWorks, Listed, Whole
  <2>3. QED
    BY <2>1, <2>2 DEF BakWork
<1>9. OneAtATime'
  BY <1>0, <1>3 DEF OneAtATime
<1>10. BakNightly'
  <2>1. Doomed' \subseteq Doomed
    BY <1>1 DEF Doomed, BakQuiet
  <2>2. \A d \in DirName : Covered(d) => Covered(d)'
    BY <1>0, <2>1 DEF Covered, Listed
  <2>3. /\ proc[Scheduler].at \in {"create", "dump", "close"} =>
               /\ proc'[Scheduler].at = proc[Scheduler].at /\ proc'[Scheduler].bid = proc[Scheduler].bid
               /\ proc'[Scheduler].where = proc[Scheduler].where
    BY <1>1 DEF BakQuiet, Runs, Goroutines
  <2>4. \A d \in DirName : Orphaned(d)' => Orphaned(d)
    BY <1>0, <2>2, <2>3 DEF Orphaned
  <2>5. QED
    BY <1>0, <2>3, <2>4 DEF BakNightly, Manual
<1>11. QED
  BY <1>0, <1>4, <1>5, <1>6, <1>7, <1>8, <1>9, <1>10 DEF BakInv

\* A step of who has the flag, or takes it: nobody else is at work on a row.
BakFlag(g) ==
    /\ proc' \in [Goroutines -> Proc] /\ BakOthers(g)
    /\ Runs(g) \/ (~running /\ proc[g].at \in {"run", "find"})
    /\ running' \in BOOLEAN /\ (running' <=> Runs(g)')
    /\ proc'[g].at \in {"idle", "clean", "create", "dump", "mark", "restore", "close"}
    /\ proc'[g].todo \subseteq proc[g].todo
    /\ proc'[g].at \in {"dump", "mark", "restore", "close"} =>
           proc'[g].bid \in Ids /\ bak'[proc'[g].bid].status # "none"
    /\ proc'[g].at = "close" => proc'[g].result \in {"completed", "failed"}
    /\ g = Scheduler => proc'[g].alive /\ proc'[g].at \notin {"mark", "restore"}
    /\ bak' \in [Ids -> Backup]
    /\ dir' \in [DirName -> [made : BOOLEAN, dumps : SUBSET Databases]]
    /\ touched' \in SUBSET DirName /\ touched \subseteq touched'
    /\ failed' \in SUBSET DirName /\ failed \subseteq failed'
    /\ UNCHANGED <<second, asks, crashes>>
    /\ \A b \in Ids : bak[b].status # "none" =>
           /\ bak'[b].dir = bak[b].dir /\ bak'[b].status # "none"
           /\ bak'[b].status = "gone" <=> bak[b].status = "gone"
    /\ \A b \in Ids : bak[b].status = "none" => bak'[b].status # "gone"

LEMMA BakFlagKept ==
    ASSUME BakInv, NEW g \in Goroutines, BakFlag(g), BakWorks(g)'
    PROVE  /\ BackupsTypeOK' /\ BakPlaces' /\ BakTouched' /\ BakWork' /\ OneAtATime'
           /\ \A d \in DirName : Covered(d) => Covered(d)'
           /\ g # Scheduler => proc'[Scheduler] = proc[Scheduler]
           /\ \A h \in Goroutines \ {g} : ~Runs(h)
           /\ Doomed' \subseteq Doomed /\ \A b \in Doomed : bak[b].status # "none"
<1>0. /\ BackupsTypeOK /\ BakPlaces /\ BakTouched /\ BakUnique /\ BakWork
      /\ OneAtATime /\ CompletedIsWhole /\ BakNightly
  BY DEF BakInv
<1>1. \A h \in Goroutines \ {g} : proc'[h] = proc[h]
  BY DEF BakFlag, BakOthers
<1>2. \A h \in Goroutines \ {g} : ~Runs(h) /\ ~Runs(h)'
  BY <1>0, <1>1 DEF BakFlag, OneAtATime, Runs
<1>3. BackupsTypeOK'
  BY <1>0 DEF BakFlag, BackupsTypeOK, Proc
<1>4. Scheduler \in Goroutines /\ (g # Scheduler => proc'[Scheduler] = proc[Scheduler])
  BY <1>1 DEF Goroutines
<1>5. \A h \in Goroutines : proc[h] \in Proc
  BY <1>0 DEF BackupsTypeOK, Proc
<1>6. BakPlaces'
  <2>1. /\ proc'[g].at \in {"dump", "find", "mark", "restore", "close"} =>
               proc'[g].bid \in Ids /\ bak'[proc'[g].bid].status # "none"
        /\ proc'[g].at = "close" => proc'[g].result \in {"completed", "failed"}
    BY DEF BakFlag
  <2>2. \A b \in proc'[g].todo : bak'[b].status # "none"
    BY <1>0, <1>5 DEF BakFlag, BakPlaces, Proc
  <2>3. \A h \in Goroutines \ {g} :
            /\ proc'[h].at \in {"dump", "find", "mark", "restore", "close"} =>
                   proc'[h].bid \in Ids /\ bak'[proc'[h].bid].status # "none"
            /\ proc'[h].at = "close" => proc'[h].result \in {"completed", "failed"}
            /\ \A b \in proc'[h].todo : bak'[b].status # "none"
    BY <1>0, <1>1, <1>5 DEF BakFlag, BakPlaces, Proc
  <2>4. proc'[Scheduler].alive /\ proc'[Scheduler].at \notin {"find", "mark", "restore"}
    BY <1>0, <1>4 DEF BakFlag, BakPlaces
  <2>5. QED
    BY <2>1, <2>2, <2>3, <2>4 DEF BakPlaces
<1>7. BakTouched'
  <2>1. \A b \in Ids : bak'[b].status = "gone" => bak'[b].dir \in touched'
    BY <1>0 DEF BakFlag, BakTouched
  <2>2. \A h \in Goroutines : proc'[h].at = "rows" => h # g /\ \A b \in proc[h].todo : bak[b].dir \in touched
    BY <1>0, <1>1 DEF BakFlag, BakTouched
  <2>3. \A h \in Goroutines : proc'[h].at = "rows" => \A b \in proc'[h].todo :
            b \in Ids /\ bak[b].status # "none" /\ bak[b].dir \in touched
    BY <1>0, <1>1, <1>5, <2>2 DEF BakPlaces, Proc
  <2>4. QED
    BY <2>1, <2>3 DEF BakFlag, BakTouched
<1>8. BakWork'
  BY <1>2 DEF BakWork, BakWorks, Runs
<1>9. OneAtATime'
  BY <1>2 DEF OneAtATime, BakFlag
<1>10. Doomed' \subseteq Doomed
  BY <1>1 DEF Doomed, BakFlag
<1>11. \A d \in DirName : Covered(d) => Covered(d)'
  BY <1>10 DEF Covered, Listed, BakFlag
<1>12. \A b \in Doomed : bak[b].status # "none"
  BY <1>0 DEF Doomed, BakPlaces
<1>13. QED
  BY <1>2, <1>3, <1>4, <1>6, <1>7, <1>8, <1>9, <1>10, <1>11, <1>12

\* A step of the flag's holder that leaves rows, directories and marks alone.
BakStill(g) ==
    /\ BakFlag(g) /\ UNCHANGED <<bak, dir, touched>>
    /\ g = Scheduler => \/ proc[g].at = "dump" /\ proc'[g].at = "close" /\ proc'[g].bid = proc[g].bid
                        \/ proc[g].at = "create" /\ proc[g].where \in failed'

LEMMA BakStillKept ==
    ASSUME BakInv, NEW g \in Goroutines, BakStill(g), BakWorks(g)'
    PROVE  BakInv'
<1>0. BakUnique /\ CompletedIsWhole /\ BakNightly /\ BakFlag(g) /\ UNCHANGED <<bak, dir, touched, crashes>>
  BY DEF BakInv, BakStill, BakFlag
<1>1. /\ BackupsTypeOK' /\ BakPlaces' /\ BakTouched' /\ BakWork' /\ OneAtATime'
      /\ \A d \in DirName : Covered(d) => Covered(d)'
      /\ g # Scheduler => proc'[Scheduler] = proc[Scheduler]
  BY <1>0, BakFlagKept
<1>2. BakUnique' /\ CompletedIsWhole'
  BY <1>0 DEF BakUnique, CompletedIsWhole, Listed
<1>3. BakNightly'
  <2>1. \A d \in DirName : Orphaned(d)' => Orphaned(d)
    BY <1>0, <1>1 DEF Orphaned, BakStill, BakFlag
  <2>2. QED
    BY <1>0, <1>1, <2>1 DEF BakNightly, Manual, BakStill, BakFlag
<1>4. QED
  BY <1>0, <1>1, <1>2, <1>3 DEF BakInv

LEMMA AllDumpedKept ==
    ASSUME BakInv, NEW g \in Goroutines, AllDumped(g)
    PROVE  BakInv'
<1>0. BackupsTypeOK /\ BakPlaces /\ BakWork /\ OneAtATime /\ proc[g] \in Proc /\ proc[g].at = "dump"
  BY DEF BakInv, BackupsTypeOK, Proc, AllDumped
<1>1. PICK q \in Proc :
          /\ q.at = "close" /\ q.result = "completed" /\ q.bid = proc[g].bid /\ q.where = proc[g].where
          /\ q.todo = proc[g].todo /\ q.alive = proc[g].alive
          /\ proc' = [proc EXCEPT ![g] = q]
  <2>1. proc' = [proc EXCEPT ![g] = [proc[g] EXCEPT !.at = "close", !.result = "completed"]]
    BY <1>0 DEF AllDumped, BackupsTypeOK
  <2>2. QED
    BY <1>0, <2>1 DEF Proc, BackupPlaces
<1>2. proc' \in [Goroutines -> Proc] /\ BakOthers(g) /\ proc'[g] = q
  BY <1>0, <1>1 DEF BackupsTypeOK, Proc, BakOthers
<1>3. BakStill(g)
  BY <1>0, <1>1, <1>2 DEF BakStill, BakFlag, AllDumped, Runs, BakPlaces, OneAtATime, BackupsTypeOK
<1>4. BakWorks(g)'
  <2>1. proc[g].left = {} /\ proc[g].bid \in Ids /\ BakWorks(g) /\ UNCHANGED <<bak, dir, touched>>
    BY <1>0 DEF AllDumped, BakPlaces, BakWork
  <2>2. dir[proc[g].where].dumps \subseteq Databases
    BY <1>0 DEF BackupsTypeOK, Proc
  <2>3. Whole(proc[g].bid)
    BY <1>0, <2>1, <2>2 DEF BakWorks, Whole
  <2>4. QED
    BY <1>0, <1>1, <1>2, <2>1, <2>3 DEF BakWorks, Whole
<1>5. QED
  BY <1>3, <1>4, BakStillKept

\* Without the flag there is nobody at work.
LEMMA FailsEffect ==
    ASSUME BackupsTypeOK, NEW g \in Goroutines, NEW d \in DirName, Fails(g, d)
    PROVE  /\ failed' \in SUBSET DirName /\ failed \subseteq failed'
           /\ proc[g].alive /\ ~d[2] => d \in failed'
BY DEF Fails, BackupsTypeOK

LEMMA CreateRowFailsKept ==
    ASSUME BakInv, NEW g \in Goroutines, CreateRowFails(g)
    PROVE  BakInv'
<1>0. /\ BackupsTypeOK /\ BakPlaces /\ BakWorks(g) /\ OneAtATime /\ proc[g].at = "create" /\ proc[g].where \in DirName
      /\ UNCHANGED <<bak, dir, second, asks, touched, crashes>>
  BY DEF BakInv, CreateRowFails, BakWork, BackupsTypeOK
<1>1. /\ proc' \in [Goroutines -> Proc] /\ BakOthers(g)
      /\ proc'[g].at \in {"idle", "clean"} /\ proc'[g].todo = {} /\ proc'[g].alive
  BY <1>0, ReturnsEffect DEF CreateRowFails
<1>2. /\ failed' \in SUBSET DirName /\ failed \subseteq failed'
      /\ g = Scheduler => proc[g].where \in failed'
  <2>1. Fails(g, proc[g].where) /\ (g = Scheduler => proc[g].alive /\ ~proc[g].where[2])
    BY <1>0 DEF CreateRowFails, BakPlaces, BakWorks
  <2>2. QED
    BY <1>0, <2>1, FailsEffect
<1>3. BakStill(g)
  BY <1>0, <1>1, <1>2 DEF BakStill, BakFlag, CreateRowFails, Runs, OneAtATime, BackupsTypeOK
<1>4. BakWorks(g)'
  BY <1>1 DEF BakWorks
<1>5. QED
  BY <1>3, <1>4, BakStillKept

LEMMA BeginRestoreKept ==
    ASSUME BakInv, NEW c \in Clients, c # Scheduler, BeginRestore(c)
    PROVE  BakInv'
<1>0. /\ BackupsTypeOK /\ BakPlaces /\ BakWork /\ OneAtATime /\ CompletedIsWhole /\ c \in Goroutines
      /\ proc[c] \in Proc /\ proc[c].at = "find" /\ proc[c].bid \in Ids /\ bak[proc[c].bid].status = "completed"
  BY DEF BakInv, BackupsTypeOK, Proc, BeginRestore, BakPlaces, Goroutines
<1>1. bak[proc[c].bid].dir \in DirName
  BY <1>0 DEF BackupsTypeOK, Backup
<1>2. PICK q \in Proc :
          /\ q.at = "mark" /\ q.bid = proc[c].bid /\ q.where = bak[proc[c].bid].dir /\ q.todo = proc[c].todo
          /\ proc' = [proc EXCEPT ![c] = q]
  <2>1. proc' = [proc EXCEPT ![c] = [proc[c] EXCEPT !.at = "mark", !.where = bak[proc[c].bid].dir,
                                                   !.left = Databases]]
    BY <1>0 DEF BeginRestore, BackupsTypeOK
  <2>2. QED
    BY <1>0, <1>1, <2>1 DEF Proc, BackupPlaces
<1>3. proc' \in [Goroutines -> Proc] /\ BakOthers(c) /\ proc'[c] = q
  BY <1>0, <1>2 DEF BackupsTypeOK, Proc, BakOthers
<1>4. BakStill(c)
  BY <1>0, <1>2, <1>3 DEF BakStill, BakFlag, BeginRestore, MayRun, Runs, BackupsTypeOK
<1>5. BakWorks(c)'
  BY <1>0, <1>2, <1>3 DEF BakWorks, Whole, CompletedIsWhole, BeginRestore
<1>6. QED
  BY <1>0, <1>4, <1>5, BakStillKept

LEMMA RestoreOneKept ==
    ASSUME BakInv, NEW c \in Clients, c # Scheduler, NEW db \in Databases, RestoreOne(c, db)
    PROVE  BakInv'
<1>0. /\ BackupsTypeOK /\ BakPlaces /\ BakWork /\ OneAtATime /\ c \in Goroutines
      /\ proc[c] \in Proc /\ proc[c].at = "restore"
  BY DEF BakInv, BackupsTypeOK, Proc, RestoreOne, Goroutines
<1>1. PICK q \in Proc :
          /\ q.at = "restore" /\ q.bid = proc[c].bid /\ q.where = proc[c].where /\ q.todo = proc[c].todo
          /\ proc' = [proc EXCEPT ![c] = q]
  <2>1. proc' = [proc EXCEPT ![c] = [proc[c] EXCEPT !.left = @ \ {db}]]
    BY <1>0 DEF RestoreOne, BackupsTypeOK
  <2>2. QED
    BY <1>0, <2>1 DEF Proc, BackupPlaces
<1>2. proc' \in [Goroutines -> Proc] /\ BakOthers(c) /\ proc'[c] = q
  BY <1>0, <1>1 DEF BackupsTypeOK, Proc, BakOthers
<1>3. BakStill(c)
  BY <1>0, <1>1, <1>2 DEF BakStill, BakFlag, RestoreOne, BakPlaces, Runs, OneAtATime, BackupsTypeOK
<1>4. BakWorks(c)'
  BY <1>0, <1>1, <1>2 DEF BakWorks, Whole, BakWork, RestoreOne
<1>5. QED
  BY <1>0, <1>3, <1>4, BakStillKept

LEMMA RestoreEndsKept ==
    ASSUME BakInv, NEW c \in Clients, c # Scheduler, RestoreEnds(c)
    PROVE  BakInv'
<1>0. /\ BackupsTypeOK /\ BakPlaces /\ BakWork /\ OneAtATime /\ c \in Goroutines
      /\ proc[c] \in Proc /\ proc[c].at = "restore"
  BY DEF BakInv, BackupsTypeOK, Proc, RestoreEnds, Goroutines
<1>1. PICK q \in Proc :
          /\ q.at = "close" /\ q.result = "completed" /\ q.bid = proc[c].bid
          /\ q.where = proc[c].where /\ q.todo = proc[c].todo
          /\ proc' = [proc EXCEPT ![c] = q]
  <2>1. proc' = [proc EXCEPT ![c] = [proc[c] EXCEPT !.at = "close", !.result = "completed"]]
    BY <1>0 DEF RestoreEnds, BackupsTypeOK
  <2>2. QED
    BY <1>0, <2>1 DEF Proc, BackupPlaces
<1>2. proc' \in [Goroutines -> Proc] /\ BakOthers(c) /\ proc'[c] = q
  BY <1>0, <1>1 DEF BackupsTypeOK, Proc, BakOthers
<1>3. BakStill(c)
  BY <1>0, <1>1, <1>2 DEF BakStill, BakFlag, RestoreEnds, BakPlaces, Runs, OneAtATime, BackupsTypeOK
<1>4. BakWorks(c)'
  BY <1>0, <1>1, <1>2 DEF BakWorks, Whole, BakWork, RestoreEnds
<1>5. QED
  BY <1>0, <1>3, <1>4, BakStillKept

\* The verdict falls on the row that is worked on, if it is there.
LEMMA SetStatusEffect ==
    ASSUME BackupsTypeOK, NEW g \in Goroutines, proc[g].bid \in Ids,
           NEW status \in {"completed", "failed", "restoring"}, SetStatus(g, status)
    PROVE  /\ bak' \in [Ids -> Backup]
           /\ \A b \in Ids : bak'[b].dir = bak[b].dir /\ (Listed(b)' <=> Listed(b))
                             /\ (~Listed(b) => bak'[b].status = bak[b].status)
           /\ \A b \in Ids \ {proc[g].bid} : bak'[b].status = bak[b].status
           /\ bak'[proc[g].bid].status \in {status, bak[proc[g].bid].status}
           /\ failed' \in SUBSET DirName /\ failed \subseteq failed'
           /\ proc[g].alive /\ Listed(proc[g].bid) /\ ~proc[g].where[2] =>
                  bak'[proc[g].bid].status = status \/ proc[g].where \in failed'
<1>1. bak \in [Ids -> Backup] /\ proc[g].where \in DirName /\ failed \in SUBSET DirName
  BY DEF BackupsTypeOK
<1>2. CASE /\ proc[g].alive /\ Listed(proc[g].bid) /\ failed' = failed
           /\ bak' = [bak EXCEPT ![proc[g].bid].status = status]
  <2>1. PICK r \in Backup :
            /\ r.status = status /\ r.dir = bak[proc[g].bid].dir
            /\ bak' = [bak EXCEPT ![proc[g].bid] = r]
    <3>1. bak' = [bak EXCEPT ![proc[g].bid] = [bak[proc[g].bid] EXCEPT !.status = status]]
      BY <1>1, <1>2
    <3>2. bak[proc[g].bid] \in Backup
      BY <1>1
    <3>3. QED
      BY <3>1, <3>2 DEF Backup, BackupStatus
  <2>2. QED
    BY <1>1, <1>2, <2>1 DEF Listed
<1>3. CASE bak' = bak /\ Fails(g, proc[g].where)
  <2>1. /\ failed' \in SUBSET DirName /\ failed \subseteq failed'
        /\ proc[g].alive /\ ~proc[g].where[2] => proc[g].where \in failed'
    BY <1>1, <1>3, FailsEffect
  <2>2. QED
    BY <1>1, <1>3, <2>1 DEF Listed
<1>4. CASE bak' = bak /\ ~Listed(proc[g].bid) /\ failed' = failed
  BY <1>1, <1>4 DEF Listed
<1>5. QED
  BY <1>2, <1>3, <1>4 DEF SetStatus

LEMMA CloseKept ==
    ASSUME BakInv, NEW g \in Goroutines, Close(g)
    PROVE  BakInv'
<1>0. /\ BackupsTypeOK /\ BakPlaces /\ BakWork /\ BakUnique /\ OneAtATime /\ CompletedIsWhole /\ BakNightly
      /\ proc[g] \in Proc /\ proc[g].at = "close" /\ BakWorks(g)
      /\ proc[g].bid \in Ids /\ bak[proc[g].bid].status # "none" /\ proc[g].result \in {"completed", "failed"}
      /\ UNCHANGED <<dir, second, asks, touched, crashes>> /\ ~running'
  BY DEF BakInv, BackupsTypeOK, Proc, Close, BakPlaces, BakWork
<1>1. /\ proc' \in [Goroutines -> Proc] /\ BakOthers(g)
      /\ proc'[g].at \in {"idle", "clean"} /\ proc'[g].todo = {} /\ proc'[g].alive
  BY <1>0, ReturnsEffect DEF Close
<1>2. /\ bak' \in [Ids -> Backup]
      /\ \A b \in Ids : bak'[b].dir = bak[b].dir /\ (Listed(b)' <=> Listed(b))
                        /\ (~Listed(b) => bak'[b].status = bak[b].status)
      /\ \A b \in Ids \ {proc[g].bid} : bak'[b].status = bak[b].status
      /\ bak'[proc[g].bid].status \in {proc[g].result, bak[proc[g].bid].status}
      /\ failed' \in SUBSET DirName /\ failed \subseteq failed'
      /\ proc[g].alive /\ Listed(proc[g].bid) /\ ~proc[g].where[2] =>
             bak'[proc[g].bid].status = proc[g].result \/ proc[g].where \in failed'
  <2>1. SetStatus(g, proc[g].result) /\ proc[g].result \in {"completed", "failed", "restoring"}
    BY <1>0 DEF Close
  <2>2. QED
    BY <1>0, <2>1, SetStatusEffect
<1>3. BakFlag(g)
  <2>1. running' \in BOOLEAN /\ (running' <=> Runs(g)') /\ Runs(g)
    BY <1>0, <1>1 DEF Runs, Close
  <2>2. \A b \in Ids : bak[b].status # "none" =>
            /\ bak'[b].dir = bak[b].dir /\ bak'[b].status # "none"
            /\ bak'[b].status = "gone" <=> bak[b].status = "gone"
    BY <1>2 DEF Listed
  <2>3. \A b \in Ids : bak[b].status = "none" => bak'[b].status # "gone"
    BY <1>2 DEF Listed
  <2>4. QED
    BY <1>0, <1>1, <1>2, <2>1, <2>2, <2>3 DEF BakFlag, BackupsTypeOK
<1>4. BakWorks(g)'
  BY <1>1 DEF BakWorks
<1>5. /\ BackupsTypeOK' /\ BakPlaces' /\ BakTouched' /\ BakWork' /\ OneAtATime'
      /\ \A d \in DirName : Covered(d) => Covered(d)'
      /\ g # Scheduler => proc'[Scheduler] = proc[Scheduler]
      /\ \A h \in Goroutines \ {g} : ~Runs(h)
  BY <1>3, <1>4, BakFlagKept
<1>6. BakUnique'
  BY <1>0, <1>2 DEF BakUnique
<1>7. CompletedIsWhole'
  <2>1. ASSUME NEW b \in Ids, bak'[b].status = "completed", bak'[b].dir \notin touched'
        PROVE  dir'[bak'[b].dir].dumps = Databases
    <3>1. CASE bak[b].status = "completed"
      BY <1>0, <1>2, <2>1, <3>1 DEF CompletedIsWhole
    <3>2. CASE bak[b].status # "completed"
      <4>1. b = proc[g].bid /\ proc[g].result = "completed"
        BY <1>2, <2>1, <3>2
      <4>2. Whole(proc[g].bid)
        BY <1>0, <4>1 DEF BakWorks
      <4>3. QED
        BY <1>0, <1>2, <2>1, <4>1, <4>2 DEF Whole
    <3>3. QED
      BY <3>1, <3>2
  <2>2. QED
    BY <2>1 DEF CompletedIsWhole
<1>8. BakNightly'
  <2>1. \A d \in DirName : Orphaned(d)' => Orphaned(d)
    BY <1>0, <1>1, <1>2, <1>5 DEF Orphaned
  <2>2. ASSUME crashes = 0, NEW b \in Ids, bak'[b].status = "running", ~bak'[b].dir[2], bak'[b].dir \notin failed'
        PROVE  proc'[Scheduler].at \in {"dump", "close"} /\ proc'[Scheduler].bid = b
    <3>1. bak[b].status = "running" /\ ~bak[b].dir[2] /\ bak[b].dir \notin failed
      BY <1>0, <1>2, <2>2
    <3>2. proc[Scheduler].at \in {"dump", "close"} /\ proc[Scheduler].bid = b
      BY <1>0, <2>2, <3>1 DEF BakNightly, Manual
    <3>3. g = Scheduler => proc[g].alive /\ Listed(b) /\ b = proc[g].bid /\ proc[g].where = bak[b].dir
      BY <1>0, <3>1, <3>2 DEF BakPlaces, Listed, BakWorks
    <3>4. g # Scheduler
      BY <1>0, <1>2, <2>2, <3>3
    <3>5. QED
      BY <1>5, <3>2, <3>4
  <2>3. QED
    BY <1>0, <2>1, <2>2 DEF BakNightly, Manual
<1>9. QED
  BY <1>0, <1>5, <1>6, <1>7, <1>8 DEF BakInv

LEMMA MarkRestoringKept ==
    ASSUME BakInv, NEW c \in Clients, c # Scheduler, MarkRestoring(c)
    PROVE  BakInv'
<1>0. /\ BackupsTypeOK /\ BakPlaces /\ BakWork /\ BakUnique /\ OneAtATime /\ CompletedIsWhole /\ BakNightly
      /\ c \in Goroutines /\ proc[c] \in Proc /\ proc[c].at = "mark" /\ BakWorks(c)
      /\ proc[c].bid \in Ids /\ bak[proc[c].bid].status # "none"
      /\ UNCHANGED <<dir, running, second, asks, touched, crashes>>
  BY DEF BakInv, BackupsTypeOK, Proc, MarkRestoring, BakPlaces, BakWork, Goroutines
<1>1. /\ proc' \in [Goroutines -> Proc] /\ BakOthers(c)
      /\ proc'[c].at = "restore" /\ proc'[c].bid = proc[c].bid
      /\ proc'[c].where = proc[c].where /\ proc'[c].todo = proc[c].todo
  BY <1>0, DoesEffect DEF MarkRestoring, BackupPlaces
<1>2. /\ bak' \in [Ids -> Backup]
      /\ \A b \in Ids : bak'[b].dir = bak[b].dir /\ (Listed(b)' <=> Listed(b))
                        /\ (~Listed(b) => bak'[b].status = bak[b].status)
      /\ \A b \in Ids \ {proc[c].bid} : bak'[b].status = bak[b].status
      /\ bak'[proc[c].bid].status \in {"restoring", bak[proc[c].bid].status}
      /\ failed' \in SUBSET DirName /\ failed \subseteq failed'
  <2>1. SetStatus(c, "restoring") /\ "restoring" \in {"completed", "failed", "restoring"}
    BY <1>0 DEF MarkRestoring
  <2>2. QED
    BY <1>0, <2>1, SetStatusEffect
<1>3. BakFlag(c)
  <2>1. running' \in BOOLEAN /\ (running' <=> Runs(c)') /\ Runs(c)
    BY <1>0, <1>1 DEF Runs, OneAtATime, BackupsTypeOK
  <2>2. \A b \in Ids : bak[b].status # "none" =>
            /\ bak'[b].dir = bak[b].dir /\ bak'[b].status # "none"
            /\ bak'[b].status = "gone" <=> bak[b].status = "gone"
    BY <1>2 DEF Listed
  <2>3. \A b \in Ids : bak[b].status = "none" => bak'[b].status # "gone"
    BY <1>2 DEF Listed
  <2>4. QED
    BY <1>0, <1>1, <1>2, <2>1, <2>2, <2>3 DEF BakFlag, BackupsTypeOK
<1>4. BakWorks(c)'
  BY <1>0, <1>1, <1>2 DEF BakWorks, Whole
<1>5. /\ BackupsTypeOK' /\ BakPlaces' /\ BakTouched' /\ BakWork' /\ OneAtATime'
      /\ \A d \in DirName : Covered(d) => Covered(d)'
      /\ proc'[Scheduler] = proc[Scheduler]
  BY <1>0, <1>3, <1>4, BakFlagKept
<1>6. BakUnique'
  BY <1>0, <1>2 DEF BakUnique
<1>7. CompletedIsWhole'
  BY <1>0, <1>2 DEF CompletedIsWhole
<1>8. BakNightly'
  <2>1. \A d \in DirName : Orphaned(d)' => Orphaned(d)
    BY <1>0, <1>1, <1>2, <1>5 DEF Orphaned
  <2>2. \A b \in Ids : bak'[b].status = "running" => bak[b].status = "running"
    BY <1>2
  <2>3. QED
    BY <1>0, <1>2, <1>5, <2>1, <2>2 DEF BakNightly, Manual
<1>9. QED
  BY <1>0, <1>5, <1>6, <1>7, <1>8 DEF BakInv

\* A dump only adds to the directory of the run.
LEMMA DumpKept ==
    ASSUME BakInv, NEW g \in Goroutines, NEW db \in Databases, Dump(g, db)
    PROVE  BakInv'
<1>0. /\ BackupsTypeOK /\ BakPlaces /\ BakWork /\ BakUnique /\ OneAtATime /\ CompletedIsWhole /\ BakNightly
      /\ proc[g] \in Proc /\ proc[g].at = "dump" /\ BakWorks(g) /\ db \in proc[g].left
      /\ proc[g].bid \in Ids /\ bak[proc[g].bid].status # "none" /\ proc[g].where \in DirName
      /\ UNCHANGED <<bak, running, second, asks, touched, failed, crashes>>
  BY DEF BakInv, BackupsTypeOK, Proc, Dump, BakPlaces, BakWork
<1>1. PICK q \in Proc :
          /\ q.at = "dump" /\ q.bid = proc[g].bid /\ q.where = proc[g].where /\ q.todo = proc[g].todo
          /\ q.left = proc[g].left \ {db} /\ q.alive = proc[g].alive
          /\ proc' = [proc EXCEPT ![g] = q]
  <2>1. proc' = [proc EXCEPT ![g] = [proc[g] EXCEPT !.left = @ \ {db}]]
    BY <1>0 DEF Dump, BackupsTypeOK
  <2>2. QED
    BY <1>0, <2>1 DEF Proc, BackupPlaces
<1>2. proc' \in [Goroutines -> Proc] /\ BakOthers(g) /\ proc'[g] = q
  BY <1>0, <1>1 DEF BackupsTypeOK, Proc, BakOthers
<1>3. /\ dir' \in [DirName -> [made : BOOLEAN, dumps : SUBSET Databases]]
      /\ \A d \in DirName : dir'[d].made = dir[d].made /\ dir[d].dumps \subseteq dir'[d].dumps
      /\ dir'[proc[g].where].dumps = dir[proc[g].where].dumps \cup {db}
  <2>1. dir' = [dir EXCEPT ![proc[g].where] = [dir[proc[g].where] EXCEPT !.dumps = @ \cup {db}]]
    BY <1>0 DEF Dump, BackupsTypeOK
  <2>2. QED
    BY <1>0, <2>1 DEF BackupsTypeOK
<1>4. BakFlag(g)
  BY <1>0, <1>1, <1>2, <1>3 DEF BakFlag, BackupsTypeOK, Runs, OneAtATime, BakPlaces
<1>5. BakWorks(g)'
  BY <1>0, <1>1, <1>2, <1>3 DEF BakWorks
<1>6. /\ BackupsTypeOK' /\ BakPlaces' /\ BakTouched' /\ BakWork' /\ OneAtATime'
      /\ \A d \in DirName : Covered(d) => Covered(d)'
      /\ g # Scheduler => proc'[Scheduler] = proc[Scheduler]
  BY <1>4, <1>5, BakFlagKept
<1>7. BakUnique'
  BY <1>0 DEF BakUnique, Listed
<1>8. CompletedIsWhole'
  <2>1. \A d \in DirName : dir'[d].dumps \subseteq Databases /\ dir[d].dumps \subseteq dir'[d].dumps
    BY <1>3
  <2>2. \A b \in Ids : bak[b].dir \in DirName
    BY <1>0 DEF BackupsTypeOK, Backup
  <2>3. \A d \in DirName : dir[d].dumps = Databases => dir'[d].dumps = Databases
    BY <2>1
  <2>4. QED
    BY <1>0, <2>2, <2>3 DEF CompletedIsWhole
<1>9. BakNightly'
  <2>1. \A d \in DirName : Orphaned(d)' => Orphaned(d)
    BY <1>0, <1>1, <1>2, <1>3, <1>6 DEF Orphaned
  <2>2. QED
    BY <1>0, <1>1, <1>2, <1>6, <2>1 DEF BakNightly, Manual
<1>10. QED
  BY <1>0, <1>6, <1>7, <1>8, <1>9 DEF BakInv

\* A failed dump takes a file from the directory; no completed backup is in it.
LEMMA DumpFailsKept ==
    ASSUME BakInv, NEW g \in Goroutines, NEW db \in Databases, DumpFails(g, db)
    PROVE  BakInv'
<1>0. /\ BackupsTypeOK /\ BakPlaces /\ BakTouched /\ BakWork /\ BakUnique
      /\ OneAtATime /\ CompletedIsWhole /\ BakNightly
      /\ proc[g] \in Proc /\ proc[g].at = "dump" /\ BakWorks(g)
      /\ proc[g].bid \in Ids /\ bak[proc[g].bid].status # "none" /\ proc[g].where \in DirName
      /\ UNCHANGED <<bak, running, second, asks, touched, failed, crashes>>
  BY DEF BakInv, BackupsTypeOK, Proc, DumpFails, BakPlaces, BakWork
<1>1. PICK q \in Proc :
          /\ q.at = "close" /\ q.result = "failed" /\ q.bid = proc[g].bid /\ q.where = proc[g].where
          /\ q.todo = proc[g].todo /\ q.alive = proc[g].alive
          /\ proc' = [proc EXCEPT ![g] = q]
  <2>1. proc' = [proc EXCEPT ![g] = [proc[g] EXCEPT !.at = "close", !.result = "failed"]]
    BY <1>0 DEF DumpFails, BackupsTypeOK
  <2>2. QED
    BY <1>0, <2>1 DEF Proc, BackupPlaces
<1>2. proc' \in [Goroutines -> Proc] /\ BakOthers(g) /\ proc'[g] = q
  BY <1>0, <1>1 DEF BackupsTypeOK, Proc, BakOthers
<1>3. /\ dir' \in [DirName -> [made : BOOLEAN, dumps : SUBSET Databases]]
      /\ \A d \in DirName : dir'[d].made = dir[d].made
      /\ \A d \in DirName : d # proc[g].where => dir'[d].dumps = dir[d].dumps
  <2>1. dir' = [dir EXCEPT ![proc[g].where] = [dir[proc[g].where] EXCEPT !.dumps = @ \ {db}]]
    BY <1>0 DEF DumpFails, BackupsTypeOK
  <2>2. QED
    BY <1>0, <2>1 DEF BackupsTypeOK
<1>4. BakFlag(g)
  BY <1>0, <1>1, <1>2, <1>3 DEF BakFlag, BackupsTypeOK, Runs, OneAtATime, BakPlaces
<1>5. BakWorks(g)'
  BY <1>0, <1>1, <1>2 DEF BakWorks
<1>6. /\ BackupsTypeOK' /\ BakPlaces' /\ BakTouched' /\ BakWork' /\ OneAtATime'
      /\ \A d \in DirName : Covered(d) => Covered(d)'
      /\ g # Scheduler => proc'[Scheduler] = proc[Scheduler]
  BY <1>4, <1>5, BakFlagKept
<1>7. BakUnique'
  BY <1>0 DEF BakUnique, Listed
<1>8. CompletedIsWhole'
  <2>1. ASSUME NEW b \in Ids, bak[b].status = "completed", bak[b].dir = proc[g].where, bak[b].dir \notin touched
        PROVE  FALSE
    <3>1. bak[proc[g].bid].dir = proc[g].where /\ bak[proc[g].bid].status \in {"running", "gone"}
      BY <1>0 DEF BakWorks
    <3>2. bak[proc[g].bid].status # "gone"
      BY <1>0, <2>1, <3>1 DEF BakTouched
    <3>3. QED
      BY <1>0, <2>1, <3>1, <3>2 DEF BakUnique, Listed
  <2>2. QED
    BY <1>0, <1>3, <2>1 DEF CompletedIsWhole, BackupsTypeOK, Backup
<1>9. BakNightly'
  <2>1. \A d \in DirName : Orphaned(d)' => Orphaned(d)
    BY <1>0, <1>1, <1>2, <1>3, <1>6 DEF Orphaned
  <2>2. QED
    BY <1>0, <1>1, <1>2, <1>6, <2>1 DEF BakNightly, Manual
<1>10. QED
  BY <1>0, <1>6, <1>7, <1>8, <1>9 DEF BakInv

LEMMA BeginRunKept ==
    ASSUME BakInv, NEW g \in Goroutines, BeginRun(g)
    PROVE  BakInv'
<1>0. /\ BackupsTypeOK /\ BakPlaces /\ BakUnique /\ OneAtATime /\ CompletedIsWhole /\ BakNightly
      /\ proc[g] \in Proc /\ proc[g].at = "run" /\ ~running /\ running'
      /\ UNCHANGED <<bak, second, asks, failed, crashes>>
  BY DEF BakInv, BackupsTypeOK, Proc, BeginRun, MayRun
<1>1. PICK d \in DirName : d = <<second, g # Scheduler>> /\ d[2] = (g # Scheduler)
  <2>1. PICK m \in BOOLEAN : m = (g # Scheduler)
    OBVIOUS
  <2>2. <<second, m>> \in DirName /\ <<second, m>>[2] = m
    BY <1>0 DEF BackupsTypeOK, DirName
  <2>3. <<second, m>> = <<second, g # Scheduler>>
    BY <2>1
  <2>4. QED
    BY <2>1, <2>2, <2>3
<1>2. PICK q \in Proc :
          /\ q.at = "create" /\ q.bid = proc[g].bid /\ q.where = d /\ q.todo = proc[g].todo
          /\ q.alive = proc[g].alive /\ q.left = Databases
          /\ proc' = [proc EXCEPT ![g] = q]
  <2>1. proc' = [proc EXCEPT ![g] = [proc[g] EXCEPT !.at = "create", !.where = d, !.left = Databases]]
    BY <1>0, <1>1 DEF BeginRun, BackupsTypeOK
  <2>2. QED
    BY <1>0, <1>1, <2>1 DEF Proc, BackupPlaces
<1>3. proc' \in [Goroutines -> Proc] /\ BakOthers(g) /\ proc'[g] = q
  BY <1>0, <1>2 DEF BackupsTypeOK, Proc, BakOthers
<1>4. /\ dir' \in [DirName -> [made : BOOLEAN, dumps : SUBSET Databases]]
      /\ \A e \in DirName : dir'[e].dumps = dir[e].dumps /\ (e # d => dir'[e].made = dir[e].made)
  <2>1. dir' = [dir EXCEPT ![d] = [dir[d] EXCEPT !.made = TRUE]]
    BY <1>0, <1>1 DEF BeginRun, BackupsTypeOK
  <2>2. PICK r \in [made : BOOLEAN, dumps : SUBSET Databases] :
            r.dumps = dir[d].dumps /\ dir' = [dir EXCEPT ![d] = r]
    <3>1. dir[d] \in [made : BOOLEAN, dumps : SUBSET Databases]
      BY <1>0 DEF BackupsTypeOK
    <3>2. QED
      BY <2>1, <3>1
  <2>3. QED
    BY <1>0, <2>2 DEF BackupsTypeOK
<1>5. /\ touched' \in SUBSET DirName /\ touched \subseteq touched'
      /\ (\E b \in Ids : Listed(b) /\ bak[b].dir = d) => d \in touched'
  BY <1>0, <1>1 DEF BeginRun, BackupsTypeOK
<1>6. BakFlag(g)
  <2>1. running' \in BOOLEAN /\ (running' <=> Runs(g)')
    BY <1>0, <1>2, <1>3 DEF Runs, BeginRun
  <2>2. QED
    BY <1>0, <1>2, <1>3, <1>4, <1>5, <2>1 DEF BakFlag, BackupsTypeOK, BakPlaces
<1>7. BakWorks(g)'
  BY <1>0, <1>1, <1>2, <1>3, <1>5 DEF BakWorks, Listed
<1>8. /\ BackupsTypeOK' /\ BakPlaces' /\ BakTouched' /\ BakWork' /\ OneAtATime'
      /\ \A e \in DirName : Covered(e) => Covered(e)'
      /\ g # Scheduler => proc'[Scheduler] = proc[Scheduler]
  BY <1>6, <1>7, BakFlagKept
<1>9. BakUnique'
  BY <1>0, <1>5 DEF BakUnique, Listed
<1>10. CompletedIsWhole'
  BY <1>0, <1>4, <1>5 DEF CompletedIsWhole, BackupsTypeOK, Backup
<1>11. BakNightly'
  <2>1. \A e \in DirName : Orphaned(e)' => Orphaned(e)
    BY <1>0, <1>1, <1>2, <1>3, <1>4, <1>8 DEF Orphaned
  <2>2. QED
    BY <1>0, <1>2, <1>3, <1>8, <2>1 DEF BakNightly, Manual
<1>12. QED
  BY <1>0, <1>8, <1>9, <1>10, <1>11 DEF BakInv

\* The new row is nobody's to remove.
LEMMA CreateRowKept ==
    ASSUME BakInv, NEW g \in Goroutines, CreateRow(g)
    PROVE  BakInv'
<1>0. /\ BackupsTypeOK /\ BakPlaces /\ BakUnique /\ BakWork /\ OneAtATime /\ CompletedIsWhole /\ BakNightly
      /\ proc[g] \in Proc /\ proc[g].at = "create" /\ BakWorks(g) /\ proc[g].where \in DirName
      /\ UNCHANGED <<dir, running, second, asks, touched, failed, crashes>>
  BY DEF BakInv, BackupsTypeOK, Proc, CreateRow, BakWork
<1>1. PICK b \in Ids :
          /\ bak[b].status = "none"
          /\ bak' = [bak EXCEPT ![b] = [status |-> "running", dir |-> proc[g].where, old |-> FALSE]]
          /\ proc' = [proc EXCEPT ![g].at = "dump", ![g].bid = b]
  BY DEF CreateRow
<1>2. PICK q \in Proc :
          /\ q.at = "dump" /\ q.bid = b /\ q.where = proc[g].where /\ q.todo = proc[g].todo
          /\ q.alive = proc[g].alive /\ q.left = proc[g].left
          /\ proc' = [proc EXCEPT ![g] = q]
  <2>1. proc' = [proc EXCEPT ![g] = [proc[g] EXCEPT !.at = "dump", !.bid = b]]
    BY <1>0, <1>1 DEF BackupsTypeOK
  <2>2. b \in 0 .. MaxBackups
    BY BackupsAssumption DEF Ids
  <2>3. QED
    BY <1>0, <2>1, <2>2 DEF Proc, BackupPlaces
<1>3. proc' \in [Goroutines -> Proc] /\ BakOthers(g) /\ proc'[g] = q
  BY <1>0, <1>2 DEF BackupsTypeOK, Proc, BakOthers
<1>4. /\ bak' \in [Ids -> Backup] /\ bak'[b].status = "running" /\ bak'[b].dir = proc[g].where
      /\ \A c \in Ids \ {b} : bak'[c] = bak[c]
  <2>1. [status |-> "running", dir |-> proc[g].where, old |-> FALSE] \in Backup
    BY <1>0 DEF Backup, BackupStatus
  <2>2. QED
    BY <1>0, <1>1, <2>1 DEF BackupsTypeOK
<1>5. BakFlag(g)
  <2>1. running' \in BOOLEAN /\ (running' <=> Runs(g)') /\ Runs(g)
    BY <1>0, <1>2, <1>3 DEF Runs, OneAtATime, BackupsTypeOK
  <2>2. \A c \in Ids : bak[c].status # "none" =>
            /\ bak'[c].dir = bak[c].dir /\ bak'[c].status # "none"
            /\ bak'[c].status = "gone" <=> bak[c].status = "gone"
    BY <1>1, <1>4
  <2>3. \A c \in Ids : bak[c].status = "none" => bak'[c].status # "gone"
    BY <1>4
  <2>4. QED
    BY <1>0, <1>2, <1>3, <1>4, <2>1, <2>2, <2>3 DEF BakFlag, BackupsTypeOK, BakPlaces
<1>6. BakWorks(g)'
  <2>1. proc[g].where \in touched \/ Databases \ proc[g].left \subseteq dir[proc[g].where].dumps
    BY <1>0 DEF BakWorks
  <2>2. QED
    BY <1>0, <1>2, <1>3, <1>4, <2>1 DEF BakWorks
<1>7. /\ BackupsTypeOK' /\ BakPlaces' /\ BakTouched' /\ BakWork' /\ OneAtATime'
      /\ \A d \in DirName : Covered(d) => Covered(d)'
      /\ g # Scheduler => proc'[Scheduler] = proc[Scheduler]
      /\ Doomed' \subseteq Doomed /\ \A c \in Doomed : bak[c].status # "none"
  BY <1>5, <1>6, BakFlagKept
<1>8. BakUnique'
  <2>1. \A c \in Ids \ {b} : (Listed(c)' <=> Listed(c)) /\ bak'[c].dir = bak[c].dir
    BY <1>4 DEF Listed
  <2>2. \A c \in Ids \ {b} : Listed(c)' /\ bak'[c].dir = bak'[b].dir => bak'[c].dir \in touched'
    BY <1>0, <1>4, <2>1 DEF BakWorks
  <2>3. QED
    BY <1>0, <2>1, <2>2 DEF BakUnique
<1>9. CompletedIsWhole'
  BY <1>0, <1>4 DEF CompletedIsWhole
<1>10. BakNightly'
  <2>0. PICK w \in DirName : w = proc[g].where
    BY <1>0
  <2>1. Covered(w)'
    <3>1. b \in Ids \ Doomed'
      BY <1>1, <1>7
    <3>2. QED
      BY <1>4, <2>0, <3>1 DEF Covered, Listed
  <2>2. \A d \in DirName : Orphaned(d)' => Orphaned(d)
    BY <1>0, <1>2, <1>3, <1>7, <2>0, <2>1 DEF Orphaned
  <2>3. ASSUME crashes = 0, NEW c \in Ids, bak'[c].status = "running", ~bak'[c].dir[2], bak'[c].dir \notin failed
        PROVE  proc'[Scheduler].at \in {"dump", "close"} /\ proc'[Scheduler].bid = c
    <3>1. CASE c = b
      BY <1>0, <1>2, <1>3, <1>4, <2>3, <3>1 DEF BakWorks
    <3>2. CASE c # b
      <4>1. proc[Scheduler].at \in {"dump", "close"} /\ proc[Scheduler].bid = c
        BY <1>0, <1>4, <2>3, <3>2 DEF BakNightly, Manual
      <4>2. QED
        BY <1>0, <1>7, <4>1
    <3>3. QED
      BY <3>1, <3>2
  <2>4. QED
    BY <1>0, <2>2, <2>3 DEF BakNightly, Manual
<1>11. QED
  BY <1>0, <1>7, <1>8, <1>9, <1>10 DEF BakInv

\* A removal marks the directories it empties before it touches the rows.
LEMMA RemoveFilesKept ==
    ASSUME BakInv, NEW g \in Goroutines, RemoveFiles(g)
    PROVE  BakInv'
<1>0. /\ BackupsTypeOK /\ BakPlaces /\ BakTouched /\ BakUnique /\ BakWork
      /\ OneAtATime /\ CompletedIsWhole /\ BakNightly /\ crashes \in Nat
      /\ proc[g] \in Proc /\ proc[g].at = "files" /\ proc[g].todo \subseteq Ids
      /\ UNCHANGED <<bak, running, second, asks, crashes>>
  BY DEF BakInv, BackupsTypeOK, Proc, RemoveFiles
<1> DEFINE reached == {bak[b].dir : b \in proc[g].todo}
<1>1. PICK gone \in SUBSET reached :
          /\ dir' = [d \in DirName |-> IF d \in gone THEN [made |-> FALSE, dumps |-> {}] ELSE dir[d]]
          /\ failed' = failed \cup {d \in reached \ gone : ~d[2]}
          /\ touched' = touched \cup reached
  BY DEF RemoveFiles
<1>20. reached \in SUBSET DirName /\ gone \in SUBSET DirName /\ \A b \in proc[g].todo : bak[b].dir \in reached
  BY <1>0 DEF BackupsTypeOK, Backup
<1>21. /\ failed' \in SUBSET DirName /\ failed \subseteq failed'
       /\ \A d \in reached : d \in gone \/ d[2] \/ d \in failed'
  BY <1>0, <1>1, <1>20 DEF BackupsTypeOK
<1> HIDE DEF reached
<1>2. /\ proc' \in [Goroutines -> Proc] /\ BakOthers(g)
      /\ proc'[g].at = "rows" /\ proc'[g].todo = proc[g].todo /\ proc'[g].alive = proc[g].alive
  BY <1>0, DoesEffect DEF RemoveFiles, BackupPlaces
<1>3. \A h \in Goroutines \ {g} : proc'[h] = proc[h]
  BY <1>2 DEF BakOthers
<1>4. /\ dir' \in [DirName -> [made : BOOLEAN, dumps : SUBSET Databases]]
      /\ \A d \in DirName : d \notin gone => dir'[d] = dir[d]
      /\ \A d \in DirName : d \in gone => ~dir'[d].made
  BY <1>0, <1>1 DEF BackupsTypeOK
<1>5. BackupsTypeOK'
  BY <1>0, <1>1, <1>2, <1>4, <1>20, <1>21 DEF BackupsTypeOK, Proc
<1>6. Scheduler \in Goroutines /\ (g # Scheduler => proc'[Scheduler] = proc[Scheduler])
  BY <1>3 DEF Goroutines
<1>7. BakPlaces'
  <2>1. \A b \in proc'[g].todo : bak'[b].status # "none"
    BY <1>0, <1>2 DEF BakPlaces
  <2>2. \A h \in Goroutines \ {g} :
            /\ proc'[h].at \in {"dump", "find", "mark", "restore", "close"} =>
                   proc'[h].bid \in Ids /\ bak'[proc'[h].bid].status # "none"
            /\ proc'[h].at = "close" => proc'[h].result \in {"completed", "failed"}
            /\ \A b \in proc'[h].todo : bak'[b].status # "none"
    BY <1>0, <1>3 DEF BakPlaces
  <2>3. proc'[Scheduler].alive /\ proc'[Scheduler].at \notin {"find", "mark", "restore"}
    BY <1>0, <1>2, <1>6 DEF BakPlaces
  <2>4. QED
    BY <1>2, <2>1, <2>2, <2>3 DEF BakPlaces
<1>8. BakTouched'
  BY <1>0, <1>1, <1>2, <1>3, <1>20 DEF BakTouched
<1>9. BakUnique'
  BY <1>0, <1>1 DEF BakUnique, Listed
<1>10. BakWork'
  <2>1. BakWorks(g)'
    BY <1>2 DEF BakWorks
  <2>2. ASSUME NEW h \in Goroutines, h # g
        PROVE  BakWorks(h)'
    <3>1. BakWorks(h) /\ proc'[h] = proc[h] /\ proc[h] \in Proc
      BY <1>0, <1>3, <2>2 DEF BakWork, BackupsTypeOK, Proc
    <3>2. proc[h].where \in DirName
      BY <3>1 DEF Proc
    <3>3. proc[h].at \in {"mark", "restore", "close"} => bak[proc[h].bid].dir \in DirName
      BY <1>0 DEF BakPlaces, BackupsTypeOK, Backup
    <3>4. proc[h].at \in {"mark", "restore", "close"} /\ Whole(proc[h].bid) => Whole(proc[h].bid)'
      BY <1>0, <1>1, <1>4, <3>1, <3>3 DEF Whole
    <3>5. proc[h].at = "dump" /\ proc[h].where \notin touched' => dir'[proc[h].where] = dir[proc[h].where]
      BY <1>1, <1>4, <1>20, <3>2
    <3>6. QED
      BY <1>0, <1>1, <3>1, <3>4, <3>5 DEF BakWorks, Listed
  <2>3. QED
    BY <2>1, <2>2 DEF BakWork
<1>11. OneAtATime'
  <2>1. \A h \in Goroutines : Runs(h)' <=> Runs(h)
    BY <1>0, <1>2, <1>3 DEF Runs
  <2>2. QED
    BY <1>0, <2>1 DEF OneAtATime
<1>12. CompletedIsWhole'
  BY <1>0, <1>1, <1>4 DEF CompletedIsWhole, BackupsTypeOK, Backup
<1>13. BakNightly'
  <2>1. Doomed' \subseteq Doomed \cup proc[g].todo
    BY <1>0, <1>2, <1>3 DEF Doomed
  <2>2. \A d \in DirName : Covered(d) /\ d \notin reached => Covered(d)'
    <3>1. \A b \in proc[g].todo : bak[b].dir \in reached
      BY <1>20
    <3>2. QED
      BY <1>0, <2>1, <3>1 DEF Covered, Listed
  <2>3. \A d \in DirName : Orphaned(d)' => Orphaned(d)
    BY <1>0, <1>2, <1>4, <1>6, <1>21, <2>2 DEF Orphaned
  <2>4. QED
    BY <1>0, <1>2, <1>6, <1>21, <2>3 DEF BakNightly, Manual
<1>14. QED
  BY <1>0, <1>5, <1>7, <1>8, <1>9, <1>10, <1>11, <1>12, <1>13 DEF BakInv

LEMMA RemoveRowsKept ==
    ASSUME BakInv, NEW g \in Goroutines, RemoveRows(g)
    PROVE  BakInv'
<1>0. /\ BackupsTypeOK /\ BakPlaces /\ BakTouched /\ BakUnique /\ BakWork
      /\ OneAtATime /\ CompletedIsWhole /\ BakNightly /\ crashes \in Nat
      /\ proc[g] \in Proc /\ proc[g].at = "rows" /\ proc[g].todo \subseteq Ids
      /\ UNCHANGED <<dir, running, second, asks, touched, failed, crashes>>
  BY DEF BakInv, BackupsTypeOK, Proc, RemoveRows
<1>1. /\ proc' \in [Goroutines -> Proc] /\ BakOthers(g) /\ proc'[g] = NoProc
      /\ NoProc.at = "idle" /\ NoProc.todo = {} /\ NoProc.alive
  BY <1>0, NoProcType DEF RemoveRows, BackupsTypeOK, Proc, BakOthers
<1>2. \A h \in Goroutines \ {g} : proc'[h] = proc[h]
  BY <1>1 DEF BakOthers
<1>3. /\ bak' \in [Ids -> Backup]
      /\ \A b \in Ids : bak'[b].dir = bak[b].dir
      /\ \A b \in Ids : bak'[b].status = bak[b].status \/ (b \in proc[g].todo /\ bak'[b].status = "gone")
  <2>1. \A b \in Ids : /\ [bak[b] EXCEPT !.status = "gone"] \in Backup
                       /\ [bak[b] EXCEPT !.status = "gone"].status = "gone"
                       /\ [bak[b] EXCEPT !.status = "gone"].dir = bak[b].dir
    BY <1>0 DEF BackupsTypeOK, Backup, BackupStatus
  <2>2. CASE bak' = [b \in Ids |-> IF b \in proc[g].todo THEN [bak[b] EXCEPT !.status = "gone"] ELSE bak[b]]
    BY <1>0, <2>1, <2>2 DEF BackupsTypeOK
  <2>3. CASE bak' = bak
    BY <1>0, <2>3 DEF BackupsTypeOK
  <2>4. QED
    BY <2>2, <2>3 DEF RemoveRows
<1>4. \A b \in Ids : Listed(b)' => Listed(b)
  <2>1. \A b \in proc[g].todo : bak[b].status # "none"
    BY <1>0 DEF BakPlaces
  <2>2. QED
    BY <1>3, <2>1 DEF Listed
<1>5. BackupsTypeOK'
  BY <1>0, <1>1, <1>3 DEF BackupsTypeOK, Proc
<1>6. Scheduler \in Goroutines /\ (g # Scheduler => proc'[Scheduler] = proc[Scheduler])
  BY <1>2 DEF Goroutines
<1>7. BakPlaces'
  <2>1. \A b \in Ids : bak[b].status # "none" => bak'[b].status # "none"
    BY <1>3
  <2>2. \A h \in Goroutines \ {g} : proc[h].todo \subseteq Ids
    BY <1>0 DEF BackupsTypeOK, Proc
  <2>3. \A h \in Goroutines \ {g} :
            /\ proc'[h].at \in {"dump", "find", "mark", "restore", "close"} =>
                   proc'[h].bid \in Ids /\ bak'[proc'[h].bid].status # "none"
            /\ proc'[h].at = "close" => proc'[h].result \in {"completed", "failed"}
            /\ \A b \in proc'[h].todo : bak'[b].status # "none"
    BY <1>0, <1>2, <2>1, <2>2 DEF BakPlaces
  <2>4. proc'[Scheduler].alive /\ proc'[Scheduler].at \notin {"find", "mark", "restore"}
    BY <1>0, <1>1, <1>6 DEF BakPlaces
  <2>5. QED
    BY <1>1, <2>3, <2>4 DEF BakPlaces
<1>8. BakTouched'
  <2>1. \A b \in Ids : bak'[b].status = "gone" => bak'[b].dir \in touched'
    BY <1>0, <1>3 DEF BakTouched
  <2>2. \A h \in Goroutines \ {g} : proc[h].todo \subseteq Ids
    BY <1>0 DEF BackupsTypeOK, Proc
  <2>3. \A h \in Goroutines : proc'[h].at = "rows" => \A b \in proc'[h].todo : bak'[b].dir \in touched'
    BY <1>0, <1>1, <1>2, <1>3, <2>2 DEF BakTouched
  <2>4. QED
    BY <2>1, <2>3 DEF BakTouched
<1>9. BakUnique'
  BY <1>0, <1>3, <1>4 DEF BakUnique
<1>10. BakWork'
  <2>1. BakWorks(g)'
    BY <1>1 DEF BakWorks
  <2>2. ASSUME NEW h \in Goroutines, h # g
        PROVE  BakWorks(h)'
    <3>1. BakWorks(h) /\ proc'[h] = proc[h]
      BY <1>0, <1>2, <2>2 DEF BakWork
    <3>2. proc[h].at \in {"dump", "mark", "restore", "close"} => proc[h].bid \in Ids
      BY <1>0 DEF BakPlaces
    <3>3. proc[h].at \in {"mark", "restore", "close"} /\ Whole(proc[h].bid) => Whole(proc[h].bid)'
      BY <1>0, <1>3, <3>1, <3>2 DEF Whole
    <3>4. proc[h].at = "create" => \A b \in Ids : Listed(b)' /\ bak'[b].dir = proc[h].where => proc[h].where \in touched
      BY <1>3, <1>4, <3>1 DEF BakWorks
    <3>5. proc[h].at = "dump" =>
              bak'[proc[h].bid].dir = proc[h].where /\ bak'[proc[h].bid].status \in {"running", "gone"}
      BY <1>3, <3>1, <3>2 DEF BakWorks
    <3>6. proc[h].at \in {"mark", "restore", "close"} => bak'[proc[h].bid].dir = proc[h].where
      BY <1>3, <3>1, <3>2 DEF BakWorks
    <3>7. QED
      BY <1>0, <3>1, <3>3, <3>4, <3>5, <3>6 DEF BakWorks
  <2>3. QED
    BY <2>1, <2>2 DEF BakWork
<1>11. OneAtATime'
  <2>1. \A h \in Goroutines : Runs(h)' <=> Runs(h)
    BY <1>0, <1>1, <1>2 DEF Runs
  <2>2. QED
    BY <1>0, <2>1 DEF OneAtATime
<1>12. CompletedIsWhole'
  BY <1>0, <1>3 DEF CompletedIsWhole
<1>13. BakNightly'
  <2>1. Doomed' \subseteq Doomed
    BY <1>1, <1>2 DEF Doomed
  <2>2. \A b \in Ids \ Doomed : Listed(b) => Listed(b)'
    <3>1. proc[g].todo \subseteq Doomed
      BY <1>0 DEF Doomed
    <3>2. QED
      BY <1>3, <3>1 DEF Listed
  <2>3. \A d \in DirName : Covered(d) => Covered(d)'
    BY <1>3, <2>1, <2>2 DEF Covered
  <2>4. \A d \in DirName : Orphaned(d)' => Orphaned(d)
    BY <1>0, <1>1, <1>6, <2>3 DEF Orphaned
  <2>5. \A b \in Ids : bak'[b].status = "running" => bak[b].status = "running"
    BY <1>3
  <2>6. QED
    BY <1>0, <1>3, <1>6, <2>4, <2>5 DEF BakNightly, Manual
<1>14. QED
  BY <1>0, <1>5, <1>7, <1>8, <1>9, <1>10, <1>11, <1>12, <1>13 DEF BakInv

\* Rows may age and the clock may go on: nobody moves, and nothing else is read.
LEMMA BakAgeKept ==
    ASSUME BakInv, UNCHANGED <<dir, running, proc, asks, touched, failed, crashes>>,
           second' \in 0 .. MaxSeconds, bak' \in [Ids -> Backup],
           \A b \in Ids : bak'[b].dir = bak[b].dir /\ bak'[b].status = bak[b].status
    PROVE  BakInv'
<1>0. /\ BackupsTypeOK /\ BakPlaces /\ BakTouched /\ BakUnique /\ BakWork
      /\ OneAtATime /\ CompletedIsWhole /\ BakNightly /\ crashes \in Nat
  BY DEF BakInv
<1>1. \A g \in Goroutines : proc[g].todo \subseteq Ids
  BY <1>0 DEF BackupsTypeOK
<1>2. BackupsTypeOK'
  BY <1>0 DEF BackupsTypeOK
<1>3. BakPlaces'
  BY <1>0, <1>1 DEF BakPlaces
<1>4. BakTouched'
  BY <1>0, <1>1 DEF BakTouched
<1>5. BakUnique' /\ CompletedIsWhole'
  BY <1>0 DEF BakUnique, CompletedIsWhole, Listed
<1>6. BakWork'
  <2>1. ASSUME NEW g \in Goroutines
        PROVE  BakWorks(g)'
    <3>1. BakWorks(g)
      BY <1>0 DEF BakWork
    <3>2. proc[g].at \in {"dump", "mark", "restore", "close"} => proc[g].bid \in Ids
      BY <1>0 DEF BakPlaces
    <3>3. QED
      BY <3>1, <3>2 DEF BakWorks, Whole, Listed
  <2>2. QED
    BY <2>1 DEF BakWork
<1>7. OneAtATime'
  BY <1>0 DEF OneAtATime, Runs
<1>8. BakNightly'
  <2>1. Doomed' = Doomed
    BY DEF Doomed
  <2>2. \A d \in DirName : Covered(d) => Covered(d)'
    BY <2>1 DEF Covered, Listed
  <2>3. \A d \in DirName : Orphaned(d)' => Orphaned(d)
    BY <2>2 DEF Orphaned
  <2>4. QED
    BY <1>0, <2>3 DEF BakNightly, Manual
<1>9. QED
  BY <1>0, <1>2, <1>3, <1>4, <1>5, <1>6, <1>7, <1>8 DEF BakInv

LEMMA GrowOldKept ==
    ASSUME BakInv, NEW b \in Ids, GrowOld(b)
    PROVE  BakInv'
<1>1. bak \in [Ids -> Backup] /\ second' \in 0 .. MaxSeconds
  BY DEF BakInv, BackupsTypeOK, GrowOld
<1>2. PICK r \in Backup : r.status = bak[b].status /\ r.dir = bak[b].dir /\ bak' = [bak EXCEPT ![b] = r]
  <2>1. bak' = [bak EXCEPT ![b] = [bak[b] EXCEPT !.old = TRUE]] /\ bak[b] \in Backup
    BY <1>1 DEF GrowOld
  <2>2. QED
    BY <2>1 DEF Backup
<1>3. bak' \in [Ids -> Backup] /\ \A c \in Ids : bak'[c].dir = bak[c].dir /\ bak'[c].status = bak[c].status
  BY <1>1, <1>2
<1>4. QED
  BY <1>1, <1>3, BakAgeKept DEF GrowOld

LEMMA BakTickKept ==
    ASSUME BakInv, Tick
    PROVE  BakInv'
<1>1. bak' \in [Ids -> Backup] /\ second \in 0 .. MaxSeconds /\ MaxSeconds \in Nat
  BY BackupsAssumption DEF BakInv, BackupsTypeOK, Tick
<1>2. second' \in 0 .. MaxSeconds
  BY <1>1 DEF Tick
<1>3. QED
  BY <1>1, <1>2, BakAgeKept DEF Tick

\* The engine dies: nobody is at work, and nothing is asked of nightly backups.
LEMMA BackupsCrashKept ==
    ASSUME BakInv, BackupsCrash
    PROVE  BakInv'
<1>0. /\ BackupsTypeOK /\ BakTouched /\ BakUnique /\ CompletedIsWhole /\ crashes \in Nat
      /\ UNCHANGED <<bak, dir, second, asks, touched, failed>> /\ crashes' = crashes + 1 /\ ~running'
  BY DEF BakInv, BackupsCrash, EngineDies
<1>1. proc' \in [Goroutines -> Proc] /\ \A g \in Goroutines : proc'[g] = NoProc
  BY NoProcType DEF BackupsCrash
<1>2. NoProc.at = "idle" /\ NoProc.todo = {} /\ NoProc.alive
  BY NoProcType
<1>3. BackupsTypeOK'
  BY <1>0, <1>1 DEF BackupsTypeOK, Proc, BackupsCrash
<1>4. BakPlaces'
  BY <1>1, <1>2 DEF BakPlaces, Goroutines
<1>5. BakTouched'
  BY <1>0, <1>1, <1>2 DEF BakTouched
<1>6. BakUnique' /\ CompletedIsWhole'
  BY <1>0 DEF BakUnique, CompletedIsWhole, Listed
<1>7. BakWork'
  BY <1>1, <1>2 DEF BakWork, BakWorks
<1>8. OneAtATime'
  BY <1>0, <1>1, <1>2 DEF OneAtATime, Runs
<1>9. crashes' # 0 /\ crashes' \in Nat
  BY <1>0
<1>10. BakNightly'
  BY <1>9 DEF BakNightly
<1>11. QED
  BY <1>3, <1>4, <1>5, <1>6, <1>7, <1>8, <1>9, <1>10 DEF BakInv

\* An operation begins: its count and the mark of a free goroutine.
LEMMA BegunEffect ==
    ASSUME BackupsTypeOK, NEW g \in Goroutines, Begun(g)
    PROVE  proc[g].at = "idle" /\ asks' \in 0 .. MaxAsks
<1>1. asks \in 0 .. MaxAsks /\ MaxAsks \in Nat
  BY BackupsAssumption DEF BackupsTypeOK
<1>2. QED
  BY <1>1 DEF Begun, Sleeps

LEMMA BakBeginningsQuiet ==
    ASSUME BakInv, NEW g \in Goroutines,
           \/ g # Scheduler /\ Trigger(g)
           \/ g = Scheduler /\ Schedule
           \/ g # Scheduler /\ \E b \in Ids : AskRestore(g, b) \/ DeleteBackup(g, b)
    PROVE  BakQuiet(g)
<1>0. BackupsTypeOK /\ BakPlaces /\ Begun(g) /\ proc[g] \in Proc
  BY DEF BakInv, BackupsTypeOK, Proc, Trigger, Schedule, AskRestore, DeleteBackup
<1>1. /\ proc[g].at = "idle" /\ asks' \in 0 .. MaxAsks /\ second' \in 0 .. MaxSeconds
      /\ UNCHANGED <<bak, dir, running, touched, failed, crashes>>
  BY <1>0, BegunEffect DEF BackupsTypeOK, Trigger, Schedule, AskRestore, DeleteBackup
<1>2. /\ \A b \in proc[g].todo : b \in Ids /\ bak[b].status # "none"
      /\ g = Scheduler => proc[g].alive
  BY <1>0 DEF BakPlaces, Proc
<1>3. CASE Does(g, "run")
  <2>1. /\ proc' \in [Goroutines -> Proc] /\ BakOthers(g)
        /\ proc'[g].at = "run" /\ proc'[g].todo = proc[g].todo /\ proc'[g].alive = proc[g].alive
    BY <1>0, <1>3, DoesEffect DEF BackupPlaces
  <2>2. QED
    BY <1>1, <1>2, <2>1 DEF BakQuiet, Runs
<1>4. ASSUME NEW b \in Ids, g # Scheduler, AskRestore(g, b)
      PROVE  BakQuiet(g)
  <2>1. PICK q \in Proc : /\ q.at = "find" /\ q.bid = b /\ q.todo = proc[g].todo
                          /\ proc' = [proc EXCEPT ![g] = q]
    <3>1. proc' = [proc EXCEPT ![g] = [proc[g] EXCEPT !.at = "find", !.bid = b]]
      BY <1>0, <1>4 DEF AskRestore, BackupsTypeOK
    <3>2. b \in 0 .. MaxBackups
      BY BackupsAssumption DEF Ids
    <3>3. QED
      BY <1>0, <3>1, <3>2 DEF Proc, BackupPlaces
  <2>2. proc' \in [Goroutines -> Proc] /\ BakOthers(g) /\ proc'[g] = q
    BY <1>0, <2>1 DEF BackupsTypeOK, Proc, BakOthers
  <2>3. QED
    BY <1>1, <1>2, <1>4, <2>1, <2>2 DEF BakQuiet, Runs, AskRestore, Listed
<1>5. ASSUME NEW b \in Ids, g # Scheduler, DeleteBackup(g, b)
      PROVE  BakQuiet(g)
  <2>1. PICK q \in Proc : /\ q.at = "files" /\ q.todo = {b}
                          /\ proc' = [proc EXCEPT ![g] = q]
    <3>1. proc' = [proc EXCEPT ![g] = [proc[g] EXCEPT !.at = "files", !.todo = {b}]]
      BY <1>0, <1>5 DEF DeleteBackup, BackupsTypeOK
    <3>2. QED
      BY <1>0, <3>1 DEF Proc, BackupPlaces
  <2>2. proc' \in [Goroutines -> Proc] /\ BakOthers(g) /\ proc'[g] = q
    BY <1>0, <2>1 DEF BackupsTypeOK, Proc, BakOthers
  <2>3. QED
    BY <1>1, <1>5, <2>1, <2>2 DEF BakQuiet, Runs, DeleteBackup, Listed
<1>6. QED
  BY <1>3, <1>4, <1>5 DEF Trigger, Schedule

LEMMA BakRefusalsQuiet ==
    ASSUME BakInv, NEW g \in Goroutines, RunRefused(g) \/ (g # Scheduler /\ RestoreRefused(g))
    PROVE  BakQuiet(g)
<1>1. /\ BackupsTypeOK /\ Returns(g) /\ proc[g].at \in {"run", "find"}
      /\ UNCHANGED <<bak, dir, running, second, asks, touched, failed, crashes>>
  BY DEF BakInv, RunRefused, RestoreRefused
<1>2. /\ proc' \in [Goroutines -> Proc] /\ BakOthers(g)
      /\ proc'[g].at \in {"idle", "clean"} /\ proc'[g].todo = {} /\ proc'[g].alive
  BY <1>1, ReturnsEffect
<1>3. QED
  BY <1>1, <1>2 DEF BakQuiet, Runs, BackupsTypeOK

LEMMA CleanupEndsQuiet ==
    ASSUME BakInv, CleanupEnds
    PROVE  BakQuiet(Scheduler)
<1>1. /\ BackupsTypeOK /\ Scheduler \in Goroutines /\ proc[Scheduler].at = "clean"
      /\ UNCHANGED <<bak, dir, running, second, asks, touched, failed, crashes>>
  BY DEF BakInv, CleanupEnds, Goroutines
<1>2. /\ proc' \in [Goroutines -> Proc] /\ BakOthers(Scheduler) /\ proc'[Scheduler] = NoProc
      /\ NoProc.at = "idle" /\ NoProc.todo = {} /\ NoProc.alive
  BY <1>1, NoProcType DEF CleanupEnds, BackupsTypeOK, Proc, BakOthers
<1>3. QED
  BY <1>1, <1>2 DEF BakQuiet, Runs, BackupsTypeOK

LEMMA ListOldQuiet ==
    ASSUME BakInv, ListOld
    PROVE  BakQuiet(Scheduler)
<1>0. /\ BackupsTypeOK /\ BakPlaces /\ Scheduler \in Goroutines /\ proc[Scheduler] \in Proc
      /\ proc[Scheduler].at = "clean" /\ proc[Scheduler].alive
      /\ UNCHANGED <<bak, dir, running, second, asks, touched, failed, crashes>>
  BY DEF BakInv, BackupsTypeOK, Proc, BakPlaces, ListOld, Goroutines
<1>1. PICK q \in Proc : /\ q.at = "files" /\ q.todo = {b \in Ids : Listed(b) /\ bak[b].old} /\ q.alive
                        /\ proc' = [proc EXCEPT ![Scheduler] = q]
  <2>1. proc' = [proc EXCEPT ![Scheduler] = [proc[Scheduler] EXCEPT
                    !.at = "files", !.todo = {b \in Ids : Listed(b) /\ bak[b].old}]]
    BY <1>0 DEF ListOld, BackupsTypeOK
  <2>2. {b \in Ids : Listed(b) /\ bak[b].old} \subseteq Ids
    OBVIOUS
  <2>3. QED
    BY <1>0, <2>1, <2>2 DEF Proc, BackupPlaces
<1>2. proc' \in [Goroutines -> Proc] /\ BakOthers(Scheduler) /\ proc'[Scheduler] = q
  BY <1>0, <1>1 DEF BackupsTypeOK, Proc, BakOthers
<1>3. QED
  BY <1>0, <1>1, <1>2 DEF BakQuiet, Runs, Listed, BackupsTypeOK

LEMMA AnsweredQuiet ==
    ASSUME BakInv, NEW c \in Clients, c # Scheduler, Answered(c)
    PROVE  BakQuiet(c)
<1>0. BackupsTypeOK /\ c \in Goroutines /\ proc[c] \in Proc
  BY DEF BakInv, BackupsTypeOK, Proc, Goroutines
<1>1. PICK q \in Proc :
          /\ q.at = proc[c].at /\ q.bid = proc[c].bid /\ q.where = proc[c].where /\ q.left = proc[c].left
          /\ q.todo = proc[c].todo /\ q.result = proc[c].result
          /\ proc' = [proc EXCEPT ![c] = q]
  <2>1. proc' = [proc EXCEPT ![c] = [proc[c] EXCEPT !.alive = FALSE]]
    BY <1>0 DEF Answered, BackupsTypeOK
  <2>2. QED
    BY <1>0, <2>1 DEF Proc
<1>2. proc' \in [Goroutines -> Proc] /\ BakOthers(c) /\ proc'[c] = q
  BY <1>0, <1>1 DEF BackupsTypeOK, Proc, BakOthers
<1>3. QED
  BY <1>0, <1>1, <1>2 DEF BakQuiet, Answered, BackupsTypeOK

LEMMA BakInvInit == BackupsInit => BakInv
<1> SUFFICES ASSUME BackupsInit
             PROVE  BakInv
  OBVIOUS
<1>1. <<0, FALSE>> \in DirName /\ 0 \in 0 .. MaxSeconds /\ 0 \in 0 .. MaxAsks
  <2>1. 0 \in 0 .. MaxSeconds /\ 0 \in 0 .. MaxAsks
    BY BackupsAssumption
  <2>2. QED
    BY <2>1 DEF DirName
<1>2. /\ bak \in [Ids -> Backup] /\ \A b \in Ids : bak[b].status = "none"
  BY <1>1 DEF BackupsInit, Backup, BackupStatus
<1>3. /\ dir \in [DirName -> [made : BOOLEAN, dumps : SUBSET Databases]]
      /\ \A d \in DirName : ~dir[d].made
  BY DEF BackupsInit
<1>4. /\ proc \in [Goroutines -> Proc]
      /\ \A g \in Goroutines : proc[g].at = "idle" /\ proc[g].todo = {} /\ proc[g].alive
  BY NoProcType DEF BackupsInit
<1>5. BackupsTypeOK
  BY <1>1, <1>2, <1>3, <1>4 DEF BackupsInit, BackupsTypeOK, Proc
<1>6. BakPlaces /\ BakTouched /\ BakWork
  BY <1>2, <1>4 DEF BakPlaces, BakTouched, BakWork, BakWorks, Goroutines
<1>7. BakUnique /\ CompletedIsWhole
  BY <1>2 DEF BakUnique, CompletedIsWhole, Listed
<1>8. OneAtATime
  BY <1>4 DEF OneAtATime, Runs, BackupsInit
<1>9. BakNightly
  BY <1>2, <1>3 DEF BakNightly, Orphaned
<1>10. QED
  BY <1>5, <1>6, <1>7, <1>8, <1>9 DEF BakInv, BackupsInit, RequestsInit

LEMMA BakInvKept == BakInv /\ [BackupsNext]_backupVars => BakInv'
<1> SUFFICES ASSUME BakInv, [BackupsNext]_backupVars
             PROVE  BakInv'
  OBVIOUS
<1>0. \A c \in Clients : c \in Goroutines /\ c # Scheduler
  BY BackupsAssumption DEF Goroutines
<1>1. ASSUME NEW c \in Clients,
             \/ Trigger(c) \/ Answered(c) \/ RestoreRefused(c)
             \/ \E b \in Ids : AskRestore(c, b) \/ DeleteBackup(c, b)
      PROVE  BakInv'
  <2>1. BakQuiet(c)
    BY <1>0, <1>1, BakBeginningsQuiet, AnsweredQuiet, BakRefusalsQuiet
  <2>2. QED
    BY <1>0, <2>1, BakQuietKept
<1>2. ASSUME NEW c \in Clients, BeginRestore(c) \/ MarkRestoring(c) \/ RestoreEnds(c)
      PROVE  BakInv'
  BY <1>0, <1>2, BeginRestoreKept, MarkRestoringKept, RestoreEndsKept
<1>3. ASSUME NEW c \in Clients, NEW db \in Databases, RestoreOne(c, db)
      PROVE  BakInv'
  BY <1>0, <1>3, RestoreOneKept
<1>4. CASE Schedule \/ ListOld \/ CleanupEnds
  <2>1. Scheduler \in Goroutines
    BY DEF Goroutines
  <2>2. BakQuiet(Scheduler)
    BY <1>4, <2>1, BakBeginningsQuiet, ListOldQuiet, CleanupEndsQuiet
  <2>3. QED
    BY <2>1, <2>2, BakQuietKept
<1>5. ASSUME NEW g \in Goroutines, BeginRun(g) \/ CreateRow(g) \/ CreateRowFails(g) \/ AllDumped(g)
      PROVE  BakInv'
  BY <1>5, BeginRunKept, CreateRowKept, CreateRowFailsKept, AllDumpedKept
<1>6. ASSUME NEW g \in Goroutines, Close(g) \/ RemoveFiles(g) \/ RemoveRows(g)
      PROVE  BakInv'
  BY <1>6, CloseKept, RemoveFilesKept, RemoveRowsKept
<1>7. ASSUME NEW g \in Goroutines, RunRefused(g)
      PROVE  BakInv'
  BY <1>7, BakRefusalsQuiet, BakQuietKept
<1>8. ASSUME NEW g \in Goroutines, NEW db \in Databases, Dump(g, db) \/ DumpFails(g, db)
      PROVE  BakInv'
  BY <1>8, DumpKept, DumpFailsKept
<1>9. CASE (\E b \in Ids : GrowOld(b)) \/ Tick \/ BackupsCrash
  BY <1>9, GrowOldKept, BakTickKept, BackupsCrashKept
<1>10. CASE UNCHANGED backupVars
  <2>1. /\ UNCHANGED <<dir, running, proc, asks, touched, failed, crashes>> /\ second' \in 0 .. MaxSeconds
        /\ bak' \in [Ids -> Backup]
        /\ \A b \in Ids : bak'[b].dir = bak[b].dir /\ bak'[b].status = bak[b].status
    BY <1>10 DEF backupVars, BakInv, BackupsTypeOK
  <2>2. QED
    BY <2>1, BakAgeKept
<1>11. QED
  BY <1>1, <1>2, <1>3, <1>4, <1>5, <1>6, <1>7, <1>8, <1>9, <1>10 DEF BackupsNext

\* What the invariant says of nightly backups is what NightlyEndsClean promises.
LEMMA BakInvTells == BakInv => BackupsTypeOK /\ BackupsAreWhole
<1> SUFFICES ASSUME BakInv
             PROVE  BackupsTypeOK /\ BackupsAreWhole
  OBVIOUS
<1>1. NightlyEndsClean
  <2>1. ASSUME crashes = 0, NEW b \in Ids, bak[b].status = "running" /\ ~Manual(b) /\ bak[b].dir \notin failed
        PROVE  Runs(Scheduler) /\ proc[Scheduler].bid = b
    BY <2>1 DEF BakInv, BakNightly, Runs
  <2>2. ASSUME crashes = 0, NEW d \in DirName \ failed, dir[d].made /\ ~d[2]
        PROVE  \/ \E b \in Ids : Listed(b) /\ bak[b].dir = d
               \/ Runs(Scheduler) /\ proc[Scheduler].where = d
    BY <2>2 DEF BakInv, BakNightly, Orphaned, Covered, Runs
  <2>3. QED
    BY <2>1, <2>2 DEF NightlyEndsClean
<1>2. QED
  BY <1>1 DEF BakInv, BackupsAreWhole

\* The variables of the backups keep their types (backup_service.go, backup_repo.go).
THEOREM BackupsTyped == BackupsSpec => []BackupsTypeOK
<1>1. BackupsSpec => []BakInv
  BY BakInvInit, BakInvKept, PTL DEF BackupsSpec
<1>2. QED
  BY <1>1, BakInvTells, PTL

\* However requests, the nightly worker, removals and answered contexts mix: one run
\* or restore at a time, completed backups are whole, the nightly one tidies up.
THEOREM BackupsSound == BackupsSpec => []BackupsAreWhole
<1>1. BackupsSpec => []BakInv
  BY BakInvInit, BakInvKept, PTL DEF BackupsSpec
<1>2. QED
  BY <1>1, BakInvTells, PTL
-----------------------------------------------------------------------------
(* The four together *)

\* The component that a behaviour exercises has its invariant.
StoresInv ==
    /\ focus = "services" => SvcInv
    /\ focus = "mailboxes" => MailInv
    /\ focus = "backups" => BakInv
    /\ focus = "shop" => ShopInv

LEMMA StoresInvInit == Init => StoresInv
BY SvcInvInit, MailInvInit, BakInvInit, ShopInitInv DEF Init, StoresInv

LEMMA StoresInvKept == StoresInv /\ [Next]_stores => StoresInv'
<1> SUFFICES ASSUME StoresInv, [Next]_stores PROVE StoresInv'
  OBVIOUS
<1>1. focus' = focus
  BY DEF Next, stores
<1>2. ASSUME focus = "services"
      PROVE  SvcInv'
  <2>1. [ServicesNext]_svcVars
    BY Zenon, <1>2 DEF Next, stores
  <2>2. QED
    BY <1>2, <2>1, SvcInvKept DEF StoresInv
<1>3. ASSUME focus = "mailboxes"
      PROVE  MailInv'
  <2>1. [MailNext]_mailVars
    BY Zenon, <1>3 DEF Next, stores
  <2>2. QED
    BY <1>3, <2>1, MailInvKept DEF StoresInv
<1>4. ASSUME focus = "backups"
      PROVE  BakInv'
  <2>1. [BackupsNext]_backupVars
    BY Zenon, <1>4 DEF Next, stores
  <2>2. QED
    BY <1>4, <2>1, BakInvKept DEF StoresInv
<1>5. ASSUME focus = "shop"
      PROVE  ShopInv'
  <2>1. [ShopNext]_shopVars
    BY Zenon, <1>5 DEF Next, stores
  <2>2. QED
    BY <1>5, <2>1, ShopKept DEF StoresInv
<1>6. QED
  BY <1>1, <1>2, <1>3, <1>4, <1>5 DEF StoresInv

\* Services, mailboxes, backups and the shop keep their types in the engine they share.
THEOREM StoresTyped == Spec => []StoresTypeOK
<1>1. StoresInv => StoresTypeOK
  BY ShopInvTells, BakInvTells DEF StoresInv, StoresTypeOK, SvcInv, MailInv
<1>2. QED
  BY <1>1, StoresInvInit, StoresInvKept, PTL DEF Spec
=============================================================================
