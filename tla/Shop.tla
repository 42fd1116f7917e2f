-------------------------------- MODULE Shop --------------------------------
(***************************************************************************)
(* A player's account, and purchases from the launcher's shop.  A purchase *)
(* takes the price from the account, runs SQL inside the game's container  *)
(* and, when that fails, gives the price back; then it writes an order.    *)
(* All of it runs on the context of the request, which its client may end  *)
(* at any time.                                                            *)
(***************************************************************************)
EXTENDS Requests, Integers

CONSTANTS
    Price,         \* of the one item on sale
    Welcome,       \* what a new player is given (welcomeCash)
    MaxBuys,       \* bound on the purchases begun
    MaxCredits     \* bound on the operator's credits

ASSUME ShopAssumption ==
    /\ Price \in Nat \ {0} /\ Welcome \in Nat
    /\ MaxBuys \in Nat /\ MaxCredits \in Nat

VARIABLES
    player,    \* the row of player_accounts: registered?, points, link to the game
    ledger,    \* number of rows of player_ledger by reason
    orders,    \* number of rows of player_shop_orders
    goods,     \* how often the item was booked in the game's database
    buy,       \* buy[c]: what client c's request is doing
    begun,     \* how many purchases were begun
    sold,      \* history: purchases the player was told of as done
    broken,    \* history: a client hung up, a refund's statement failed or the engine died
    lied       \* history: what the game's database did is not what the grant reported

shopVars == <<player, ledger, orders, goods, buy, begun, sold, broken, lied, crashes>>

\* purse: the balance the middleware saw when the request came in.
Unasked == [at |-> "idle", purse |-> 0, alive |-> TRUE]
ShopPlaces == {"idle", "insert", "welcome", "debit", "grant", "refund", "order"}
Reasons == {"welcome", "credit", "debit", "refund"}

ShopInit ==
    /\ player = [there |-> FALSE, points |-> 0, link |-> FALSE]
    /\ ledger = [r \in Reasons |-> 0]
    /\ orders = 0 /\ goods = 0 /\ begun = 0 /\ sold = 0
    /\ buy = [c \in Clients |-> Unasked]
    /\ broken = FALSE /\ lied = FALSE
    /\ RequestsInit

Quits(c) == buy' = [buy EXCEPT ![c] = Unasked]
Steps(c, at) == buy' = [buy EXCEPT ![c].at = at]

\* AppendLedger's check, on the row it has just updated and holds.
Enough(c, delta) == player.points + delta >= 0

\* AppendLedger: balance and ledger row in one transaction.
AppendLedger(c, delta, reason) ==
    /\ buy[c].alive /\ Enough(c, delta)
    /\ player' = [player EXCEPT !.points = @ + delta]
    /\ ledger' = [ledger EXCEPT ![reason] = @ + 1]
-----------------------------------------------------------------------------
\* Register: the name is free; the UNIQUE column decides between two requests.
RegisterPlayer(c) ==
    /\ buy[c].at = "idle" /\ ~player.there
    /\ Steps(c, "insert")
    /\ UNCHANGED <<player, ledger, orders, goods, begun, sold, broken, lied, crashes>>

InsertPlayer(c) ==
    /\ buy[c].at = "insert"
    /\ IF player.there \/ ~buy[c].alive
       THEN Quits(c) /\ player' = player
       ELSE Steps(c, "welcome") /\ player' = [player EXCEPT !.there = TRUE]
    /\ UNCHANGED <<ledger, orders, goods, begun, sold, broken, lied, crashes>>

\* Register goes on without the welcome credit when it fails.
GiveWelcome(c) ==
    /\ buy[c].at = "welcome"
    /\ AppendLedger(c, Welcome, "welcome") \/ UNCHANGED <<player, ledger>>
    /\ Quits(c)
    /\ UNCHANGED <<orders, goods, begun, sold, broken, lied, crashes>>

\* Provision (EnsureLink) and Link
LinkGame(c) ==
    /\ buy[c].at = "idle" /\ player.there /\ ~player.link
    /\ player' = [player EXCEPT !.link = TRUE]
    /\ UNCHANGED <<ledger, orders, goods, buy, begun, sold, broken, lied, crashes>>

AdminCredit(c) ==
    /\ buy[c].at = "idle" /\ player.there /\ ledger["credit"] < MaxCredits
    /\ AppendLedger(c, Price, "credit")
    /\ UNCHANGED <<orders, goods, buy, begun, sold, broken, lied, crashes>>
-----------------------------------------------------------------------------
\* Buy: the player is read, the item and the link are there.
Buy(c) ==
    /\ buy[c].at = "idle" /\ player.there /\ player.link /\ begun < MaxBuys
    /\ begun' = begun + 1
    /\ buy' = [buy EXCEPT ![c] = [at |-> "debit", purse |-> player.points, alive |-> TRUE]]
    /\ UNCHANGED <<player, ledger, orders, goods, sold, broken, lied, crashes>>

\* Slip: the order is written with the debit.
DebitAndOrder(c) ==
    /\ buy[c].at = "debit"
    /\ AppendLedger(c, -Price, "debit")
    /\ orders' = orders + 1
    /\ Steps(c, "grant")
    /\ UNCHANGED <<goods, begun, sold, broken, lied, crashes>>

Debit(c) ==
    /\ buy[c].at = "debit"
    /\ AppendLedger(c, -Price, "debit")
    /\ Steps(c, "grant")
    /\ UNCHANGED <<orders, goods, begun, sold, broken, lied, crashes>>

DebitFails(c) ==
    /\ buy[c].at = "debit"
    /\ Quits(c)
    /\ UNCHANGED <<player, ledger, orders, goods, begun, sold, broken, lied, crashes>>

\* Grant: `mysql` in the container and, when that reports an error, `mariadb` with
\* the same SQL.  An UPDATE that matches no row is a success too; a command whose
\* error came after its work has done it, once or twice.
Booked(n) == goods' = goods + n
Grant(c) ==
    /\ buy[c].at = "grant" /\ buy[c].alive
    /\ \E n \in 0 .. 2 : Booked(n) /\ lied' = (lied \/ n # 1)
    /\ sold' = sold + 1
    /\ Steps(c, "order")
    /\ UNCHANGED <<player, ledger, orders, begun, broken, crashes>>

\* Slip: a failed grant is reported, and the price kept.
GrantFailsOnly(c) ==
    /\ buy[c].at = "grant"
    /\ Quits(c)
    /\ UNCHANGED <<player, ledger, orders, goods, begun, sold, broken, lied, crashes>>

GrantFails(c) ==
    /\ buy[c].at = "grant"
    /\ \E n \in 0 .. 2 : Booked(n) /\ lied' = (lied \/ n # 0)
    /\ Steps(c, "refund")
    /\ UNCHANGED <<player, ledger, orders, begun, sold, broken, crashes>>

\* Credit of the price, on the same context; its error is ignored.
Refund(c) ==
    /\ buy[c].at = "refund"
    /\ \/ AppendLedger(c, Price, "refund") /\ broken' = broken
       \/ broken' = TRUE /\ UNCHANGED <<player, ledger>>
    /\ Quits(c)
    /\ UNCHANGED <<orders, goods, begun, sold, lied, crashes>>

\* CreateOrder; its error is ignored.
CreateOrder(c) ==
    /\ buy[c].at = "order"
    /\ \/ buy[c].alive /\ orders' = orders + 1
       \/ orders' = orders
    /\ Quits(c)
    /\ UNCHANGED <<player, ledger, goods, begun, sold, broken, lied, crashes>>

HangUp(c) ==
    /\ buy[c].at # "idle" /\ buy[c].alive
    /\ buy' = [buy EXCEPT ![c].alive = FALSE]
    /\ broken' = TRUE
    /\ UNCHANGED <<player, ledger, orders, goods, begun, sold, lied, crashes>>

ShopCrash ==
    /\ EngineDies
    /\ buy' = [c \in Clients |-> Unasked]
    /\ broken' = TRUE
    /\ UNCHANGED <<player, ledger, orders, goods, begun, sold, lied>>

Trades(c) ==
    \/ RegisterPlayer(c) \/ InsertPlayer(c) \/ GiveWelcome(c) \/ LinkGame(c) \/ AdminCredit(c)
    \/ Buy(c) \/ Debit(c) \/ DebitFails(c) \/ Grant(c) \/ GrantFails(c) \/ Refund(c)
    \/ CreateOrder(c) \/ HangUp(c)

ShopNext == (\E c \in Clients : Trades(c)) \/ ShopCrash
ShopSpec == ShopInit /\ [][ShopNext]_shopVars
-----------------------------------------------------------------------------
ShopTypeOK ==
    /\ player \in [there : BOOLEAN, points : Int, link : BOOLEAN]
    /\ ledger \in [Reasons -> Nat]
    /\ orders \in 0 .. MaxBuys /\ sold \in 0 .. MaxBuys /\ begun \in 0 .. MaxBuys
    /\ goods \in Nat
    /\ buy \in [Clients -> [at : ShopPlaces, purse : Int, alive : BOOLEAN]]
    /\ broken \in BOOLEAN /\ lied \in BOOLEAN

\* However many purchases of one player run at once, none of them overdraws the
\* account: the check is made on the updated row inside the transaction.
NeverOverdrawn == player.points >= 0

\* Everything paid for is delivered or given back.  Two exceptions, both real: the
\* refund runs on the request's context, so a client that hangs up while the item
\* is delivered, like a crash, may lose the price; and the game's database may
\* have booked nothing, or twice, or what was reported as failed.
Open == Cardinality({c \in Clients : buy[c].at \in {"grant", "refund"}})
Settled ==
    /\ ~broken => ledger["debit"] = ledger["refund"] + sold + Open
    /\ ~lied => goods = sold

\* Whatever breaks, the orders never tell of more items than were paid for and not
\* refunded.
OrdersArePaid == orders + ledger["refund"] <= ledger["debit"]

\* Points, orders and delivered items add up.
PurchasesAreSound == NeverOverdrawn /\ OrdersArePaid /\ Settled
=============================================================================
