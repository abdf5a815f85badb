------------------------------- MODULE Wallet -------------------------------
(***************************************************************************)
(* Recharges, reservations and payment orders of billing/service.py under  *)
(* concurrent requests.  Every request is one database transaction.  It    *)
(* takes row locks one after another (SELECT ... FOR UPDATE), reads what   *)
(* it decides on under them, and commits or rolls back.  The provider      *)
(* profile that reserve and settle lock as well comes last, and its holder *)
(* waits for nothing else: it is left out.                                 *)
(*                                                                         *)
(* posted and reserved are the two sums the code computes with SUM(): the  *)
(* ledger rows of a wallet and its active reservations.  Ledger rows are   *)
(* only ever added, so the sum moves by the amount of the row.             *)
(***************************************************************************)
EXTENDS Integers, Sequences, FiniteSets, FiniteSetsExt

CONSTANTS
    Users,        \* one wallet each
    Orders,       \* recharge orders
    References,   \* external references: of admins, and trades of a gateway
    Requests,     \* request ids of reservations
    Clients,      \* transactions under way at a time
    Amounts,      \* the amounts requests carry
    PaidAmounts,  \* the amounts payment notifications carry
    MockTrade,    \* the trade number the mock cashier makes of an order
    Nobody        \* no user, no reference

ASSUME WalletAssumption ==
    /\ Amounts \subseteq Nat \ {0} /\ PaidAmounts \subseteq Nat
    /\ MockTrade \in [Orders -> References]
    /\ \A o, p \in Orders : MockTrade[o] = MockTrade[p] => o = p
    /\ Nobody \notin Users \cup References

VARIABLES
    posted,    \* user -> sum of the wallet's ledger rows
    reserved,  \* user -> sum of its active reservations
    record,    \* reference -> recharge record
    request,   \* request id -> reservation
    order,     \* order -> its row
    cashier,   \* whether PAYMENT_PROVIDER is mock
    call,      \* client -> what its transaction was asked to do
    plan,      \* client -> the row locks it has still to take
    holds,     \* client -> the row locks it has
    funds      \* client -> the available balance it has read, if it has

walletRows == <<posted, reserved, record, request, order, cashier>>
walletVars == <<posted, reserved, record, request, order, cashier,
                call, plan, holds, funds>>

RecordRow == [state : {"none", "credited", "reversed"},
              user : Users \cup {Nobody}, amount : Nat]
RequestRow == [state : {"none", "active", "settled", "released"},
               user : Users \cup {Nobody}, amount : Nat, charge : Nat]
OrderRow == [state : {"absent", "pending", "paid", "paid_mismatch"},
             user : Users \cup {Nobody}, amount : Nat,
             trade : References \cup {Nobody}]

\* Rows that are locked, by table and key.
WalletLock(u) == <<"wallets", u>>
OrderLock(o) == <<"recharge_orders", o>>
RecordLock(f) == <<"recharge_records", f>>
RequestLock(q) == <<"wallet_reservations", q>>

Idle == [op |-> "idle"]

WalletInit ==
    /\ posted = [u \in Users |-> 0]
    /\ reserved = [u \in Users |-> 0]
    /\ record = [f \in References |->
                    [state |-> "none", user |-> Nobody, amount |-> 0]]
    /\ request = [q \in Requests |->
                    [state |-> "none", user |-> Nobody, amount |-> 0,
                     charge |-> 0]]
    /\ order = [o \in Orders |->
                    [state |-> "absent", user |-> Nobody, amount |-> 0,
                     trade |-> Nobody]]
    /\ cashier = "mock"   \* the default
    /\ call = [c \in Clients |-> Idle]
    /\ plan = [c \in Clients |-> <<>>]
    /\ holds = [c \in Clients |-> {}]
    /\ funds = [c \in Clients |-> {}]

\* available_balance
Available(u) == posted[u] - reserved[u]

-----------------------------------------------------------------------------
(* Requests.  A request that is answered before it takes a lock (a         *)
(* reference that is already used, a row that is not there) is no step.    *)

Ask(c, what, locks) ==
    /\ call[c] = Idle
    /\ call' = [call EXCEPT ![c] = what]
    /\ plan' = [plan EXCEPT ![c] = locks]
    /\ UNCHANGED <<walletRows, holds, funds>>

\* POST /recharge-orders; the order number is fresh.
AskOrder(c) ==
    \E u \in Users, o \in Orders, a \in Amounts :
        /\ order[o].state = "absent"
        /\ \A d \in Clients : call[d].op = "order" => call[d].order # o
        /\ Ask(c, [op |-> "order", order |-> o, user |-> u, amount |-> a],
               <<WalletLock(u)>>)

\* A verified and paid notification, the first or a repeated one.
AskConfirm(c) ==
    /\ cashier = "gateway"
    /\ \E o \in Orders, t \in References, a \in PaidAmounts :
        /\ order[o].state # "absent"
        /\ Ask(c, [op |-> "confirm", order |-> o, ref |-> t, amount |-> a,
                   loaded |-> FALSE, seen |-> "absent"],
               <<OrderLock(o)>>)

\* The mock cashier (PAYMENT_PROVIDER=mock) makes the notification itself, of
\* an order that its route has loaded without a lock, as it saw it then.
AskMockConfirm(c) ==
    /\ cashier = "mock"
    /\ \E o \in Orders :
        /\ order[o].state # "absent"
        /\ Ask(c, [op |-> "confirm", order |-> o, ref |-> MockTrade[o],
                   amount |-> order[o].amount,
                   loaded |-> TRUE, seen |-> order[o].state],
               <<OrderLock(o)>>)

\* POST /admin/recharges
AskRecharge(c) ==
    \E u \in Users, f \in References, a \in Amounts :
        /\ record[f].state = "none"
        /\ Ask(c, [op |-> "recharge", user |-> u, ref |-> f, amount |-> a],
               <<WalletLock(u)>>)

\* POST /admin/recharges/{id}/reverse
AskReverse(c) ==
    \E f \in References :
        /\ record[f].state # "none"
        /\ Ask(c, [op |-> "reverse", ref |-> f], <<RecordLock(f)>>)

\* reserve looks for the request id first, and locks the row it finds.
AskReserve(c) ==
    \E u \in Users, q \in Requests, a \in Amounts :
        Ask(c, [op |-> "reserve", user |-> u, req |-> q, amount |-> a],
            IF request[q].state = "none" THEN <<WalletLock(u)>>
            ELSE <<RequestLock(q)>>)

\* settle: `amount' is what the verified usage costs.
AskSettle(c) ==
    \E q \in Requests, a \in Amounts \cup {0} :
        /\ request[q].state # "none"
        /\ Ask(c, [op |-> "settle", req |-> q, amount |-> a],
               <<RequestLock(q)>>)

AskRelease(c) ==
    \E q \in Requests :
        /\ request[q].state # "none"
        /\ Ask(c, [op |-> "release", req |-> q], <<RequestLock(q)>>)

-----------------------------------------------------------------------------
(* Locks                                                                   *)

Taken(c) == UNION {holds[d] : d \in Clients \ {c}}

\* The order's state as confirm_recharge_payment sees it under the lock.  The
\* session of the mock route has the order loaded already, and a locking query
\* does not refresh an object that is loaded.
SeenState(c) ==
    IF call[c].loaded THEN call[c].seen ELSE order[call[c].order].state

ConfirmLocks(w, seen) ==
    IF seen = "pending" /\ w.amount = order[w.order].amount
    THEN <<WalletLock(order[w.order].user)>> ELSE <<>>

ReverseLocks(w) ==
    IF record[w.ref].state = "credited"
    THEN <<WalletLock(record[w.ref].user)>> ELSE <<>>

ReserveLocks(w) ==
    IF request[w.req].state = "none" THEN <<>> ELSE <<RequestLock(w.req)>>

\* Variant: a recharge that finds its reference locks the record under the
\* wallet, where a reversal locks them the other way round.
LocksAfterOfRecharge(c, r) ==
    LET w == call[c] IN
    CASE w.op = "confirm" /\ r = OrderLock(w.order) -> ConfirmLocks(w, SeenState(c))
      [] w.op = "reverse" /\ r = RecordLock(w.ref) -> ReverseLocks(w)
      [] w.op = "recharge" /\ r = WalletLock(w.user) ->
           IF record[w.ref].state = "none" THEN <<>> ELSE <<RecordLock(w.ref)>>
      [] OTHER -> <<>>

\* The locks still to take once c has row r.
LocksAfter(c, r) ==
    LET w == call[c] IN
    CASE w.op = "confirm" /\ r = OrderLock(w.order) -> ConfirmLocks(w, SeenState(c))
      [] w.op = "reverse" /\ r = RecordLock(w.ref) -> ReverseLocks(w)
      [] w.op = "reserve" /\ r = WalletLock(w.user) -> ReserveLocks(w)
      [] w.op = "settle" /\ r = RequestLock(w.req) ->
           <<WalletLock(request[w.req].user)>>
      [] OTHER -> <<>>

LockRow(c) ==
    /\ plan[c] # <<>>
    /\ LET r == Head(plan[c]) IN
       /\ r \notin Taken(c)
       /\ holds' = [holds EXCEPT ![c] = @ \cup {r}]
       /\ plan' = [plan EXCEPT ![c] = LocksAfter(c, r)]
    /\ UNCHANGED <<walletRows, call, funds>>

\* Variant: the funds are read without the wallet's lock.
ReadFundsUnlocked(c) ==
    /\ funds[c] = {}
    /\ \/ /\ call[c].op = "reverse" /\ record[call[c].ref].state = "credited"
          /\ funds' = [funds EXCEPT ![c] = {Available(record[call[c].ref].user)}]
       \/ /\ call[c].op = "reserve"
          /\ funds' = [funds EXCEPT ![c] = {Available(call[c].user)}]
    /\ UNCHANGED <<walletRows, call, plan, holds>>

\* available_balance: two sums, of which the second may miss a reservation that
\* was released after the first.  What the transaction decides on it is written
\* later, with its commit.
ReadFunds(c) ==
    /\ plan[c] = <<>> /\ holds[c] # {} /\ funds[c] = {}
    /\ \/ /\ call[c].op = "reverse" /\ record[call[c].ref].state = "credited"
          /\ funds' = [funds EXCEPT ![c] = {Available(record[call[c].ref].user)}]
       \/ /\ call[c].op = "reserve" /\ request[call[c].req].state = "none"
          /\ funds' = [funds EXCEPT ![c] = {Available(call[c].user)}]
    /\ UNCHANGED <<walletRows, call, plan, holds>>

-----------------------------------------------------------------------------
(* Ends of transactions                                                    *)

EndCall(c) ==
    /\ call' = [call EXCEPT ![c] = Idle]
    /\ plan' = [plan EXCEPT ![c] = <<>>]
    /\ holds' = [holds EXCEPT ![c] = {}]
    /\ funds' = [funds EXCEPT ![c] = {}]

\* All locks are taken and the request is of kind op.
AtEnd(c, op) == call[c].op = op /\ plan[c] = <<>> /\ holds[c] # {}

\* Variant: the second look at the reference is left out, and the reference
\* is not unique.
CreditUnchecked(u, f, a) ==
    /\ record' = [record EXCEPT ![f] =
                    [state |-> "credited", user |-> u, amount |-> a]]
    /\ posted' = [posted EXCEPT ![u] = @ + a]

\* create_manual_recharge: the reference is looked up again under the wallet
\* lock, and it is unique across wallets.
Credit(u, f, a) ==
    /\ record[f].state = "none"
    /\ record' = [record EXCEPT ![f] =
                    [state |-> "credited", user |-> u, amount |-> a]]
    /\ posted' = [posted EXCEPT ![u] = @ + a]

CommitOrder(c) ==
    LET w == call[c] IN
    /\ AtEnd(c, "order")
    /\ order' = [order EXCEPT ![w.order] =
                    [state |-> "pending", user |-> w.user,
                     amount |-> w.amount, trade |-> Nobody]]
    /\ EndCall(c)
    /\ UNCHANGED <<posted, reserved, record, request, cashier>>

\* recharge_orders.gateway_trade_no is unique.
TradeIsNew(o, t) == \A p \in Orders \ {o} : order[p].trade # t

ConfirmedOrder(o, state, t) ==
    [order EXCEPT ![o] = [state |-> state, user |-> order[o].user,
                          amount |-> order[o].amount, trade |-> t]]

CommitConfirm(c) ==
    LET w == call[c] IN
    /\ AtEnd(c, "confirm")
    /\ SeenState(c) = "pending"
    /\ TradeIsNew(w.order, w.ref)
    /\ w.amount = order[w.order].amount
    /\ Credit(order[w.order].user, w.ref, w.amount)
    /\ order' = ConfirmedOrder(w.order, "paid", w.ref)
    /\ EndCall(c)
    /\ UNCHANGED <<reserved, request, cashier>>

\* A payment of another amount is recorded and never credited.
CommitMismatch(c) ==
    LET w == call[c] IN
    /\ AtEnd(c, "confirm")
    /\ SeenState(c) = "pending"
    /\ TradeIsNew(w.order, w.ref)
    /\ w.amount # order[w.order].amount
    /\ order' = ConfirmedOrder(w.order, "paid_mismatch", w.ref)
    /\ EndCall(c)
    /\ UNCHANGED <<posted, reserved, record, request, cashier>>

CommitRecharge(c) ==
    LET w == call[c] IN
    /\ AtEnd(c, "recharge")
    /\ Credit(w.user, w.ref, w.amount)
    /\ EndCall(c)
    /\ UNCHANGED <<reserved, request, order, cashier>>

\* What a reversal may take: the amount must still be available.
Reversible(c, f) ==
    /\ record[f].state = "credited"
    /\ \E available \in funds[c] : available >= record[f].amount

CommitReverse(c) ==
    LET f == call[c].ref
        u == record[f].user IN
    /\ AtEnd(c, "reverse")
    /\ Reversible(c, f)
    /\ record' = [record EXCEPT ![f] =
                    [state |-> "reversed", user |-> u,
                     amount |-> record[f].amount]]
    /\ posted' = [posted EXCEPT ![u] = @ - record[f].amount]
    /\ EndCall(c)
    /\ UNCHANGED <<reserved, request, order, cashier>>

CommitReserve(c) ==
    LET w == call[c] IN
    /\ AtEnd(c, "reserve")
    /\ request[w.req].state = "none"
    /\ \E available \in funds[c] : available >= w.amount
    /\ request' = [request EXCEPT ![w.req] =
                    [state |-> "active", user |-> w.user,
                     amount |-> w.amount, charge |-> 0]]
    /\ reserved' = [reserved EXCEPT ![w.user] = @ + w.amount]
    /\ EndCall(c)
    /\ UNCHANGED <<posted, record, order, cashier>>

\* The reservation q ends, and leaves the sum of active ones.
EndReservation(q, state, charge) ==
    LET r == request[q] IN
    /\ request' = [request EXCEPT ![q] =
                    [state |-> state, user |-> r.user, amount |-> r.amount,
                     charge |-> charge]]
    /\ reserved' = [reserved EXCEPT ![r.user] = @ - r.amount]

CommitSettle(c) ==
    LET w == call[c]
        r == request[w.req] IN
    /\ AtEnd(c, "settle")
    /\ r.state = "active"
    /\ w.amount <= r.amount
    /\ EndReservation(w.req, "settled", w.amount)
    /\ posted' = [posted EXCEPT ![r.user] = @ - w.amount]
    /\ EndCall(c)
    /\ UNCHANGED <<record, order, cashier>>

\* Variant: a settled reservation may be released as well.
CommitReleaseAgain(c) ==
    /\ AtEnd(c, "release")
    /\ request[call[c].req].state \in {"active", "settled"}
    /\ EndReservation(call[c].req, "released", 0)
    /\ EndCall(c)
    /\ UNCHANGED <<posted, record, order, cashier>>

CommitRelease(c) ==
    /\ AtEnd(c, "release")
    /\ request[call[c].req].state = "active"
    /\ EndReservation(call[c].req, "released", 0)
    /\ EndCall(c)
    /\ UNCHANGED <<posted, record, order, cashier>>

\* A refusal, an early return, an IntegrityError, a gateway that fails while an
\* order is opened, a deadlock resolved at this one's cost, a lost connection.
Rollback(c) ==
    /\ call[c] # Idle
    /\ EndCall(c)
    /\ UNCHANGED walletRows

\* The provider is configured anew, with a restart of the API.
Reconfigure ==
    /\ \A c \in Clients : call[c] = Idle
    /\ cashier' \in {"mock", "gateway"} \ {cashier}
    /\ UNCHANGED <<posted, reserved, record, request, order, call, plan, holds,
                   funds>>

WalletNext ==
    \/ Reconfigure
    \/ \E c \in Clients :
        \/ AskOrder(c) \/ AskConfirm(c) \/ AskMockConfirm(c)
        \/ AskRecharge(c) \/ AskReverse(c)
        \/ AskReserve(c) \/ AskSettle(c) \/ AskRelease(c)
        \/ LockRow(c) \/ ReadFunds(c)
        \/ CommitOrder(c) \/ CommitConfirm(c) \/ CommitMismatch(c)
        \/ CommitRecharge(c) \/ CommitReverse(c)
        \/ CommitReserve(c) \/ CommitSettle(c) \/ CommitRelease(c)
        \/ Rollback(c)

WalletSpec == WalletInit /\ [][WalletNext]_walletVars

-----------------------------------------------------------------------------
(* Properties                                                              *)

WalletTypeOK ==
    /\ posted \in [Users -> Int]
    /\ reserved \in [Users -> Int]
    /\ record \in [References -> RecordRow]
    /\ request \in [Requests -> RequestRow]
    /\ order \in [Orders -> OrderRow]
    /\ cashier \in {"mock", "gateway"}
    /\ funds \in [Clients -> SUBSET Int]

\* The available balance of a wallet is never negative, whatever reservations,
\* settlements, reversals and recharges run at the same time: what one of them
\* decided on under its locks still holds when it commits (service.py:155).
NeverOverdrawn == \A u \in Users : Available(u) >= 0

\* What the rows with keys S add up to.
AmountsOf(rows, S) == MapThenSumSet(LAMBDA x : rows[x].amount, S)
ChargesOf(rows, S) == MapThenSumSet(LAMBDA x : rows[x].charge, S)

\* The keys of a user's credited recharges, reservations and active ones.
CreditedBy(rows, u) ==
    {f \in References : rows[f].user = u /\ rows[f].state = "credited"}
RequestsBy(rows, u) == {q \in Requests : rows[q].user = u}
ActiveBy(rows, u) == {q \in RequestsBy(rows, u) : rows[q].state = "active"}

\* A paid order has exactly one recharge, its own, of the order's amount.
PaidMeansCredited ==
    \A o \in Orders :
        order[o].state = "paid" =>
            LET f == order[o].trade IN
            /\ f \in References
            /\ record[f].state # "none"
            /\ record[f].user = order[o].user
            /\ record[f].amount = order[o].amount
            /\ \A p \in Orders \ {o} : order[p].trade # f

\* The two sums are what the histories of recharges and reservations say: each
\* reference credited at most once and taken back at most once, each paid order
\* credited once with its own amount, each reservation charged at most once
\* (service.py:286, 205, 434).
BalanceIsItsHistory ==
    PaidMeansCredited /\
    \A u \in Users :
        /\ posted[u] = AmountsOf(record, CreditedBy(record, u))
                         - ChargesOf(request, RequestsBy(request, u))
        /\ reserved[u] = AmountsOf(request, ActiveBy(request, u))

\* What has ended stays ended: no later request, repeated, late or concurrent,
\* changes a settled or released reservation, a reversed recharge or an order
\* that has been answered for.
EndedRowsStay ==
    /\ \A q \in Requests :
           request[q].state \in {"settled", "released"} =>
               request'[q] = request[q]
    /\ \A f \in References :
           record[f].state = "reversed" => record'[f] = record[f]
    /\ \A o \in Orders :
           order[o].state \in {"paid", "paid_mismatch"} =>
               order'[o] = order[o]
EndedStaysEnded == [][EndedRowsStay]_walletVars

WaitsFor(c) ==
    IF plan[c] = <<>> THEN {}
    ELSE {d \in Clients \ {c} : Head(plan[c]) \in holds[d]}

\* Two transactions wait for each other only if one repeats a reservation that
\* it did not find at first and the other settles it: all the others take the
\* wallet's row last (service.py:379).
OnlyRepeatedReservationsDeadlock ==
    \A c, d \in Clients :
        c \in WaitsFor(d) /\ d \in WaitsFor(c) =>
            {call[c].op, call[d].op} = {"reserve", "settle"}
=============================================================================
