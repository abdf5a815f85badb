-------------------------- MODULE BillingProofs ----------------------------
(***************************************************************************)
(* Proofs about Wallet and PaymentCallbacks, for any number of users,      *)
(* orders, references, reservations, calls, certificates and restarts.     *)
(*                                                                         *)
(* Wallet.  What a transaction decides on is stable because of the row     *)
(* locks it has: the invariant says which locks each kind of request has   *)
(* and waits for (Shape), that no row is locked twice (Exclusive), and     *)
(* what was read under them that still holds when the transaction commits  *)
(* (FundsHold for the available balance, StaleSeen for the order that the  *)
(* mock cashier's route has loaded before it locks it).                    *)
(*                                                                         *)
(* Balances.  The sums of the wallet's tables are folds over sets.  Total  *)
(* is the same sum as a recursive function over the subsets of a set; that *)
(* a fold is a Total, and what one changed row does to a Total, follow for *)
(* a counterexample of the smallest size, which cannot be.  HistoryInv     *)
(* then adds to the wallet's invariant what the balances add up to.        *)
(*                                                                         *)
(* PaymentCallbacks.  A row is pending before its trade can be paid, what  *)
(* the payer did is done once, and a call that has recorded it only has    *)
(* the answer left to give.                                                *)
(***************************************************************************)
EXTENDS Wallet, PaymentCallbacks, FiniteSetTheorems, TLAPS

-----------------------------------------------------------------------------
(* Wallet *)

Ops == {"idle", "order", "confirm", "recharge", "reverse", "reserve", "settle",
        "release"}

(* The fields that a request of each kind has. *)
Formed(w) ==
    /\ w.op \in Ops
    /\ w.op = "order" => w.order \in Orders /\ w.user \in Users /\ w.amount \in Nat
    /\ w.op = "confirm" => /\ w.order \in Orders /\ w.ref \in References
                           /\ w.amount \in Nat /\ w.loaded \in BOOLEAN
    /\ w.op = "recharge" => /\ w.user \in Users /\ w.ref \in References
                            /\ w.amount \in Nat
    /\ w.op = "reverse" => w.ref \in References
    /\ w.op = "reserve" => /\ w.user \in Users /\ w.req \in Requests
                           /\ w.amount \in Nat
    /\ w.op = "settle" => w.req \in Requests /\ w.amount \in Nat
    /\ w.op = "release" => w.req \in Requests

(* Rows name a user as soon as they exist. *)
RowsHaveUsers ==
    /\ \A f \in References : record[f].state # "none" => record[f].user \in Users
    /\ \A q \in Requests : request[q].state # "none" => request[q].user \in Users
    /\ \A o \in Orders : order[o].state # "absent" => order[o].user \in Users

Typed ==
    /\ WalletTypeOK
    /\ RowsHaveUsers
    /\ call = [c \in Clients |-> call[c]]
    /\ plan = [c \in Clients |-> plan[c]]
    /\ holds = [c \in Clients |-> holds[c]]
    /\ \A c \in Clients : Formed(call[c])

(* The locks h that a request w has, and the plan p, by its kind. *)
ShapeOf(w, p, h) ==
    /\ w.op \in {"order", "recharge"} =>
         \/ p = <<WalletLock(w.user)>> /\ h = {}
         \/ p = <<>>
    /\ w.op = "confirm" =>
         \/ p = <<OrderLock(w.order)>> /\ h = {}
         \/ (\E u \in Users : p = <<WalletLock(u)>>) /\ h = {OrderLock(w.order)}
         \/ p = <<>>
    /\ w.op = "reverse" =>
         /\ record[w.ref].state # "none"
         /\ \/ p = <<RecordLock(w.ref)>> /\ h = {}
            \/ p = <<WalletLock(record[w.ref].user)>> /\ h = {RecordLock(w.ref)}
            \/ /\ p = <<>>
               /\ \/ record[w.ref].state = "reversed"
                  \/ WalletLock(record[w.ref].user) \in h
    /\ w.op = "reserve" =>
         \/ p = <<WalletLock(w.user)>> /\ h = {}
         \/ /\ p = <<RequestLock(w.req)>>
            /\ h \subseteq {WalletLock(w.user)}
            /\ request[w.req].state # "none"
         \/ /\ p = <<>>
            /\ request[w.req].state # "none" \/ WalletLock(w.user) \in h
    /\ w.op = "settle" =>
         /\ request[w.req].state # "none"
         /\ \/ p = <<RequestLock(w.req)>> /\ h = {}
            \/ p = <<WalletLock(request[w.req].user)>> /\ h = {RequestLock(w.req)}
            \/ p = <<>>
    /\ w.op = "release" =>
         \/ p = <<RequestLock(w.req)>> /\ h = {}
         \/ p = <<>>

Shape(c) ==
    /\ call[c].op = "idle" => /\ call[c] = Idle
                              /\ plan[c] = <<>> /\ holds[c] = {} /\ funds[c] = {}
    /\ ShapeOf(call[c], plan[c], holds[c])

Shapes == \A c \in Clients : Shape(c)

(* A row is locked by one transaction at a time. *)
Exclusive == \A c, d \in Clients : c # d => holds[c] \cap holds[d] = {}

(* What a reservation or a reversal has read, under the wallet's lock, is  *)
(* still there: releases only add to it.                                   *)
FundsHold ==
    \A c \in Clients : \A n \in funds[c] :
        /\ call[c].op \in {"reverse", "reserve"}
        /\ plan[c] = <<>>
        /\ \E u \in Users :
             /\ u = IF call[c].op = "reverse" THEN record[call[c].ref].user
                    ELSE call[c].user
             /\ WalletLock(u) \in holds[c]
             /\ n <= Available(u)

(* The order numbers of orders that are being made are fresh. *)
FreshOrders ==
    \A c \in Clients : call[c].op = "order" =>
        /\ order[call[c].order].state = "absent"
        /\ \A d \in Clients \ {c} :
             call[d].op = "order" => call[d].order # call[c].order

(* A notification is about an order there is.  One that the mock cashier   *)
(* made has the order's amount, and when the order was answered for since  *)
(* it was loaded, the trade has its recharge already.                      *)
StaleSeen ==
    \A c \in Clients : call[c].op = "confirm" =>
        LET w == call[c] IN
        /\ order[w.order].state # "absent"
        /\ w.loaded <=> cashier = "mock"
        /\ w.loaded => /\ w.ref = MockTrade[w.order]
                       /\ w.amount = order[w.order].amount
                       /\ w.seen = "pending" /\ order[w.order].state # "pending"
                            => record[w.ref].state # "none"

WalletInv ==
    Typed /\ Shapes /\ Exclusive /\ FundsHold /\ FreshOrders /\ StaleSeen
    /\ NeverOverdrawn /\ PaidMeansCredited
-----------------------------------------------------------------------------
(* Locks of different tables or keys are different. *)
LEMMA LocksDiffer ==
  /\ \A x, y : WalletLock(x) # OrderLock(y) /\ WalletLock(x) # RecordLock(y)
  /\ \A x, y : WalletLock(x) # RequestLock(y)
  /\ \A x, y : OrderLock(x) # RecordLock(y) /\ OrderLock(x) # RequestLock(y)
  /\ \A x, y : RecordLock(x) # RequestLock(y)
  /\ \A x, y : WalletLock(x) = WalletLock(y) => x = y
  /\ \A x, y : RequestLock(x) = RequestLock(y) => x = y
BY DEF WalletLock, OrderLock, RecordLock, RequestLock

LEMMA InitWalletInv == WalletInit => WalletInv
<1> SUFFICES ASSUME WalletInit PROVE WalletInv
  OBVIOUS
<1>1. Typed
  BY DEF WalletInit, Typed, WalletTypeOK, RowsHaveUsers, RecordRow, RequestRow,
     OrderRow, Formed, Ops, Idle
<1>2. Shapes
  BY DEF WalletInit, Shapes, Shape, ShapeOf, Idle
<1>3. Exclusive /\ FundsHold /\ FreshOrders /\ StaleSeen
  BY DEF WalletInit, Exclusive, FundsHold, FreshOrders, StaleSeen, Idle
<1>4. NeverOverdrawn /\ PaidMeansCredited
  BY DEF WalletInit, NeverOverdrawn, PaidMeansCredited, Available
<1> QED
  BY <1>1, <1>2, <1>3, <1>4 DEF WalletInv

-----------------------------------------------------------------------------
(* A request begins.                                                       *)

(* No row changes: what a request is asked to do need only be well formed. *)
LEMMA AskStep ==
  ASSUME WalletInv, NEW c \in Clients, NEW what, NEW locks,
         Ask(c, what, locks), Formed(what), what.op # "idle",
         ShapeOf(what, locks, {})
  PROVE  Typed' /\ Shapes' /\ Exclusive' /\ FundsHold' /\ NeverOverdrawn'
         /\ PaidMeansCredited'
<1> USE DEF WalletInv
<1>1. /\ UNCHANGED <<walletRows, holds, funds>>
      /\ call' = [call EXCEPT ![c] = what]
      /\ plan' = [plan EXCEPT ![c] = locks]
      /\ call[c] = Idle
  BY DEF Ask
<1>2. Typed'
  BY <1>1 DEF Typed, WalletTypeOK, RowsHaveUsers, walletRows
<1>3. /\ call'[c] = what /\ plan'[c] = locks
      /\ \A d \in Clients \ {c} : call'[d] = call[d] /\ plan'[d] = plan[d]
      /\ holds[c] = {} /\ funds[c] = {}
  BY <1>1 DEF Typed, Shapes, Shape, Idle
<1>4. Shapes'
  BY <1>1, <1>3 DEF Shapes, Shape, ShapeOf, walletRows
<1>5. Exclusive' /\ FundsHold'
  BY <1>1, <1>3 DEF Exclusive, FundsHold, Available, walletRows
<1>6. NeverOverdrawn' /\ PaidMeansCredited'
  BY <1>1 DEF NeverOverdrawn, PaidMeansCredited, Available, walletRows
<1> QED
  BY <1>2, <1>4, <1>5, <1>6

AskSome(c) ==
    \/ AskOrder(c) \/ AskConfirm(c) \/ AskMockConfirm(c) \/ AskRecharge(c)
    \/ AskReverse(c) \/ AskReserve(c) \/ AskSettle(c) \/ AskRelease(c)

LEMMA AskOrderStep ==
  ASSUME WalletInv, NEW c \in Clients, AskOrder(c)
  PROVE  WalletInv'
<1>1. PICK u \in Users, o \in Orders, a \in Amounts :
        /\ order[o].state = "absent"
        /\ \A d \in Clients : call[d].op = "order" => call[d].order # o
        /\ Ask(c, [op |-> "order", order |-> o, user |-> u, amount |-> a],
               <<WalletLock(u)>>)
  BY DEF AskOrder
<1> DEFINE what == [op |-> "order", order |-> o, user |-> u, amount |-> a]
<1>2. Formed(what) /\ ShapeOf(what, <<WalletLock(u)>>, {})
  BY WalletAssumption DEF Formed, Ops, ShapeOf
<1>3. Typed' /\ Shapes' /\ Exclusive' /\ FundsHold' /\ NeverOverdrawn'
      /\ PaidMeansCredited'
  BY <1>1, <1>2, AskStep
<1>4. /\ UNCHANGED walletRows
      /\ \A d \in Clients : call'[d] = IF d = c THEN what ELSE call[d]
  BY <1>1 DEF Ask, WalletInv, Typed
<1>5. FreshOrders'
  BY <1>1, <1>4 DEF WalletInv, FreshOrders, walletRows
<1>6. StaleSeen'
  BY <1>4 DEF WalletInv, StaleSeen, walletRows
<1> QED
  BY <1>3, <1>5, <1>6 DEF WalletInv

LEMMA AskConfirmStep ==
  ASSUME WalletInv, NEW c \in Clients, AskConfirm(c) \/ AskMockConfirm(c)
  PROVE  WalletInv'
<1>1. PICK o \in Orders, t \in References, a \in Nat, l \in BOOLEAN,
           seen \in {"absent"} \cup {order[p].state : p \in Orders} :
        /\ order[o].state # "absent"
        /\ l <=> cashier = "mock"
        /\ l => /\ t = MockTrade[o] /\ a = order[o].amount
                /\ seen = order[o].state
        /\ Ask(c, [op |-> "confirm", order |-> o, ref |-> t, amount |-> a,
                   loaded |-> l, seen |-> seen], <<OrderLock(o)>>)
  <2>1. CASE AskConfirm(c)
    <3>1. PICK o \in Orders, t \in References, a \in PaidAmounts :
            /\ order[o].state # "absent"
            /\ Ask(c, [op |-> "confirm", order |-> o, ref |-> t, amount |-> a,
                       loaded |-> FALSE, seen |-> "absent"], <<OrderLock(o)>>)
      BY <2>1 DEF AskConfirm
    <3>2. cashier # "mock" /\ a \in Nat
      BY <2>1, WalletAssumption DEF AskConfirm
    <3> QED
      BY <3>1, <3>2
  <2>2. CASE AskMockConfirm(c)
    <3>1. PICK o \in Orders :
            /\ order[o].state # "absent"
            /\ Ask(c, [op |-> "confirm", order |-> o, ref |-> MockTrade[o],
                       amount |-> order[o].amount,
                       loaded |-> TRUE, seen |-> order[o].state], <<OrderLock(o)>>)
      BY <2>2 DEF AskMockConfirm
    <3>2. /\ cashier = "mock" /\ MockTrade[o] \in References
          /\ order[o].amount \in Nat
      BY <2>2, WalletAssumption
         DEF AskMockConfirm, WalletInv, Typed, WalletTypeOK, OrderRow
    <3> QED
      BY <3>1, <3>2
  <2> QED
    BY <2>1, <2>2
<1> DEFINE what == [op |-> "confirm", order |-> o, ref |-> t, amount |-> a,
                    loaded |-> l, seen |-> seen]
<1>2. Formed(what) /\ ShapeOf(what, <<OrderLock(o)>>, {})
  BY DEF Formed, Ops, ShapeOf
<1>3. Typed' /\ Shapes' /\ Exclusive' /\ FundsHold' /\ NeverOverdrawn'
      /\ PaidMeansCredited'
  BY <1>1, <1>2, AskStep
<1>4. /\ UNCHANGED walletRows
      /\ \A d \in Clients : call'[d] = IF d = c THEN what ELSE call[d]
  BY <1>1 DEF Ask, WalletInv, Typed
<1>5. FreshOrders'
  BY <1>4 DEF WalletInv, FreshOrders, walletRows
<1>6. StaleSeen'
  BY <1>1, <1>4 DEF WalletInv, StaleSeen, walletRows
<1> QED
  BY <1>3, <1>5, <1>6 DEF WalletInv

(* The other requests are about no order. *)
LEMMA AskOtherStep ==
  ASSUME WalletInv, NEW c \in Clients, NEW what, NEW locks,
         Ask(c, what, locks), Formed(what), ShapeOf(what, locks, {}),
         what.op \notin {"idle", "order", "confirm"}
  PROVE  WalletInv'
<1>1. Typed' /\ Shapes' /\ Exclusive' /\ FundsHold' /\ NeverOverdrawn'
      /\ PaidMeansCredited'
  BY AskStep
<1>2. /\ UNCHANGED walletRows
      /\ \A d \in Clients : call'[d] = IF d = c THEN what ELSE call[d]
  BY DEF Ask, WalletInv, Typed
<1>3. FreshOrders' /\ StaleSeen'
  BY <1>2 DEF WalletInv, FreshOrders, StaleSeen, walletRows
<1> QED
  BY <1>1, <1>3 DEF WalletInv

LEMMA AskSomeStep ==
  ASSUME WalletInv, NEW c \in Clients, AskSome(c)
  PROVE  WalletInv'
<1>1. CASE AskRecharge(c)
  <2>1. PICK u \in Users, f \in References, a \in Amounts :
          Ask(c, [op |-> "recharge", user |-> u, ref |-> f, amount |-> a],
              <<WalletLock(u)>>)
    BY <1>1 DEF AskRecharge
  <2> QED
    BY <2>1, AskOtherStep, WalletAssumption DEF Formed, Ops, ShapeOf
<1>2. CASE AskReverse(c)
  <2>1. PICK f \in References :
          /\ record[f].state # "none"
          /\ Ask(c, [op |-> "reverse", ref |-> f], <<RecordLock(f)>>)
    BY <1>2 DEF AskReverse
  <2> QED
    BY <2>1, AskOtherStep DEF Formed, Ops, ShapeOf
<1>3. CASE AskReserve(c)
  <2>1. PICK u \in Users, q \in Requests, a \in Amounts :
          Ask(c, [op |-> "reserve", user |-> u, req |-> q, amount |-> a],
              IF request[q].state = "none" THEN <<WalletLock(u)>>
              ELSE <<RequestLock(q)>>)
    BY <1>3 DEF AskReserve
  <2> DEFINE what == [op |-> "reserve", user |-> u, req |-> q, amount |-> a]
             locks == IF request[q].state = "none" THEN <<WalletLock(u)>>
                      ELSE <<RequestLock(q)>>
  <2>2. Formed(what) /\ ShapeOf(what, locks, {})
    BY WalletAssumption DEF Formed, Ops, ShapeOf
  <2> QED
    BY <2>1, <2>2, AskOtherStep
<1>4. CASE AskSettle(c)
  <2>1. PICK q \in Requests, a \in Amounts \cup {0} :
          /\ request[q].state # "none"
          /\ Ask(c, [op |-> "settle", req |-> q, amount |-> a], <<RequestLock(q)>>)
    BY <1>4 DEF AskSettle
  <2> DEFINE what == [op |-> "settle", req |-> q, amount |-> a]
  <2>2. a \in Nat
    BY WalletAssumption
  <2>3. Formed(what) /\ ShapeOf(what, <<RequestLock(q)>>, {})
    BY <2>1, <2>2 DEF Formed, Ops, ShapeOf
  <2> QED
    BY <2>1, <2>3, AskOtherStep
<1>5. CASE AskRelease(c)
  <2>1. PICK q \in Requests :
          Ask(c, [op |-> "release", req |-> q], <<RequestLock(q)>>)
    BY <1>5 DEF AskRelease
  <2> QED
    BY <2>1, AskOtherStep DEF Formed, Ops, ShapeOf
<1> QED
  BY <1>1, <1>2, <1>3, <1>4, <1>5, AskOrderStep, AskConfirmStep DEF AskSome

-----------------------------------------------------------------------------
(* A request takes a lock, or reads the available balance.                 *)

(* Neither changes a row, nor what is asked. *)
LEMMA QuietStep ==
  ASSUME WalletInv, UNCHANGED <<walletRows, call>>
  PROVE  FreshOrders' /\ StaleSeen' /\ NeverOverdrawn' /\ PaidMeansCredited'
BY DEF WalletInv, FreshOrders, StaleSeen, NeverOverdrawn, PaidMeansCredited,
   Available, walletRows

LEMMA LockRowStep ==
  ASSUME WalletInv, NEW c \in Clients, LockRow(c)
  PROVE  WalletInv'
<1> USE DEF WalletInv
<1> DEFINE r == Head(plan[c])
           w == call[c]
<1>1. /\ plan[c] # <<>> /\ r \notin Taken(c)
      /\ UNCHANGED <<walletRows, call, funds>>
      /\ holds'[c] = holds[c] \cup {r}
      /\ plan'[c] = LocksAfter(c, r)
      /\ \A d \in Clients \ {c} : holds'[d] = holds[d] /\ plan'[d] = plan[d]
      /\ holds' = [d \in Clients |-> holds'[d]]
      /\ plan' = [d \in Clients |-> plan'[d]]
  BY DEF LockRow, Typed
<1>2. Typed'
  BY <1>1 DEF Typed, WalletTypeOK, RowsHaveUsers, walletRows
<1>3. Shape(c)'
  <2>1. ShapeOf(w, plan[c], holds[c]) /\ Formed(w) /\ w.op # "idle"
    BY <1>1 DEF Shapes, Shape, Typed
  <2>2. ShapeOf(w, LocksAfter(c, r), holds[c] \cup {r})
    <3>1. CASE w.op \in {"order", "recharge", "release"}
      BY <1>1, <2>1, <3>1 DEF ShapeOf, LocksAfter
    <3>2. CASE w.op = "confirm"
      <4>1. order[w.order].user \in Users
        BY <2>1, <3>2 DEF Formed, StaleSeen, Typed, RowsHaveUsers
      <4>2. CASE plan[c] = <<OrderLock(w.order)>> /\ holds[c] = {}
        <5>1. LocksAfter(c, r) = ConfirmLocks(w, SeenState(c)) /\ r = OrderLock(w.order)
          BY <3>2, <4>2 DEF LocksAfter
        <5> QED
          BY <3>2, <4>1, <4>2, <5>1 DEF ShapeOf, ConfirmLocks
      <4>3. CASE \E u \in Users : plan[c] = <<WalletLock(u)>>
        <5>1. LocksAfter(c, r) = <<>>
          BY <3>2, <4>3, LocksDiffer DEF LocksAfter
        <5> QED
          BY <3>2, <5>1 DEF ShapeOf
      <4> QED
        BY <1>1, <2>1, <3>2, <4>2, <4>3 DEF ShapeOf
    <3>3. CASE w.op = "reverse"
      <4>1. w.ref \in References /\ record[w.ref].state # "none"
        BY <2>1, <3>3 DEF Formed, ShapeOf
      <4>2. record[w.ref].state \in {"credited", "reversed"}
        BY <4>1 DEF Typed, WalletTypeOK, RecordRow
      <4>3. CASE plan[c] = <<RecordLock(w.ref)>> /\ holds[c] = {}
        <5>1. LocksAfter(c, r) = ReverseLocks(w) /\ r = RecordLock(w.ref)
          BY <3>3, <4>3 DEF LocksAfter
        <5> QED
          BY <3>3, <4>1, <4>2, <4>3, <5>1 DEF ShapeOf, ReverseLocks
      <4>4. CASE plan[c] = <<WalletLock(record[w.ref].user)>>
        <5>1. LocksAfter(c, r) = <<>> /\ r = WalletLock(record[w.ref].user)
          BY <3>3, <4>4, LocksDiffer DEF LocksAfter
        <5> QED
          BY <3>3, <4>1, <5>1 DEF ShapeOf
      <4> QED
        BY <1>1, <2>1, <3>3, <4>3, <4>4 DEF ShapeOf
    <3>4. CASE w.op = "reserve"
      <4>1. CASE plan[c] = <<WalletLock(w.user)>> /\ holds[c] = {}
        <5>1. LocksAfter(c, r) = ReserveLocks(w) /\ r = WalletLock(w.user)
          BY <3>4, <4>1 DEF LocksAfter
        <5> QED
          BY <3>4, <4>1, <5>1 DEF ShapeOf, ReserveLocks
      <4>2. CASE plan[c] = <<RequestLock(w.req)>> /\ request[w.req].state # "none"
        <5>1. LocksAfter(c, r) = <<>>
          BY <3>4, <4>2, LocksDiffer DEF LocksAfter
        <5> QED
          BY <3>4, <4>2, <5>1 DEF ShapeOf
      <4> QED
        BY <1>1, <2>1, <3>4, <4>1, <4>2 DEF ShapeOf
    <3>5. CASE w.op = "settle"
      <4>1. request[w.req].state # "none"
        BY <2>1, <3>5 DEF ShapeOf
      <4>2. CASE plan[c] = <<RequestLock(w.req)>> /\ holds[c] = {}
        <5>1. /\ LocksAfter(c, r) = <<WalletLock(request[w.req].user)>>
              /\ r = RequestLock(w.req)
          BY <3>5, <4>2 DEF LocksAfter
        <5> QED
          BY <3>5, <4>1, <4>2, <5>1 DEF ShapeOf
      <4>3. CASE plan[c] = <<WalletLock(request[w.req].user)>>
        <5>1. LocksAfter(c, r) = <<>>
          BY <3>5, <4>3, LocksDiffer DEF LocksAfter
        <5> QED
          BY <3>5, <4>1, <5>1 DEF ShapeOf
      <4> QED
        BY <1>1, <2>1, <3>5, <4>2, <4>3 DEF ShapeOf
    <3> QED
      BY <2>1, <3>1, <3>2, <3>3, <3>4, <3>5 DEF Formed, Ops
  <2>3. ShapeOf(call[c], plan[c], holds[c])'
    BY <1>1, <2>2 DEF ShapeOf, walletRows
  <2> QED
    BY <1>1, <2>1, <2>3 DEF Shape
<1>4. Shapes'
  <2>1. ASSUME NEW d \in Clients, d # c PROVE Shape(d)'
    BY <1>1, <2>1 DEF Shapes, Shape, ShapeOf, walletRows
  <2> QED
    BY <1>3, <2>1 DEF Shapes
<1>5. Exclusive'
  BY <1>1 DEF Exclusive, Taken
<1>6. FundsHold'
  <2>1. funds[c] = {}
    BY <1>1 DEF FundsHold
  <2> QED
    BY <1>1, <2>1 DEF FundsHold, Available, walletRows
<1> QED
  BY <1>1, <1>2, <1>4, <1>5, <1>6, QuietStep

LEMMA ReadFundsStep ==
  ASSUME WalletInv, NEW c \in Clients, ReadFunds(c)
  PROVE  WalletInv'
<1> USE DEF WalletInv
<1> DEFINE w == call[c]
           u == IF w.op = "reverse" THEN record[w.ref].user ELSE w.user
<1>1. /\ UNCHANGED <<walletRows, call, plan, holds>>
      /\ funds' = [funds EXCEPT ![c] = {Available(u)}]
      /\ plan[c] = <<>> /\ holds[c] # {}
      /\ \/ w.op = "reverse" /\ record[w.ref].state = "credited"
         \/ w.op = "reserve" /\ request[w.req].state = "none"
  BY DEF ReadFunds
<1>2. WalletLock(u) \in holds[c] /\ u \in Users
  <2>1. ShapeOf(w, plan[c], holds[c]) /\ Formed(w)
    BY <1>1 DEF Shapes, Shape, Typed
  <2>2. CASE w.op = "reverse" /\ record[w.ref].state = "credited"
    <3>1. u = record[w.ref].user /\ u \in Users
      BY <2>1, <2>2 DEF Formed, Typed, RowsHaveUsers
    <3>2. WalletLock(record[w.ref].user) \in holds[c]
      BY <1>1, <2>1, <2>2 DEF ShapeOf
    <3> QED
      BY <3>1, <3>2
  <2>3. CASE w.op = "reserve" /\ request[w.req].state = "none"
    <3>1. u = w.user /\ u \in Users
      BY <2>1, <2>3 DEF Formed
    <3>2. WalletLock(w.user) \in holds[c]
      BY <1>1, <2>1, <2>3 DEF ShapeOf
    <3> QED
      BY <3>1, <3>2
  <2> QED
    BY <1>1, <2>2, <2>3
<1>3. Available(u) \in Int
  BY <1>2 DEF Available, Typed, WalletTypeOK
<1>4. Typed' /\ Shapes' /\ Exclusive'
  <2>1. Typed'
    BY <1>1, <1>3 DEF Typed, WalletTypeOK, RowsHaveUsers, walletRows
  <2>2. Shapes'
    BY <1>1 DEF Shapes, Shape, ShapeOf, walletRows, Typed, WalletTypeOK
  <2>3. Exclusive'
    BY <1>1 DEF Exclusive
  <2> QED
    BY <2>1, <2>2, <2>3
<1>5. FundsHold'
  <2>1. funds'[c] = {Available(u)} /\ \A d \in Clients \ {c} : funds'[d] = funds[d]
    BY <1>1 DEF Typed, WalletTypeOK
  <2>2. Available(u) <= Available(u)
    BY <1>3
  <2>3. \A v : Available(v)' = Available(v)
    BY <1>1 DEF Available, walletRows
  <2>4. UNCHANGED <<record, call, plan, holds>>
    BY <1>1 DEF walletRows
  <2>5. \A n \in funds'[c] : WalletLock(u) \in holds[c] /\ n <= Available(u)
    BY <1>2, <2>1, <2>2
  <2>6. w.op \in {"reverse", "reserve"}
    BY <1>1
  <2> QED
    BY <1>1, <1>2, <2>1, <2>3, <2>4, <2>5, <2>6 DEF FundsHold
<1> QED
  BY <1>1, <1>4, <1>5, QuietStep

-----------------------------------------------------------------------------
(* A transaction ends, with or without a change of rows.                   *)

(* Rows stay, and with them whom they belong to. *)
RowsStay ==
    /\ \A f \in References : record[f].state # "none" =>
         /\ record'[f].state # "none" /\ record'[f].user = record[f].user
         /\ record[f].state = "reversed" => record'[f].state = "reversed"
    /\ \A q \in Requests : request[q].state # "none" =>
         request'[q].state # "none" /\ request'[q].user = request[q].user
    /\ \A o \in Orders : order[o].state # "absent" =>
         /\ order'[o].state # "absent"
         /\ order'[o].user = order[o].user /\ order'[o].amount = order[o].amount

(* Paid orders stay covered when no order becomes paid, no other order takes *)
(* their recharge, and no recharge disappears or changes hands.              *)
LEMMA PaidStaysCovered ==
  ASSUME PaidMeansCredited,
         \A o \in Orders :
            \/ order'[o] = order[o]
            \/ /\ order'[o].state # "paid"
               /\ \A p \in Orders \ {o} : order[p].trade # order'[o].trade,
         \A f \in References : record[f].state # "none" =>
            /\ record'[f].state # "none"
            /\ record'[f].user = record[f].user
            /\ record'[f].amount = record[f].amount
  PROVE  PaidMeansCredited'
<1> SUFFICES ASSUME NEW o \in Orders, order'[o].state = "paid"
             PROVE  LET f == order'[o].trade IN
                    /\ f \in References
                    /\ record'[f].state # "none"
                    /\ record'[f].user = order'[o].user
                    /\ record'[f].amount = order'[o].amount
                    /\ \A p \in Orders \ {o} : order'[p].trade # f
  BY DEF PaidMeansCredited
<1>1. order'[o] = order[o]
  OBVIOUS
<1> DEFINE f == order[o].trade
<1>2. /\ f \in References
      /\ record[f].state # "none"
      /\ record[f].user = order[o].user
      /\ record[f].amount = order[o].amount
      /\ \A p \in Orders \ {o} : order[p].trade # f
  BY <1>1 DEF PaidMeansCredited
<1>3. \A p \in Orders \ {o} : order'[p].trade # f
  BY <1>2
<1> QED
  BY <1>1, <1>2, <1>3

(* The end of c takes from a balance only what c has locked. *)
LEMMA EndStep ==
  ASSUME WalletInv, NEW c \in Clients, EndCall(c), RowsStay,
         WalletTypeOK', RowsHaveUsers', UNCHANGED cashier,
         \A u \in Users : Available(u)' >= Available(u) \/ WalletLock(u) \in holds[c],
         \A o \in Orders :
           order[o].state = "absent" /\ order'[o].state # "absent" =>
             call[c].op = "order" /\ call[c].order = o,
         \A o \in Orders :
           order[o].state = "pending" /\ order'[o].state # "pending" =>
             (cashier = "mock" => record'[MockTrade[o]].state # "none")
  PROVE  Typed' /\ Shapes' /\ Exclusive' /\ FundsHold' /\ FreshOrders'
         /\ StaleSeen'
<1> USE DEF WalletInv
<1>1. /\ call'[c] = Idle /\ plan'[c] = <<>> /\ holds'[c] = {} /\ funds'[c] = {}
      /\ \A d \in Clients \ {c} : /\ call'[d] = call[d] /\ plan'[d] = plan[d]
                                  /\ holds'[d] = holds[d] /\ funds'[d] = funds[d]
      /\ call' = [d \in Clients |-> call'[d]]
      /\ plan' = [d \in Clients |-> plan'[d]]
      /\ holds' = [d \in Clients |-> holds'[d]]
  BY DEF EndCall, Typed, WalletTypeOK
<1>2. Typed'
  BY <1>1 DEF Typed, Formed, Ops, Idle
<1>3. Shapes'
  <2>1. Shape(c)'
    BY <1>1 DEF Shape, ShapeOf, Idle
  <2>2. ASSUME NEW d \in Clients, d # c PROVE Shape(d)'
    <3>1. Shape(d) /\ Formed(call[d])
      BY DEF Shapes, Typed
    <3> QED
      BY <1>1, <2>2, <3>1 DEF Shape, ShapeOf, Formed, RowsStay
  <2> QED
    BY <2>1, <2>2 DEF Shapes
<1>4. Exclusive'
  BY <1>1 DEF Exclusive
<1>5. FundsHold'
  <2> SUFFICES ASSUME NEW d \in Clients, NEW n \in funds'[d]
               PROVE  /\ call'[d].op \in {"reverse", "reserve"}
                      /\ plan'[d] = <<>>
                      /\ \E u \in Users :
                           /\ u = IF call'[d].op = "reverse"
                                  THEN record'[call'[d].ref].user ELSE call'[d].user
                           /\ WalletLock(u) \in holds'[d]
                           /\ n <= Available(u)'
    BY DEF FundsHold
  <2>1. d # c /\ n \in funds[d]
    BY <1>1
  <2>2. PICK u \in Users :
          /\ call[d].op \in {"reverse", "reserve"} /\ plan[d] = <<>>
          /\ u = IF call[d].op = "reverse" THEN record[call[d].ref].user
                 ELSE call[d].user
          /\ WalletLock(u) \in holds[d] /\ n <= Available(u)
    BY <2>1 DEF FundsHold
  <2>3. call[d].op = "reverse" => record'[call[d].ref].user = record[call[d].ref].user
    BY DEF Shapes, Shape, ShapeOf, Typed, Formed, RowsStay
  <2>4. WalletLock(u) \notin holds[c]
    BY <2>1, <2>2 DEF Exclusive
  <2>5. n \in Int /\ Available(u) \in Int /\ Available(u)' \in Int
    BY <2>1 DEF Available, Typed, WalletTypeOK
  <2>6. n <= Available(u)'
    BY <2>2, <2>4, <2>5
  <2> QED
    BY <1>1, <2>1, <2>2, <2>3, <2>6
<1>6. FreshOrders'
  BY <1>1 DEF FreshOrders, Idle, Typed, Formed
<1>7. StaleSeen'
  <2> SUFFICES ASSUME NEW d \in Clients, call'[d].op = "confirm"
               PROVE  LET w == call'[d] IN
                      /\ order'[w.order].state # "absent"
                      /\ w.loaded <=> cashier' = "mock"
                      /\ w.loaded =>
                           /\ w.ref = MockTrade[w.order]
                           /\ w.amount = order'[w.order].amount
                           /\ w.seen = "pending" /\ order'[w.order].state # "pending"
                                => record'[w.ref].state # "none"
    BY DEF StaleSeen
  <2>1. d # c /\ call'[d] = call[d]
    BY <1>1 DEF Idle
  <2>2. call[d].order \in Orders /\ call[d].ref \in References
    BY <2>1 DEF Typed, Formed
  <2> QED
    BY <2>1, <2>2 DEF StaleSeen, RowsStay
<1> QED
  BY <1>2, <1>3, <1>4, <1>5, <1>6, <1>7

LEMMA RollbackStep ==
  ASSUME WalletInv, NEW c \in Clients, Rollback(c)
  PROVE  WalletInv'
<1>1. /\ UNCHANGED walletRows /\ EndCall(c)
      /\ WalletTypeOK' /\ RowsHaveUsers'
  BY DEF Rollback, EndCall, WalletInv, Typed, WalletTypeOK, RowsHaveUsers, walletRows
<1>2. RowsStay
  BY <1>1 DEF RowsStay, walletRows
<1>3. \A u \in Users : Available(u)' >= Available(u)
  BY <1>1 DEF Available, walletRows, WalletInv, Typed, WalletTypeOK
<1>4. Typed' /\ Shapes' /\ Exclusive' /\ FundsHold' /\ FreshOrders' /\ StaleSeen'
  BY <1>1, <1>2, <1>3, EndStep DEF walletRows
<1>5. NeverOverdrawn' /\ PaidMeansCredited'
  BY <1>1 DEF NeverOverdrawn, PaidMeansCredited, Available, walletRows, WalletInv
<1> QED
  BY <1>4, <1>5 DEF WalletInv

-----------------------------------------------------------------------------
(* Commits.                                                                *)

LEMMA CommitOrderStep ==
  ASSUME WalletInv, NEW c \in Clients, CommitOrder(c)
  PROVE  WalletInv' /\ EndedRowsStay
<1> USE DEF WalletInv
<1> DEFINE w == call[c]
<1>1. /\ EndCall(c) /\ w.op = "order"
      /\ UNCHANGED <<posted, reserved, record, request, cashier>>
      /\ w.order \in Orders /\ w.user \in Users /\ w.amount \in Nat
      /\ order[w.order].state = "absent"
      /\ order' = [order EXCEPT ![w.order] =
                     [state |-> "pending", user |-> w.user,
                      amount |-> w.amount, trade |-> Nobody]]
  BY DEF CommitOrder, AtEnd, Typed, Formed, FreshOrders
<1>2. WalletTypeOK' /\ RowsHaveUsers'
  <2>1. funds' \in [Clients -> SUBSET Int]
    BY <1>1 DEF EndCall, Typed, WalletTypeOK
  <2> QED
    BY <1>1, <2>1 DEF Typed, WalletTypeOK, RowsHaveUsers, OrderRow
<1>3. /\ order'[w.order] = [state |-> "pending", user |-> w.user,
                            amount |-> w.amount, trade |-> Nobody]
      /\ \A o \in Orders \ {w.order} : order'[o] = order[o]
  BY <1>1 DEF Typed, WalletTypeOK
<1>4. RowsStay
  BY <1>1, <1>3 DEF RowsStay
<1>5. \A u \in Users : Available(u)' >= Available(u)
  BY <1>1 DEF Available, Typed, WalletTypeOK
<1>6. Typed' /\ Shapes' /\ Exclusive' /\ FundsHold' /\ FreshOrders' /\ StaleSeen'
  BY <1>1, <1>2, <1>3, <1>4, <1>5, EndStep
<1>7. NeverOverdrawn'
  BY <1>1 DEF NeverOverdrawn, Available
<1>8. PaidMeansCredited'
  BY <1>1, <1>3, WalletAssumption DEF PaidMeansCredited
<1>9. EndedRowsStay
  BY <1>1, <1>3 DEF EndedRowsStay
<1> QED
  BY <1>6, <1>7, <1>8, <1>9

LEMMA CommitMismatchStep ==
  ASSUME WalletInv, NEW c \in Clients, CommitMismatch(c)
  PROVE  WalletInv' /\ EndedRowsStay
<1> USE DEF WalletInv
<1> DEFINE w == call[c]
<1>1. /\ EndCall(c) /\ w.op = "confirm"
      /\ UNCHANGED <<posted, reserved, record, request, cashier>>
      /\ w.order \in Orders /\ w.ref \in References
      /\ order[w.order].state # "absent"
      /\ w.amount # order[w.order].amount
      /\ SeenState(c) = "pending"
      /\ TradeIsNew(w.order, w.ref)
      /\ order' = ConfirmedOrder(w.order, "paid_mismatch", w.ref)
  BY DEF CommitMismatch, AtEnd, Typed, Formed, StaleSeen
<1>2. cashier = "gateway" /\ order[w.order].state = "pending"
  BY <1>1 DEF StaleSeen, SeenState, Typed, WalletTypeOK, Formed
<1>3. /\ order'[w.order] = [state |-> "paid_mismatch", user |-> order[w.order].user,
                            amount |-> order[w.order].amount, trade |-> w.ref]
      /\ \A o \in Orders \ {w.order} : order'[o] = order[o]
      /\ order' \in [Orders -> OrderRow]
  BY <1>1 DEF Typed, WalletTypeOK, ConfirmedOrder, OrderRow
<1>4. WalletTypeOK' /\ RowsHaveUsers'
  <2>1. funds' \in [Clients -> SUBSET Int]
    BY <1>1 DEF EndCall, Typed, WalletTypeOK
  <2> QED
    BY <1>1, <1>3, <2>1 DEF Typed, WalletTypeOK, RowsHaveUsers
<1>5. RowsStay
  BY <1>1, <1>3 DEF RowsStay
<1>6. \A u \in Users : Available(u)' >= Available(u)
  BY <1>1 DEF Available, Typed, WalletTypeOK
<1>7. Typed' /\ Shapes' /\ Exclusive' /\ FundsHold' /\ FreshOrders' /\ StaleSeen'
  BY <1>1, <1>2, <1>3, <1>4, <1>5, <1>6, EndStep
<1>8. NeverOverdrawn'
  BY <1>1 DEF NeverOverdrawn, Available
<1>9. PaidMeansCredited'
  <2>1. \A p \in Orders \ {w.order} : order[p].trade # order'[w.order].trade
    BY <1>1, <1>3 DEF TradeIsNew
  <2>2. order'[w.order].state # "paid"
    BY <1>3
  <2>3. record' = record /\ PaidMeansCredited
    BY <1>1
  <2> QED
    BY <1>3, <2>1, <2>2, <2>3, PaidStaysCovered
<1>10. EndedRowsStay
  BY <1>1, <1>2, <1>3 DEF EndedRowsStay
<1> QED
  BY <1>7, <1>8, <1>9, <1>10

(* A credit adds to one balance, and its reference had none before. *)
LEMMA CreditAdds ==
  ASSUME WalletInv, NEW u \in Users, NEW f \in References, NEW a \in Nat,
         Credit(u, f, a), UNCHANGED <<reserved, request>>
  PROVE  /\ posted' \in [Users -> Int]
         /\ record' \in [References -> RecordRow]
         /\ record[f].state = "none"
         /\ record'[f] = [state |-> "credited", user |-> u, amount |-> a]
         /\ \A g \in References \ {f} : record'[g] = record[g]
         /\ \A v \in Users : Available(v)' >= Available(v)
<1>1. posted' \in [Users -> Int] /\ record' \in [References -> RecordRow]
  BY DEF Credit, WalletInv, Typed, WalletTypeOK, RecordRow
<1>2. \A v \in Users : posted'[v] >= posted[v]
  BY DEF Credit, WalletInv, Typed, WalletTypeOK
<1>3. \A v \in Users : Available(v)' >= Available(v)
  BY <1>1, <1>2 DEF Available, WalletInv, Typed, WalletTypeOK
<1> QED
  BY <1>1, <1>3 DEF Credit, WalletInv, Typed, WalletTypeOK

LEMMA CommitRechargeStep ==
  ASSUME WalletInv, NEW c \in Clients, CommitRecharge(c)
  PROVE  WalletInv' /\ EndedRowsStay
<1> USE DEF WalletInv
<1> DEFINE w == call[c]
<1>1. /\ EndCall(c) /\ w.op = "recharge"
      /\ UNCHANGED <<reserved, request, order, cashier>>
      /\ w.user \in Users /\ w.ref \in References /\ w.amount \in Nat
      /\ Credit(w.user, w.ref, w.amount)
  BY DEF CommitRecharge, AtEnd, Typed, Formed
<1>2. /\ posted' \in [Users -> Int]
      /\ record' \in [References -> RecordRow]
      /\ record[w.ref].state = "none"
      /\ record'[w.ref] = [state |-> "credited", user |-> w.user, amount |-> w.amount]
      /\ \A g \in References \ {w.ref} : record'[g] = record[g]
      /\ \A v \in Users : Available(v)' >= Available(v)
  BY <1>1, CreditAdds
<1>3. WalletTypeOK' /\ RowsHaveUsers'
  <2>1. funds' \in [Clients -> SUBSET Int]
    BY <1>1 DEF EndCall, Typed, WalletTypeOK
  <2> QED
    BY <1>1, <1>2, <2>1 DEF Typed, WalletTypeOK, RowsHaveUsers
<1>4. RowsStay
  BY <1>1, <1>2 DEF RowsStay
<1>5. Typed' /\ Shapes' /\ Exclusive' /\ FundsHold' /\ FreshOrders' /\ StaleSeen'
  BY <1>1, <1>2, <1>3, <1>4, EndStep
<1>6. NeverOverdrawn'
  BY <1>1, <1>2, <1>3 DEF NeverOverdrawn, Available, Typed, WalletTypeOK
<1>7. PaidMeansCredited'
  BY <1>1, <1>2 DEF PaidMeansCredited
<1>8. EndedRowsStay
  BY <1>1, <1>2 DEF EndedRowsStay
<1> QED
  BY <1>5, <1>6, <1>7, <1>8

LEMMA CommitConfirmStep ==
  ASSUME WalletInv, NEW c \in Clients, CommitConfirm(c)
  PROVE  WalletInv' /\ EndedRowsStay
<1> USE DEF WalletInv
<1> DEFINE w == call[c]
           u == order[w.order].user
<1>1. /\ EndCall(c) /\ w.op = "confirm"
      /\ UNCHANGED <<reserved, request, cashier>>
      /\ w.order \in Orders /\ w.ref \in References /\ w.amount \in Nat
      /\ order[w.order].state # "absent"
      /\ w.amount = order[w.order].amount
      /\ SeenState(c) = "pending"
      /\ TradeIsNew(w.order, w.ref)
      /\ order' = ConfirmedOrder(w.order, "paid", w.ref)
      /\ Credit(u, w.ref, w.amount)
      /\ u \in Users
  BY DEF CommitConfirm, AtEnd, Typed, Formed, StaleSeen, RowsHaveUsers
<1>2. /\ posted' \in [Users -> Int]
      /\ record' \in [References -> RecordRow]
      /\ record[w.ref].state = "none"
      /\ record'[w.ref] = [state |-> "credited", user |-> u, amount |-> w.amount]
      /\ \A g \in References \ {w.ref} : record'[g] = record[g]
      /\ \A v \in Users : Available(v)' >= Available(v)
  BY <1>1, CreditAdds
<1>3. /\ order[w.order].state = "pending"
      /\ cashier = "mock" => record'[MockTrade[w.order]].state # "none"
  BY <1>1, <1>2 DEF StaleSeen, SeenState, Typed, Formed
<1>4. /\ order'[w.order] = [state |-> "paid", user |-> u,
                            amount |-> w.amount, trade |-> w.ref]
      /\ \A o \in Orders \ {w.order} : order'[o] = order[o]
      /\ order' \in [Orders -> OrderRow]
  BY <1>1 DEF Typed, WalletTypeOK, ConfirmedOrder, OrderRow
<1>5. WalletTypeOK' /\ RowsHaveUsers'
  <2>1. funds' \in [Clients -> SUBSET Int]
    BY <1>1 DEF EndCall, Typed, WalletTypeOK
  <2> QED
    BY <1>1, <1>2, <1>4, <2>1 DEF Typed, WalletTypeOK, RowsHaveUsers
<1>6. RowsStay
  <2>1. request' = request
    BY <1>1
  <2>2. \A g \in References : record[g].state # "none" => record'[g] = record[g]
    BY <1>2
  <2>3. \A o \in Orders : order[o].state # "absent" =>
           /\ order'[o].state # "absent"
           /\ order'[o].user = order[o].user /\ order'[o].amount = order[o].amount
    BY <1>1, <1>4
  <2> HIDE DEF WalletInv
  <2> QED
    BY <2>1, <2>2, <2>3 DEF RowsStay
<1>7. Typed' /\ Shapes' /\ Exclusive' /\ FundsHold' /\ FreshOrders' /\ StaleSeen'
  BY <1>1, <1>2, <1>3, <1>4, <1>5, <1>6, EndStep
<1>8. NeverOverdrawn'
  BY <1>2, <1>5 DEF NeverOverdrawn, Available, Typed, WalletTypeOK
<1>9. PaidMeansCredited'
  <2> SUFFICES ASSUME NEW o \in Orders, order'[o].state = "paid"
               PROVE  LET f == order'[o].trade IN
                      /\ f \in References
                      /\ record'[f].state # "none"
                      /\ record'[f].user = order'[o].user
                      /\ record'[f].amount = order'[o].amount
                      /\ \A p \in Orders \ {o} : order'[p].trade # f
    BY DEF PaidMeansCredited
  <2>1. CASE o = w.order
    <3>1. \A p \in Orders \ {o} : order'[p].trade # w.ref
      BY <1>1, <1>4, <2>1 DEF TradeIsNew
    <3>2. /\ order'[o].trade = w.ref /\ order'[o].user = u
          /\ order'[o].amount = w.amount /\ w.ref \in References
      BY <1>1, <1>4, <2>1
    <3>3. /\ record'[w.ref].state # "none" /\ record'[w.ref].user = u
          /\ record'[w.ref].amount = w.amount
      BY <1>2
    <3> HIDE DEF w, u
    <3> QED
      BY <3>1, <3>2, <3>3
  <2>2. CASE o # w.order
    <3>1. /\ order'[o] = order[o] /\ order[o].trade \in References
          /\ record[order[o].trade].state # "none"
          /\ record[order[o].trade].user = order[o].user
          /\ record[order[o].trade].amount = order[o].amount
          /\ \A p \in Orders \ {o} : order[p].trade # order[o].trade
      BY <1>4, <2>2 DEF PaidMeansCredited
    <3>2. order[o].trade # w.ref /\ record'[order[o].trade] = record[order[o].trade]
      BY <1>1, <1>2, <2>2, <3>1 DEF TradeIsNew
    <3>3. \A p \in Orders \ {o} : order'[p].trade # order[o].trade
      BY <1>1, <1>4, <3>1, <3>2
    <3>4. order'[o].trade = order[o].trade /\ order'[o].user = order[o].user
          /\ order'[o].amount = order[o].amount
      BY <3>1
    <3>5. /\ record'[order[o].trade].state # "none"
          /\ record'[order[o].trade].user = order[o].user
          /\ record'[order[o].trade].amount = order[o].amount
      BY <3>1, <3>2
    <3> QED
      BY <3>1, <3>3, <3>4, <3>5
  <2> QED
    BY <2>1, <2>2
<1>10. EndedRowsStay
  BY <1>1, <1>2, <1>3, <1>4 DEF EndedRowsStay
<1> QED
  BY <1>7, <1>8, <1>9, <1>10

LEMMA CommitReverseStep ==
  ASSUME WalletInv, NEW c \in Clients, CommitReverse(c)
  PROVE  WalletInv' /\ EndedRowsStay
<1> USE DEF WalletInv
<1> DEFINE f == call[c].ref
           u == record[f].user
           a == record[f].amount
<1>1. PICK n \in funds[c] :
        /\ EndCall(c) /\ call[c].op = "reverse" /\ n >= a
        /\ UNCHANGED <<reserved, request, order, cashier>>
        /\ f \in References /\ record[f].state = "credited"
        /\ record' = [record EXCEPT ![f] = [state |-> "reversed", user |-> u,
                                            amount |-> a]]
        /\ posted' = [posted EXCEPT ![u] = @ - a]
  BY DEF CommitReverse, AtEnd, Reversible, Typed, Formed
<1>2. u \in Users /\ a \in Nat
  BY <1>1 DEF Typed, RowsHaveUsers, WalletTypeOK, RecordRow
<1>3. WalletLock(u) \in holds[c] /\ n <= Available(u) /\ n \in Int
  BY <1>1 DEF FundsHold, Typed, WalletTypeOK
<1>4. /\ record' \in [References -> RecordRow]
      /\ record'[f] = [state |-> "reversed", user |-> u, amount |-> a]
      /\ \A g \in References \ {f} : record'[g] = record[g]
      /\ posted' \in [Users -> Int]
      /\ posted'[u] = posted[u] - a
      /\ \A v \in Users \ {u} : posted'[v] = posted[v]
  BY <1>1, <1>2 DEF Typed, WalletTypeOK, RecordRow
<1>5. WalletTypeOK' /\ RowsHaveUsers'
  <2>1. funds' \in [Clients -> SUBSET Int]
    BY <1>1 DEF EndCall, Typed, WalletTypeOK
  <2> QED
    <3>1. /\ WalletTypeOK /\ RowsHaveUsers
          /\ UNCHANGED <<reserved, request, order, cashier>>
      BY <1>1 DEF Typed
    <3>2. \A g \in References :
             record'[g].state # "none" => record'[g].user \in Users
      BY <1>2, <1>4, <3>1 DEF RowsHaveUsers
    <3> HIDE DEF WalletInv, f, u, a
    <3>3. WalletTypeOK'
      BY <1>4, <2>1, <3>1 DEF WalletTypeOK
    <3>4. RowsHaveUsers'
      BY <3>1, <3>2 DEF RowsHaveUsers
    <3> QED
      BY <3>3, <3>4
<1>6. RowsStay
  BY <1>1, <1>4 DEF RowsStay
<1>7. \A v \in Users \ {u} : Available(v)' = Available(v)
  BY <1>1, <1>4 DEF Available
<1>8. \A v \in Users : Available(v)' >= Available(v) \/ WalletLock(v) \in holds[c]
  BY <1>3, <1>7 DEF Available, Typed, WalletTypeOK
<1>9. Typed' /\ Shapes' /\ Exclusive' /\ FundsHold' /\ FreshOrders' /\ StaleSeen'
  BY <1>1, <1>5, <1>6, <1>8, EndStep
<1>10. posted'[u] - reserved'[u] >= 0
  <2>1. n >= a /\ n \in Int /\ n <= posted[u] - reserved[u]
    BY <1>1, <1>3 DEF Available
  <2>2. posted'[u] = posted[u] - a /\ reserved'[u] = reserved[u]
    BY <1>1, <1>4
  <2>3. posted[u] \in Int /\ reserved[u] \in Int
    BY <1>2 DEF Typed, WalletTypeOK
  <2> HIDE DEF WalletInv, f, u, a
  <2> QED
    BY <1>2, <2>1, <2>2, <2>3
<1>11. NeverOverdrawn'
  BY <1>7, <1>10 DEF NeverOverdrawn, Available
<1>12. PaidMeansCredited'
  <2>1. \A g \in References : record[g].state # "none" =>
           /\ record'[g].state # "none"
           /\ record'[g].user = record[g].user /\ record'[g].amount = record[g].amount
    BY <1>1, <1>4
  <2>2. order' = order /\ PaidMeansCredited
    BY <1>1
  <2> QED
    BY <2>1, <2>2, PaidStaysCovered
<1>13. EndedRowsStay
  BY <1>1, <1>4 DEF EndedRowsStay
<1> QED
  BY <1>9, <1>11, <1>12, <1>13

LEMMA CommitReserveStep ==
  ASSUME WalletInv, NEW c \in Clients, CommitReserve(c)
  PROVE  WalletInv' /\ EndedRowsStay
<1> USE DEF WalletInv
<1> DEFINE w == call[c]
           u == w.user
<1>1. PICK n \in funds[c] :
        /\ EndCall(c) /\ w.op = "reserve" /\ n >= w.amount
        /\ UNCHANGED <<posted, record, order, cashier>>
        /\ u \in Users /\ w.req \in Requests /\ w.amount \in Nat
        /\ request[w.req].state = "none"
        /\ request' = [request EXCEPT ![w.req] =
                         [state |-> "active", user |-> u, amount |-> w.amount,
                          charge |-> 0]]
        /\ reserved' = [reserved EXCEPT ![u] = @ + w.amount]
  BY DEF CommitReserve, AtEnd, Typed, Formed
<1>2. WalletLock(u) \in holds[c] /\ n <= Available(u) /\ n \in Int
  BY <1>1 DEF FundsHold, Typed, WalletTypeOK
<1>3. /\ request' \in [Requests -> RequestRow]
      /\ request'[w.req] = [state |-> "active", user |-> u, amount |-> w.amount,
                            charge |-> 0]
      /\ \A q \in Requests \ {w.req} : request'[q] = request[q]
      /\ reserved' \in [Users -> Int]
      /\ reserved'[u] = reserved[u] + w.amount
      /\ \A v \in Users \ {u} : reserved'[v] = reserved[v]
  BY <1>1 DEF Typed, WalletTypeOK, RequestRow
<1>4. WalletTypeOK' /\ RowsHaveUsers'
  <2>1. funds' \in [Clients -> SUBSET Int]
    BY <1>1 DEF EndCall, Typed, WalletTypeOK
  <2> QED
    BY <1>1, <1>3, <2>1 DEF Typed, WalletTypeOK, RowsHaveUsers
<1>5. RowsStay
  BY <1>1, <1>3 DEF RowsStay
<1>6. \A v \in Users \ {u} : Available(v)' = Available(v)
  BY <1>1, <1>3 DEF Available
<1>7. \A v \in Users : Available(v)' >= Available(v) \/ WalletLock(v) \in holds[c]
  BY <1>2, <1>6 DEF Available, Typed, WalletTypeOK
<1>8. Typed' /\ Shapes' /\ Exclusive' /\ FundsHold' /\ FreshOrders' /\ StaleSeen'
  BY <1>1, <1>4, <1>5, <1>7, EndStep
<1>9. posted'[u] - reserved'[u] >= 0
  BY <1>1, <1>2, <1>3 DEF Available, Typed, WalletTypeOK
<1>10. NeverOverdrawn'
  BY <1>6, <1>9 DEF NeverOverdrawn, Available
<1>11. PaidMeansCredited'
  BY <1>1 DEF PaidMeansCredited
<1>12. EndedRowsStay
  BY <1>1, <1>3 DEF EndedRowsStay
<1> QED
  BY <1>8, <1>10, <1>11, <1>12

(* The end of a reservation adds what it held to what is available. *)
LEMMA EndReservationStep ==
  ASSUME WalletInv, NEW c \in Clients, NEW q \in Requests,
         NEW st \in {"settled", "released"}, NEW charge \in Nat,
         request[q].state = "active", EndCall(c),
         EndReservation(q, st, charge),
         posted' = [posted EXCEPT ![request[q].user] = @ - charge],
         charge <= request[q].amount, UNCHANGED <<record, order, cashier>>
  PROVE  WalletInv' /\ EndedRowsStay
<1> USE DEF WalletInv
<1> DEFINE u == request[q].user
           a == request[q].amount
<1>1. u \in Users /\ a \in Nat
  BY DEF Typed, RowsHaveUsers, WalletTypeOK, RequestRow
<1>2. /\ request' \in [Requests -> RequestRow]
      /\ request'[q] = [state |-> st, user |-> u, amount |-> a, charge |-> charge]
      /\ \A p \in Requests \ {q} : request'[p] = request[p]
      /\ reserved' \in [Users -> Int]
      /\ reserved'[u] = reserved[u] - a
      /\ \A v \in Users \ {u} : reserved'[v] = reserved[v]
  BY <1>1 DEF EndReservation, Typed, WalletTypeOK, RequestRow
<1>3. /\ posted' \in [Users -> Int]
      /\ posted'[u] = posted[u] - charge
      /\ \A v \in Users \ {u} : posted'[v] = posted[v]
  BY <1>1 DEF Typed, WalletTypeOK
<1>4. WalletTypeOK' /\ RowsHaveUsers'
  <2>1. funds' \in [Clients -> SUBSET Int]
    BY DEF EndCall, Typed, WalletTypeOK
  <2> QED
    BY <1>1, <1>2, <1>3, <2>1 DEF Typed, WalletTypeOK, RowsHaveUsers
<1>5. RowsStay
  BY <1>2 DEF RowsStay
<1>6. \A v \in Users : Available(v)' >= Available(v)
  BY <1>1, <1>2, <1>3 DEF Available, Typed, WalletTypeOK
<1>7. Typed' /\ Shapes' /\ Exclusive' /\ FundsHold' /\ FreshOrders' /\ StaleSeen'
  BY <1>4, <1>5, <1>6, EndStep
<1>8. NeverOverdrawn'
  BY <1>2, <1>3, <1>6 DEF NeverOverdrawn, Available, Typed, WalletTypeOK
<1>9. PaidMeansCredited'
  BY DEF PaidMeansCredited
<1>10. EndedRowsStay
  BY <1>2 DEF EndedRowsStay
<1> QED
  BY <1>7, <1>8, <1>9, <1>10

LEMMA CommitSettleStep ==
  ASSUME WalletInv, NEW c \in Clients, CommitSettle(c)
  PROVE  WalletInv' /\ EndedRowsStay
<1>1. call[c].req \in Requests /\ call[c].amount \in Nat
  BY DEF WalletInv, CommitSettle, AtEnd, Typed, Formed
<1> QED
  BY <1>1, EndReservationStep DEF CommitSettle

LEMMA CommitReleaseStep ==
  ASSUME WalletInv, NEW c \in Clients, CommitRelease(c)
  PROVE  WalletInv' /\ EndedRowsStay
<1> DEFINE q == call[c].req
<1>1. q \in Requests
  BY DEF WalletInv, CommitRelease, AtEnd, Typed, Formed
<1>2. request[q].amount \in Nat /\ request[q].user \in Users
  BY <1>1 DEF WalletInv, Typed, WalletTypeOK, RequestRow, RowsHaveUsers, CommitRelease
<1>3. posted' = [posted EXCEPT ![request[q].user] = @ - 0]
  BY <1>2 DEF CommitRelease, WalletInv, Typed, WalletTypeOK
<1>4. /\ request[q].state = "active" /\ EndCall(c)
      /\ EndReservation(q, "released", 0)
      /\ UNCHANGED <<record, order, cashier>>
  BY DEF CommitRelease
<1>5. 0 \in Nat /\ 0 <= request[q].amount
  BY <1>2
<1> HIDE DEF q
<1> QED
  BY <1>1, <1>3, <1>4, <1>5, EndReservationStep

-----------------------------------------------------------------------------
LEMMA ReconfigureStep ==
  ASSUME WalletInv, Reconfigure
  PROVE  WalletInv'
<1>1. /\ UNCHANGED <<posted, reserved, record, request, order, call, plan, holds,
                     funds>>
      /\ cashier' \in {"mock", "gateway"}
      /\ \A c \in Clients : call[c] = Idle
  BY DEF Reconfigure
<1>2. Typed' /\ Shapes' /\ Exclusive' /\ FundsHold' /\ FreshOrders'
  BY <1>1 DEF WalletInv, Typed, WalletTypeOK, RowsHaveUsers, Shapes, Shape, ShapeOf,
     Exclusive, FundsHold, FreshOrders, Available
<1>3. StaleSeen'
  BY <1>1 DEF StaleSeen, Idle
<1>4. NeverOverdrawn' /\ PaidMeansCredited'
  BY <1>1 DEF WalletInv, NeverOverdrawn, PaidMeansCredited, Available
<1> QED
  BY <1>2, <1>3, <1>4 DEF WalletInv

LEMMA WalletStep ==
  ASSUME WalletInv, [WalletNext]_walletVars
  PROVE  WalletInv' /\ EndedRowsStay
<1>1. ASSUME UNCHANGED walletRows PROVE EndedRowsStay
  BY <1>1 DEF EndedRowsStay, walletRows
<1>2. CASE UNCHANGED walletVars
  <2>1. Typed' /\ Shapes' /\ Exclusive' /\ FundsHold'
    BY <1>2 DEF WalletInv, walletVars, Typed, WalletTypeOK, RowsHaveUsers, Shapes,
       Shape, ShapeOf, Exclusive, FundsHold, Available
  <2>2. UNCHANGED <<walletRows, call>>
    BY <1>2 DEF walletVars, walletRows
  <2> QED
    BY <1>1, <2>1, <2>2, QuietStep DEF WalletInv
<1>3. CASE Reconfigure
  BY <1>3, ReconfigureStep DEF Reconfigure, EndedRowsStay
<1>4. ASSUME NEW c \in Clients, AskSome(c) PROVE WalletInv' /\ EndedRowsStay
  <2>1. UNCHANGED walletRows
    BY <1>4 DEF AskSome, AskOrder, AskConfirm, AskMockConfirm, AskRecharge,
       AskReverse, AskReserve, AskSettle, AskRelease, Ask
  <2> QED
    BY <1>1, <1>4, <2>1, AskSomeStep
<1>5. ASSUME NEW c \in Clients, LockRow(c) \/ ReadFunds(c) \/ Rollback(c)
      PROVE  WalletInv' /\ EndedRowsStay
  <2>1. UNCHANGED walletRows
    BY <1>5 DEF LockRow, ReadFunds, Rollback
  <2> QED
    BY <1>1, <1>5, <2>1, LockRowStep, ReadFundsStep, RollbackStep
<1> QED
  BY <1>2, <1>3, <1>4, <1>5, CommitOrderStep, CommitConfirmStep, CommitMismatchStep,
     CommitRechargeStep, CommitReverseStep, CommitReserveStep, CommitSettleStep,
     CommitReleaseStep
     DEF WalletNext, AskSome

(* The locks, what was read under them and the rows agree at every moment. *)
THEOREM WalletInvariant == WalletSpec => []WalletInv
<1>1. WalletInv /\ [WalletNext]_walletVars => WalletInv'
  BY WalletStep
<1> QED
  BY InitWalletInv, <1>1, PTL DEF WalletSpec

(* Rows keep their types, for any number of users, orders and requests. *)
THEOREM WalletTypeCorrect == WalletSpec => []WalletTypeOK
<1>1. WalletInv => WalletTypeOK
  BY DEF WalletInv, Typed
<1> QED
  BY <1>1, WalletInvariant, PTL

(* Reservations, settlements, reversals and recharges of billing/service.py, *)
(* however many run at the same time, never take more than is available.     *)
THEOREM WalletIsNeverOverdrawn == WalletSpec => []NeverOverdrawn
<1>1. WalletInv => NeverOverdrawn
  BY DEF WalletInv
<1> QED
  BY <1>1, WalletInvariant, PTL

(* confirm_recharge_payment pays an order with one recharge, its own. *)
THEOREM PaidOrdersAreCredited == WalletSpec => []PaidMeansCredited
<1>1. WalletInv => PaidMeansCredited
  BY DEF WalletInv
<1> QED
  BY <1>1, WalletInvariant, PTL

(* Settled and released reservations, reversed recharges and answered orders *)
(* are never changed, also not by the stale order of the mock cashier.       *)
THEOREM EndedRowsAreFinal == WalletSpec => EndedStaysEnded
<1>1. WalletInv /\ [WalletNext]_walletVars => [EndedRowsStay]_walletVars
  BY WalletStep
<1> QED
  BY <1>1, WalletInvariant, PTL DEF WalletSpec, EndedStaysEnded

LEMMA OnlyReserveSettleWait == WalletInv => OnlyRepeatedReservationsDeadlock
<1>1. ASSUME WalletInv, NEW c \in Clients, NEW d \in Clients,
             c \in WaitsFor(d), d \in WaitsFor(c)
      PROVE  {call[c].op, call[d].op} = {"reserve", "settle"}
  <2>1. /\ plan[c] # <<>> /\ Head(plan[c]) \in holds[d]
        /\ plan[d] # <<>> /\ Head(plan[d]) \in holds[c]
    BY <1>1 DEF WaitsFor
  <2>2. \A e \in {c, d} :
          \/ /\ call[e].op \in {"confirm", "reverse"}
             /\ \E u : Head(plan[e]) = WalletLock(u)
             /\ \E x : holds[e] = {OrderLock(x)} \/ holds[e] = {RecordLock(x)}
          \/ /\ call[e].op = "reserve"
             /\ \E q : Head(plan[e]) = RequestLock(q)
             /\ holds[e] = {WalletLock(call[e].user)}
          \/ /\ call[e].op = "settle"
             /\ \E u : Head(plan[e]) = WalletLock(u)
             /\ \E q : holds[e] = {RequestLock(q)}
    <3> SUFFICES ASSUME NEW e \in {c, d}, e \in Clients, plan[e] # <<>>, holds[e] # {}
                 PROVE  \/ /\ call[e].op \in {"confirm", "reverse"}
                           /\ \E u : Head(plan[e]) = WalletLock(u)
                           /\ \E x : \/ holds[e] = {OrderLock(x)}
                                     \/ holds[e] = {RecordLock(x)}
                        \/ /\ call[e].op = "reserve"
                           /\ \E q : Head(plan[e]) = RequestLock(q)
                           /\ holds[e] = {WalletLock(call[e].user)}
                        \/ /\ call[e].op = "settle"
                           /\ \E u : Head(plan[e]) = WalletLock(u)
                           /\ \E q : holds[e] = {RequestLock(q)}
      BY <1>1, <2>1
    <3>1. /\ ShapeOf(call[e], plan[e], holds[e]) /\ Formed(call[e])
          /\ call[e].op # "idle"
      BY <1>1 DEF WalletInv, Shapes, Shape, Typed
    <3> QED
      BY <3>1 DEF ShapeOf, Formed, Ops
  <2> QED
    BY <2>1, <2>2, LocksDiffer
<1> QED
  BY <1>1 DEF OnlyRepeatedReservationsDeadlock

(* Of the requests that lock rows, only a repeated reservation and the        *)
(* settlement of the same request can wait for each other: the others take    *)
(* the wallet's row last, with at most one row of another table before it.    *)
THEOREM DeadlocksNeedARepeatedReservation ==
  WalletSpec => []OnlyRepeatedReservationsDeadlock
BY OnlyReserveSettleWait, WalletInvariant, PTL

-----------------------------------------------------------------------------
(* Sums over the rows of a table *)

Pick(s) == CHOOSE x \in s : TRUE

IsSum(h, f, S) ==
    h = [s \in SUBSET S |-> IF s = {} THEN 0 ELSE f[Pick(s)] + h[s \ {Pick(s)}]]

Total(f, S) == (CHOOSE h : IsSum(h, f, S))[S]

LEMMA SmallestSubset ==
  ASSUME NEW S, IsFiniteSet(S), NEW T, T \subseteq SUBSET S, T # {}
  PROVE  \E s \in T : \A t \in T : t \subseteq s => t = s
<1>1. IsWellFoundedOn(StrictSubsetOrdering(S), SUBSET S)
  BY FS_StrictSubsetOrderingWellFounded, FS_FiniteSubsetsOfFinite
<1>2. PICK s \in T : \A t \in T : ~ (<<t, s>> \in StrictSubsetOrdering(S))
  BY <1>1, WFMin
<1>3. \A t \in T : t \subseteq s => t = s
  BY <1>2 DEF StrictSubsetOrdering
<1> QED
  BY <1>3

LEMMA SumsAgree ==
  ASSUME NEW U, IsFiniteSet(U), NEW S, NEW T, U \subseteq S, U \subseteq T,
         NEW f, NEW e, \A x \in U : f[x] = e[x],
         NEW g, NEW h, IsSum(g, f, S), IsSum(h, e, T)
  PROVE  g[U] = h[U]
<1> DEFINE D == {s \in SUBSET U : g[s] # h[s]}
<1> SUFFICES ASSUME D # {} PROVE FALSE
  OBVIOUS
<1>1. PICK s \in D : \A t \in D : t \subseteq s => t = s
  <2>1. D \subseteq SUBSET U /\ D # {}
    OBVIOUS
  <2> HIDE DEF D
  <2> QED
    BY <2>1, SmallestSubset
<1>2. s \in SUBSET S /\ s \in SUBSET T /\ s \in SUBSET U
  OBVIOUS
<1>3. CASE s = {}
  BY <1>2, <1>3 DEF IsSum
<1>4. CASE s # {}
  <2>1. Pick(s) \in s
    BY <1>4 DEF Pick
  <2>2. s \ {Pick(s)} \notin D /\ s \ {Pick(s)} \in SUBSET U
    BY <1>1, <2>1
  <2>3. g[s] = f[Pick(s)] + g[s \ {Pick(s)}]
    BY <1>2, <1>4 DEF IsSum
  <2>4. h[s] = e[Pick(s)] + h[s \ {Pick(s)}]
    BY <1>2, <1>4 DEF IsSum
  <2> QED
    BY <1>2, <2>1, <2>2, <2>3, <2>4
<1> QED
  BY <1>3, <1>4

LEMMA TotalIsSum ==
  ASSUME NEW f, NEW U, NEW S, IsFiniteSet(U), U \subseteq S, NEW h, IsSum(h, f, S),
         NEW g, IsSum(g, f, U)
  PROVE  h[U] = Total(f, U)
<1>1. IsSum(CHOOSE i : IsSum(i, f, U), f, U)
  OBVIOUS
<1> QED
  BY <1>1, SumsAgree DEF Total

LEMMA SumExists ==
  ASSUME NEW f, NEW S, IsFiniteSet(S)
  PROVE  \E h : IsSum(h, f, S)
<1> DEFINE D == {s \in SUBSET S : ~ \E h : IsSum(h, f, s)}
<1> SUFFICES ASSUME D # {} PROVE FALSE
  OBVIOUS
<1>1. PICK s \in D : \A t \in D : t \subseteq s => t = s
  <2>1. D \subseteq SUBSET S /\ D # {}
    OBVIOUS
  <2> HIDE DEF D
  <2> QED
    BY <2>1, SmallestSubset
<1>2. ASSUME NEW t \in SUBSET s, t # s
      PROVE  IsFiniteSet(t) /\ \E h : IsSum(h, f, t)
  BY <1>1, <1>2, FS_Subset
<1> DEFINE G == [t \in SUBSET s |->
                   IF t = {} THEN 0 ELSE f[Pick(t)] + Total(f, t \ {Pick(t)})]
<1>3. ASSUME NEW t \in SUBSET s, t # s
      PROVE  G[t] = Total(f, t)
  <2>1. PICK h : IsSum(h, f, t)
    BY <1>2, <1>3
  <2>2. h[t] = Total(f, t)
    BY <1>2, <1>3, <2>1, TotalIsSum
  <2>3. CASE t = {}
    BY <2>1, <2>2, <2>3 DEF IsSum
  <2>4. CASE t # {}
    <3> DEFINE r == t \ {Pick(t)}
    <3>1. Pick(t) \in t
      BY <2>4 DEF Pick
    <3>2. r \in SUBSET s /\ r # s /\ r \subseteq t
      BY <3>1
    <3>3. h[t] = f[Pick(t)] + h[r]
      BY <2>1, <2>4 DEF IsSum
    <3>4. h[r] = Total(f, r)
      BY <1>2, <2>1, <3>2, TotalIsSum
    <3> QED
      BY <2>2, <2>4, <3>3, <3>4
  <2> QED
    BY <2>3, <2>4
<1>4. G = [t \in SUBSET s |-> IF t = {} THEN 0 ELSE f[Pick(t)] + G[t \ {Pick(t)}]]
  <2>1. ASSUME NEW t \in SUBSET s, t # {}
        PROVE  G[t \ {Pick(t)}] = Total(f, t \ {Pick(t)})
    <3>1. Pick(t) \in t
      BY <2>1 DEF Pick
    <3>2. t \ {Pick(t)} \in SUBSET s /\ t \ {Pick(t)} # s
      BY <3>1
    <3> HIDE DEF G
    <3> QED
      BY <1>3, <3>2
  <2> QED
    BY <2>1
<1>5. IsSum(G, f, s)
  BY <1>4 DEF IsSum
<1> QED
  BY <1>5

LEMMA TotalOf ==
  ASSUME NEW f, NEW S, IsFiniteSet(S)
  PROVE  /\ S = {} => Total(f, S) = 0
         /\ S # {} => /\ Pick(S) \in S
                      /\ Total(f, S) = f[Pick(S)] + Total(f, S \ {Pick(S)})
<1>1. PICK h : IsSum(h, f, S)
  BY SumExists
<1>2. h[S] = Total(f, S)
  BY <1>1, TotalIsSum
<1>3. CASE S = {}
  BY <1>1, <1>2, <1>3 DEF IsSum
<1>4. CASE S # {}
  <2> DEFINE r == S \ {Pick(S)}
  <2>1. Pick(S) \in S
    BY <1>4 DEF Pick
  <2>2. h[S] = f[Pick(S)] + h[r]
    BY <1>1, <1>4 DEF IsSum
  <2>3. IsFiniteSet(r) /\ r \subseteq S
    BY FS_Subset
  <2>4. PICK g : IsSum(g, f, r)
    BY <2>3, SumExists
  <2>5. h[r] = Total(f, r)
    BY <1>1, <2>3, <2>4, TotalIsSum
  <2> QED
    BY <1>2, <1>4, <2>1, <2>2, <2>5
<1> QED
  BY <1>3, <1>4

LEMMA TotalsAgree ==
  ASSUME NEW f, NEW e, NEW S, IsFiniteSet(S), \A x \in S : f[x] = e[x]
  PROVE  Total(f, S) = Total(e, S)
<1>1. PICK g : IsSum(g, f, S)
  BY SumExists
<1>2. PICK h : IsSum(h, e, S)
  BY SumExists
<1>3. g[S] = Total(f, S) /\ h[S] = Total(e, S)
  BY <1>1, <1>2, TotalIsSum
<1> QED
  BY <1>1, <1>2, <1>3, SumsAgree

LEMMA TotalType ==
  ASSUME NEW f, NEW S, IsFiniteSet(S), \A x \in S : f[x] \in Int
  PROVE  Total(f, S) \in Int
<1> DEFINE D == {s \in SUBSET S : Total(f, s) \notin Int}
<1> SUFFICES ASSUME D # {} PROVE FALSE
  OBVIOUS
<1>1. PICK s \in D : \A t \in D : t \subseteq s => t = s
  <2>1. D \subseteq SUBSET S /\ D # {}
    OBVIOUS
  <2> HIDE DEF D
  <2> QED
    BY <2>1, SmallestSubset
<1>2. s \in SUBSET S /\ IsFiniteSet(s)
  BY FS_Subset
<1>3. s # {}
  <2>1. Total(f, {}) = 0
    BY FS_EmptySet, TotalOf
  <2> QED
    BY <2>1
<1>4. Pick(s) \in s /\ Total(f, s) = f[Pick(s)] + Total(f, s \ {Pick(s)})
  BY <1>2, <1>3, TotalOf
<1>5. Total(f, s \ {Pick(s)}) \in Int
  BY <1>1, <1>2, <1>4
<1> QED
  BY <1>2, <1>4, <1>5

LEMMA TotalWithout ==
  ASSUME NEW f, NEW S, IsFiniteSet(S), \A x \in S : f[x] \in Int, NEW y \in S
  PROVE  Total(f, S) = f[y] + Total(f, S \ {y})
<1> DEFINE D == {s \in SUBSET S : \E x \in s : Total(f, s) # f[x] + Total(f, s \ {x})}
<1> SUFFICES ASSUME D # {} PROVE FALSE
  OBVIOUS
<1>1. PICK s \in D : \A t \in D : t \subseteq s => t = s
  <2>1. D \subseteq SUBSET S /\ D # {}
    OBVIOUS
  <2> HIDE DEF D
  <2> QED
    BY <2>1, SmallestSubset
<1>2. PICK x \in s : Total(f, s) # f[x] + Total(f, s \ {x})
  BY <1>1
<1> DEFINE p == Pick(s)
           r == s \ {p, x}
<1>3. s \in SUBSET S /\ IsFiniteSet(s)
  BY FS_Subset
<1>4. p \in s /\ Total(f, s) = f[p] + Total(f, s \ {p})
  BY <1>3, <1>2, TotalOf
<1>5. p # x
  BY <1>2, <1>4
<1> HIDE DEF p
<1>6. Total(f, s \ {p}) = f[x] + Total(f, r)
  <2>1. s \ {p} \notin D /\ s \ {p} \in SUBSET S /\ x \in s \ {p}
    BY <1>1, <1>3, <1>4, <1>5
  <2>2. (s \ {p}) \ {x} = r
    OBVIOUS
  <2> QED
    BY <2>1, <2>2
<1>7. Total(f, s \ {x}) = f[p] + Total(f, r)
  <2>1. s \ {x} \notin D /\ s \ {x} \in SUBSET S /\ p \in s \ {x}
    BY <1>1, <1>2, <1>3, <1>4, <1>5
  <2>2. (s \ {x}) \ {p} = r
    OBVIOUS
  <2> QED
    BY <2>1, <2>2
<1>8. f[x] \in Int /\ f[p] \in Int /\ Total(f, r) \in Int
  <2>1. r \in SUBSET S /\ IsFiniteSet(r)
    BY <1>3, FS_Subset
  <2> QED
    BY <1>3, <1>4, <2>1, TotalType
<1> QED
  BY <1>2, <1>4, <1>6, <1>7, <1>8

LEMMA AmountsAreTotals ==
  ASSUME NEW rows, NEW S, IsFiniteSet(S)
  PROVE  AmountsOf(rows, S) = Total([x \in S |-> rows[x].amount], S)
<1> DEFINE f == [x \in S |-> rows[x].amount]
           h == CHOOSE i : i = [s \in SUBSET S |->
                  IF s = {} THEN 0
                  ELSE rows[CHOOSE x \in s : TRUE].amount
                         + i[s \ {CHOOSE x \in s : TRUE}]]
<1>1. AmountsOf(rows, S) = h[S]
  BY DEF AmountsOf, MapThenSumSet, MapThenFoldSet
<1>2. PICK g : IsSum(g, f, S)
  BY SumExists
<1>3. g = [s \in SUBSET S |->
             IF s = {} THEN 0
             ELSE rows[CHOOSE x \in s : TRUE].amount
                    + g[s \ {CHOOSE x \in s : TRUE}]]
  BY <1>2 DEF IsSum, Pick
<1>4. h = [s \in SUBSET S |->
             IF s = {} THEN 0
             ELSE rows[CHOOSE x \in s : TRUE].amount
                    + h[s \ {CHOOSE x \in s : TRUE}]]
  BY <1>3
<1>5. IsSum(h, f, S)
  BY <1>4 DEF IsSum, Pick
<1> QED
  BY <1>1, <1>2, <1>5, TotalIsSum

LEMMA ChargesAreTotals ==
  ASSUME NEW rows, NEW S, IsFiniteSet(S)
  PROVE  ChargesOf(rows, S) = Total([x \in S |-> rows[x].charge], S)
<1> DEFINE f == [x \in S |-> rows[x].charge]
           h == CHOOSE i : i = [s \in SUBSET S |->
                  IF s = {} THEN 0
                  ELSE rows[CHOOSE x \in s : TRUE].charge
                         + i[s \ {CHOOSE x \in s : TRUE}]]
<1>1. ChargesOf(rows, S) = h[S]
  BY DEF ChargesOf, MapThenSumSet, MapThenFoldSet
<1>2. PICK g : IsSum(g, f, S)
  BY SumExists
<1>3. g = [s \in SUBSET S |->
             IF s = {} THEN 0
             ELSE rows[CHOOSE x \in s : TRUE].charge
                    + g[s \ {CHOOSE x \in s : TRUE}]]
  BY <1>2 DEF IsSum, Pick
<1>4. h = [s \in SUBSET S |->
             IF s = {} THEN 0
             ELSE rows[CHOOSE x \in s : TRUE].charge
                    + h[s \ {CHOOSE x \in s : TRUE}]]
  BY <1>3
<1>5. IsSum(h, f, S)
  BY <1>4 DEF IsSum, Pick
<1> QED
  BY <1>1, <1>2, <1>5, TotalIsSum

LEMMA TotalMoves ==
  ASSUME NEW S, NEW T, IsFiniteSet(S), IsFiniteSet(T), NEW f, NEW e, NEW x,
         \A y \in S : f[y] \in Int, \A y \in T : e[y] \in Int,
         S \ {x} = T \ {x}, \A y \in S \ {x} : f[y] = e[y]
  PROVE  Total(e, T) = Total(f, S) - (IF x \in S THEN f[x] ELSE 0)
                                   + (IF x \in T THEN e[x] ELSE 0)
<1> DEFINE r == S \ {x}
<1>1. IsFiniteSet(r)
  BY FS_Subset
<1>2. Total(f, r) = Total(e, r)
  BY <1>1, TotalsAgree
<1>3. Total(f, r) \in Int
  BY <1>1, TotalType
<1>4. Total(f, S) = Total(f, r) + (IF x \in S THEN f[x] ELSE 0)
  <2>1. CASE x \in S
    BY <1>3, <2>1, TotalWithout
  <2>2. CASE x \notin S
    <3>1. r = S
      BY <2>2
    <3> HIDE DEF r
    <3> QED
      BY <1>3, <2>2, <3>1
  <2> QED
    BY <2>1, <2>2
<1>5. Total(e, T) = Total(e, r) + (IF x \in T THEN e[x] ELSE 0)
  <2>1. CASE x \in T
    BY <1>2, <1>3, <2>1, TotalWithout
  <2>2. CASE x \notin T
    <3>1. r = T
      BY <2>2
    <3> HIDE DEF r
    <3> QED
      BY <1>2, <1>3, <2>2, <3>1
  <2> QED
    BY <2>1, <2>2
<1>6. /\ x \in S => f[x] \in Int
      /\ x \in T => e[x] \in Int
  OBVIOUS
<1> QED
  BY <1>2, <1>3, <1>4, <1>5, <1>6

LEMMA AmountsType ==
  ASSUME NEW rows, NEW S, IsFiniteSet(S), \A y \in S : rows[y].amount \in Int
  PROVE  AmountsOf(rows, S) \in Int
<1> DEFINE f == [y \in S |-> rows[y].amount]
<1>1. AmountsOf(rows, S) = Total(f, S) /\ \A y \in S : f[y] \in Int
  BY AmountsAreTotals
<1> HIDE DEF f
<1> QED
  BY <1>1, TotalType

LEMMA AmountsMove ==
  ASSUME NEW rows, NEW new, NEW S, NEW T, IsFiniteSet(S), IsFiniteSet(T), NEW x,
         \A y \in S : rows[y].amount \in Int, \A y \in T : new[y].amount \in Int,
         S \ {x} = T \ {x}, \A y \in S \ {x} : rows[y].amount = new[y].amount
  PROVE  AmountsOf(new, T) = AmountsOf(rows, S)
                               - (IF x \in S THEN rows[x].amount ELSE 0)
                               + (IF x \in T THEN new[x].amount ELSE 0)
<1> DEFINE f == [y \in S |-> rows[y].amount]
           e == [y \in T |-> new[y].amount]
<1>1. AmountsOf(rows, S) = Total(f, S) /\ AmountsOf(new, T) = Total(e, T)
  BY AmountsAreTotals
<1>2. /\ \A y \in S : f[y] = rows[y].amount
      /\ \A y \in T : e[y] = new[y].amount
  OBVIOUS
<1>3. S \ {x} \subseteq T
  OBVIOUS
<1> HIDE DEF f, e
<1>4. Total(e, T) = Total(f, S) - (IF x \in S THEN f[x] ELSE 0)
                                + (IF x \in T THEN e[x] ELSE 0)
  BY <1>2, <1>3, TotalMoves
<1> QED
  BY <1>1, <1>2, <1>4

LEMMA ChargesType ==
  ASSUME NEW rows, NEW S, IsFiniteSet(S), \A y \in S : rows[y].charge \in Int
  PROVE  ChargesOf(rows, S) \in Int
<1> DEFINE f == [y \in S |-> rows[y].charge]
<1>1. ChargesOf(rows, S) = Total(f, S) /\ \A y \in S : f[y] \in Int
  BY ChargesAreTotals
<1> HIDE DEF f
<1> QED
  BY <1>1, TotalType

LEMMA ChargesMove ==
  ASSUME NEW rows, NEW new, NEW S, NEW T, IsFiniteSet(S), IsFiniteSet(T), NEW x,
         \A y \in S : rows[y].charge \in Int, \A y \in T : new[y].charge \in Int,
         S \ {x} = T \ {x}, \A y \in S \ {x} : rows[y].charge = new[y].charge
  PROVE  ChargesOf(new, T) = ChargesOf(rows, S)
                               - (IF x \in S THEN rows[x].charge ELSE 0)
                               + (IF x \in T THEN new[x].charge ELSE 0)
<1> DEFINE f == [y \in S |-> rows[y].charge]
           e == [y \in T |-> new[y].charge]
<1>1. ChargesOf(rows, S) = Total(f, S) /\ ChargesOf(new, T) = Total(e, T)
  BY ChargesAreTotals
<1>2. /\ \A y \in S : f[y] = rows[y].charge
      /\ \A y \in T : e[y] = new[y].charge
  OBVIOUS
<1>3. S \ {x} \subseteq T
  OBVIOUS
<1> HIDE DEF f, e
<1>4. Total(e, T) = Total(f, S) - (IF x \in S THEN f[x] ELSE 0)
                                + (IF x \in T THEN e[x] ELSE 0)
  BY <1>2, <1>3, TotalMoves
<1> QED
  BY <1>1, <1>2, <1>4

-----------------------------------------------------------------------------
(* Wallet: balances and their history *)

(* The rows of a user are finitely many, a reservation is charged only when *)
(* it settles, and the sums are those of the rows.                          *)
HistoryInv ==
    /\ \A q \in Requests :
         /\ request[q].state = "none" => request[q].user = Nobody
         /\ request[q].state \in {"none", "active"} => request[q].charge = 0
    /\ \A u \in Users :
         /\ IsFiniteSet(CreditedBy(record, u))
         /\ IsFiniteSet(RequestsBy(request, u))
         /\ posted[u] = AmountsOf(record, CreditedBy(record, u))
                          - ChargesOf(request, RequestsBy(request, u))
         /\ reserved[u] = AmountsOf(request, ActiveBy(request, u))

(* What a change of one recharge's row does to what its user was credited. *)
LEMMA CreditedMoves ==
  ASSUME NEW rows \in [References -> RecordRow], NEW new \in [References -> RecordRow],
         NEW f \in References, \A g \in References \ {f} : new[g] = rows[g],
         NEW u, IsFiniteSet(CreditedBy(rows, u))
  PROVE  /\ IsFiniteSet(CreditedBy(new, u))
         /\ AmountsOf(new, CreditedBy(new, u)) =
              AmountsOf(rows, CreditedBy(rows, u))
                - (IF f \in CreditedBy(rows, u) THEN rows[f].amount ELSE 0)
                + (IF f \in CreditedBy(new, u) THEN new[f].amount ELSE 0)
         /\ AmountsOf(rows, CreditedBy(rows, u)) \in Int
<1> DEFINE S == CreditedBy(rows, u)
           T == CreditedBy(new, u)
<1>1. S \ {f} = T \ {f} /\ S \subseteq References /\ T \subseteq References
  BY DEF CreditedBy
<1>2. /\ \A g \in References : rows[g].amount \in Int /\ new[g].amount \in Int
  BY DEF RecordRow
<1>3. \A g \in S \ {f} : rows[g].amount = new[g].amount
  BY <1>1
<1> HIDE DEF S, T
<1>4. IsFiniteSet(S)
  BY DEF S
<1>5. IsFiniteSet(T)
  <2>1. IsFiniteSet(S \cup {f}) /\ T \subseteq S \cup {f}
    BY <1>1, <1>4, FS_AddElement
  <2> QED
    BY <2>1, FS_Subset
<1>6. AmountsOf(new, T) = AmountsOf(rows, S)
                            - (IF f \in S THEN rows[f].amount ELSE 0)
                            + (IF f \in T THEN new[f].amount ELSE 0)
  BY <1>1, <1>2, <1>3, <1>4, <1>5, AmountsMove
<1>7. AmountsOf(rows, S) \in Int
  BY <1>1, <1>2, <1>4, AmountsType
<1> QED
  BY <1>5, <1>6, <1>7 DEF S, T

(* What a change of one reservation's row does to what its user is charged *)
(* and has reserved.                                                       *)
LEMMA RequestsMove ==
  ASSUME NEW rows \in [Requests -> RequestRow], NEW new \in [Requests -> RequestRow],
         NEW q \in Requests, \A p \in Requests \ {q} : new[p] = rows[p],
         NEW u, IsFiniteSet(RequestsBy(rows, u))
  PROVE  /\ IsFiniteSet(RequestsBy(new, u))
         /\ ChargesOf(new, RequestsBy(new, u)) =
              ChargesOf(rows, RequestsBy(rows, u))
                - (IF q \in RequestsBy(rows, u) THEN rows[q].charge ELSE 0)
                + (IF q \in RequestsBy(new, u) THEN new[q].charge ELSE 0)
         /\ AmountsOf(new, ActiveBy(new, u)) =
              AmountsOf(rows, ActiveBy(rows, u))
                - (IF q \in ActiveBy(rows, u) THEN rows[q].amount ELSE 0)
                + (IF q \in ActiveBy(new, u) THEN new[q].amount ELSE 0)
         /\ ChargesOf(rows, RequestsBy(rows, u)) \in Int
         /\ AmountsOf(rows, ActiveBy(rows, u)) \in Int
<1> DEFINE S == RequestsBy(rows, u)
           T == RequestsBy(new, u)
           A == ActiveBy(rows, u)
           B == ActiveBy(new, u)
<1>1. /\ S \ {q} = T \ {q} /\ S \subseteq Requests /\ T \subseteq Requests
      /\ A \ {q} = B \ {q} /\ A \subseteq S /\ B \subseteq T
  BY DEF RequestsBy, ActiveBy
<1>2. \A p \in Requests : /\ rows[p].amount \in Int /\ new[p].amount \in Int
                          /\ rows[p].charge \in Int /\ new[p].charge \in Int
  BY DEF RequestRow
<1>3. \A p \in S \ {q} : rows[p] = new[p]
  BY <1>1
<1> HIDE DEF S, T, A, B
<1>4. IsFiniteSet(S)
  BY DEF S
<1>5. IsFiniteSet(T)
  <2>1. IsFiniteSet(S \cup {q}) /\ T \subseteq S \cup {q}
    BY <1>1, <1>4, FS_AddElement
  <2> QED
    BY <2>1, FS_Subset
<1>6. IsFiniteSet(A) /\ IsFiniteSet(B)
  BY <1>1, <1>4, <1>5, FS_Subset
<1>7. ChargesOf(new, T) = ChargesOf(rows, S)
                            - (IF q \in S THEN rows[q].charge ELSE 0)
                            + (IF q \in T THEN new[q].charge ELSE 0)
  BY <1>1, <1>2, <1>3, <1>4, <1>5, ChargesMove
<1>8. AmountsOf(new, B) = AmountsOf(rows, A)
                            - (IF q \in A THEN rows[q].amount ELSE 0)
                            + (IF q \in B THEN new[q].amount ELSE 0)
  <2>1. /\ \A p \in A : rows[p].amount \in Int
        /\ \A p \in B : new[p].amount \in Int
        /\ \A p \in A \ {q} : rows[p].amount = new[p].amount
    BY <1>1, <1>2, <1>3
  <2> QED
    BY <1>1, <1>6, <2>1, AmountsMove
<1>9. ChargesOf(rows, S) \in Int
  BY <1>1, <1>2, <1>4, ChargesType
<1>10. AmountsOf(rows, A) \in Int
  <2>1. \A p \in A : rows[p].amount \in Int
    BY <1>1, <1>2
  <2> QED
    BY <1>6, <2>1, AmountsType
<1> QED
  BY <1>5, <1>7, <1>8, <1>9, <1>10 DEF S, T, A, B

LEMMA InitHistoryInv == WalletInit => HistoryInv
<1> SUFFICES ASSUME WalletInit PROVE HistoryInv
  OBVIOUS
<1>1. ASSUME NEW u \in Users
      PROVE  /\ CreditedBy(record, u) = {} /\ RequestsBy(request, u) = {}
             /\ ActiveBy(request, u) = {}
  BY WalletAssumption DEF WalletInit, CreditedBy, RequestsBy, ActiveBy
<1>2. AmountsOf(record, {}) = 0 /\ AmountsOf(request, {}) = 0
      /\ ChargesOf(request, {}) = 0 /\ IsFiniteSet({})
  <2>1. IsFiniteSet({}) /\ \A f : Total(f, {}) = 0
    BY FS_EmptySet, TotalOf
  <2> QED
    BY <2>1, AmountsAreTotals, ChargesAreTotals
<1>3. \A u \in Users : posted[u] = 0 /\ reserved[u] = 0
  BY DEF WalletInit
<1>4. \A q \in Requests : request[q].user = Nobody /\ request[q].charge = 0
  BY DEF WalletInit
<1> QED
  BY <1>1, <1>2, <1>3, <1>4 DEF HistoryInv

(* A recharge is credited: its row was no user's before. *)
LEMMA CreditHistory ==
  ASSUME WalletInv, WalletInv', HistoryInv, NEW u \in Users, NEW f \in References,
         NEW a \in Nat, Credit(u, f, a), UNCHANGED <<request, reserved>>
  PROVE  HistoryInv'
<1>1. /\ record \in [References -> RecordRow] /\ record' \in [References -> RecordRow]
      /\ posted \in [Users -> Int]
  BY DEF WalletInv, Typed, WalletTypeOK
<1>2. /\ record[f].state = "none"
      /\ record'[f] = [state |-> "credited", user |-> u, amount |-> a]
      /\ \A g \in References \ {f} : record'[g] = record[g]
      /\ posted'[u] = posted[u] + a
      /\ \A v \in Users \ {u} : posted'[v] = posted[v]
  BY <1>1 DEF Credit
<1>3. ASSUME NEW v \in Users
      PROVE  /\ IsFiniteSet(CreditedBy(record', v))
             /\ IsFiniteSet(RequestsBy(request', v))
             /\ posted'[v] = AmountsOf(record', CreditedBy(record', v))
                               - ChargesOf(request', RequestsBy(request', v))
             /\ reserved'[v] = AmountsOf(request', ActiveBy(request', v))
  <2>1. IsFiniteSet(CreditedBy(record, v)) /\ IsFiniteSet(RequestsBy(request, v))
    BY DEF HistoryInv
  <2>2. /\ IsFiniteSet(CreditedBy(record', v))
        /\ AmountsOf(record', CreditedBy(record', v)) =
             AmountsOf(record, CreditedBy(record, v))
                - (IF f \in CreditedBy(record, v) THEN record[f].amount ELSE 0)
                + (IF f \in CreditedBy(record', v) THEN record'[f].amount ELSE 0)
        /\ AmountsOf(record, CreditedBy(record, v)) \in Int
    BY <1>1, <1>2, <2>1, CreditedMoves
  <2>3. /\ f \notin CreditedBy(record, v)
        /\ f \in CreditedBy(record', v) <=> v = u
        /\ record'[f].amount = a
    BY <1>2 DEF CreditedBy
  <2>4. ChargesOf(request, RequestsBy(request, v)) \in Int
    <3>1. \A q \in RequestsBy(request, v) : request[q].charge \in Int
      BY DEF RequestsBy, WalletInv, Typed, WalletTypeOK, RequestRow
    <3> QED
      BY <2>1, <3>1, ChargesType
  <2>5. posted[v] = AmountsOf(record, CreditedBy(record, v))
                      - ChargesOf(request, RequestsBy(request, v))
        /\ reserved[v] = AmountsOf(request, ActiveBy(request, v))
    BY DEF HistoryInv
  <2> QED
    BY <1>2, <2>1, <2>2, <2>3, <2>4, <2>5
<1>4. \A q \in Requests :
        /\ request'[q].state = "none" => request'[q].user = Nobody
        /\ request'[q].state \in {"none", "active"} => request'[q].charge = 0
  BY DEF HistoryInv
<1> QED
  BY <1>3, <1>4 DEF HistoryInv

(* A credited recharge is taken back. *)
LEMMA ReverseHistory ==
  ASSUME WalletInv, WalletInv', HistoryInv, NEW c \in Clients, CommitReverse(c)
  PROVE  HistoryInv'
<1> DEFINE f == call[c].ref
           u == record[f].user
           a == record[f].amount
<1>1. /\ record \in [References -> RecordRow] /\ record' \in [References -> RecordRow]
      /\ posted \in [Users -> Int] /\ f \in References
  BY DEF WalletInv, Typed, WalletTypeOK, CommitReverse, AtEnd, Formed
<1>2. /\ record[f].state = "credited" /\ u \in Users /\ a \in Nat
      /\ record'[f] = [state |-> "reversed", user |-> u, amount |-> a]
      /\ \A g \in References \ {f} : record'[g] = record[g]
      /\ posted'[u] = posted[u] - a
      /\ \A v \in Users \ {u} : posted'[v] = posted[v]
      /\ UNCHANGED <<reserved, request>>
  <2>1. record[f].state = "credited" /\ u \in Users
    BY <1>1 DEF CommitReverse, Reversible, WalletInv, Typed, RowsHaveUsers
  <2> QED
    BY <1>1, <2>1 DEF CommitReverse, RecordRow
<1> HIDE DEF f, u, a
<1>3. ASSUME NEW v \in Users
      PROVE  /\ IsFiniteSet(CreditedBy(record', v))
             /\ IsFiniteSet(RequestsBy(request', v))
             /\ posted'[v] = AmountsOf(record', CreditedBy(record', v))
                               - ChargesOf(request', RequestsBy(request', v))
             /\ reserved'[v] = AmountsOf(request', ActiveBy(request', v))
  <2>1. IsFiniteSet(CreditedBy(record, v)) /\ IsFiniteSet(RequestsBy(request, v))
    BY DEF HistoryInv
  <2>2. /\ IsFiniteSet(CreditedBy(record', v))
        /\ AmountsOf(record', CreditedBy(record', v)) =
             AmountsOf(record, CreditedBy(record, v))
                - (IF f \in CreditedBy(record, v) THEN record[f].amount ELSE 0)
                + (IF f \in CreditedBy(record', v) THEN record'[f].amount ELSE 0)
        /\ AmountsOf(record, CreditedBy(record, v)) \in Int
    BY <1>1, <1>2, <2>1, CreditedMoves
  <2>3. /\ f \in CreditedBy(record, v) <=> v = u
        /\ f \notin CreditedBy(record', v)
        /\ record[f].amount = a
    BY <1>1, <1>2 DEF CreditedBy, u, a
  <2>4. ChargesOf(request, RequestsBy(request, v)) \in Int
    <3>1. \A q \in RequestsBy(request, v) : request[q].charge \in Int
      BY DEF RequestsBy, WalletInv, Typed, WalletTypeOK, RequestRow
    <3> QED
      BY <2>1, <3>1, ChargesType
  <2>5. posted[v] = AmountsOf(record, CreditedBy(record, v))
                      - ChargesOf(request, RequestsBy(request, v))
        /\ reserved[v] = AmountsOf(request, ActiveBy(request, v))
    BY DEF HistoryInv
  <2> QED
    BY <1>2, <2>1, <2>2, <2>3, <2>4, <2>5
<1>4. \A q \in Requests :
        /\ request'[q].state = "none" => request'[q].user = Nobody
        /\ request'[q].state \in {"none", "active"} => request'[q].charge = 0
  BY <1>2 DEF HistoryInv
<1> QED
  BY <1>3, <1>4 DEF HistoryInv

HeldBy(rows, q, u) == IF q \in ActiveBy(rows, u) THEN rows[q].amount ELSE 0

(* A reservation's row changes: it begins, or it ends with a charge. *)
LEMMA RequestHistory ==
  ASSUME WalletInv, WalletInv', HistoryInv, NEW q \in Requests, NEW u \in Users,
         \A p \in Requests \ {q} : request'[p] = request[p],
         request[q].user \in {u, Nobody}, request[q].charge = 0,
         request'[q].user = u, request'[q].state # "none",
         request'[q].state = "active" => request'[q].charge = 0,
         posted'[u] = posted[u] - request'[q].charge,
         \A v \in Users \ {u} : posted'[v] = posted[v] /\ reserved'[v] = reserved[v],
         reserved'[u] = reserved[u] - HeldBy(request, q, u) + HeldBy(request', q, u),
         record' = record
  PROVE  HistoryInv'
<1>1. /\ request \in [Requests -> RequestRow] /\ request' \in [Requests -> RequestRow]
      /\ posted \in [Users -> Int] /\ reserved \in [Users -> Int]
      /\ record \in [References -> RecordRow]
  BY DEF WalletInv, Typed, WalletTypeOK
<1>2. ASSUME NEW v \in Users
      PROVE  /\ IsFiniteSet(CreditedBy(record', v))
             /\ IsFiniteSet(RequestsBy(request', v))
             /\ posted'[v] = AmountsOf(record', CreditedBy(record', v))
                               - ChargesOf(request', RequestsBy(request', v))
             /\ reserved'[v] = AmountsOf(request', ActiveBy(request', v))
  <2>1. IsFiniteSet(CreditedBy(record, v)) /\ IsFiniteSet(RequestsBy(request, v))
    BY DEF HistoryInv
  <2>2. /\ IsFiniteSet(RequestsBy(request', v))
        /\ ChargesOf(request', RequestsBy(request', v)) =
             ChargesOf(request, RequestsBy(request, v))
                - (IF q \in RequestsBy(request, v) THEN request[q].charge ELSE 0)
                + (IF q \in RequestsBy(request', v) THEN request'[q].charge ELSE 0)
        /\ AmountsOf(request', ActiveBy(request', v)) =
             AmountsOf(request, ActiveBy(request, v))
                - (IF q \in ActiveBy(request, v) THEN request[q].amount ELSE 0)
                + (IF q \in ActiveBy(request', v) THEN request'[q].amount ELSE 0)
        /\ ChargesOf(request, RequestsBy(request, v)) \in Int
        /\ AmountsOf(request, ActiveBy(request, v)) \in Int
    BY <1>1, <2>1, RequestsMove
  <2>3. /\ q \in RequestsBy(request', v) <=> v = u
        /\ q \in ActiveBy(request, v) => v = u
        /\ q \in ActiveBy(request', v) => v = u
    BY WalletAssumption DEF RequestsBy, ActiveBy
  <2>4. AmountsOf(record, CreditedBy(record, v)) \in Int
    <3>1. \A f \in CreditedBy(record, v) : record[f].amount \in Int
      BY <1>1 DEF CreditedBy, RecordRow
    <3> QED
      BY <2>1, <3>1, AmountsType
  <2>5. posted[v] = AmountsOf(record, CreditedBy(record, v))
                      - ChargesOf(request, RequestsBy(request, v))
        /\ reserved[v] = AmountsOf(request, ActiveBy(request, v))
    BY DEF HistoryInv
  <2> QED
    <3>1. /\ request[q].amount \in Int /\ request'[q].amount \in Int
          /\ request'[q].charge \in Int
          /\ posted[v] \in Int /\ reserved[v] \in Int
      BY <1>1 DEF RequestRow
    <3>2. CASE v = u
      BY <2>1, <2>2, <2>3, <2>4, <2>5, <3>1, <3>2 DEF HeldBy
    <3>3. CASE v # u
      BY <2>1, <2>2, <2>3, <2>4, <2>5, <3>1, <3>3
    <3> QED
      BY <3>2, <3>3
<1>3. \A p \in Requests :
        /\ request'[p].state = "none" => request'[p].user = Nobody
        /\ request'[p].state \in {"none", "active"} => request'[p].charge = 0
  BY DEF HistoryInv
<1> QED
  BY <1>2, <1>3 DEF HistoryInv

LEMMA ReserveHistory ==
  ASSUME WalletInv, WalletInv', HistoryInv, NEW c \in Clients, CommitReserve(c)
  PROVE  HistoryInv'
<1> DEFINE q == call[c].req
           u == call[c].user
           a == call[c].amount
<1>1. /\ q \in Requests /\ u \in Users /\ a \in Nat
      /\ request[q].state = "none"
      /\ request \in [Requests -> RequestRow]
      /\ posted \in [Users -> Int] /\ reserved \in [Users -> Int]
  BY DEF WalletInv, Typed, WalletTypeOK, CommitReserve, AtEnd, Formed
<1>2. /\ request' = [request EXCEPT ![q] =
                       [state |-> "active", user |-> u, amount |-> a, charge |-> 0]]
      /\ reserved' = [reserved EXCEPT ![u] = @ + a]
      /\ posted' = posted /\ record' = record
  BY DEF CommitReserve
<1> HIDE DEF q, u, a
<1>3. /\ request'[q] = [state |-> "active", user |-> u, amount |-> a, charge |-> 0]
      /\ \A p \in Requests \ {q} : request'[p] = request[p]
      /\ request[q].user = Nobody /\ request[q].charge = 0
  BY <1>1, <1>2 DEF HistoryInv
<1>4. HeldBy(request, q, u) = 0 /\ HeldBy(request', q, u) = a
  BY <1>1, <1>3 DEF HeldBy, ActiveBy, RequestsBy
<1>5. /\ reserved'[u] = reserved[u] - HeldBy(request, q, u) + HeldBy(request', q, u)
      /\ posted'[u] = posted[u] - request'[q].charge
      /\ \A v \in Users \ {u} : posted'[v] = posted[v] /\ reserved'[v] = reserved[v]
      /\ record' = record
  BY <1>1, <1>2, <1>3, <1>4
<1>6. /\ request[q].user \in {u, Nobody}
      /\ request'[q].user = u /\ request'[q].state # "none"
      /\ request'[q].charge = 0
  BY <1>3
<1> QED
  BY <1>1, <1>2, <1>3, <1>4, <1>5, <1>6, RequestHistory

LEMMA EndHistory ==
  ASSUME WalletInv, WalletInv', HistoryInv, NEW q \in Requests,
         NEW st \in {"settled", "released"}, NEW charge \in Nat,
         request[q].state = "active", EndReservation(q, st, charge),
         posted' = [posted EXCEPT ![request[q].user] = @ - charge],
         record' = record
  PROVE  HistoryInv'
<1> DEFINE u == request[q].user
           a == request[q].amount
<1>1. /\ u \in Users /\ a \in Nat
      /\ request \in [Requests -> RequestRow]
      /\ posted \in [Users -> Int] /\ reserved \in [Users -> Int]
  BY DEF WalletInv, Typed, WalletTypeOK, RowsHaveUsers, RequestRow
<1>2. /\ request' = [request EXCEPT ![q] =
                       [state |-> st, user |-> u, amount |-> a, charge |-> charge]]
      /\ reserved' = [reserved EXCEPT ![u] = @ - a]
      /\ posted' = [posted EXCEPT ![u] = @ - charge]
  BY DEF EndReservation
<1>3. request[q].charge = 0 /\ q \in ActiveBy(request, u)
  BY DEF HistoryInv, ActiveBy, RequestsBy
<1>4. request[q].user = u /\ request[q].amount = a
  OBVIOUS
<1> HIDE DEF u, a
<1>5. /\ request'[q] = [state |-> st, user |-> u, amount |-> a, charge |-> charge]
      /\ \A p \in Requests \ {q} : request'[p] = request[p]
  BY <1>1, <1>2
<1>6. HeldBy(request, q, u) = a /\ HeldBy(request', q, u) = 0
  BY <1>3, <1>4, <1>5 DEF HeldBy, ActiveBy
<1>7. /\ reserved'[u] = reserved[u] - HeldBy(request, q, u) + HeldBy(request', q, u)
      /\ posted'[u] = posted[u] - request'[q].charge
      /\ \A v \in Users \ {u} : posted'[v] = posted[v] /\ reserved'[v] = reserved[v]
  BY <1>1, <1>2, <1>5, <1>6
<1>8. /\ request'[q].user = u /\ request'[q].state \notin {"none", "active"}
      /\ request'[q].charge = charge
  BY <1>5
<1> QED
  BY <1>1, <1>2, <1>3, <1>4, <1>5, <1>6, <1>7, <1>8, RequestHistory

LEMMA HistoryStep ==
  ASSUME WalletInv, WalletInv', HistoryInv, [WalletNext]_walletVars
  PROVE  HistoryInv'
<1>1. ASSUME UNCHANGED <<posted, reserved, record, request>>
      PROVE  HistoryInv'
  BY <1>1 DEF HistoryInv
<1>2. ASSUME NEW c \in Clients, CommitConfirm(c)
      PROVE  HistoryInv'
  <2> DEFINE w == call[c]
             u == order[w.order].user
  <2>1. /\ w.ref \in References /\ w.amount \in Nat /\ u \in Users
        /\ Credit(u, w.ref, w.amount) /\ UNCHANGED <<request, reserved>>
    BY <1>2 DEF CommitConfirm, AtEnd, WalletInv, Typed, Formed, RowsHaveUsers, StaleSeen
  <2> HIDE DEF w, u
  <2> QED
    BY <2>1, CreditHistory
<1>3. ASSUME NEW c \in Clients, CommitRecharge(c)
      PROVE  HistoryInv'
  <2>1. /\ call[c].ref \in References /\ call[c].amount \in Nat
        /\ call[c].user \in Users
        /\ Credit(call[c].user, call[c].ref, call[c].amount)
        /\ UNCHANGED <<request, reserved>>
    BY <1>3 DEF CommitRecharge, AtEnd, WalletInv, Typed, Formed
  <2> QED
    BY <2>1, CreditHistory
<1>4. ASSUME NEW c \in Clients, CommitSettle(c)
      PROVE  HistoryInv'
  <2>1. /\ call[c].req \in Requests /\ call[c].amount \in Nat
        /\ request[call[c].req].state = "active"
        /\ EndReservation(call[c].req, "settled", call[c].amount)
        /\ posted' = [posted EXCEPT ![request[call[c].req].user] =
                                        @ - call[c].amount]
        /\ record' = record
    BY <1>4 DEF CommitSettle, AtEnd, WalletInv, Typed, Formed
  <2> QED
    BY <2>1, EndHistory
<1>5. ASSUME NEW c \in Clients, CommitRelease(c)
      PROVE  HistoryInv'
  <2> DEFINE q == call[c].req
  <2>1. /\ q \in Requests /\ request[q].state = "active"
        /\ EndReservation(q, "released", 0) /\ posted' = posted /\ record' = record
    BY <1>5 DEF CommitRelease, AtEnd, WalletInv, Typed, Formed
  <2>2. posted' = [posted EXCEPT ![request[q].user] = @ - 0]
    BY <2>1 DEF WalletInv, Typed, WalletTypeOK, RowsHaveUsers
  <2>3. 0 \in Nat
    OBVIOUS
  <2> HIDE DEF q
  <2> QED
    BY <2>1, <2>2, <2>3, EndHistory
<1>6. CASE UNCHANGED walletVars
  BY <1>1, <1>6 DEF walletVars
<1>7. CASE Reconfigure
  BY <1>1, <1>7 DEF Reconfigure
<1>8. ASSUME NEW c \in Clients, AskSome(c) \/ LockRow(c) \/ ReadFunds(c) \/ Rollback(c)
      PROVE  HistoryInv'
  <2>1. UNCHANGED walletRows
    BY <1>8 DEF AskSome, AskOrder, AskConfirm, AskMockConfirm, AskRecharge,
       AskReverse, AskReserve, AskSettle, AskRelease, Ask, LockRow, ReadFunds,
       Rollback
  <2> QED
    BY <1>1, <2>1 DEF walletRows
<1>9. ASSUME NEW c \in Clients, CommitOrder(c) \/ CommitMismatch(c)
      PROVE  HistoryInv'
  BY <1>1, <1>9 DEF CommitOrder, CommitMismatch
<1> QED
  BY <1>2, <1>3, <1>4, <1>5, <1>6, <1>7, <1>8, <1>9, ReverseHistory, ReserveHistory
     DEF WalletNext, AskSome

(* The balance and the reserved sum of every wallet are what its recharges, *)
(* charges and reservations add up to.                                      *)
THEOREM BalancesAreTheirHistory == WalletSpec => []BalanceIsItsHistory
<1>1. WalletInit => WalletInv /\ HistoryInv
  BY InitWalletInv, InitHistoryInv
<1>2. WalletInv /\ WalletInv' /\ HistoryInv /\ [WalletNext]_walletVars => HistoryInv'
  BY HistoryStep
<1>3. WalletInv /\ HistoryInv => BalanceIsItsHistory
  BY DEF WalletInv, HistoryInv, BalanceIsItsHistory
<1> QED
  BY <1>1, <1>2, <1>3, WalletInvariant, PTL DEF WalletSpec

-----------------------------------------------------------------------------
(* PaymentCallbacks *)

(* The order's row says what the payer did. *)
Recorded(o) ==
    /\ payment[o] = "paid" => payRow[o] = "paid"
    /\ payment[o] = "other_amount" => payRow[o] = "paid_mismatch"
    /\ payment[o] \in {"none", "closed"} => payRow[o] = "pending"

(* A trade belongs to an order that has a row, and a row that is no longer *)
(* pending is about its trade. *)
TradesHaveRows ==
    \A o \in PayOrders :
        /\ payRow[o] = "absent" => payment[o] = "none" /\ o \notin acked
        /\ payRow[o] = "paid" => payment[o] = "paid"
        /\ payRow[o] = "paid_mismatch" => payment[o] = "other_amount"

(* An order is opened by one call, and nothing is known of it meanwhile. *)
OpensAreAlone ==
    \A c \in PayCalls : payCall[c].kind = "open" =>
        /\ payCall[c].step # "recorded"
        /\ payRow[payCall[c].order] = "absent"
        /\ \A d \in PayCalls \ {c} :
             payCall[d].kind # "none" => payCall[d].order # payCall[c].order

(* A notification is about a trade the payer has decided on. *)
NotifiedIsDecided ==
    \A c \in PayCalls : payCall[c].kind = "notify" => payment[payCall[c].order] # "none"

(* A call that has committed is about an order that is recorded. *)
CommittedIsRecorded ==
    \A c \in PayCalls :
        payCall[c].kind = "notify" /\ payCall[c].step = "recorded" =>
            Recorded(payCall[c].order)

AckedIsRecorded ==
    \A o \in acked : payment[o] # "none" /\ Recorded(o)

PayInv ==
    /\ PayTypeOK
    /\ TradesHaveRows
    /\ OpensAreAlone
    /\ NotifiedIsDecided
    /\ CommittedIsRecorded
    /\ AckedIsRecorded

-----------------------------------------------------------------------------
(* The fields of a call under way. *)
LEMMA PayCallFields ==
  ASSUME payCall \in [PayCalls -> PayCallRow \cup {NoCall}], NEW c \in PayCalls
  PROVE  /\ payCall[c].kind \in {"none", "open", "notify"}
         /\ payCall[c] = NoCall <=> payCall[c].kind = "none"
         /\ payCall[c].kind # "none" =>
              /\ payCall[c] \in PayCallRow /\ payCall[c].order \in PayOrders
<1>1. payCall[c] \in PayCallRow \cup {NoCall}
  OBVIOUS
<1>2. CASE payCall[c] = NoCall
  BY <1>2 DEF NoCall
<1>3. CASE payCall[c] \in PayCallRow
  BY <1>3 DEF PayCallRow, NoCall
<1> QED
  BY <1>1, <1>2, <1>3

LEMMA PayInitInv == PayInit => PayInv
<1> SUFFICES ASSUME PayInit PROVE PayInv
  OBVIOUS
<1>1. PayTypeOK
  <2>1. 0 \in Serials /\ restarts \in 0..MaxRestarts
    BY PaymentAssumption DEF PayInit, Serials
  <2>2. payCall \in [PayCalls -> PayCallRow \cup {NoCall}]
    BY DEF PayInit
  <2> QED
    BY <2>1, <2>2 DEF PayInit, PayTypeOK
<1>2. TradesHaveRows /\ AckedIsRecorded
  BY DEF PayInit, TradesHaveRows, AckedIsRecorded
<1>3. OpensAreAlone /\ NotifiedIsDecided /\ CommittedIsRecorded
  BY DEF PayInit, OpensAreAlone, NotifiedIsDecided, CommittedIsRecorded, NoCall
<1> QED
  BY <1>1, <1>2, <1>3 DEF PayInv

(* A step of a call that writes no row and acknowledges nothing. *)
LEMMA QuietCallInv ==
  ASSUME PayInv, NEW c \in PayCalls, NEW w \in PayCallRow \cup {NoCall},
         payCall' = [payCall EXCEPT ![c] = w],
         UNCHANGED <<gateway, serial, payment, byHand, restarts, payRow, acked>>,
         certs' \subseteq Serials, throttled' \in BOOLEAN,
         w.kind = "open" =>
           /\ w.step # "recorded"
           /\ payRow[w.order] = "absent"
           /\ \A d \in PayCalls \ {c} : payCall[d].kind # "none" => payCall[d].order # w.order,
         w.kind # "none" =>
           \A d \in PayCalls \ {c} : payCall[d].kind = "open" => payCall[d].order # w.order,
         w.kind = "notify" => payment[w.order] # "none",
         w.kind = "notify" /\ w.step = "recorded" => Recorded(w.order)
  PROVE  PayInv'
<1> USE DEF PayInv
<1>1. payCall \in [PayCalls -> PayCallRow \cup {NoCall}]
  BY DEF PayTypeOK
<1>2. payCall'[c] = w /\ \A d \in PayCalls \ {c} : payCall'[d] = payCall[d]
  BY <1>1
<1>3. PayTypeOK'
  BY <1>1 DEF PayTypeOK
<1>4. TradesHaveRows' /\ AckedIsRecorded'
  BY DEF TradesHaveRows, AckedIsRecorded, Recorded
<1>5. OpensAreAlone'
  BY <1>2 DEF OpensAreAlone
<1>6. NotifiedIsDecided'
  BY <1>2 DEF NotifiedIsDecided
<1>7. CommittedIsRecorded'
  BY <1>2 DEF CommittedIsRecorded, Recorded
<1> QED
  BY <1>3, <1>4, <1>5, <1>6, <1>7

(* A call that goes on to a step other than "recorded", or ends. *)
LEMMA GoesOnInv ==
  ASSUME PayInv, NEW c \in PayCalls, payCall[c].kind # "none",
         NEW step \in {"refresh", "download", "again", "verified"},
         GoTo(c, step) \/ EndPayCall(c),
         UNCHANGED <<payWorld, payRow, acked>>,
         certs' \subseteq Serials, throttled' \in BOOLEAN
  PROVE  PayInv'
<1>1. payCall \in [PayCalls -> PayCallRow \cup {NoCall}]
  BY DEF PayInv, PayTypeOK
<1>2. payCall[c] \in PayCallRow
  BY <1>1, PayCallFields
<1>3. UNCHANGED <<gateway, serial, payment, byHand, restarts, payRow, acked>>
  BY DEF payWorld
<1>4. CASE EndPayCall(c)
  BY <1>3, <1>4, QuietCallInv DEF EndPayCall, NoCall
<1>5. CASE GoTo(c, step)
  <2> DEFINE w == [payCall[c] EXCEPT !.step = step]
  <2>1. /\ w \in PayCallRow /\ w.kind = payCall[c].kind /\ w.order = payCall[c].order
        /\ w.step = step
    BY <1>2 DEF PayCallRow
  <2>2. payCall' = [payCall EXCEPT ![c] = w]
    BY <1>1, <1>5 DEF GoTo
  <2>3. w.kind = "open" =>
          /\ w.step # "recorded"
          /\ payRow[w.order] = "absent"
          /\ \A d \in PayCalls \ {c} : payCall[d].kind # "none" => payCall[d].order # w.order
    BY <2>1 DEF PayInv, OpensAreAlone
  <2>4. \A d \in PayCalls \ {c} : payCall[d].kind = "open" => payCall[d].order # w.order
    BY <2>1 DEF PayInv, OpensAreAlone
  <2>5. w.kind = "notify" => payment[w.order] # "none"
    BY <2>1 DEF PayInv, NotifiedIsDecided
  <2> HIDE DEF w
  <2> QED
    BY <1>3, <2>1, <2>2, <2>3, <2>4, <2>5, QuietCallInv
<1> QED
  BY <1>4, <1>5

(* A call begins: to open an order without a row, or about a trade. *)
LEMMA BeginInv ==
  ASSUME PayInv, NEW c \in PayCalls, NEW o \in PayOrders,
         PayOpen(c, o) \/ PayNotify(c, o)
  PROVE  PayInv'
<1>1. PICK k \in {"open", "notify"} :
        /\ Begin(c, k, o)
        /\ k = "open" => /\ payRow[o] = "absent"
                         /\ \A d \in PayCalls : payCall[d] # NoCall => payCall[d].order # o
        /\ k = "notify" => payment[o] # "none"
  BY DEF PayOpen, PayNotify
<1> DEFINE w == [kind |-> k, order |-> o, serial |-> serial,
                 step |-> IF gateway = "wechat" THEN "lookup" ELSE "verified"]
<1>2. payCall \in [PayCalls -> PayCallRow \cup {NoCall}] /\ serial \in Serials
      /\ certs \subseteq Serials /\ throttled \in BOOLEAN
  BY DEF PayInv, PayTypeOK
<1>3. /\ w \in PayCallRow /\ w.kind = k /\ w.order = o /\ w.step # "recorded"
      /\ payCall' = [payCall EXCEPT ![c] = w]
      /\ UNCHANGED <<gateway, serial, payment, byHand, restarts, payRow, acked>>
      /\ UNCHANGED <<certs, throttled>>
  BY <1>1, <1>2 DEF Begin, PayCallRow, payWorld
<1>4. \A d \in PayCalls : payCall[d] # NoCall <=> payCall[d].kind # "none"
  BY <1>2, PayCallFields
<1>5. \A d \in PayCalls \ {c} : payCall[d].kind = "open" => payCall[d].order # o
  <2> SUFFICES ASSUME NEW d \in PayCalls \ {c}, payCall[d].kind = "open",
                      payCall[d].order = o
               PROVE  FALSE
    OBVIOUS
  <2>1. k # "open"
    BY <1>1, <1>4
  <2>2. payment[o] # "none" /\ payRow[o] = "absent"
    BY <1>1, <2>1 DEF PayInv, OpensAreAlone
  <2> QED
    BY <2>2 DEF PayInv, TradesHaveRows
<1> HIDE DEF w
<1> QED
  BY <1>1, <1>2, <1>3, <1>4, <1>5, QuietCallInv

(* The order's row appears, while no other call is about it. *)
LEMMA PayOpenedInv == ASSUME PayInv, NEW c \in PayCalls, PayOpened(c) PROVE PayInv'
<1> USE DEF PayInv
<1>0. PICK o \in PayOrders : o = payCall[c].order
  BY PayCallFields DEF PayTypeOK, PayOpened, AtStep
<1>1. /\ payCall \in [PayCalls -> PayCallRow \cup {NoCall}]
      /\ payRow \in [PayOrders -> {"absent", "pending", "paid", "paid_mismatch"}]
      /\ payCall[c].kind = "open"
      /\ payCall' = [payCall EXCEPT ![c] = NoCall]
      /\ payRow' = [payRow EXCEPT ![o] = "pending"]
      /\ UNCHANGED <<gateway, serial, payment, byHand, restarts, certs, throttled, acked>>
  BY <1>0 DEF PayTypeOK, PayOpened, EndPayCall, payWorld
<1>2. /\ payRow[o] = "absent" /\ payment[o] = "none" /\ o \notin acked
      /\ \A d \in PayCalls \ {c} : payCall[d].kind # "none" => payCall[d].order # o
  BY <1>0, <1>1 DEF OpensAreAlone, TradesHaveRows
<1>3. /\ payCall'[c].kind = "none" /\ \A d \in PayCalls \ {c} : payCall'[d] = payCall[d]
  BY <1>1 DEF NoCall
<1>4. payRow'[o] = "pending" /\ \A p \in PayOrders \ {o} : payRow'[p] = payRow[p]
  BY <1>1, <1>2
<1>5. \A d \in PayCalls : payCall'[d].kind # "none" =>
        d # c /\ payCall'[d] = payCall[d] /\ payCall[d].order \in PayOrders \ {o}
  BY <1>1, <1>2, <1>3, PayCallFields
<1>6. PayTypeOK'
  BY <1>1 DEF PayTypeOK
<1>7. TradesHaveRows'
  BY <1>1, <1>2, <1>4 DEF TradesHaveRows
<1>8. OpensAreAlone'
  BY <1>4, <1>5 DEF OpensAreAlone
<1>9. NotifiedIsDecided'
  BY <1>1, <1>5 DEF NotifiedIsDecided
<1>10. CommittedIsRecorded'
  BY <1>1, <1>4, <1>5 DEF CommittedIsRecorded, Recorded
<1>11. AckedIsRecorded'
  BY <1>1, <1>2, <1>4 DEF AckedIsRecorded, Recorded, PayTypeOK
<1> QED
  BY <1>6, <1>7, <1>8, <1>9, <1>10, <1>11

(* The commit: the row is the first to say what the payer did, or says so. *)
LEMMA PayRecordInv == ASSUME PayInv, NEW c \in PayCalls, PayRecord(c) PROVE PayInv'
<1> USE DEF PayInv
<1>0. PICK o \in PayOrders : o = payCall[c].order
  BY PayCallFields DEF PayTypeOK, PayRecord, AtStep
<1>1. /\ payCall \in [PayCalls -> PayCallRow \cup {NoCall}]
      /\ payRow \in [PayOrders -> {"absent", "pending", "paid", "paid_mismatch"}]
      /\ payment \in [PayOrders -> {"none", "paid", "other_amount", "closed"}]
      /\ payCall[c].kind = "notify"
      /\ payCall' = [payCall EXCEPT ![c].step = "recorded"]
      /\ UNCHANGED <<gateway, serial, payment, byHand, restarts, certs, throttled, acked>>
  BY DEF PayTypeOK, PayRecord, GoTo, payWorld
<1>2. payment[o] # "none" /\ payRow[o] # "absent" /\ payCall[c] \in PayCallRow
  BY <1>0, <1>1, PayCallFields DEF NotifiedIsDecided, TradesHaveRows
<1>3. /\ payCall'[c] \in PayCallRow /\ payCall'[c].kind = "notify"
      /\ payCall'[c].order = o
      /\ \A d \in PayCalls \ {c} : payCall'[d] = payCall[d]
  BY <1>0, <1>1, <1>2 DEF PayCallRow
<1>4. payRow' = [payRow EXCEPT ![o] =
                   IF @ = "pending" THEN RowOfTrade(payment[o]) ELSE @]
  BY <1>0 DEF PayRecord
<1>5. /\ \A p \in PayOrders \ {o} : payRow'[p] = payRow[p]
      /\ payRow[o] # "pending" => payRow'[o] = payRow[o]
      /\ payRow[o] = "pending" => payRow'[o] = RowOfTrade(payment[o])
  BY <1>1, <1>2, <1>4
<1>6. payment[o] \in {"paid", "other_amount", "closed"}
  BY <1>1, <1>2
<1>7. /\ payRow[o] # "pending" => payRow'[o] = payRow[o]
      /\ payRow[o] = "pending" /\ payment[o] = "paid" => payRow'[o] = "paid"
      /\ payRow[o] = "pending" /\ payment[o] = "other_amount" => payRow'[o] = "paid_mismatch"
      /\ payRow[o] = "pending" /\ payment[o] = "closed" => payRow'[o] = "pending"
  BY <1>5 DEF RowOfTrade
<1>8. /\ payRow[o] \in {"pending", "paid", "paid_mismatch"}
      /\ payRow[o] = "paid" => payment[o] = "paid"
      /\ payRow[o] = "paid_mismatch" => payment[o] = "other_amount"
  BY <1>1, <1>2 DEF TradesHaveRows
<1>9. Recorded(o)' /\ payRow'[o] \in {"pending", "paid", "paid_mismatch"}
  <2>1. payment'[o] = payment[o]
    BY <1>1
  <2> QED
    BY <1>6, <1>7, <1>8, <2>1 DEF Recorded
<1>10. PayTypeOK'
  <2>1. payRow' \in [PayOrders -> {"absent", "pending", "paid", "paid_mismatch"}]
    BY <1>1, <1>2, <1>4, <1>5, <1>9
  <2>2. payCall' \in [PayCalls -> PayCallRow \cup {NoCall}]
    BY <1>1, <1>3
  <2> QED
    BY <1>1, <2>1, <2>2 DEF PayTypeOK
<1>11. TradesHaveRows'
  BY <1>1, <1>2, <1>5, <1>7, <1>8 DEF TradesHaveRows
<1>12. OpensAreAlone'
  <2>1. \A d \in PayCalls : payCall[d].kind = "open" => payCall[d].order # o
    BY <1>0, <1>1, <1>2 DEF OpensAreAlone
  <2>2. \A d \in PayCalls : /\ payCall'[d].kind = payCall[d].kind
                            /\ payCall'[d].order = payCall[d].order
                            /\ payCall[d].kind = "open" => payCall'[d] = payCall[d]
    BY <1>0, <1>1, <1>3
  <2>3. \A d \in PayCalls : payCall[d].kind = "open" => payCall[d].order \in PayOrders
    BY <1>1, PayCallFields
  <2> QED
    BY <1>5, <2>1, <2>2, <2>3 DEF OpensAreAlone
<1>13. NotifiedIsDecided'
  BY <1>0, <1>1, <1>2, <1>3 DEF NotifiedIsDecided
<1>14. CommittedIsRecorded'
  <2> SUFFICES ASSUME NEW d \in PayCalls, payCall'[d].kind = "notify",
                      payCall'[d].step = "recorded", payCall'[d].order # o
               PROVE  /\ payCall[d].order \in PayOrders
                      /\ payCall'[d].order = payCall[d].order
                      /\ payment'[payCall[d].order] = payment[payCall[d].order]
                      /\ payRow'[payCall[d].order] = payRow[payCall[d].order]
                      /\ Recorded(payCall[d].order)
    BY <1>9 DEF CommittedIsRecorded, Recorded
  <2>1. d # c /\ payCall'[d] = payCall[d] /\ payCall[d].order \in PayOrders \ {o}
    BY <1>1, <1>3, PayCallFields
  <2> QED
    BY <1>1, <1>5, <2>1 DEF CommittedIsRecorded
<1>15. AckedIsRecorded'
  <2>1. \A p \in acked : p \in PayOrders /\ payment[p] # "none" /\ Recorded(p)
    BY DEF AckedIsRecorded, PayTypeOK
  <2> QED
    BY <1>1, <1>5, <1>9, <2>1 DEF AckedIsRecorded, Recorded
<1> QED
  BY <1>10, <1>11, <1>12, <1>13, <1>14, <1>15

(* Only what is recorded is acknowledged. *)
LEMMA PayAnswerInv == ASSUME PayInv, NEW c \in PayCalls, PayAnswer(c) PROVE PayInv'
<1> USE DEF PayInv
<1>0. PICK o \in PayOrders : o = payCall[c].order
  BY PayCallFields DEF PayTypeOK, PayAnswer, AtStep
<1>1. /\ payCall \in [PayCalls -> PayCallRow \cup {NoCall}]
      /\ payCall[c] # NoCall /\ payCall[c].step = "recorded"
      /\ payCall' = [payCall EXCEPT ![c] = NoCall]
      /\ acked' = acked \cup {o}
      /\ UNCHANGED <<gateway, serial, payment, byHand, restarts, certs, throttled, payRow>>
  BY <1>0 DEF PayTypeOK, PayAnswer, AtStep, EndPayCall, payWorld
<1>2. /\ payCall'[c].kind = "none" /\ \A d \in PayCalls \ {c} : payCall'[d] = payCall[d]
  BY <1>1 DEF NoCall
<1>3. payCall[c].kind = "notify"
  BY <1>1, PayCallFields DEF OpensAreAlone
<1>4. payment[o] # "none" /\ Recorded(o)
  BY <1>0, <1>1, <1>3 DEF NotifiedIsDecided, CommittedIsRecorded
<1>5. PayTypeOK'
  BY <1>1, <1>3 DEF PayTypeOK
<1>6. TradesHaveRows' /\ AckedIsRecorded'
  BY <1>1, <1>4 DEF TradesHaveRows, AckedIsRecorded, Recorded
<1>7. OpensAreAlone' /\ NotifiedIsDecided' /\ CommittedIsRecorded'
  BY <1>1, <1>2 DEF OpensAreAlone, NotifiedIsDecided, CommittedIsRecorded, Recorded
<1> QED
  BY <1>5, <1>6, <1>7

(* The payer decides once, on an order that has a row. *)
LEMMA PayPayerInv == ASSUME PayInv, NEW o \in PayOrders, PayPayer(o) PROVE PayInv'
<1> USE DEF PayInv
<1>1. PICK what \in {"paid", "other_amount", "closed"} :
        payment' = [payment EXCEPT ![o] = what]
  BY DEF PayPayer
<1>2. /\ payment \in [PayOrders -> {"none", "paid", "other_amount", "closed"}]
      /\ payRow[o] = "pending" /\ payment[o] = "none"
      /\ UNCHANGED <<gateway, serial, certs, throttled, payCall, payRow, byHand, acked, restarts>>
      /\ payCall \in [PayCalls -> PayCallRow \cup {NoCall}]
  BY DEF PayPayer, PayTypeOK
<1>3. payment'[o] # "none" /\ \A p \in PayOrders \ {o} : payment'[p] = payment[p]
  BY <1>1, <1>2
<1>4. PayTypeOK'
  BY <1>1, <1>2 DEF PayTypeOK
<1>5. TradesHaveRows'
  BY <1>2, <1>3 DEF TradesHaveRows
<1>6. OpensAreAlone'
  BY <1>2 DEF OpensAreAlone
<1>7. \A d \in PayCalls : payCall[d].kind = "notify" => payCall[d].order \in PayOrders \ {o}
  BY <1>2, PayCallFields DEF NotifiedIsDecided
<1>8. NotifiedIsDecided' /\ CommittedIsRecorded'
  BY <1>2, <1>3, <1>7 DEF NotifiedIsDecided, CommittedIsRecorded, Recorded
<1>9. \A p \in acked : p \in PayOrders \ {o} /\ payment[p] # "none" /\ Recorded(p)
  BY <1>2 DEF AckedIsRecorded, PayTypeOK
<1>10. AckedIsRecorded'
  BY <1>2, <1>3, <1>9 DEF AckedIsRecorded, Recorded
<1> QED
  BY <1>4, <1>5, <1>6, <1>8, <1>10

(* What concerns neither the calls nor the orders, and the restart. *)
LEMMA PayWorldInv ==
  ASSUME PayInv,
         \/ PayStart \/ PayRotate \/ PayFiveSeconds \/ PayRestart
         \/ \E o \in PayOrders : PayByHand(o)
         \/ UNCHANGED payVars
  PROVE  PayInv'
<1> USE DEF PayInv
<1>1. UNCHANGED <<payment, payRow, acked>>
  BY DEF PayStart, PayRotate, PayFiveSeconds, PayRestart, PayByHand, payVars
<1>2. PayTypeOK'
  <2>1. CASE PayStart
    BY <2>1 DEF PayStart, PayTypeOK
  <2>2. CASE PayRotate
    BY <2>2, PaymentAssumption DEF PayRotate, PayTypeOK, Serials
  <2>3. CASE PayFiveSeconds
    BY <2>3 DEF PayFiveSeconds, PayTypeOK
  <2>4. CASE PayRestart
    <3>1. payCall' \in [PayCalls -> PayCallRow \cup {NoCall}]
      BY <2>4 DEF PayRestart
    <3>2. restarts' \in 0..MaxRestarts
      BY <2>4, PaymentAssumption DEF PayRestart, PayTypeOK
    <3> QED
      BY <2>4, <3>1, <3>2 DEF PayRestart, PayTypeOK
  <2>5. CASE \E o \in PayOrders : PayByHand(o)
    BY <2>5 DEF PayByHand, PayTypeOK
  <2>6. CASE UNCHANGED payVars
    BY <2>6 DEF payVars, PayTypeOK
  <2> QED
    BY <2>1, <2>2, <2>3, <2>4, <2>5, <2>6
<1>3. TradesHaveRows' /\ AckedIsRecorded'
  BY <1>1 DEF TradesHaveRows, AckedIsRecorded, Recorded
<1>4. payCall' = payCall \/ payCall' = [c \in PayCalls |-> NoCall]
  BY DEF PayStart, PayRotate, PayFiveSeconds, PayRestart, PayByHand, payVars
<1>5. CASE payCall' = payCall
  <2>1. OpensAreAlone' /\ NotifiedIsDecided' /\ CommittedIsRecorded'
    BY <1>1, <1>5 DEF OpensAreAlone, NotifiedIsDecided, CommittedIsRecorded, Recorded
  <2> QED
    BY <1>2, <1>3, <2>1
<1>6. CASE payCall' = [c \in PayCalls |-> NoCall]
  <2>1. \A c \in PayCalls : payCall'[c].kind = "none"
    BY <1>6 DEF NoCall
  <2>2. OpensAreAlone' /\ NotifiedIsDecided' /\ CommittedIsRecorded'
    BY <2>1 DEF OpensAreAlone, NotifiedIsDecided, CommittedIsRecorded
  <2> QED
    BY <1>2, <1>3, <2>2
<1> QED
  BY <1>4, <1>5, <1>6

LEMMA PayCallStepInv == ASSUME PayInv, NEW c \in PayCalls, PayCallStep(c) PROVE PayInv'
<1>1. /\ certs \subseteq Serials /\ throttled \in BOOLEAN /\ serial \in Serials
      /\ payCall \in [PayCalls -> PayCallRow \cup {NoCall}]
  BY DEF PayInv, PayTypeOK
<1>2. payCall[c] # NoCall => payCall[c].kind # "none"
  BY <1>1, PayCallFields
<1>3. CASE PayLookUp(c)
  BY <1>1, <1>2, <1>3, GoesOnInv DEF PayLookUp, AtStep
<1>4. CASE PayRefresh(c)
  BY <1>1, <1>2, <1>4, GoesOnInv DEF PayRefresh, AtStep
<1>5. CASE PayDownload(c)
  <2>1. certs' \subseteq Serials /\ throttled' \in BOOLEAN
    BY <1>1, <1>5 DEF PayDownload
  <2> QED
    BY <1>2, <1>5, <2>1, GoesOnInv DEF PayDownload, AtStep
<1>6. CASE PayLookAgain(c)
  BY <1>1, <1>2, <1>6, GoesOnInv DEF PayLookAgain, AtStep
<1>7. CASE PayRefuse(c) \/ PayDuplicate(c)
  BY <1>1, <1>2, <1>7, GoesOnInv DEF PayRefuse, PayDuplicate, AtStep
<1> QED
  BY <1>3, <1>4, <1>5, <1>6, <1>7, PayOpenedInv, PayRecordInv, PayAnswerInv DEF PayCallStep

LEMMA PayStepInv == PayInv /\ [PayNext]_payVars => PayInv'
BY BeginInv, PayCallStepInv, PayPayerInv, PayWorldInv DEF PayNext

-----------------------------------------------------------------------------
(* Calls, rows and trades agree at every moment, whatever repeats, overlaps *)
(* or is cut off by a restart. *)
THEOREM PayInvariant == PaySpec => []PayInv
BY PayInitInv, PayStepInv, PTL DEF PaySpec

LEMMA AckedMeansRecorded == PayInv => AcknowledgedIsRecorded
<1> SUFFICES ASSUME PayInv, NEW o \in acked
             PROVE  CASE payment[o] = "paid" -> payRow[o] = "paid"
                      [] payment[o] = "other_amount" -> payRow[o] = "paid_mismatch"
                      [] OTHER -> payRow[o] = "pending"
  BY DEF AcknowledgedIsRecorded
<1>1. Recorded(o) /\ payment[o] \in {"paid", "other_amount", "closed"}
  BY DEF PayInv, PayTypeOK, AckedIsRecorded
<1>2. CASE payment[o] = "paid"
  BY <1>1, <1>2 DEF Recorded
<1>3. CASE payment[o] = "other_amount"
  BY <1>1, <1>3 DEF Recorded
<1>4. CASE payment[o] = "closed"
  BY <1>1, <1>4 DEF Recorded
<1> QED
  BY <1>1, <1>2, <1>3, <1>4

(* The gateway is told to stop only when the order's row says what was paid. *)
THEOREM AcknowledgedStaysRecorded == PaySpec => []AcknowledgedIsRecorded
BY AckedMeansRecorded, PayInvariant, PTL
=============================================================================
