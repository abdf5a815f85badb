-------------------------- MODULE PaymentCallbacks --------------------------
(***************************************************************************)
(* Orders at a payment gateway and the notifications that report them      *)
(* paid: billing/gateways.py and the notify routes of billing/router.py.   *)
(*                                                                         *)
(* A call is one request to the API: opening an order, or a notification,  *)
(* which the gateway repeats until it is acknowledged.  WeChat Pay signs   *)
(* with platform certificates it replaces from time to time; the API keeps *)
(* those it knows and asks for them anew when it meets another serial, at  *)
(* most once in five seconds.  What confirm_recharge_payment does inside   *)
(* its transaction is module Wallet; here it is one step.                  *)
(***************************************************************************)
EXTENDS Integers, FiniteSets

CONSTANTS
    PayOrders,     \* orders
    PayCalls,      \* requests under way at a time
    LastSerial,    \* how often the platform certificate is replaced
    MaxRestarts    \* restarts of the API

ASSUME PaymentAssumption == LastSerial \in Nat /\ MaxRestarts \in Nat

VARIABLES
    gateway,     \* the gateway the API was started with
    certs,       \* serials of the platform certificates the API has
    throttled,   \* the last download began less than five seconds ago
    serial,      \* what the platform signs with
    payCall,     \* call -> its kind, order, serial and step
    payment,     \* order -> what the payer has done, at the gateway
    payRow,      \* order -> its row
    byHand,      \* orders whose trade an administrator has credited
    acked,       \* orders whose notification was acknowledged
    restarts

payVars == <<gateway, certs, throttled, serial, payCall, payment, payRow,
             byHand, acked, restarts>>

Serials == 0..LastSerial
NoCall == [kind |-> "none"]
PayCallRow == [kind : {"open", "notify"}, order : PayOrders, serial : Serials,
               step : {"lookup", "refresh", "download", "again", "verified",
                       "recorded"}]

\* The credentials each gateway cannot do without.
Required(provider) ==
    CASE provider = "alipay" ->
           {"app_id", "app_private_key", "platform_key", "notify_base_url"}
      [] provider = "wechat" ->
           {"mch_id", "app_id", "mch_serial_no", "mch_private_key",
            "apiv3_key", "notify_base_url"}
      [] OTHER -> {}

PayInit ==
    /\ gateway = "down"
    /\ certs = {} /\ throttled = FALSE /\ serial = 0
    /\ payCall = [c \in PayCalls |-> NoCall]
    /\ payment = [o \in PayOrders |-> "none"]
    /\ payRow = [o \in PayOrders |-> "absent"]
    /\ byHand = {} /\ acked = {} /\ restarts = 0

\* build_payment_gateway: the process does not start with a setting missing.
PayStart ==
    /\ gateway = "down"
    /\ \E provider \in {"mock", "alipay", "wechat"},
          unset \in {{}, {"notify_base_url"}, {"app_id"}} :
        /\ Required(provider) \cap unset = {}
        /\ gateway' = provider
    /\ UNCHANGED <<certs, throttled, serial, payCall, payment, payRow, byHand,
                   acked, restarts>>

-----------------------------------------------------------------------------
(* The gateway and the people                                              *)

PayRotate ==
    /\ gateway = "wechat" /\ serial < LastSerial
    /\ serial' = serial + 1
    /\ UNCHANGED <<gateway, certs, throttled, payCall, payment, payRow, byHand,
                   acked, restarts>>

\* The payer pays what the order asks for, another amount, or lets it lapse.
PayPayer(o) ==
    /\ gateway \in {"alipay", "wechat"}
    /\ payRow[o] = "pending" /\ payment[o] = "none"
    /\ \E what \in {"paid", "other_amount", "closed"} :
        payment' = [payment EXCEPT ![o] = what]
    /\ UNCHANGED <<gateway, certs, throttled, serial, payCall, payRow, byHand,
                   acked, restarts>>

\* An administrator enters the trade's reference as a manual recharge.
PayByHand(o) ==
    /\ payment[o] \in {"paid", "other_amount"} /\ payRow[o] = "pending"
    /\ byHand' = byHand \cup {o}
    /\ UNCHANGED <<gateway, certs, throttled, serial, payCall, payment, payRow,
                   acked, restarts>>

PayFiveSeconds ==
    /\ throttled
    /\ throttled' = FALSE
    /\ UNCHANGED <<gateway, certs, serial, payCall, payment, payRow, byHand,
                   acked, restarts>>

PayRestart ==
    /\ gateway # "down" /\ restarts < MaxRestarts
    /\ restarts' = restarts + 1
    /\ certs' = {} /\ throttled' = FALSE
    /\ payCall' = [c \in PayCalls |-> NoCall]
    /\ UNCHANGED <<gateway, serial, payment, payRow, byHand, acked>>

-----------------------------------------------------------------------------
(* Calls                                                                   *)

payWorld == <<gateway, serial, payment, byHand, restarts>>

Begin(c, kind, o) ==
    /\ payCall[c] = NoCall
    /\ payCall' = [payCall EXCEPT ![c] =
                     [kind |-> kind, order |-> o, serial |-> serial,
                      step |-> IF gateway = "wechat" THEN "lookup"
                               ELSE "verified"]]
    /\ UNCHANGED <<payWorld, certs, throttled, payRow, acked>>

\* POST /recharge-orders of the provider that is configured.  The answer of
\* WeChat Pay to the prepay request is signed as well.
PayOpen(c, o) ==
    /\ gateway # "down"
    /\ payRow[o] = "absent"
    /\ \A d \in PayCalls : payCall[d] # NoCall => payCall[d].order # o
    /\ Begin(c, "open", o)

\* A notification, which is sent again as long as nothing acknowledges it.
PayNotify(c, o) ==
    /\ payment[o] # "none" /\ o \notin acked
    /\ Begin(c, "notify", o)

AtStep(c, step) == payCall[c] # NoCall /\ payCall[c].step = step
GoTo(c, step) == payCall' = [payCall EXCEPT ![c].step = step]
EndPayCall(c) == payCall' = [payCall EXCEPT ![c] = NoCall]

\* public_key_for
PayLookUp(c) ==
    /\ AtStep(c, "lookup")
    /\ GoTo(c, IF payCall[c].serial \in certs THEN "verified" ELSE "refresh")
    /\ UNCHANGED <<payWorld, certs, throttled, payRow, acked>>

\* Variant: the certificates are downloaded only while there are none.
PayRefreshOnce(c) ==
    /\ AtStep(c, "refresh")
    /\ GoTo(c, IF throttled \/ certs # {} THEN "again" ELSE "download")
    /\ throttled' = TRUE
    /\ UNCHANGED <<payWorld, certs, payRow, acked>>

\* The time is noted before the download: a second caller goes on without one.
PayRefresh(c) ==
    /\ AtStep(c, "refresh")
    /\ GoTo(c, IF throttled THEN "again" ELSE "download")
    /\ throttled' = TRUE
    /\ UNCHANGED <<payWorld, certs, payRow, acked>>

PayDownload(c) ==
    /\ AtStep(c, "download")
    /\ certs' = certs \cup {serial}
    /\ GoTo(c, "again")
    /\ UNCHANGED <<payWorld, throttled, payRow, acked>>

PayLookAgain(c) ==
    /\ AtStep(c, "again")
    /\ payCall[c].serial \in certs
    /\ GoTo(c, "verified")
    /\ UNCHANGED <<payWorld, certs, throttled, payRow, acked>>

\* 400, 500 or 503, and nothing is written: the download failed, the serial is
\* still unknown, the call carries a time, signature, resource, merchant or
\* amount that verify_notify does not take, or the transaction fails.
PayRefuse(c) ==
    /\ \/ payCall[c] # NoCall /\ payCall[c].step \in {"lookup", "download", "verified"}
       \/ AtStep(c, "again") /\ payCall[c].serial \notin certs
    /\ EndPayCall(c)
    /\ UNCHANGED <<payWorld, certs, throttled, payRow, acked>>

PayOpened(c) ==
    /\ AtStep(c, "verified") /\ payCall[c].kind = "open"
    /\ payRow' = [payRow EXCEPT ![payCall[c].order] = "pending"]
    /\ EndPayCall(c)
    /\ UNCHANGED <<payWorld, certs, throttled, acked>>

\* The state of a pending order, by what its trade turned out to be.
RowOfTrade(trade) ==
    CASE trade = "paid" -> "paid"
      [] trade = "other_amount" -> "paid_mismatch"
      [] OTHER -> "pending"

\* confirm_recharge_payment commits, or finds the order answered for already;
\* a trade that was not paid is acknowledged and changes nothing.
PayRecord(c) ==
    LET o == payCall[c].order IN
    /\ AtStep(c, "verified") /\ payCall[c].kind = "notify"
    /\ payRow' = [payRow EXCEPT ![o] =
                    IF @ = "pending" THEN RowOfTrade(payment[o]) ELSE @]
    /\ ~(payRow[o] = "pending" /\ payment[o] = "paid" /\ o \in byHand)
    /\ GoTo(c, "recorded")
    /\ UNCHANGED <<payWorld, certs, throttled, acked>>

\* Variant: the duplicate is acknowledged like any verified notification.
PayDuplicateAnswered(c) ==
    LET o == payCall[c].order IN
    /\ AtStep(c, "verified") /\ payCall[c].kind = "notify"
    /\ payRow[o] = "pending" /\ payment[o] = "paid" /\ o \in byHand
    /\ GoTo(c, "recorded")
    /\ UNCHANGED <<payWorld, certs, throttled, payRow, acked>>

\* The trade's reference was used before: no handler takes the error.
PayDuplicate(c) ==
    LET o == payCall[c].order IN
    /\ AtStep(c, "verified") /\ payCall[c].kind = "notify"
    /\ payRow[o] = "pending" /\ payment[o] = "paid" /\ o \in byHand
    /\ EndPayCall(c)
    /\ UNCHANGED <<payWorld, certs, throttled, payRow, acked>>

PayAnswer(c) ==
    /\ AtStep(c, "recorded")
    /\ acked' = acked \cup {payCall[c].order}
    /\ EndPayCall(c)
    /\ UNCHANGED <<payWorld, certs, throttled, payRow>>

PayCallStep(c) ==
    \/ PayLookUp(c) \/ PayRefresh(c) \/ PayDownload(c) \/ PayLookAgain(c)
    \/ PayRefuse(c) \/ PayOpened(c) \/ PayRecord(c) \/ PayDuplicate(c)
    \/ PayAnswer(c)

PayNext ==
    \/ PayStart \/ PayRotate \/ PayFiveSeconds \/ PayRestart
    \/ \E o \in PayOrders : PayPayer(o) \/ PayByHand(o)
    \/ \E c \in PayCalls :
        \/ \E o \in PayOrders : PayOpen(c, o) \/ PayNotify(c, o)
        \/ PayCallStep(c)

\* What the API does by itself: calls that are under way go on, time passes.
PayFairness ==
    /\ WF_payVars(PayFiveSeconds)
    /\ \A c \in PayCalls : WF_payVars(PayCallStep(c))

PaySpec == PayInit /\ [][PayNext]_payVars /\ PayFairness

-----------------------------------------------------------------------------
(* Properties                                                              *)

PayTypeOK ==
    /\ gateway \in {"down", "mock", "alipay", "wechat"}
    /\ certs \subseteq Serials /\ throttled \in BOOLEAN /\ serial \in Serials
    /\ payCall \in [PayCalls -> PayCallRow \cup {NoCall}]
    /\ payment \in [PayOrders -> {"none", "paid", "other_amount", "closed"}]
    /\ payRow \in [PayOrders -> {"absent", "pending", "paid", "paid_mismatch"}]
    /\ byHand \subseteq PayOrders /\ acked \subseteq PayOrders
    /\ restarts \in 0..MaxRestarts

\* The gateway stops reporting a payment once it is acknowledged, so whatever
\* is acknowledged is in the order's row, under every overlap of repeated
\* notifications, restarts and manual credits (router.py:291).
AcknowledgedIsRecorded ==
    \A o \in acked :
        CASE payment[o] = "paid" -> payRow[o] = "paid"
          [] payment[o] = "other_amount" -> payRow[o] = "paid_mismatch"
          [] OTHER -> payRow[o] = "pending"

\* What the API cannot do itself: the gateway repeats what is not acknowledged,
\* and neither every download fails nor every call about an order.
WorldPersists ==
    /\ SF_payVars(\E c \in PayCalls : PayDownload(c))
    /\ \A o \in PayOrders :
        /\ SF_payVars(\E c \in PayCalls : PayNotify(c, o))
        /\ SF_payVars(\E c \in PayCalls : PayLookUp(c) /\ payCall[c].order = o)
        /\ SF_payVars(\E c \in PayCalls : PayRecord(c) /\ payCall[c].order = o)

\* Where the gateway and the network persist, a payment reaches the order's row,
\* over restarts of the API, replaced certificates and failed downloads, unless
\* an administrator has already used its reference (gateways.py:351).
PaymentsArrive ==
    WorldPersists =>
    <>[](\A o \in PayOrders :
            payment[o] \in {"paid", "other_amount"} =>
                payRow[o] \in {"paid", "paid_mismatch"} \/ o \in byHand)
=============================================================================
