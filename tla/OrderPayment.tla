---------------------------- MODULE OrderPayment ----------------------------
(***************************************************************************)
(* The payment phase of a product order: from the moment the order exists  *)
(* until it is paid, cancelled or given up.  Five parties write the same   *)
(* rows without waiting for each other: the customer (cancel, checkout),   *)
(* the expiry cron, administrators (updateStatus), SePay (bank transfers   *)
(* and voided transactions) and the payment gateways (callback or query).  *)
(*                                                                         *)
(* A request whose database reads and writes are separated by an await is  *)
(* a job of a handler: the reading step stores what the code keeps in      *)
(* local variables, a later step acts on it.  One database transaction is  *)
(* one step: every transaction modelled here that can meet another one     *)
(* writes the order row first and holds its lock until it commits.         *)
(***************************************************************************)
EXTENDS OrderFlow, Naturals, FiniteSets

CONSTANTS
    Orders,       \* product orders (fulfillmentFlowVersion = 1)
    Coupons, NoCoupon,
    UsageLimit,   \* usage_limit of each coupon
    Links, NoLink,\* checkout links: one provider order id each
    Handlers,     \* requests the server can be working on at once
    Channels,     \* kinds of request that arrive (a bound of an instance)
    Amounts       \* transfers customers make (a bound of an instance)

ServerRows == {"PLACEHOLDER", "CONFIRMED", "VOIDED"}
NotALink   == {"NONE", "BANK", "MANUAL", "VOID"}

ASSUME ChannelsAssumption ==
    /\ Channels \subseteq {"BANK", "MANUAL", "VOID", "ADMIN", "CHECKOUT"}
    /\ Amounts \subseteq {"EXACT", "WRONG"}
ASSUME OrdersAssumption == IsFiniteSet(Orders)
ASSUME CouponAssumption == /\ NoCoupon \notin Coupons
                           /\ UsageLimit \in [Coupons -> Nat]
ASSUME LinksAssumption  == /\ NoLink \notin Links
                           /\ Links \cap (ServerRows \cup NotALink) = {}

VARIABLES
    \* columns of `orders`
    status, paymentStatus, refundStatus, checkoutUrl,
    \* `coupon_redemptions` (one per order at most) and coupons.used_count
    redemption, usedCount,
    \* `payments` of an order, its `order_events`, and the payments that have
    \* an entry in `webhook_failures`
    rows, orderEvents, failures,
    \* `webhook_events`: the success event of each link
    webhookEvent,
    \* outside the server: links at the gateway, money sent to the bank
    \* account, and orders older than UNPAID_ORDER_TTL_MS
    provider, transfer, overdue,
    \* requests in progress
    job

orderVars  == <<status, paymentStatus, refundStatus, checkoutUrl>>
couponVars == <<redemption, usedCount>>
worldVars  == <<provider, transfer, overdue>>
vars == <<orderVars, couponVars, rows, orderEvents, failures, webhookEvent,
          worldVars, job>>

-----------------------------------------------------------------------------
(* Types *)

\* The payment phase: later statuses belong to fulfilment.  "NONE": no order yet.
PhaseStatus == {"CREATED", "MEASUREMENT_REVIEW", "CANCELLED", "EXPIRED", "FAILED"}
RowIds      == ServerRows \cup Links
RowStatus   == {"NONE", "PENDING", "PAID", "FAILED", "EXPIRED", "REFUND_REQUIRED"}
Row == [link : Links \cup {NoLink}, status : RowStatus,
        txn : Links \cup NotALink, url : BOOLEAN]
NoRow == [link |-> NoLink, status |-> "NONE", txn |-> "NONE", url |-> FALSE]
Payments == Links \cup {"BANK"}

EventTypes == {"ORDER_CANCELLED", "ORDER_PAYMENT_EXPIRED", "PAYMENT_SUCCEEDED",
               "PAYMENT_CANCELLED", "PAYMENT_REFUND_REQUIRED", "STATUS_CHANGED"}

Idle == [op |-> "IDLE"]
IdleJob  == [op : {"IDLE"}]
ClaimJob == [op : {"BANK", "MANUAL", "VOID"}, order : Orders]
AdminJob == [op : {"ADMIN"}, order : Orders, to : PhaseStatus,
             collected : BOOLEAN, refundStatus : {"NONE", "REQUIRED"}]
CheckoutJob == [op : {"CHECKOUT"}, order : Orders, link : Links \cup {NoLink},
                row : RowIds, at : {"ROWS", "WRITE", "PROVIDER", "SAVE"}]
CallbackJob == [op : {"CALLBACK"}, order : Orders, link : Links, row : RowIds,
                at : {"READ", "CLAIM", "INVALID", "DUPLICATE", "REPORT", "DONE"}]
FailureJob  == [op : {"FAILURE"}, order : Orders, row : RowIds]
Job == IdleJob \cup ClaimJob \cup AdminJob \cup CheckoutJob
         \cup CallbackJob \cup FailureJob

OrderTypes ==
    /\ status \in [Orders -> PhaseStatus \cup {"NONE"}]
    /\ paymentStatus \in [Orders -> {"NONE", "PENDING", "PAID", "EXPIRED"}]
    /\ refundStatus \in [Orders -> {"NONE", "REQUIRED"}]
    /\ checkoutUrl \in [Orders -> BOOLEAN]

CouponTypes ==
    /\ redemption \in [Orders -> Coupons \cup {NoCoupon}]
    /\ usedCount \in [Coupons -> Nat]

LogTypes ==
    /\ orderEvents \in [Orders -> SUBSET EventTypes]
    /\ failures \in [Orders -> SUBSET Payments]
    /\ webhookEvent \in [Orders -> [Links ->
           {"NONE", "PROCESSING", "PROCESSED", "FAILED_RETRYABLE"}]]

WorldTypes ==
    /\ provider \in [Orders -> [Links ->
           {"NONE", "OPEN", "COLLECTED", "FAILED", "FAILURE_SEEN"}]]
    /\ transfer \in [Orders -> {"NONE", "EXACT", "WRONG"}]
    /\ overdue \in [Orders -> BOOLEAN]

RowTypes == rows \in [Orders -> [RowIds -> Row]]
JobTypes == job \in [Handlers -> Job]

(* Every variable holds a value of its column; a coupon is never counted   *)
(* below zero.                                                             *)
TypeOK ==
    /\ OrderTypes
    /\ CouponTypes
    /\ RowTypes
    /\ LogTypes
    /\ WorldTypes
    /\ JobTypes

Init ==
    /\ status = [o \in Orders |-> "NONE"]
    /\ paymentStatus = [o \in Orders |-> "NONE"]
    /\ refundStatus = [o \in Orders |-> "NONE"]
    /\ checkoutUrl = [o \in Orders |-> FALSE]
    /\ redemption = [o \in Orders |-> NoCoupon]
    /\ usedCount = [c \in Coupons |-> 0]
    /\ rows = [o \in Orders |-> [r \in RowIds |-> NoRow]]
    /\ orderEvents = [o \in Orders |-> {}]
    /\ failures = [o \in Orders |-> {}]
    /\ webhookEvent = [o \in Orders |-> [l \in Links |-> "NONE"]]
    /\ provider = [o \in Orders |-> [l \in Links |-> "NONE"]]
    /\ transfer = [o \in Orders |-> "NONE"]
    /\ overdue = [o \in Orders |-> FALSE]
    /\ job = [h \in Handlers |-> Idle]

-----------------------------------------------------------------------------
(* Pieces the handlers share *)

(* Mutated form: the condition names statuses only, the one after payment   *)
(* included.                                                                *)
UnpaidByStatus(o) == status[o] \in {"CREATED", "MEASUREMENT_REVIEW"}

(* The condition inside processOrderSuccess, cancel and expireUnpaidOrders: *)
(* the UPDATE itself asks that nobody has paid or closed the order.         *)
Unpaid(o) == status[o] = "CREATED" /\ paymentStatus[o] = "PENDING"

\* A waiting row no gateway link was attached to: the placeholder of `create`.
OpenUnlinkedRow(row) == row.status = "PENDING" /\ row.link = NoLink /\ row.txn = "NONE"

\* A payment row nothing has been collected on.
OpenRow(row) == row.status = "PENDING" /\ row.txn = "NONE"

\* One row is written, by its id.
SetRow(o, r, row) == rows' = [rows EXCEPT ![o] = [@ EXCEPT ![r] = row]]

\* The row as it is now, with another status, or with another money as well.
WithStatus(row, s)  == [row EXCEPT !.status = s]
Settled(row, s, money) == [row EXCEPT !.status = s, !.txn = money]

\* A row that still waits becomes FAILED.
FailIfWaiting(o, r) ==
    IF rows[o][r].status = "PENDING"
    THEN SetRow(o, r, WithStatus(rows[o][r], "FAILED"))
    ELSE UNCHANGED rows

\* Every such row of the order is expired with the order.
ExpireOpenRows(o) ==
    [r \in RowIds |-> IF OpenRow(rows[o][r])
                      THEN WithStatus(rows[o][r], "EXPIRED")
                      ELSE rows[o][r]]

(* Mutated form: the use goes back although the redemption stays.           *)
KeepRedemption(o) ==
    /\ redemption' = redemption
    /\ usedCount' = IF redemption[o] = NoCoupon THEN usedCount
                    ELSE [usedCount EXCEPT ![redemption[o]] =
                              IF @ > 0 THEN @ - 1 ELSE 0]

(* releaseOrderCouponRedemption: delete the redemption, give the use back. *)
ReleaseCoupon(o) ==
    /\ redemption' = [redemption EXCEPT ![o] = NoCoupon]
    /\ usedCount' = IF redemption[o] = NoCoupon THEN usedCount
                    ELSE [usedCount EXCEPT ![redemption[o]] =
                              IF @ > 0 THEN @ - 1 ELSE 0]

Note(o, event) == orderEvents' = [orderEvents EXCEPT ![o] = @ \cup {event}]
RecordFailure(o, money) == failures' = [failures EXCEPT ![o] = @ \cup {money}]

Start(h, j)  == job[h] = Idle /\ job' = [job EXCEPT ![h] = j]
Finish(h)    == job' = [job EXCEPT ![h] = Idle]
GoTo(h, at)  == job' = [job EXCEPT ![h].at = at]

-----------------------------------------------------------------------------
(* The customer places, pays and cancels; the clock and the cron *)

(* Mutated form: the usage limit is looked at only before the transaction. *)
CouponFreeUnchecked(c) == TRUE

\* The WHERE of the UPDATE that claims a use of the coupon.
CouponFree(c) == usedCount[c] < UsageLimit[c]

(* create: the order, its placeholder payment row and the coupon claim are *)
(* one transaction.                                                        *)
CreateOrder(o, c) ==
    /\ status[o] = "NONE"
    /\ status' = [status EXCEPT ![o] = "CREATED"]
    /\ paymentStatus' = [paymentStatus EXCEPT ![o] = "PENDING"]
    /\ SetRow(o, "PLACEHOLDER", [NoRow EXCEPT !.status = "PENDING"])
    /\ IF c = NoCoupon
       THEN UNCHANGED couponVars
       ELSE /\ CouponFree(c)
            /\ usedCount' = [usedCount EXCEPT ![c] = @ + 1]
            /\ redemption' = [redemption EXCEPT ![o] = c]
    /\ UNCHANGED <<refundStatus, checkoutUrl, orderEvents, failures,
                   webhookEvent, worldVars, job>>

CloseUnpaid(o, newPaymentStatus, event) ==
    /\ status' = [status EXCEPT ![o] = "CANCELLED"]
    /\ paymentStatus' = [paymentStatus EXCEPT ![o] = newPaymentStatus]
    /\ checkoutUrl' = [checkoutUrl EXCEPT ![o] = FALSE]
    /\ rows' = [rows EXCEPT ![o] = ExpireOpenRows(o)]
    /\ ReleaseCoupon(o)
    /\ Note(o, event)
    /\ UNCHANGED <<refundStatus, failures, webhookEvent, worldVars, job>>

(* Mutated form: orders that are paid already can be cancelled as well.     *)
CancelAnyPlaced(o) ==
    status[o] \in {"CREATED", "MEASUREMENT_REVIEW"}
      /\ CloseUnpaid(o, paymentStatus[o], "ORDER_CANCELLED")

(* Mutated form: the status of the order is copied to paymentStatus.        *)
CancelBothColumns(o) == Unpaid(o) /\ CloseUnpaid(o, "CANCELLED", "ORDER_CANCELLED")

(* cancel: the owner cancels; paymentStatus keeps its value. *)
Cancel(o) == Unpaid(o) /\ CloseUnpaid(o, paymentStatus[o], "ORDER_CANCELLED")

(* Mutated form: the cron forgets orders whose checkout link is open. *)
ExpireWithoutLink(o) ==
    /\ overdue[o] /\ Unpaid(o) /\ ~checkoutUrl[o]
    /\ CloseUnpaid(o, "EXPIRED", "ORDER_PAYMENT_EXPIRED")

(* expireUnpaidOrders, for one of the overdue orders of its batch. *)
ExpireUnpaid(o) ==
    /\ overdue[o] /\ Unpaid(o)
    /\ CloseUnpaid(o, "EXPIRED", "ORDER_PAYMENT_EXPIRED")

\* createdAt falls behind now - UNPAID_ORDER_TTL_MS.
GetOverdue(o) ==
    /\ Unpaid(o) /\ ~overdue[o]
    /\ overdue' = [overdue EXCEPT ![o] = TRUE]
    /\ UNCHANGED <<orderVars, couponVars, rows, orderEvents, failures,
                   webhookEvent, provider, transfer, job>>

\* The customer transfers money to the account; nothing stops a transfer
\* for a closed order or of another amount.
Transfer(o, amount) ==
    /\ status[o] # "NONE" /\ transfer[o] = "NONE"
    /\ transfer' = [transfer EXCEPT ![o] = amount]
    /\ UNCHANGED <<orderVars, couponVars, rows, orderEvents, failures,
                   webhookEvent, provider, overdue, job>>

-----------------------------------------------------------------------------
(* Money confirmed by SePay or by an administrator: processOrderSuccess *)

\* Mark the order paid; common to every channel.
MarkPaid(o) ==
    /\ status' = [status EXCEPT ![o] = "MEASUREMENT_REVIEW"]
    /\ paymentStatus' = [paymentStatus EXCEPT ![o] = "PAID"]
    /\ checkoutUrl' = [checkoutUrl EXCEPT ![o] = FALSE]
    /\ Note(o, "PAYMENT_SUCCEEDED")

(* The row a bank payment is written to: the placeholder while it waits and *)
(* was not handed to a gateway, otherwise a new row.                        *)
BankRow(o) ==
    IF OpenUnlinkedRow(rows[o]["PLACEHOLDER"]) THEN "PLACEHOLDER" ELSE "CONFIRMED"

(* IPN ("ORDER_PAID"), bank webhook and confirmManualPayment name the order *)
(* they are about.  Both SePay notifications carry the same transfer and    *)
(* may be delivered any number of times.                                    *)
Notified(o) == status[o] # "NONE" /\ transfer[o] # "NONE"

\* processOrderSuccess compares the amount, reads the order and decides.
BankRead(h, o, op) ==
    /\ job[h] = Idle /\ Notified(o)
    /\ \/ /\ op = "BANK" /\ transfer[o] = "WRONG"
          /\ RecordFailure(o, "BANK")
          /\ UNCHANGED job
       \/ /\ op = "MANUAL" \/ transfer[o] = "EXACT"
          /\ paymentStatus[o] = "PAID"
          /\ UNCHANGED <<failures, job>>
       \/ /\ op = "MANUAL" \/ transfer[o] = "EXACT"
          /\ paymentStatus[o] # "PAID" /\ ~Unpaid(o)
          /\ IF op = "BANK" THEN RecordFailure(o, "BANK")
                            ELSE UNCHANGED failures
          /\ UNCHANGED job
       \/ /\ op = "MANUAL" \/ transfer[o] = "EXACT"
          /\ Unpaid(o)
          /\ Start(h, [op |-> op, order |-> o])
          /\ UNCHANGED failures
    /\ UNCHANGED <<orderVars, couponVars, rows, orderEvents, webhookEvent, worldVars>>

(* The claim transaction.  When the UPDATE matches nothing the order was    *)
(* settled by someone else and the caller is told "already processed".      *)
BankClaim(h) ==
    /\ job[h].op \in {"BANK", "MANUAL"}
    /\ LET o == job[h].order IN
       IF Unpaid(o)
       THEN /\ MarkPaid(o)
            /\ SetRow(o, BankRow(o),
                      Settled(rows[o][BankRow(o)], "PAID", job[h].op))
       ELSE UNCHANGED <<status, paymentStatus, checkoutUrl, rows, orderEvents>>
    /\ Finish(h)
    /\ UNCHANGED <<refundStatus, couponVars, failures, webhookEvent, worldVars>>

-----------------------------------------------------------------------------
(* SePay voids a transaction: markOrderCancelled *)

VoidRead(h, o) ==
    /\ Unpaid(o)
    /\ Start(h, [op |-> "VOID", order |-> o])
    /\ UNCHANGED <<orderVars, couponVars, rows, orderEvents, failures,
                   webhookEvent, worldVars>>

(* The transaction updates the order by id: it does not look again at the  *)
(* status read before.  A second delivery of the void hits the unique key  *)
(* of its event and rolls back (one voided transaction per order).         *)
VoidWrite(h) ==
    /\ job[h].op = "VOID"
    /\ LET o == job[h].order
           row == IF OpenUnlinkedRow(rows[o]["PLACEHOLDER"])
                  THEN "PLACEHOLDER" ELSE "VOIDED"
       IN IF "PAYMENT_CANCELLED" \in orderEvents[o]
          THEN UNCHANGED <<status, rows, orderEvents, couponVars>>
          ELSE /\ status' = [status EXCEPT ![o] = "CANCELLED"]
               /\ SetRow(o, row, Settled(rows[o][row], "EXPIRED", "VOID"))
               /\ Note(o, "PAYMENT_CANCELLED")
               /\ ReleaseCoupon(o)
    /\ Finish(h)
    /\ UNCHANGED <<paymentStatus, refundStatus, checkoutUrl, failures,
                   webhookEvent, worldVars>>

-----------------------------------------------------------------------------
(* An administrator sets a status: updateStatus *)

\* Transitions that stay inside the payment phase.
AdminTargets(s) == AllowedTargets(s) \cap PhaseStatus

AdminRead(h, o, to) ==
    /\ status[o] # "NONE" /\ to \in AdminTargets(status[o])
    /\ Start(h, [op |-> "ADMIN", order |-> o, to |-> to,
                 collected |-> paymentStatus[o] \in CollectedPaymentStatuses,
                 refundStatus |-> refundStatus[o]])
    /\ UNCHANGED <<orderVars, couponVars, rows, orderEvents, failures,
                   webhookEvent, worldVars>>

(* Mutated form: a cancelled order keeps its coupon, paid or not. *)
AdminReleaseNever(h) == FALSE

\* isUnpaidCancel, from the payment status read before the transaction.
AdminReleases(h) == job[h].to = "CANCELLED" /\ ~job[h].collected

\* needsRefundObligation, from the same earlier read.
AdminOwesRefund(h) ==
    job[h].to = "CANCELLED" /\ job[h].collected /\ job[h].refundStatus = "NONE"

AdminWrite(h) ==
    /\ job[h].op = "ADMIN"
    /\ LET o == job[h].order IN
       /\ status' = [status EXCEPT ![o] = job[h].to]
       /\ refundStatus' = IF AdminOwesRefund(h)
                          THEN [refundStatus EXCEPT ![o] = "REQUIRED"]
                          ELSE refundStatus
       /\ IF AdminReleases(h)
          THEN ReleaseCoupon(o) /\ rows' = [rows EXCEPT ![o] = ExpireOpenRows(o)]
          ELSE UNCHANGED <<couponVars, rows>>
       /\ Note(o, "STATUS_CHANGED")
    /\ Finish(h)
    /\ UNCHANGED <<paymentStatus, checkoutUrl, failures, webhookEvent, worldVars>>

-----------------------------------------------------------------------------
(* Checkout: createCheckoutLink, resolveProductOrder, createGatewayCheckoutLink *)

CheckoutRead(h, o) ==
    /\ Unpaid(o)
    /\ Start(h, [op |-> "CHECKOUT", order |-> o, link |-> NoLink,
                 row |-> "PLACEHOLDER", at |-> "ROWS"])
    /\ UNCHANGED <<orderVars, couponVars, rows, orderEvents, failures,
                   webhookEvent, worldVars>>

InCheckout(h, at) == job[h].op = "CHECKOUT" /\ job[h].at = at

\* A provider order id is random: no row and no other request has it.
FreshLink(o, l) ==
    /\ provider[o][l] = "NONE"
    /\ \A r \in RowIds : rows[o][r].link # l
    /\ \A g \in Handlers : job[g].op = "CHECKOUT" /\ job[g].order = o => job[g].link # l

(* Read the waiting rows once: reuse the placeholder if it is among them,   *)
(* otherwise the link gets a row of its own.                                *)
CheckoutRows(h, l) ==
    /\ InCheckout(h, "ROWS")
    /\ LET o == job[h].order IN
       /\ FreshLink(o, l)
       /\ job' = [job EXCEPT ![h].link = l, ![h].at = "WRITE",
                     ![h].row = IF OpenUnlinkedRow(rows[o]["PLACEHOLDER"])
                                THEN "PLACEHOLDER" ELSE l]
    /\ UNCHANGED <<orderVars, couponVars, rows, orderEvents, failures,
                   webhookEvent, worldVars>>

\* A link that can still be paid is handed out again; a waiting row whose
\* link never got an address is sent to the gateway once more.
CheckoutReuse(h, r) ==
    /\ InCheckout(h, "ROWS")
    /\ LET row == rows[job[h].order][r] IN
       /\ row.status = "PENDING" /\ row.link # NoLink
       /\ IF row.url
          THEN Finish(h)
          ELSE job' = [job EXCEPT ![h].link = row.link, ![h].row = r,
                                  ![h].at = "PROVIDER"]
    /\ UNCHANGED <<orderVars, couponVars, rows, orderEvents, failures,
                   webhookEvent, worldVars>>

\* SePay needs no row: its link is signed locally.
CheckoutSePay(h) ==
    /\ InCheckout(h, "ROWS")
    /\ GoTo(h, "SAVE")
    /\ UNCHANGED <<orderVars, couponVars, rows, orderEvents, failures,
                   webhookEvent, worldVars>>

(* The row is written by id: the placeholder gets the link whatever its     *)
(* status has become, a new row starts PENDING.                             *)
CheckoutWrite(h) ==
    /\ InCheckout(h, "WRITE")
    /\ LET o == job[h].order IN
       SetRow(o, job[h].row,
              IF job[h].row = "PLACEHOLDER"
              THEN [rows[o][job[h].row] EXCEPT !.link = job[h].link, !.url = FALSE]
              ELSE [NoRow EXCEPT !.link = job[h].link, !.status = "PENDING"])
    /\ GoTo(h, "PROVIDER")
    /\ UNCHANGED <<orderVars, couponVars, orderEvents, failures, webhookEvent,
                   worldVars>>

\* The gateway opens the link; asked again for an open one it answers the same.
CheckoutProvider(h) ==
    /\ InCheckout(h, "PROVIDER")
    /\ provider[job[h].order][job[h].link] \in {"NONE", "OPEN"}
    /\ provider' = [provider EXCEPT ![job[h].order][job[h].link] = "OPEN"]
    /\ GoTo(h, "SAVE")
    /\ UNCHANGED <<orderVars, couponVars, rows, orderEvents, failures,
                   webhookEvent, transfer, overdue>>

\* createPayment failed: only a row that still waits becomes FAILED.
CheckoutFail(h) ==
    /\ InCheckout(h, "PROVIDER")
    /\ FailIfWaiting(job[h].order, job[h].row)
    /\ Finish(h)
    /\ UNCHANGED <<orderVars, couponVars, orderEvents, failures, webhookEvent,
                   worldVars>>

\* The link is stored on the order, whatever its status has become.
CheckoutSave(h) ==
    /\ InCheckout(h, "SAVE")
    /\ checkoutUrl' = [checkoutUrl EXCEPT ![job[h].order] = TRUE]
    /\ IF job[h].link = NoLink
       THEN UNCHANGED rows
       ELSE SetRow(job[h].order, job[h].row,
                   [rows[job[h].order][job[h].row] EXCEPT !.url = TRUE])
    /\ Finish(h)
    /\ UNCHANGED <<status, paymentStatus, refundStatus, couponVars,
                   orderEvents, failures, webhookEvent, worldVars>>

-----------------------------------------------------------------------------
(* A gateway reports a link: applyGatewayPaymentResult, from a callback or  *)
(* from the query of the reconciliation cron                                *)

\* The customer pays an open link, whatever the order became, or the attempt fails.
LinkEnds(o, l, outcome) ==
    /\ provider[o][l] = "OPEN"
    /\ provider' = [provider EXCEPT ![o][l] = outcome]
    /\ UNCHANGED <<orderVars, couponVars, rows, orderEvents, failures,
                   webhookEvent, transfer, overdue, job>>

RowOf(o, l) == {r \in RowIds : rows[o][r].link = l}

(* The link has no row any more: PAYMENT_NOT_FOUND, answered 404.           *)
CallbackNotFound(o, l) ==
    /\ provider[o][l] \in {"COLLECTED", "FAILED"} /\ RowOf(o, l) = {}
    /\ RecordFailure(o, l)
    /\ UNCHANGED <<orderVars, couponVars, rows, orderEvents, webhookEvent,
                   worldVars, job>>

(* Success is reported by the gateway's callback, by the customer who asks  *)
(* for the state of the payment, and by the query of the reconcile cron.    *)
Reported(o, l) == provider[o][l] = "COLLECTED"

(* First report of the success: its event is stored before anything else.   *)
CallbackStart(h, o, l) ==
    /\ Reported(o, l) /\ webhookEvent[o][l] = "NONE"
    /\ webhookEvent' = [webhookEvent EXCEPT ![o][l] = "PROCESSING"]
    /\ \E r \in RowOf(o, l) :
          Start(h, [op |-> "CALLBACK", order |-> o, link |-> l, row |-> r,
                    at |-> "READ"])
    /\ UNCHANGED <<orderVars, couponVars, rows, orderEvents, failures, worldVars>>

(* Any later report meets the unique key of the event, in whatever state    *)
(* the event is, is answered 2xx, and changes nothing.                      *)
CallbackDuplicate(o, l) ==
    /\ Reported(o, l) /\ webhookEvent[o][l] # "NONE"
    /\ RowOf(o, l) # {}
    /\ UNCHANGED <<orderVars, couponVars, rows, orderEvents, failures,
                   webhookEvent, worldVars, job>>

InCallback(h, at) == job[h].op = "CALLBACK" /\ job[h].at = at

\* The read of processOrderSuccess and what it decides.
CallbackRead(h) ==
    /\ InCallback(h, "READ")
    /\ LET o == job[h].order IN
       \/ paymentStatus[o] = "PAID" /\ GoTo(h, "DUPLICATE") /\ UNCHANGED failures
       \/ /\ paymentStatus[o] # "PAID" /\ ~Unpaid(o)
          /\ GoTo(h, "INVALID")
          /\ RecordFailure(o, job[h].link)
       \/ Unpaid(o) /\ GoTo(h, "CLAIM") /\ UNCHANGED failures
    /\ UNCHANGED <<orderVars, couponVars, rows, orderEvents, webhookEvent,
                   worldVars>>

(* The claim transaction; the row is the one found when the report came in. *)
CallbackClaim(h) ==
    /\ InCallback(h, "CLAIM")
    /\ LET o == job[h].order IN
       IF Unpaid(o)
       THEN /\ MarkPaid(o)
            /\ SetRow(o, job[h].row,
                      Settled(rows[o][job[h].row], "PAID", job[h].link))
            /\ GoTo(h, "DONE")
       ELSE /\ GoTo(h, "DUPLICATE")
            /\ UNCHANGED <<status, paymentStatus, checkoutUrl, rows, orderEvents>>
    /\ UNCHANGED <<refundStatus, couponVars, failures, webhookEvent, worldVars>>

(* Mutated form: the row is marked whatever its status has become.          *)
CallbackRefundAnyRow(h) ==
    /\ InCallback(h, "INVALID") \/ InCallback(h, "DUPLICATE")
    /\ SetRow(job[h].order, job[h].row,
              Settled(rows[job[h].order][job[h].row], "REFUND_REQUIRED", job[h].link))
    /\ Note(job[h].order, "PAYMENT_REFUND_REQUIRED")
    /\ GoTo(h, IF job[h].at = "DUPLICATE" THEN "REPORT" ELSE "DONE")
    /\ UNCHANGED <<orderVars, couponVars, failures, webhookEvent, worldVars>>

(* markRefundRequiredIfCollected: only a row that still waits is marked.    *)
CallbackRefund(h) ==
    /\ InCallback(h, "INVALID") \/ InCallback(h, "DUPLICATE")
    /\ LET o == job[h].order
           r == job[h].row
       IN IF rows[o][r].status = "PENDING"
          THEN /\ SetRow(o, r, Settled(rows[o][r], "REFUND_REQUIRED", job[h].link))
               /\ Note(o, "PAYMENT_REFUND_REQUIRED")
          ELSE UNCHANGED <<rows, orderEvents>>
    /\ GoTo(h, IF job[h].at = "DUPLICATE" THEN "REPORT" ELSE "DONE")
    /\ UNCHANGED <<orderVars, couponVars, failures, webhookEvent, worldVars>>

(* Mutated form: nobody is told, on the grounds that the row was marked.    *)
CallbackReportNothing(h) ==
    /\ InCallback(h, "REPORT")
    /\ GoTo(h, "DONE")
    /\ UNCHANGED <<orderVars, couponVars, rows, orderEvents, failures, webhookEvent,
                   worldVars>>

\* DUPLICATE_PAYMENT is left for an administrator.
CallbackReport(h) ==
    /\ InCallback(h, "REPORT")
    /\ RecordFailure(job[h].order, job[h].link)
    /\ GoTo(h, "DONE")
    /\ UNCHANGED <<orderVars, couponVars, rows, orderEvents, webhookEvent,
                   worldVars>>

CallbackDone(h) ==
    /\ InCallback(h, "DONE")
    /\ webhookEvent' = [webhookEvent EXCEPT ![job[h].order][job[h].link] = "PROCESSED"]
    /\ Finish(h)
    /\ UNCHANGED <<orderVars, couponVars, rows, orderEvents, failures, worldVars>>

(* A failed attempt: its own event is stored once (FAILURE_SEEN), then the  *)
(* row found by the link is failed by id if it still waits.                 *)
FailureRead(h, o, l) ==
    /\ provider[o][l] = "FAILED"
    /\ provider' = [provider EXCEPT ![o][l] = "FAILURE_SEEN"]
    /\ \E r \in RowOf(o, l) :
          /\ rows[o][r].status = "PENDING"
          /\ Start(h, [op |-> "FAILURE", order |-> o, row |-> r])
    /\ UNCHANGED <<orderVars, couponVars, rows, orderEvents, failures,
                   webhookEvent, transfer, overdue>>

FailureWrite(h) ==
    /\ job[h].op = "FAILURE"
    /\ FailIfWaiting(job[h].order, job[h].row)
    /\ Finish(h)
    /\ UNCHANGED <<orderVars, couponVars, orderEvents, failures, webhookEvent,
                   worldVars>>

-----------------------------------------------------------------------------
(* Faults *)

\* A statement of the callback fails: the event is FAILED_RETRYABLE, the
\* gateway gets an error and sends the callback again.
CallbackError(h) ==
    /\ job[h].op = "CALLBACK"
    /\ webhookEvent' =
           [webhookEvent EXCEPT ![job[h].order][job[h].link] = "FAILED_RETRYABLE"]
    /\ Finish(h)
    /\ UNCHANGED <<orderVars, couponVars, rows, orderEvents, failures, worldVars>>

\* The instance that runs the request stops.
Crash(h) ==
    /\ job[h] # Idle
    /\ Finish(h)
    /\ UNCHANGED <<orderVars, couponVars, rows, orderEvents, failures,
                   webhookEvent, worldVars>>

-----------------------------------------------------------------------------
Arrive(h) ==
    \E o \in Orders :
       \/ \E op \in {"BANK", "MANUAL"} \cap Channels : BankRead(h, o, op)
       \/ "VOID" \in Channels /\ VoidRead(h, o)
       \/ "ADMIN" \in Channels /\ \E to \in PhaseStatus : AdminRead(h, o, to)
       \/ "CHECKOUT" \in Channels /\ CheckoutRead(h, o)
       \/ \E l \in Links : CallbackStart(h, o, l) \/ FailureRead(h, o, l)

Continue(h) ==
    \/ BankClaim(h) \/ VoidWrite(h) \/ AdminWrite(h)
    \/ \E l \in Links : CheckoutRows(h, l)
    \/ \E r \in RowIds : CheckoutReuse(h, r)
    \/ CheckoutSePay(h) \/ CheckoutWrite(h) \/ CheckoutProvider(h)
    \/ CheckoutFail(h) \/ CheckoutSave(h)
    \/ CallbackRead(h) \/ CallbackClaim(h) \/ CallbackRefund(h)
    \/ CallbackReport(h) \/ CallbackDone(h)
    \/ FailureWrite(h)

Instant(o) ==
    \/ \E c \in Coupons \cup {NoCoupon} : CreateOrder(o, c)
    \/ Cancel(o) \/ ExpireUnpaid(o) \/ GetOverdue(o)
    \/ \E amount \in Amounts : Transfer(o, amount)
    \/ \E l \in Links :
          \/ \E outcome \in {"COLLECTED", "FAILED"} : LinkEnds(o, l, outcome)
          \/ CallbackNotFound(o, l) \/ CallbackDuplicate(o, l)

Next ==
    \/ \E h \in Handlers : Arrive(h) \/ Continue(h) \/ CallbackError(h) \/ Crash(h)
    \/ \E o \in Orders : Instant(o)

Spec == Init /\ [][Next]_vars

(* A request that was accepted goes on, the expiry cron runs again and      *)
(* again, and a gateway repeats a report until it gets an answer (or the    *)
(* reconciliation cron asks for it).  Nothing obliges customers, SePay or   *)
(* administrators to do anything.  A report may find every handler busy     *)
(* again and again, so its acceptance needs strong fairness.                *)
Fairness ==
    /\ \A h \in Handlers : WF_vars(Continue(h))
    /\ \A o \in Orders : WF_vars(ExpireUnpaid(o))
    /\ \A o \in Orders, l \in Links :
          /\ SF_vars(\E h \in Handlers : CallbackStart(h, o, l))
          /\ WF_vars(CallbackNotFound(o, l) \/ CallbackDuplicate(o, l))

FairSpec == Spec /\ Fairness

-----------------------------------------------------------------------------
(* What must never happen *)

Holders(c) == {o \in Orders : redemption[o] = c}

(* used_count is the number of orders that hold the coupon and never passes *)
(* usage_limit, whoever claims and releases uses at the same time.          *)
CouponAccounting ==
    \A c \in Coupons :
       /\ usedCount[c] = Cardinality(Holders(c))
       /\ usedCount[c] <= UsageLimit[c]

PaidRows(o) == {r \in RowIds : rows[o][r].status = "PAID"}

(* The money a payment row is marked PAID with really arrived.              *)
Arrived(o, money) ==
    CASE money \in Links    -> provider[o][money] = "COLLECTED"
      [] money = "BANK"     -> transfer[o] = "EXACT"
      [] money = "MANUAL"   -> transfer[o] # "NONE"
      [] OTHER              -> FALSE

(* An order counts as paid exactly when one of its payment rows is PAID: no *)
(* race of IPN, bank webhook, callback, query and manual confirmation pays  *)
(* it twice, and money that arrived is behind that row.                     *)
PaidOnce ==
    \A o \in Orders :
       /\ paymentStatus[o] = "PAID" <=> PaidRows(o) # {}
       /\ \A r, q \in PaidRows(o) : r = q
       /\ \A r \in PaidRows(o) : Arrived(o, rows[o][r].txn)

(* Of "paid", "cancelled by the customer" and "expired by the cron" at most *)
(* one ever happens to an order: the three conditional UPDATEs exclude each *)
(* other.                                                                   *)
OneOutcome ==
    \A o \in Orders :
       Cardinality(orderEvents[o] \cap
          {"PAYMENT_SUCCEEDED", "ORDER_CANCELLED", "ORDER_PAYMENT_EXPIRED"}) <= 1

(* A cancelled order nobody paid holds no coupon, whichever of the customer,*)
(* the cron, SePay and an administrator cancelled it.                       *)
ReleasedIfUnpaid ==
    \A o \in Orders :
       status[o] = "CANCELLED" /\ paymentStatus[o] # "PAID"
           => redemption[o] = NoCoupon

(* A row that records collected money (PAID, or owed back to the customer)  *)
(* is never written over: not by a checkout that relinks the placeholder, a *)
(* void, an expiry or the report of another link.                           *)
RecordedMoneyStays ==
    [][\A o \in Orders, r \in RowIds :
          rows[o][r].status \in {"PAID", "REFUND_REQUIRED"} =>
             /\ rows'[o][r].status = rows[o][r].status
             /\ rows'[o][r].txn = rows[o][r].txn]_vars

Pool == INSTANCE CouponPool WITH
            placed <- {o \in Orders : status[o] # "NONE"}, held <- redemption

(* The counter in the coupon row, the redemption rows and the conditional   *)
(* updates together behave as the pool of CouponPool.                       *)
ImplementsCouponPool == Pool!PoolSpec

-----------------------------------------------------------------------------
(* What must eventually happen *)

(* An overdue order nobody paid gives its coupon back, however long         *)
(* checkouts, callbacks and administrators keep working on it; only an      *)
(* administrator can take it out of the cron's reach.                       *)
AbandonedCouponReturns ==
    \A o \in Orders :
       (overdue[o] /\ status[o] = "CREATED") ~>
          \/ redemption[o] = NoCoupon
          \/ paymentStatus[o] = "PAID"
          \/ "STATUS_CHANGED" \in orderEvents[o]

OnRecord(o, l) ==
    \E r \in RowIds : /\ rows[o][r].txn = l
                     /\ rows[o][r].status \in {"PAID", "REFUND_REQUIRED"}

(* Processing of the report of a link began and will not go on.             *)
Interrupted(o, l) ==
    /\ webhookEvent[o][l] \in {"PROCESSING", "FAILED_RETRYABLE"}
    /\ \A h \in Handlers : job[h].op = "CALLBACK" => job[h].link # l

(* Money a gateway collected ends on the order, on a row that is owed back, *)
(* or in front of an administrator, whatever the order became meanwhile and *)
(* however often its row was relinked: only an error or a stop in the       *)
(* middle of the callback can lose it.                                      *)
CollectedMoneyOnRecord ==
    \A o \in Orders, l \in Links :
       provider[o][l] = "COLLECTED" ~>
          OnRecord(o, l) \/ l \in failures[o] \/ Interrupted(o, l)

=============================================================================
