------------------------------ MODULE Refunds ------------------------------
(***************************************************************************)
(* Refunds of one paid order.  Money goes back to the customer along two   *)
(* roads that know of each other only through the tables: a transfer by    *)
(* hand recorded with updateRefund (rows of provider MANUAL), and a refund *)
(* asked of the payment gateway, whose outcome comes from the answer, from *)
(* the reconcile cron or from an administrator.  Reviewing an order issue  *)
(* drives the first road and undoes its own writes when a call fails.      *)
(*                                                                         *)
(* Besides the order's own payment (Main) there may be payments that were  *)
(* collected but could not be credited to the order: PAYMENT_ONLY rows.    *)
(*                                                                         *)
(* A transaction is two steps: the one that locks its refund row and reads *)
(* the sums, and the one that commits; its writes are invisible between.   *)
(***************************************************************************)
EXTENDS OrderFlow, Naturals, Sequences, FiniteSets, FiniteSetsExt

CONSTANTS
    Administrators, Crons,
    Main, Extras,          \* the order's payment, and PAYMENT_ONLY payments
    Defects, Complaints, NoIssue,  \* issues: defective items, REFUND_NOT_RECEIVED
    Price, ItemPrice, ShippingFee, \* collected; share of one item; of shipping
    Targets,               \* statuses administrators send to updateRefund
    MaxRefunds, MaxErrors  \* bounds of an instance

ASSUME RefundsAssumption ==
    /\ Main \notin Extras \cup {"MANUAL"}
    /\ "MANUAL" \notin Extras
    /\ Administrators \cap Crons = {}
    /\ IsFiniteSet(Administrators) /\ IsFiniteSet(Crons)
    /\ Defects \cap Complaints = {}
    /\ NoIssue \notin Defects \cup Complaints
    /\ Targets \subseteq {"REQUIRED", "PROCESSING", "COMPLETED", "FAILED", "CANCELLED"}
    /\ {Price, ItemPrice, ShippingFee, MaxRefunds, MaxErrors} \subseteq Nat
    /\ Price > 0 /\ ItemPrice > 0

VARIABLES
    \* columns of the order
    orderStatus, paymentStatus, refundStatus, amountRefunded,
    \* payments: provider (fixed when the row is written) and status
    gateway, row,
    \* `refunds` in the order of requestedAt, and the ids of the rows in the
    \* order in which a processedAt was written to them
    refund, completions,
    \* `order_issues`
    issue,
    \* outside the server: what the gateway did with each refund asked of it
    provider,
    \* requests in progress, and the crashes and database errors so far
    job, errors

orderVars == <<orderStatus, paymentStatus, refundStatus, amountRefunded>>
tables    == <<orderVars, gateway, row, refund, completions, issue>>
vars      == <<tables, provider, job, errors>>

-----------------------------------------------------------------------------
(* Types *)

Payments == {Main} \cup Extras
Issues   == Defects \cup Complaints
Handlers == Administrators \cup Crons
Kinds    == {"GOODS", "SHIPPING"}
Phase    == {"COMPLETED", "RETURN_REQUESTED", "RETURN_APPROVED", "RETURNING", "RETURNED"}
RefundStatus == {"REQUIRED", "PENDING", "PROCESSING", "COMPLETED", "FAILED", "CANCELLED"}
RefundedRow  == {"PAID", "PARTIALLY_REFUNDED", "REFUNDED", "REFUND_PENDING", "REFUND_REQUIRED"}
Refund == [by : Payments \cup {"MANUAL"}, kind : Kinds, amt : Nat, status : RefundStatus]

Stage == {"IDLE", "TX", "WRITE", "COMMIT",                        \* updateRefund
          "REVIEW", "REOPEN", "REOPEN_WRITE", "REOPEN_COMMIT",    \* review
          "RESEND", "GOODS", "SHIPPING", "RETURN", "NOW", "LOOP", "ROLLBACK",
          "RESERVE", "SEND", "WAIT", "UNDO", "PAID_BACK",         \* gateway
          "QUERY", "FINALIZE", "FINALIZE_COMMIT"}

\* What a request keeps in its local variables between two awaits.
NoJob == [at |-> "IDLE", then |-> "IDLE", issue |-> NoIssue, now |-> FALSE,
          left |-> {}, list |-> {}, target |-> "NONE", kind |-> "GOODS", amt |-> 0,
          rf |-> 0, p |-> Main, read |-> "PAID", byGateway |-> 0, total |-> 0,
          ofPayment |-> 0, open |-> FALSE]
Job == [at : Stage, then : Stage, issue : Issues \cup {NoIssue}, now : BOOLEAN,
        left : SUBSET Kinds, list : SUBSET (1..MaxRefunds),
        target : RefundStatus \cup {"NONE"}, kind : Kinds,
        amt : Nat, rf : 0..MaxRefunds, p : Payments, read : RefundedRow,
        byGateway : Nat, total : Nat, ofPayment : Nat, open : BOOLEAN]

TypeOK ==
    /\ orderStatus \in Phase
    /\ paymentStatus \in RefundedRow
    /\ refundStatus \in RefundStatus \cup {"NONE"}
    /\ amountRefunded \in Nat
    /\ gateway \in [Payments -> {"MOMO", "ZALOPAY"}]
    /\ row \in [Payments -> RefundedRow]
    /\ refund \in Seq(Refund) /\ Len(refund) <= MaxRefunds
    /\ completions \in Seq(1..MaxRefunds)
    /\ issue \in [Issues -> {"NONE", "PENDING", "APPROVED", "REJECTED", "RESOLVED"}]
    /\ provider \in [1..MaxRefunds -> {"NONE", "ASKED", "MOVED", "REFUSED"}]
    /\ job \in [Handlers -> Job]
    /\ errors \in 0..MaxErrors

\* A delivered order paid through a gateway, and collected payments that
\* applyGatewayPaymentResult could not credit to it.
Init ==
    /\ orderStatus = "COMPLETED"
    /\ paymentStatus = "PAID"
    /\ refundStatus = "NONE"
    /\ amountRefunded = 0
    /\ gateway \in [Payments -> {"MOMO", "ZALOPAY"}]
    /\ row = [p \in Payments |-> IF p = Main THEN "PAID" ELSE "REFUND_REQUIRED"]
    /\ refund = <<>>
    /\ completions = <<>>
    /\ issue = [i \in Issues |-> "NONE"]
    /\ provider = [r \in 1..MaxRefunds |-> "NONE"]
    /\ job = [h \in Handlers |-> NoJob]
    /\ errors = 0

-----------------------------------------------------------------------------
(* Queries on the refunds table *)

OpenRefundStatuses == {"REQUIRED", "PENDING", "PROCESSING"}
\* Mutated form: a refund that was not answered yet reserves nothing.
ReservedOnceAnswered == {"PROCESSING", "COMPLETED"}
ReservedStatuses == {"PENDING", "PROCESSING", "COMPLETED"}

\* Ids of the rows of table t for the parties S in one of the statuses.
Ids(t, S, statuses) == {r \in DOMAIN t : t[r].by \in S /\ t[r].status \in statuses}

\* The sum of the amounts of the rows ids, row by row.
Total(t, ids) ==
    LET sum[n \in 0..Len(t)] ==
            IF n = 0 THEN 0 ELSE sum[n - 1] + (IF n \in ids THEN t[n].amt ELSE 0)
    IN  sum[Len(t)]

Manual == {"MANUAL"}
Completed(t, S) == Total(t, Ids(t, S, {"COMPLETED"}))
OpenManual(t)   == Ids(t, Manual, OpenRefundStatuses)

resolveRefundPaymentStatus(refunded) ==
    IF refunded = 0 THEN "PAID"
    ELSE IF refunded >= Price THEN "REFUNDED" ELSE "PARTIALLY_REFUNDED"

\* The amount of one updateRefund: requested, else approved, else the rest.
resolveManualRefundAmount(requested, approved, remaining) ==
    IF requested > 0 THEN requested
    ELSE IF approved > 0 THEN Min({approved, remaining}) ELSE remaining

\* Rows locked by a transaction that has not committed yet.
Writing == {"COMMIT", "REOPEN_COMMIT", "PAID_BACK", "FINALIZE_COMMIT"}
Unlocked(h, r) == \A g \in Handlers \ {h} : job[g].at \in Writing => job[g].rf # r

\* `processedAt` of a row becomes now.
Processed(r) == Append(completions, r)

Set(h, j) == job' = [job EXCEPT ![h] = j]

-----------------------------------------------------------------------------
(* updateRefund: a refund by hand *)

Pays(target) == target \in {"REQUIRED", "PROCESSING", "COMPLETED"}

\* A new row of `refunds` is about to be committed.
Creating(j) == \/ j.at \in {"WRITE", "COMMIT"} /\ j.rf = 0 /\ Pays(j.target)
               \/ j.at = "RESERVE"
Room == Len(refund) + Cardinality({h \in Handlers : Creating(job[h])}) < MaxRefunds

\* The call returned: the caller goes on with what follows it.
Returned(j) == IF j.then = "IDLE" THEN NoJob
               ELSE [NoJob EXCEPT !.at = j.then, !.issue = j.issue,
                                  !.now = j.now, !.left = j.left]

\* The call threw: inside the try block of review, the review is undone.
Thrown(j) == IF j.then \in {"SHIPPING", "RETURN", "NOW"}
             THEN [NoJob EXCEPT !.at = "ROLLBACK", !.issue = j.issue]
             ELSE NoJob

\* Refunds of the order's own payment that the gateway is working on.
AtGateway == Ids(refund, {Main}, {"PENDING", "PROCESSING"})

\* The checks of updateRefund before its transaction.
StartRefund(h, j, target, kind, requested, then) ==
    LET movesMoney == target \in {"COMPLETED", "PROCESSING"}
        inTransit  == orderStatus \in {"RETURN_REQUESTED", "RETURN_APPROVED", "RETURNING"}
        refused    == \/ inTransit /\ target = "COMPLETED"
                      \/ movesMoney /\ AtGateway # {}
        call       == [j EXCEPT !.at = "TX", !.then = then, !.target = target,
                          !.kind = kind, !.amt = requested, !.read = paymentStatus,
                          !.byGateway = Completed(refund, {Main})]
    IN  Set(h, IF refused THEN Thrown(call) ELSE call)

UpdateRefund(h) ==
    /\ job[h].at = "IDLE"
    /\ \E target \in Targets, kind \in Kinds, requested \in 0..Price :
         StartRefund(h, job[h], target, kind, requested, "IDLE")
    /\ UNCHANGED <<tables, provider, errors>>

\* In the transaction: what was paid by hand so far, and the open row of this kind.
ReadRefunds(h) ==
    LET j    == job[h]
        open == {r \in OpenManual(refund) : refund[r].kind = j.kind}
        rf   == IF open = {} THEN 0 ELSE Max(open)
        done == Completed(refund, Manual) + j.byGateway
        rest == IF done < Price THEN Price - done ELSE 0
        amt  == resolveManualRefundAmount(
                    j.amt, IF rf = 0 THEN 0 ELSE refund[rf].amt, rest)
        refused == \/ Pays(j.target) /\ amt = 0
                   \/ j.target = "COMPLETED" /\ amt > rest
    IN  /\ j.at = "TX"
        /\ rf = 0 /\ Pays(j.target) /\ ~refused => Room
        /\ Set(h, IF refused THEN Thrown(j)
                  ELSE [j EXCEPT !.at = "WRITE", !.rf = rf,
                                 !.amt = IF Pays(j.target) THEN amt ELSE 0])
        /\ UNCHANGED <<tables, provider, errors>>

\* The refunds table as this transaction sees it after its own write.
WithWrite(j) ==
    IF j.rf # 0
    THEN [refund EXCEPT ![j.rf] = [@ EXCEPT !.status = j.target,
              !.amt = IF Pays(j.target) THEN j.amt ELSE refund[j.rf].amt]]
    ELSE IF Pays(j.target)
         THEN Append(refund, [by |-> "MANUAL", kind |-> j.kind,
                              amt |-> j.amt, status |-> j.target])
         ELSE refund

WriteRefund(h) ==
    LET j == job[h] IN
    /\ j.at = "WRITE"
    /\ j.rf # 0 => Unlocked(h, j.rf)
    /\ Set(h, [j EXCEPT !.at = "COMMIT",
                        !.total = Completed(WithWrite(j), Manual) + j.byGateway,
                        !.open  = OpenManual(WithWrite(j)) # {}])
    /\ UNCHANGED <<tables, provider, errors>>

Closes(target) == target \in {"COMPLETED", "FAILED", "CANCELLED"}

OrderRefundStatus(j) ==
    IF Closes(j.target) /\ j.open THEN "REQUIRED"
    ELSE IF j.target = "CANCELLED" /\ j.total > 0 THEN "COMPLETED" ELSE j.target

\* Mutated form: the other kind of refund is forgotten.
ResolvesIssuesAnyway(j) == Closes(j.target) /\ j.target # "FAILED"
ResolvesIssues(j) == Closes(j.target) /\ ~j.open /\ j.target # "FAILED"

PaymentStatusAfter(j) ==
    IF j.target = "PROCESSING" THEN "REFUND_PENDING"
    ELSE IF Closes(j.target) THEN resolveRefundPaymentStatus(j.total) ELSE j.read

\* Every collected payment of the order takes the order's payment status.
CommitRefund(h) ==
    LET j == job[h] IN
    /\ j.at = "COMMIT"
    /\ refund' = WithWrite(j)
    /\ refundStatus' = OrderRefundStatus(j)
    /\ paymentStatus' = PaymentStatusAfter(j)
    /\ row' = [p \in Payments |-> PaymentStatusAfter(j)]
    /\ amountRefunded' = IF j.target \in {"COMPLETED", "FAILED"} THEN j.total ELSE amountRefunded
    /\ issue' = [i \in Issues |-> IF ResolvesIssues(j) /\ issue[i] = "APPROVED"
                                  THEN "RESOLVED" ELSE issue[i]]
    /\ completions' = IF j.target # "COMPLETED" THEN completions
                      ELSE Processed(IF j.rf = 0 THEN Len(refund) + 1 ELSE j.rf)
    /\ Set(h, Returned(j))
    /\ UNCHANGED <<orderStatus, gateway, provider, errors>>

\* The database refuses a statement: the transaction has no effect.
DatabaseError(h) ==
    /\ job[h].at \in {"TX", "WRITE", "COMMIT", "REOPEN_WRITE", "REOPEN_COMMIT"}
    /\ errors < MaxErrors
    /\ errors' = errors + 1
    /\ Set(h, Thrown(job[h]))
    /\ UNCHANGED <<tables, provider>>

-----------------------------------------------------------------------------
(* Order issues: create, review, reopenRefundNotReceived *)

Active == {"PENDING", "APPROVED"}

\* A defective item is reported; the order waits for the goods to come back.
ReportDefect(i) ==
    /\ issue[i] = "NONE"
    /\ orderStatus \in {"COMPLETED", "RETURN_REQUESTED", "RETURN_APPROVED", "RETURNING"}
    /\ issue' = [issue EXCEPT ![i] = "PENDING"]
    /\ orderStatus' = IF orderStatus = "COMPLETED" THEN "RETURN_REQUESTED" ELSE orderStatus
    /\ UNCHANGED <<paymentStatus, refundStatus, amountRefunded, gateway, row,
                   refund, completions, provider, job, errors>>

\* "I did not receive the refund": for an item without an active issue.
ReportNotReceived(i) ==
    /\ issue[i] = "NONE"
    /\ refundStatus = "COMPLETED"
    /\ \E r \in DOMAIN refund : refund[r].status = "COMPLETED"
    /\ \A k \in Complaints : issue[k] # "PENDING"
    /\ Cardinality({k \in Issues : issue[k] \in Active}) < Cardinality(Defects)
    /\ issue' = [issue EXCEPT ![i] = "PENDING"]
    /\ UNCHANGED <<orderVars, gateway, row, refund, completions, provider, job, errors>>

ReviewRead(h, i) ==
    /\ job[h].at = "IDLE"
    /\ issue[i] = "PENDING"
    /\ \E now \in BOOLEAN :
         Set(h, [NoJob EXCEPT !.at = "REVIEW", !.issue = i, !.now = now])
    /\ UNCHANGED <<tables, provider, errors>>

ReviewReject(h) ==
    /\ job[h].at = "REVIEW"
    /\ issue' = [issue EXCEPT ![job[h].issue] = "REJECTED"]
    /\ Set(h, NoJob)
    /\ UNCHANGED <<orderVars, gateway, row, refund, completions, provider, errors>>

ReviewApprove(h) ==
    /\ job[h].at = "REVIEW"
    /\ issue' = [issue EXCEPT ![job[h].issue] = "APPROVED"]
    /\ Set(h, [job[h] EXCEPT !.at = IF job[h].issue \in Complaints THEN "REOPEN" ELSE "GOODS"])
    /\ UNCHANGED <<orderVars, gateway, row, refund, completions, provider, errors>>

\* approvedGoodsRefundVnd: the item is added to the goods refund that is open.
approvedGoodsRefundVnd ==
    LET goods == {r \in OpenManual(refund) : refund[r].kind = "GOODS"}
    IN  ItemPrice + (IF goods = {} THEN 0 ELSE refund[Max(goods)].amt)

ReviewGoods(h) ==
    /\ job[h].at = "GOODS"
    /\ StartRefund(h, job[h], "REQUIRED", "GOODS", approvedGoodsRefundVnd, "SHIPPING")
    /\ UNCHANGED <<tables, provider, errors>>

HasShippingRefund ==
    \E r \in DOMAIN refund : /\ refund[r].kind = "SHIPPING"
                             /\ refund[r].status \in OpenRefundStatuses \cup {"COMPLETED"}

ReviewShipping(h) ==
    /\ job[h].at = "SHIPPING"
    /\ \/ /\ ShippingFee > 0 /\ ~HasShippingRefund
          /\ StartRefund(h, job[h], "REQUIRED", "SHIPPING", ShippingFee, "RETURN")
       \/ Set(h, [job[h] EXCEPT !.at = "RETURN"])
    /\ UNCHANGED <<tables, provider, errors>>

\* updateStatus, within the return of a delivered order.
MoveOrder(to) ==
    /\ orderStatus' = to
    /\ refundStatus' = IF /\ to = "RETURNED" /\ refundStatus = "NONE"
                          /\ paymentStatus \in CollectedPaymentStatuses
                       THEN "REQUIRED" ELSE refundStatus

ReceiveGoods ==
    /\ \E to \in {"RETURN_APPROVED", "RETURNING", "RETURNED"} \cap AllowedTargets(orderStatus) :
         MoveOrder(to)
    /\ UNCHANGED <<paymentStatus, amountRefunded, gateway, row, refund,
                   completions, issue, provider, job, errors>>

ReviewReturn(h) ==
    LET to == IF job[h].now THEN "RETURNED" ELSE "RETURN_APPROVED" IN
    /\ job[h].at = "RETURN"
    /\ IF to \in AllowedTargets(orderStatus) THEN MoveOrder(to)
       ELSE UNCHANGED <<orderStatus, refundStatus>>
    /\ Set(h, [job[h] EXCEPT !.at = "NOW"])
    /\ UNCHANGED <<paymentStatus, amountRefunded, gateway, row, refund,
                   completions, issue, provider, errors>>

\* completeOpenRefunds, when the shop has already transferred the money.
ReviewNow(h) ==
    LET j == job[h] IN
    /\ j.at = "NOW"
    /\ Set(h, IF j.now THEN [j EXCEPT !.at = "LOOP",
                                !.left = {refund[r].kind : r \in OpenManual(refund)}]
              ELSE NoJob)
    /\ UNCHANGED <<tables, provider, errors>>

CompleteOpenRefunds(h) ==
    LET j    == job[h]
        kind == IF "GOODS" \in j.left THEN "GOODS" ELSE "SHIPPING"
    IN  /\ j.at = "LOOP"
        /\ IF j.left = {} THEN Set(h, NoJob)
           ELSE StartRefund(h, [j EXCEPT !.left = @ \ {kind}], "COMPLETED", kind, 0, "LOOP")
        /\ UNCHANGED <<tables, provider, errors>>

ReviewRollback(h) ==
    /\ job[h].at = "ROLLBACK"
    /\ issue' = [issue EXCEPT ![job[h].issue] = "PENDING"]
    /\ Set(h, NoJob)
    /\ UNCHANGED <<orderVars, gateway, row, refund, completions, provider, errors>>

\* The refund completed last, if it was made by hand, is declared failed ...
ReopenRead(h) ==
    LET done == {k \in DOMAIN completions : refund[completions[k]].status = "COMPLETED"}
        last == completions[Max(done)]
        call == [job[h] EXCEPT !.then = "NOW"]
    IN  /\ job[h].at = "REOPEN"
        /\ Set(h, IF done = {} \/ refund[last].by # "MANUAL" THEN Thrown(call)
                  ELSE [call EXCEPT !.at = "REOPEN_WRITE", !.rf = last])
        /\ UNCHANGED <<tables, provider, errors>>

Reopened(r) == [refund EXCEPT ![r].status = "FAILED"]

ReopenWrite(h) ==
    LET j     == job[h]
        total == Completed(Reopened(j.rf), Manual)
    IN  /\ j.at = "REOPEN_WRITE"
        /\ Unlocked(h, j.rf)
        /\ Set(h, IF total >= Price THEN Thrown(j)
                  ELSE [j EXCEPT !.at = "REOPEN_COMMIT", !.total = total])
        /\ UNCHANGED <<tables, provider, errors>>

\* Mutated form: the order keeps its payment status.
ReopenCommitRefunded(h) ==
    LET j == job[h] IN
    /\ j.at = "REOPEN_COMMIT"
    /\ refund' = Reopened(j.rf)
    /\ refundStatus' = "REQUIRED"
    /\ amountRefunded' = j.total
    /\ Set(h, [j EXCEPT !.at = "RESEND", !.total = 0])
    /\ UNCHANGED <<orderStatus, paymentStatus, gateway, row, completions, issue,
                   provider, errors>>

ReopenCommit(h) ==
    LET j == job[h] IN
    /\ j.at = "REOPEN_COMMIT"
    /\ refund' = Reopened(j.rf)
    /\ refundStatus' = "REQUIRED"
    /\ amountRefunded' = j.total
    /\ paymentStatus' = resolveRefundPaymentStatus(j.total)
    /\ Set(h, [j EXCEPT !.at = "RESEND", !.total = 0])
    /\ UNCHANGED <<orderStatus, gateway, row, completions, issue, provider, errors>>

\* ... and is owed again: same kind, same amount.
ReviewResend(h) ==
    LET j == job[h] IN
    /\ j.at = "RESEND"
    /\ StartRefund(h, [j EXCEPT !.rf = 0], "REQUIRED", refund[j.rf].kind, refund[j.rf].amt, "NOW")
    /\ UNCHANGED <<tables, provider, errors>>

-----------------------------------------------------------------------------
(* refundGatewayPayment: a refund through the gateway *)

GatewayRead(h, p, amt) ==
    LET reserved == Total(refund, Ids(refund, {p}, ReservedStatuses)) IN
    /\ job[h].at = "IDLE"
    /\ row[p] \in {"PAID", "REFUND_REQUIRED"}
    /\ row[p] = "PAID" => paymentStatus = "PAID"
    /\ p \in Extras => amt = Price
    /\ amt + reserved <= Price
    /\ Room
    /\ Set(h, [NoJob EXCEPT !.at = "RESERVE", !.p = p, !.amt = amt])
    /\ UNCHANGED <<tables, provider, errors>>

GatewayReserve(h) ==
    LET j == job[h] IN
    /\ j.at = "RESERVE"
    /\ refund' = Append(refund, [by |-> j.p, kind |-> "GOODS",
                                 amt |-> j.amt, status |-> "PENDING"])
    /\ IF j.p = Main
       THEN refundStatus' = "PROCESSING" /\ paymentStatus' = "REFUND_PENDING"
       ELSE UNCHANGED <<refundStatus, paymentStatus>>
    /\ Set(h, [j EXCEPT !.at = "SEND", !.rf = Len(refund) + 1])
    /\ UNCHANGED <<orderStatus, amountRefunded, gateway, row, completions,
                   issue, provider, errors>>

\* The request reaches the gateway, which decides in its own time.
GatewaySend(h) ==
    /\ job[h].at = "SEND"
    /\ provider' = [provider EXCEPT ![job[h].rf] = "ASKED"]
    /\ Set(h, [job[h] EXCEPT !.at = "WAIT"])
    /\ UNCHANGED <<tables, errors>>

Decide(r) ==
    /\ provider[r] = "ASKED"
    /\ \E outcome \in {"MOVED", "REFUSED"} : provider' = [provider EXCEPT ![r] = outcome]
    /\ UNCHANGED <<tables, job, errors>>

\* ZaloPay accepts a refund and decides later; MoMo answers at once.
Answer(r) ==
    CASE provider[r] = "REFUSED" -> "FAILED"
      [] provider[r] = "MOVED" /\ gateway[refund[r].by] = "MOMO" -> "SUCCESS"
      [] OTHER -> "PENDING"
Waiting(h, answer) == /\ job[h].at = "WAIT"
                      /\ Answer(job[h].rf) = answer
                      /\ Unlocked(h, job[h].rf)

GatewayPending(h) ==
    LET r == job[h].rf IN
    /\ Waiting(h, "PENDING") /\ gateway[job[h].p] = "ZALOPAY"
    /\ refund' = [refund EXCEPT ![r].status = "PROCESSING"]
    /\ Set(h, NoJob)
    /\ UNCHANGED <<orderVars, gateway, row, completions, issue, provider, errors>>

\* The refund fails first; the order is put back by a second statement.
GatewayRefused(h) ==
    LET j == job[h] IN
    /\ Waiting(h, "FAILED")
    /\ refund' = [refund EXCEPT ![j.rf].status = "FAILED"]
    /\ Set(h, IF j.p = Main THEN [j EXCEPT !.at = "UNDO"] ELSE NoJob)
    /\ UNCHANGED <<orderVars, gateway, row, completions, issue, provider, errors>>

\* Mutated form: the payment, not the refund, is marked as failed.
GatewayUndoPayment(h) ==
    /\ job[h].at = "UNDO"
    /\ refundStatus' = "FAILED"
    /\ paymentStatus' = "FAILED"
    /\ Set(h, NoJob)
    /\ UNCHANGED <<orderStatus, amountRefunded, gateway, row, refund,
                   completions, issue, provider, errors>>

GatewayUndo(h) ==
    /\ job[h].at = "UNDO"
    /\ refundStatus' = "FAILED"
    /\ paymentStatus' = "PAID"
    /\ Set(h, NoJob)
    /\ UNCHANGED <<orderStatus, amountRefunded, gateway, row, refund,
                   completions, issue, provider, errors>>

\* The sums a completing transaction reads after its own write: all completed
\* refunds of the order, PAYMENT_ONLY ones included, and those of the payment.
WithSums(j, outcome) ==
    LET t == [refund EXCEPT ![j.rf].status = outcome] IN
    [j EXCEPT !.total = Completed(t, Payments \cup Manual),
              !.ofPayment = Completed(t, {refund[j.rf].by})]

\* The order and the payment after the refund of j succeeded.
PaidBack(j) ==
    LET p == refund[j.rf].by IN
    /\ refund' = [refund EXCEPT ![j.rf].status = "COMPLETED"]
    /\ completions' = Processed(j.rf)
    /\ IF p = Main
       THEN /\ amountRefunded' = j.total
            /\ refundStatus' = "COMPLETED"
            /\ paymentStatus' = resolveRefundPaymentStatus(j.total)
       ELSE UNCHANGED <<amountRefunded, refundStatus, paymentStatus>>
    /\ row' = [row EXCEPT ![p] = IF p \in Extras \/ j.ofPayment >= Price
                                 THEN "REFUNDED" ELSE "PARTIALLY_REFUNDED"]

GatewaySucceeds(h) ==
    /\ Waiting(h, "SUCCESS")
    /\ Set(h, [WithSums(job[h], "COMPLETED") EXCEPT !.at = "PAID_BACK"])
    /\ UNCHANGED <<tables, provider, errors>>

GatewayPaidBack(h) ==
    /\ job[h].at = "PAID_BACK"
    /\ PaidBack(job[h])
    /\ Set(h, NoJob)
    /\ UNCHANGED <<orderStatus, gateway, issue, provider, errors>>

\* Mutated form: no answer is taken for a refusal.
GatewayErrorFails(h) ==
    LET r == job[h].rf IN
    /\ job[h].at \in {"SEND", "WAIT", "UNDO", "PAID_BACK"}
    /\ Unlocked(h, r)
    /\ refund' = [refund EXCEPT ![r].status = "FAILED"]
    /\ Set(h, NoJob)
    /\ UNCHANGED <<orderVars, gateway, row, completions, issue, provider, errors>>

\* Whatever fails after the row exists: the outcome is unknown.
GatewayError(h) ==
    LET r == job[h].rf IN
    /\ job[h].at \in {"SEND", "WAIT", "UNDO", "PAID_BACK"}
    /\ Unlocked(h, r)
    /\ refund' = [refund EXCEPT ![r].status = "PROCESSING"]
    /\ Set(h, NoJob)
    /\ UNCHANGED <<orderVars, gateway, row, completions, issue, provider, errors>>

-----------------------------------------------------------------------------
(* finalizeGatewayRefund, from the reconcile cron or by an administrator *)

\* Mutated form: refunds not answered yet.
QueriedUnanswered == {"PENDING"}
Queried == {"PROCESSING"}

\* The refunds waiting for ZaloPay (MoMo has no query), handled one by one.
CronTake(c) ==
    LET waiting == {r \in Ids(refund, Payments, Queried) :
                        gateway[refund[r].by] = "ZALOPAY"}
    IN  /\ job[c].at = "IDLE"
        /\ waiting # {}
        /\ Set(c, [NoJob EXCEPT !.at = "QUERY", !.list = waiting])
        /\ UNCHANGED <<tables, provider, errors>>

\* The next refund of the list, if there is one.
Continue(list) == IF list = {} THEN NoJob ELSE [NoJob EXCEPT !.at = "QUERY", !.list = list]

\* What the gateway knows of a refund; one it never received is unknown.
Outcome(r) == CASE provider[r] = "MOVED"   -> "COMPLETED"
                [] provider[r] = "REFUSED" -> "FAILED"
                [] OTHER -> "NONE"

CronQuery(c) ==
    /\ job[c].at = "QUERY"
    /\ \E r \in job[c].list :
         LET rest == job[c].list \ {r} IN
         Set(c, IF Outcome(r) = "NONE" THEN Continue(rest)
                ELSE [NoJob EXCEPT !.at = "FINALIZE", !.rf = r,
                                   !.list = rest, !.target = Outcome(r)])
    /\ UNCHANGED <<tables, provider, errors>>

\* An administrator looks at the gateway's portal before deciding: a refund
\* that was never received and is no longer being sent has failed.
FinalizeManually(h, r) ==
    LET lost == /\ provider[r] = "NONE"
                /\ \A g \in Handlers : job[g].at = "SEND" => job[g].rf # r
    IN  /\ job[h].at = "IDLE"
        /\ refund[r].by \in Payments
        /\ refund[r].status \in {"PROCESSING", "PENDING"}
        /\ Outcome(r) # "NONE" \/ lost
        /\ Set(h, [NoJob EXCEPT !.at = "FINALIZE", !.rf = r,
                                !.target = IF lost THEN "FAILED" ELSE Outcome(r)])
        /\ UNCHANGED <<tables, provider, errors>>

Claimable == {"PENDING", "PROCESSING"}

FinalizeClaim(h) ==
    LET j == job[h] IN
    /\ j.at = "FINALIZE"
    /\ Unlocked(h, j.rf)
    /\ Set(h, IF refund[j.rf].status \in Claimable
              THEN [WithSums(j, j.target) EXCEPT !.at = "FINALIZE_COMMIT"]
              ELSE Continue(j.list))
    /\ UNCHANGED <<tables, provider, errors>>

FinalizeCompleted(h) ==
    /\ job[h].at = "FINALIZE_COMMIT" /\ job[h].target = "COMPLETED"
    /\ PaidBack(job[h])
    /\ Set(h, Continue(job[h].list))
    /\ UNCHANGED <<orderStatus, gateway, issue, provider, errors>>

FinalizeFailed(h) ==
    LET j == job[h]
        p == refund[j.rf].by
    IN  /\ j.at = "FINALIZE_COMMIT" /\ j.target = "FAILED"
        /\ refund' = [refund EXCEPT ![j.rf].status = "FAILED"]
        /\ IF p \in Extras
           THEN /\ row' = [row EXCEPT ![p] = "REFUND_REQUIRED"]
                /\ UNCHANGED <<refundStatus, paymentStatus>>
           ELSE /\ refundStatus' = "FAILED"
                /\ paymentStatus' = resolveRefundPaymentStatus(j.total)
                /\ UNCHANGED row
        /\ Set(h, Continue(j.list))
        /\ UNCHANGED <<orderStatus, amountRefunded, gateway, completions, issue,
                       provider, errors>>

\* The query or the transaction fails: the next round of the cron tries again.
FinalizeError(h) ==
    LET j == job[h] IN
    /\ j.at \in {"QUERY", "FINALIZE", "FINALIZE_COMMIT"}
    /\ errors < MaxErrors
    /\ errors' = errors + 1
    /\ \/ j.at = "QUERY" /\ \E r \in j.list : Set(h, Continue(j.list \ {r}))
       \/ j.at # "QUERY" /\ Set(h, Continue(j.list))
    /\ UNCHANGED <<tables, provider>>

\* The process stops: what was not committed is lost.
Crash ==
    /\ errors < MaxErrors
    /\ errors' = errors + 1
    /\ job' = [h \in Handlers |-> NoJob]
    /\ UNCHANGED <<tables, provider>>

-----------------------------------------------------------------------------
(* The whole *)

RefundByHand(h) == \/ UpdateRefund(h) \/ ReadRefunds(h) \/ WriteRefund(h)
                   \/ CommitRefund(h) \/ DatabaseError(h)

Review(h) == \/ \E i \in Issues : ReviewRead(h, i)
             \/ ReviewReject(h) \/ ReviewApprove(h) \/ ReviewGoods(h)
             \/ ReviewShipping(h) \/ ReviewReturn(h) \/ ReviewNow(h)
             \/ CompleteOpenRefunds(h) \/ ReviewRollback(h)
             \/ ReopenRead(h) \/ ReopenWrite(h) \/ ReopenCommit(h) \/ ReviewResend(h)

RefundByGateway(h) ==
    \/ \E p \in Payments, amt \in 1..Price : GatewayRead(h, p, amt)
    \/ GatewayReserve(h) \/ GatewaySend(h) \/ GatewayPending(h)
    \/ GatewayRefused(h) \/ GatewayUndo(h) \/ GatewaySucceeds(h)
    \/ GatewayPaidBack(h) \/ GatewayError(h)

Finalize(h) == FinalizeClaim(h) \/ FinalizeCompleted(h) \/ FinalizeFailed(h)

Reconcile(c) == CronTake(c) \/ CronQuery(c) \/ Finalize(c)

Customer == \/ \E i \in Defects : ReportDefect(i)
            \/ \E i \in Complaints : ReportNotReceived(i)

Next ==
    \/ Customer
    \/ ReceiveGoods
    \/ \E h \in Administrators :
         \/ RefundByHand(h) \/ Review(h) \/ RefundByGateway(h) \/ Finalize(h)
         \/ \E r \in DOMAIN refund : FinalizeManually(h, r)
    \/ \E c \in Crons : Reconcile(c)
    \/ \E h \in Handlers : FinalizeError(h)
    \/ \E r \in 1..MaxRefunds : Decide(r)
    \/ Crash

\* maintenance.service.ts calls the reconcile cron every minute, and a
\* transaction that holds a refund row ends.
Fairness == /\ \A c \in Crons : WF_vars(Reconcile(c))
            /\ \A h \in Administrators :
                 /\ WF_vars(GatewayPaidBack(h))
                 /\ WF_vars(CommitRefund(h))
                 /\ WF_vars(ReopenCommit(h))
                 /\ WF_vars(Finalize(h))

Spec == Init /\ [][Next]_vars /\ Fairness

-----------------------------------------------------------------------------
(* Properties *)

Moved(p)  == Total(refund, {r \in DOMAIN refund : refund[r].by = p /\ provider[r] = "MOVED"})
ByHand    == Completed(refund, Manual)

(* No payment is paid back twice: what a gateway moved for a payment, plus *)
(* for the order's own payment the transfers recorded as made by hand,     *)
(* never exceeds what was collected, although the two roads reserve money  *)
(* in different tables.                                                    *)
NeverOverRefunded == /\ Moved(Main) + ByHand <= Price
                     /\ \A p \in Extras : Moved(p) <= Price

(* An order shown as refunded was: the refunds of the order itself that     *)
(* are recorded as completed add up to what was collected, also after the  *)
(* customer denied having received one and it was declared failed.         *)
(* (For an order without PAYMENT_ONLY payments; see the README.)           *)
RefundedIsPaidBack ==
    paymentStatus = "REFUNDED" => ByHand + Completed(refund, {Main}) >= Price

(* The shop's record of a gateway refund is the gateway's: completed only  *)
(* if the money moved, failed only if it did not, whatever answers,        *)
(* errors, crashes and cron rounds lie between.                            *)
GatewayTruth ==
    \A r \in Ids(refund, Payments, {"COMPLETED", "FAILED"}) :
        (refund[r].status = "COMPLETED") <=> (provider[r] = "MOVED")

(* An approved issue is declared resolved only by a step after which no    *)
(* refund of the order waits to be transferred, goods or shipping.         *)
IssuesResolvedLast ==
    [][\A i \in Issues : issue[i] # "RESOLVED" /\ issue'[i] = "RESOLVED"
                              => OpenManual(refund') = {}]_vars

(* A refund ZaloPay has decided on does not stay in progress.              *)
Settled(r) == r \in DOMAIN refund /\ refund[r].status \in {"COMPLETED", "FAILED"}
InDoubt(r) == /\ r \in DOMAIN refund
              /\ refund[r].by \in Payments /\ gateway[refund[r].by] = "ZALOPAY"
              /\ refund[r].status = "PROCESSING"
              /\ provider[r] \in {"MOVED", "REFUSED"}
DoubtsSettled == \A r \in 1..MaxRefunds : InDoubt(r) ~> Settled(r)

=============================================================================
