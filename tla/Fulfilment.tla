----------------------------- MODULE Fulfilment -----------------------------
(***************************************************************************)
(* A paid order from the check of its measurements to its delivery.        *)
(* Administrators move the status (updateStatus) and ask the customer for  *)
(* measurements again; the carrier (GHN) is asked for a shipment and       *)
(* reports its progress by webhook; a cron asks for it when no webhook     *)
(* comes; the customer confirms the delivery or disputes it.               *)
(*                                                                         *)
(* Every request reads the order and decides, and writes in a transaction  *)
(* later: `job` holds what it read.  Webhooks are not a bag of messages:   *)
(* any event the carrier ever recorded may be delivered at any time, again *)
(* or never.                                                               *)
(***************************************************************************)
EXTENDS OrderFlow, Naturals, Sequences, FiniteSets

CONSTANTS
    Items,                  \* items of the order
    Administrators,         \* requests of administrators at one time
    Customers, Trackers,    \* requests of the customer; of the tracking page
    Webhooks, Crons,        \* deliveries of webhooks; runs of the sync cron
    Disputes,               \* ids of delivery disputes
    MaxEvents, MaxErrors    \* bounds: carrier events; crashes and failed calls

ASSUME FulfilmentAssumption ==
    /\ MaxEvents \in Nat /\ MaxErrors \in Nat
    /\ IsFiniteSet(Disputes)

VARIABLES
    status, refundStatus,   \* the order; it is PAID
    review,                 \* order_items.measurementReview.status
    dispute,                \* delivery_disputes.status
    shipment,               \* the order's row in `shipments`
    seen,                   \* keys of `webhook_events`
    history,                \* outside: the statuses the parcel had at GHN
    job, errors

orderVars == <<status, refundStatus>>
tables    == <<orderVars, review, dispute, shipment, seen>>
vars      == <<tables, history, job, errors>>

-----------------------------------------------------------------------------
(* Types *)

Handlers == Administrators \cup Customers \cup Trackers \cup Webhooks \cup Crons

Raw == {"ready_to_pick", "picked", "delivering", "delivery_fail", "delivered",
        "return", "returned", "lost", "cancel"}
ShipmentStatus ==
    {"PENDING", "READY_TO_PICK", "PICKED", "DELIVERING", "DELIVERY_FAILED",
     "DELIVERED", "RETURNING", "RETURNED", "FAILED", "CANCELLED"}
Phase == {"MEASUREMENT_REVIEW", "MEASUREMENT_CONFIRMED", "TAILORING",
          "READY_TO_SHIP", "SHIPPING", "DELIVERED", "DELIVERY_DISPUTED",
          "COMPLETED", "CANCELLED", "RETURN_REQUESTED", "RETURN_APPROVED",
          "RETURNING", "RETURNED"}

\* provider_event_at is the index of the event; 0 is null.
NoShipment == [status |-> "NONE", raw |-> "", at |-> 0, code |-> FALSE]
Shipment == [status : ShipmentStatus, raw : Raw \cup {""}, at : 0..MaxEvents,
             code : BOOLEAN]

Stage == {"IDLE", "CHECK", "STATUS", "OPEN", "SUBMIT", "ROW", "CALL", "SAVE",
          "FAIL", "RECALL", "CANCEL", "CONFIRM", "DISPUTE", "RESOLVE",
          "EVENT", "ASK", "FOUND", "TRACK"}
NoJob == [at |-> "IDLE", from |-> "CANCELLED", to |-> "CANCELLED", owes |-> FALSE,
          old |-> NoShipment, item |-> {}, dispute |-> {}, key |-> <<"", 0>>]
Key == {"WEBHOOK", "AUTO_SYNC", ""} \X (0..MaxEvents)
Job == [at : Stage, from : Phase, to : Phase, owes : BOOLEAN,
        old : Shipment \cup {NoShipment}, item : SUBSET Items,
        dispute : SUBSET Disputes, key : Key]

TypeOK ==
    /\ status \in Phase
    /\ refundStatus \in {"NONE", "REQUIRED"}
    /\ review \in [Items -> {"NONE", "OPEN", "SUBMITTED", "RESOLVED", "CLOSED"}]
    /\ dispute \in [Disputes -> {"NONE", "OPEN", "RESOLVED"}]
    /\ shipment \in Shipment \cup {NoShipment}
    /\ seen \subseteq Key
    /\ history \in Seq(Raw) /\ Len(history) <= MaxEvents
    /\ job \in [Handlers -> Job]
    /\ errors \in 0..MaxErrors

\* processOrderSuccess leaves the order here.
Init ==
    /\ status = "MEASUREMENT_REVIEW" /\ refundStatus = "NONE"
    /\ review = [i \in Items |-> "NONE"]
    /\ dispute = [d \in Disputes |-> "NONE"]
    /\ shipment = NoShipment
    /\ seen = {} /\ history = <<>>
    /\ job = [h \in Handlers |-> NoJob]
    /\ errors = 0

-----------------------------------------------------------------------------
(* Requests *)

Set(h, j)  == job' = [job EXCEPT ![h] = j]
Done(h)    == Set(h, NoJob)
Start(h, j) == job[h] = NoJob /\ Set(h, j)
At(h, stage) == job[h].at = stage

OpenDisputes == {d \in Disputes : dispute[d] = "OPEN"}
CloseDisputes(ds) == dispute' = [d \in Disputes |-> IF d \in ds THEN "RESOLVED" ELSE dispute[d]]

\* Mutated form: a returned order is refunded by nobody.
OwesOnCancel(to, none) == to = "CANCELLED" /\ none
\* The order goes back to the shop or is given up: its money is owed.
NeedsRefund(to, none) == to \in {"CANCELLED", "RETURNED"} /\ none

-----------------------------------------------------------------------------
(* updateStatus *)

StatusRead(h, to) ==
    /\ to \in AllowedTargets(status)
    /\ Start(h, [NoJob EXCEPT
         !.at = IF status = "MEASUREMENT_REVIEW" /\ to = "MEASUREMENT_CONFIRMED"
                THEN "CHECK" ELSE "STATUS",
         !.from = status, !.to = to, !.owes = refundStatus = "NONE"])
    /\ UNCHANGED <<tables, history, errors>>

\* assertNoOpenMeasurementReviews
StatusCheck(h) ==
    /\ At(h, "CHECK")
    /\ IF \E i \in Items : review[i] = "OPEN" THEN Done(h)
       ELSE Set(h, [job[h] EXCEPT !.at = "STATUS"])
    /\ UNCHANGED <<tables, history, errors>>

\* resolveSubmittedMeasurementReviews and closeMeasurementReviews
resolveSubmittedMeasurementReviews ==
    [i \in Items |-> IF review[i] = "SUBMITTED" THEN "RESOLVED" ELSE review[i]]
closeMeasurementReviews ==
    [i \in Items |-> IF review[i] \in {"OPEN", "SUBMITTED"} THEN "CLOSED" ELSE review[i]]
ReviewsAfter(from, to) ==
    CASE from = "MEASUREMENT_REVIEW" /\ to = "MEASUREMENT_CONFIRMED" ->
            resolveSubmittedMeasurementReviews
      [] from = "MEASUREMENT_REVIEW" /\ to = "CANCELLED" -> closeMeasurementReviews
      [] OTHER -> review

StatusWrite(h) ==
    LET from == job[h].from  to == job[h].to IN
    /\ At(h, "STATUS")
    /\ review' = ReviewsAfter(from, to)
    /\ IF from = "DELIVERY_DISPUTED" /\ to \in {"COMPLETED", "CANCELLED"}
       THEN CloseDisputes(OpenDisputes) ELSE UNCHANGED dispute
    /\ status' = to
    /\ refundStatus' = IF NeedsRefund(to, job[h].owes) THEN "REQUIRED" ELSE refundStatus
    /\ Done(h)
    /\ UNCHANGED <<shipment, seen, history, errors>>

-----------------------------------------------------------------------------
(* Measurements: requestMeasurementReview, reopenMeasurementReview,        *)
(* updateItemMeasurement                                                   *)

ReviewRead(h, i, statuses) ==
    /\ status = "MEASUREMENT_REVIEW" /\ review[i] \in statuses
    /\ Start(h, [NoJob EXCEPT !.at = "OPEN", !.item = {i}])
    /\ UNCHANGED <<tables, history, errors>>
RequestRead(h, i) == ReviewRead(h, i, {"NONE", "OPEN", "SUBMITTED", "RESOLVED", "CLOSED"})
ReopenRead(h, i)  == ReviewRead(h, i, {"OPEN", "SUBMITTED"})

\* The transaction keeps the order row locked: the status cannot move under it.
ReviewWrite(h) ==
    /\ At(h, "OPEN")
    /\ review' = IF status = "MEASUREMENT_REVIEW"
                 THEN [i \in Items |-> IF i \in job[h].item THEN "OPEN" ELSE review[i]]
                 ELSE review
    /\ Done(h)
    /\ UNCHANGED <<orderVars, dispute, shipment, seen, history, errors>>

\* Unknown fields, values out of range and missing fields are refused first.
SubmitRead(h, i) ==
    /\ status = "MEASUREMENT_REVIEW" /\ review[i] = "OPEN"
    /\ Start(h, [NoJob EXCEPT !.at = "SUBMIT", !.item = {i}])
    /\ UNCHANGED <<tables, history, errors>>

SubmitWrite(h) ==
    /\ At(h, "SUBMIT")
    /\ review' = [i \in Items |-> IF i \in job[h].item THEN "SUBMITTED" ELSE review[i]]
    /\ Done(h)
    /\ UNCHANGED <<orderVars, dispute, shipment, seen, history, errors>>

-----------------------------------------------------------------------------
(* The parcel at the carrier *)

Current == history[Len(history)]
PickedUp == \E k \in DOMAIN history : history[k] \notin {"ready_to_pick", "cancel"}

CarrierNext(raw) ==
    CASE raw = "ready_to_pick" -> {"picked"}
      [] raw = "picked"        -> {"delivering", "lost"}
      [] raw = "delivering"    -> {"delivered", "delivery_fail"}
      [] raw = "delivery_fail" -> {"delivering", "return"}
      [] raw = "return"        -> {"returned"}
      [] OTHER                 -> {}

CarrierMoves ==
    /\ history # <<>> /\ Len(history) < MaxEvents
    /\ \E raw \in CarrierNext(Current) : history' = Append(history, raw)
    /\ UNCHANGED <<tables, job, errors>>

-----------------------------------------------------------------------------
(* createShipment *)

Ended == {"DELIVERED", "RETURNED", "CANCELLED"}

\* An active row that has its code is returned as it is.
CreateRead(h) ==
    /\ status = "READY_TO_SHIP"
    /\ ~(shipment.status \notin Ended /\ shipment.code)
    /\ Start(h, [NoJob EXCEPT !.at = "ROW", !.old = shipment])
    /\ UNCHANGED <<tables, history, errors>>

\* Unique (order_id, attempt_number), and attempt_number is never set: an
\* order has one row for ever, and every later insert is refused.
CreateRow(h) ==
    /\ At(h, "ROW")
    /\ CASE job[h].old.status \notin Ended \cup {"NONE"} ->
                Set(h, [job[h] EXCEPT !.at = "CALL"]) /\ UNCHANGED shipment
         [] job[h].old.status \in Ended \cup {"NONE"} /\ shipment = NoShipment ->
                /\ Set(h, [job[h] EXCEPT !.at = "CALL"])
                /\ shipment' = [NoShipment EXCEPT !.status = "PENDING"]
         [] OTHER -> Done(h) /\ UNCHANGED shipment
    /\ UNCHANGED <<orderVars, review, dispute, seen, history, errors>>

\* The carrier creates the parcel once per order code.
CreateCall(h) ==
    /\ At(h, "CALL") /\ history = <<>> /\ MaxEvents > 0
    /\ history' = <<"ready_to_pick">>
    /\ Set(h, [job[h] EXCEPT !.at = "SAVE"])
    /\ UNCHANGED <<tables, errors>>

\* The call fails: before the carrier acted, or with the answer lost.
CreateError(h) ==
    /\ At(h, "CALL") /\ (errors < MaxErrors \/ history # <<>>)
    /\ errors' = IF history # <<>> THEN errors ELSE errors + 1
    /\ history' \in IF history = <<>> /\ MaxEvents > 0
                    THEN {history, <<"ready_to_pick">>} ELSE {history}
    /\ Set(h, [job[h] EXCEPT !.at = "FAIL"])
    /\ UNCHANGED tables

CreateFail(h) ==
    /\ At(h, "FAIL")
    /\ shipment' = [shipment EXCEPT !.status = "FAILED"]
    /\ Done(h)
    /\ UNCHANGED <<orderVars, review, dispute, seen, history, errors>>

CreateSave(h) ==
    /\ At(h, "SAVE")
    /\ shipment' = [shipment EXCEPT !.status = "READY_TO_PICK",
                                    !.raw = "ready_to_pick", !.code = TRUE]
    /\ Done(h)
    /\ UNCHANGED <<orderVars, review, dispute, seen, history, errors>>

-----------------------------------------------------------------------------
(* cancelShipment, of the order and of the list of shipments *)

SHIPMENT_CANCELLABLE_STATUSES == {"PENDING", "FAILED", "READY_TO_PICK"}

CancelRead(h) ==
    /\ shipment.status \in SHIPMENT_CANCELLABLE_STATUSES
    /\ Start(h, [NoJob EXCEPT !.at = IF shipment.code THEN "RECALL" ELSE "CANCEL"])
    /\ UNCHANGED <<tables, history, errors>>

\* The carrier gives a parcel back until it is picked up.
CancelCall(h) ==
    /\ At(h, "RECALL")
    /\ IF Current = "ready_to_pick" /\ Len(history) < MaxEvents
       THEN /\ history' = Append(history, "cancel")
            /\ Set(h, [job[h] EXCEPT !.at = "CANCEL"])
       ELSE Done(h) /\ UNCHANGED history
    /\ UNCHANGED <<tables, errors>>

\* The list of shipments also writes the raw status.
CancelWrite(h) ==
    /\ At(h, "CANCEL")
    /\ shipment' \in {[shipment EXCEPT !.status = "CANCELLED"],
                      [shipment EXCEPT !.status = "CANCELLED", !.raw = "cancel"]}
    /\ Done(h)
    /\ UNCHANGED <<orderVars, review, dispute, seen, history, errors>>

-----------------------------------------------------------------------------
(* handleShippingStatus *)

mapStatus(raw) ==
    CASE raw = "ready_to_pick" -> "READY_TO_PICK"
      [] raw = "picked"        -> "PICKED"
      [] raw = "delivering"    -> "DELIVERING"
      [] raw = "delivered"     -> "DELIVERED"
      [] raw = "delivery_fail" -> "DELIVERY_FAILED"
      [] raw = "lost"          -> "FAILED"
      [] raw = "return"        -> "RETURNING"
      [] raw = "returned"      -> "RETURNED"
      [] raw = "cancel"        -> "CANCELLED"

\* Mutated form: a parcel that waits for the carrier has left the shop.
LeftShopWaiting == {"READY_TO_PICK", "PICKED", "DELIVERING", "DELIVERY_FAILED",
                    "RETURNING", "RETURNED"}
LeftShop == {"PICKED", "DELIVERING", "DELIVERY_FAILED", "RETURNING", "RETURNED"}
\* Where the order follows its shipment; the same status where it does not.
orderStatusForShipment(os, ss) ==
    IF ss = "DELIVERED" /\ os \in {"READY_TO_SHIP", "SHIPPING"} THEN "DELIVERED"
    ELSE IF ss \in LeftShop /\ os = "READY_TO_SHIP" THEN "SHIPPING" ELSE os

\* A webhook finds its shipment by the carrier's code: without it, ignored.
WebhookRead(h, k) ==
    /\ k \in DOMAIN history /\ shipment.code
    /\ Start(h, [NoJob EXCEPT !.at = "EVENT", !.from = status, !.old = shipment,
                              !.key = <<"WEBHOOK", k>>])
    /\ UNCHANGED <<tables, history, errors>>

Stale(j) == j.old.at # 0 /\ j.key[2] < j.old.at
FollowsOrder(j) == orderStatusForShipment(j.from, mapStatus(history[j.key[2]]))

\* Mutated form: the order's status is written without its old value in WHERE.
AnyStatus(j) == TRUE
\* WHERE id AND status = the status read.
StatusUnmoved(j) == status = j.from

EventWrite(h) ==
    LET j == job[h]  k == j.key[2]  to == FollowsOrder(j) IN
    /\ At(h, "EVENT")
    /\ seen' = seen \cup {j.key}
    /\ IF j.key \in seen \/ Stale(j) THEN UNCHANGED <<shipment, status>>
       ELSE /\ shipment' = [shipment EXCEPT !.status = mapStatus(history[k]),
                                            !.raw = history[k], !.at = k]
            /\ status' = IF to # j.from /\ StatusUnmoved(j) THEN to ELSE status
    /\ Done(h)
    /\ UNCHANGED <<refundStatus, review, dispute, history, errors>>

-----------------------------------------------------------------------------
(* syncActiveShipments, under its Redis lock *)

\* Mutated form: parcels that could not be delivered are not asked for.
SyncedOnTheWay == {"READY_TO_PICK", "PICKED", "DELIVERING"}
STATUS_SYNC_ACTIVE_STATUSES ==
    {"READY_TO_PICK", "PICKED", "DELIVERING", "DELIVERY_FAILED", "RETURNING"}

SyncRead(h) ==
    /\ shipment.code /\ shipment.status \in STATUS_SYNC_ACTIVE_STATUSES
    /\ Start(h, [NoJob EXCEPT !.at = "ASK", !.old = shipment])
    /\ UNCHANGED <<tables, history, errors>>

\* syncShipmentStatus: only a status that changed and is newer is reported.
SyncAsk(h) ==
    LET k == Len(history) IN
    /\ At(h, "ASK")
    /\ IF Current # job[h].old.raw /\ (job[h].old.at = 0 \/ k > job[h].old.at)
       THEN Set(h, [NoJob EXCEPT !.at = "FOUND", !.key = <<"AUTO_SYNC", k>>])
       ELSE Done(h)
    /\ UNCHANGED <<tables, history, errors>>

SyncFound(h) ==
    /\ At(h, "FOUND")
    /\ Set(h, [job[h] EXCEPT !.at = "EVENT", !.from = status, !.old = shipment])
    /\ UNCHANGED <<tables, history, errors>>

-----------------------------------------------------------------------------
(* getTracking: the status of the row follows the carrier's answer, the    *)
(* raw status and the order do not.                                        *)

\* The carrier is asked, and what it says is written later.
TrackRead(h) ==
    /\ shipment.code /\ history # <<>>
    /\ Start(h, [NoJob EXCEPT !.at = "TRACK", !.key = <<"", Len(history)>>])
    /\ UNCHANGED <<tables, history, errors>>

TrackWrite(h) ==
    /\ At(h, "TRACK")
    /\ shipment' = [shipment EXCEPT !.status = mapStatus(history[job[h].key[2]])]
    /\ Done(h)
    /\ UNCHANGED <<orderVars, review, dispute, seen, history, errors>>

-----------------------------------------------------------------------------
(* confirmDelivery, createDeliveryDispute, resolveDeliveryDispute *)

DELIVERY_CONFIRMABLE_STATUSES == {"DELIVERED", "DELIVERY_DISPUTED", "SHIPPING", "READY_TO_SHIP"}
DELIVERY_DISPUTABLE_STATUSES == {"READY_TO_SHIP", "SHIPPING", "DELIVERED"}

ConfirmRead(h) ==
    /\ status \in DELIVERY_CONFIRMABLE_STATUSES /\ shipment.raw = "delivered"
    /\ Start(h, [NoJob EXCEPT !.at = "CONFIRM"])
    /\ UNCHANGED <<tables, history, errors>>

ConfirmWrite(h) ==
    /\ At(h, "CONFIRM")
    /\ CloseDisputes(OpenDisputes)
    /\ status' = "COMPLETED"
    /\ Done(h)
    /\ UNCHANGED <<refundStatus, review, shipment, seen, history, errors>>

\* Within seven days of the carrier's report; later it is refused.
DisputeRead(h) ==
    /\ status \in DELIVERY_DISPUTABLE_STATUSES /\ shipment.raw = "delivered"
    /\ OpenDisputes = {}
    /\ Start(h, [NoJob EXCEPT !.at = "DISPUTE"])
    /\ UNCHANGED <<tables, history, errors>>

StillDisputable == status \in DELIVERY_DISPUTABLE_STATUSES

DisputeWrite(h) ==
    /\ At(h, "DISPUTE")
    /\ IF StillDisputable
       THEN \E d \in Disputes :
              /\ dispute[d] = "NONE"
              /\ dispute' = [dispute EXCEPT ![d] = "OPEN"]
              /\ status' = "DELIVERY_DISPUTED"
       ELSE UNCHANGED <<dispute, status>>
    /\ Done(h)
    /\ UNCHANGED <<refundStatus, review, shipment, seen, history, errors>>

\* REFUNDED and LOST cancel the order, the other resolutions complete it.
ResolveRead(h, to) ==
    /\ status = "DELIVERY_DISPUTED" /\ OpenDisputes # {}
    /\ \E d \in OpenDisputes :
         Start(h, [NoJob EXCEPT !.at = "RESOLVE", !.to = to, !.dispute = {d},
                                !.owes = refundStatus = "NONE"])
    /\ UNCHANGED <<tables, history, errors>>

ResolveWrite(h) ==
    /\ At(h, "RESOLVE")
    /\ CloseDisputes(job[h].dispute)
    /\ status' = job[h].to
    /\ refundStatus' = IF NeedsRefund(job[h].to, job[h].owes) THEN "REQUIRED" ELSE refundStatus
    /\ Done(h)
    /\ UNCHANGED <<review, shipment, seen, history, errors>>

\* What the order page offers its reader (toPublicOrder),
\* except to cancel an order that is not paid.
activeShipment ==
    /\ shipment.status \notin {"NONE", "FAILED"} \cup Ended
    /\ shipment.raw \notin {"delivered", "returned", "cancel"}
OfferedWhen ==
    [confirmDelivery |-> status \in DELIVERY_CONFIRMABLE_STATUSES /\ shipment.raw = "delivered",
     reportDeliveryIssue |-> /\ status \in DELIVERY_DISPUTABLE_STATUSES
                             /\ shipment.raw = "delivered"
                             /\ \A d \in Disputes : dispute[d] = "NONE",
     startShipmentCreation |-> status = "READY_TO_SHIP",
     createReplacementShipment |-> status = "READY_TO_SHIP" /\ ~activeShipment,
     updateMeasurement |-> status = "MEASUREMENT_REVIEW" /\ \E i \in Items : review[i] = "OPEN"]
allowedActions == {a \in DOMAIN OfferedWhen : OfferedWhen[a]}

\* The server stops, or a statement fails: the request is gone, its
\* transaction is rolled back, what it committed before stays.
Crash(h) ==
    /\ errors < MaxErrors /\ ~At(h, "IDLE")
    /\ errors' = errors + 1
    /\ Done(h)
    /\ UNCHANGED <<tables, history>>

-----------------------------------------------------------------------------
AdministratorStep(h) ==
    \/ \E to \in Phase : StatusRead(h, to)
    \/ StatusCheck(h) \/ StatusWrite(h)
    \/ \E i \in Items : RequestRead(h, i) \/ ReopenRead(h, i)
    \/ ReviewWrite(h)
    \/ CreateRead(h) \/ CreateRow(h) \/ CreateCall(h) \/ CreateError(h)
    \/ CreateFail(h) \/ CreateSave(h)
    \/ CancelRead(h) \/ CancelCall(h) \/ CancelWrite(h)
    \/ \E to \in {"CANCELLED", "COMPLETED"} : ResolveRead(h, to)
    \/ ResolveWrite(h)
CustomerStep(h) ==
    \/ \E i \in Items : SubmitRead(h, i)
    \/ SubmitWrite(h)
    \/ ConfirmRead(h) \/ ConfirmWrite(h) \/ DisputeRead(h) \/ DisputeWrite(h)
TrackerStep(h) == TrackRead(h) \/ TrackWrite(h)
WebhookStep(h) ==
    (\E k \in 1..MaxEvents : WebhookRead(h, k)) \/ EventWrite(h)
SyncStep(h) == SyncRead(h) \/ SyncAsk(h) \/ SyncFound(h) \/ EventWrite(h)

Next ==
    \/ CarrierMoves
    \/ \E h \in Administrators : AdministratorStep(h)
    \/ \E h \in Customers : CustomerStep(h)
    \/ \E h \in Trackers : TrackerStep(h)
    \/ \E h \in Webhooks : WebhookStep(h)
    \/ \E h \in Crons : SyncStep(h)
    \/ \E h \in Handlers : Crash(h)

Spec == Init /\ [][Next]_vars

\* The cron runs every few minutes for as long as the server lives.
FairSpec == Spec /\ \A h \in Crons : WF_vars(SyncStep(h))

-----------------------------------------------------------------------------
(* Properties *)

\* Whatever two carrier events race for, and whatever an administrator or the
\* customer did in between: the carrier moves an order forward to the
\* delivery only, and never calls a cancelled, disputed, returned or completed
\* order back (updateMany with the old status in handleShippingStatus).
CarrierNeverCallsBack ==
    [][ /\ status' = "SHIPPING"  => status \in {"READY_TO_SHIP", "SHIPPING"}
        /\ status' = "DELIVERED" => status \in {"READY_TO_SHIP", "SHIPPING", "DELIVERED"} ]_vars

\* An order is on its way or delivered only if the carrier picked its parcel
\* up: neither a form of an administrator nor an event read late says so.
OnTheWayIsPickedUp == status \in {"SHIPPING", "DELIVERED"} => PickedUp

\* A paid order that ends cancelled or returned owes its money, by updateStatus
\* and by the resolution of a dispute, whoever wrote the status last.
GivenUpOwesRefund == status \in {"CANCELLED", "RETURNED"} => refundStatus = "REQUIRED"

\* Without a single webhook the order still learns of its delivery
\* (syncActiveShipments), unless its code was never stored, or somebody opened the tracking
\* page when the parcel was there: getTracking makes the row DELIVERED and nothing else
\* (orders.service.ts:1765), and the cron asks for DELIVERED rows no more
\* (shipment.service.ts:174).
TrackingSawIt == shipment.status = "DELIVERED" /\ shipment.raw # "delivered"
DeliveryIsNoticed ==
    (history # <<>> /\ Current = "delivered" /\ shipment.code)
        ~> (status \notin {"READY_TO_SHIP", "SHIPPING"} \/ []TrackingSawIt)

\* cancel-admin-shipment.dto.ts:5 names "the shipment has to be created again" as a reason
\* to cancel one, and the order page then offers createReplacementShipment: the request it
\* offers creates a row, unless the server stops.
ReplacementIsCreated ==
    [][ \A h \in Administrators :
          /\ At(h, "ROW") /\ job[h].old.status \in Ended
          /\ "createReplacementShipment" \in allowedActions
          /\ job'[h] = NoJob
          => errors' > errors ]_vars
=============================================================================
