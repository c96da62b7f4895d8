----------------------------- MODULE OrderFlow -----------------------------
(***************************************************************************)
(* The tables every order operation consults: the statuses an order can    *)
(* have, the transitions an administrator may ask for, and which payment   *)
(* statuses mean that the shop holds the customer's money.                 *)
(***************************************************************************)

OrderStatus ==
    { "CREATED", "PENDING_PAYMENT", "PENDING", "PAID", "CONFIRMED",
      "MEASUREMENT_REVIEW", "MEASUREMENT_CONFIRMED", "TAILORING",
      "QUALITY_CHECK", "PROCESSING", "READY_TO_SHIP", "SHIPPING", "DELIVERED",
      "DELIVERY_DISPUTED", "COMPLETED", "CANCELLED", "RETURN_REQUESTED",
      "RETURN_APPROVED", "RETURNING", "RETURNED", "EXPIRED", "FAILED" }

(* ORDER_STATUS_TRANSITIONS: where updateStatus may move an order next. *)
Transitions ==
  [ CREATED               |-> {"MEASUREMENT_REVIEW", "CANCELLED", "EXPIRED", "FAILED"},
    PENDING_PAYMENT       |-> {"MEASUREMENT_REVIEW", "CANCELLED", "EXPIRED", "FAILED"},
    PENDING               |-> {"CANCELLED", "EXPIRED", "FAILED"},
    PAID                  |-> {"MEASUREMENT_REVIEW", "CANCELLED"},
    MEASUREMENT_REVIEW    |-> {"MEASUREMENT_CONFIRMED", "CANCELLED"},
    MEASUREMENT_CONFIRMED |-> {"TAILORING", "CANCELLED"},
    TAILORING             |-> {"READY_TO_SHIP"},
    QUALITY_CHECK         |-> {"READY_TO_SHIP", "TAILORING"},
    PROCESSING            |-> {"MEASUREMENT_REVIEW", "READY_TO_SHIP", "CANCELLED"},
    READY_TO_SHIP         |-> {"DELIVERY_DISPUTED", "CANCELLED"},
    CONFIRMED             |-> {"MEASUREMENT_REVIEW", "READY_TO_SHIP", "CANCELLED"},
    SHIPPING              |-> {"DELIVERED", "DELIVERY_DISPUTED", "RETURN_REQUESTED",
                               "RETURN_APPROVED", "RETURNING", "RETURNED"},
    DELIVERED             |-> {"DELIVERY_DISPUTED", "COMPLETED", "RETURN_REQUESTED",
                               "RETURN_APPROVED", "RETURNING", "RETURNED"},
    DELIVERY_DISPUTED     |-> {"COMPLETED", "CANCELLED"},
    COMPLETED             |-> {"RETURN_REQUESTED", "RETURN_APPROVED"},
    CANCELLED             |-> {},
    RETURN_REQUESTED      |-> {"RETURN_APPROVED", "RETURNING", "RETURNED", "CANCELLED"},
    RETURN_APPROVED       |-> {"RETURNING", "RETURNED"},
    RETURNING             |-> {"RETURNED"},
    RETURNED              |-> {},
    EXPIRED               |-> {},
    FAILED                |-> {} ]

(* Statuses only a verified payment or the carrier may set on an order of   *)
(* the current flow (fulfillmentFlowVersion = 1, the flow `create` writes). *)
VerifiedOnlyStatuses == {"SHIPPING", "DELIVERED", "PAID", "CREATED"}

(* What updateStatus accepts for an order of the current flow. *)
AllowedTargets(s) == (Transitions[s] \ {"CONFIRMED"}) \ VerifiedOnlyStatuses

(* COLLECTED_PAYMENT_STATUSES: the money has arrived. *)
CollectedPaymentStatuses ==
    {"PAID", "PARTIALLY_REFUNDED", "REFUNDED", "COD_COLLECTED"}
=============================================================================
