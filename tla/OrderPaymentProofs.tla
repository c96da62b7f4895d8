------------------------- MODULE OrderPaymentProofs -------------------------
(***************************************************************************)
(* Theorems about OrderPayment for any number of orders, coupons, links and *)
(* handlers: its types, then its safety properties from one inductive      *)
(* invariant.  The argument: every step is one of a few effects on an order *)
(* (Effects), requests in progress remember only facts that stay true      *)
(* (JobFacts), and an order that was ever paid, cancelled or expired is never *)
(* Unpaid again.  The second part is about the money on its payment rows.  *)
(***************************************************************************)
EXTENDS OrderPayment, FiniteSetTheorems, TLAPS

(* A job of one kind has the fields of that kind. *)
LEMMA JobKinds ==
    ASSUME NEW j \in Job
    PROVE  /\ j.op \in {"BANK", "MANUAL", "VOID"} => j \in ClaimJob
           /\ j.op = "ADMIN" => j \in AdminJob
           /\ j.op = "CHECKOUT" => j \in CheckoutJob
           /\ j.op = "CALLBACK" => j \in CallbackJob
           /\ j.op = "FAILURE" => j \in FailureJob
BY DEF Job, IdleJob, ClaimJob, AdminJob, CheckoutJob, CallbackJob, FailureJob

(* Going on within a callback or a checkout keeps the table of jobs typed. *)
LEMMA GoToJobs ==
    ASSUME JobTypes, NEW h \in Handlers, NEW at, GoTo(h, at),
           \/ /\ job[h].op = "CALLBACK"
              /\ at \in {"READ", "CLAIM", "INVALID", "DUPLICATE", "REPORT", "DONE"}
           \/ /\ job[h].op = "CHECKOUT"
              /\ at \in {"ROWS", "WRITE", "PROVIDER", "SAVE"}
    PROVE  JobTypes'
<1>1. job[h] \in Job
  BY DEF JobTypes
<1>2. job[h] \in CallbackJob \/ job[h] \in CheckoutJob
  BY <1>1, JobKinds
<1>3. [job[h] EXCEPT !.at = at] \in Job
  <2>1. CASE job[h].op = "CALLBACK"
    BY <2>1, <1>1, JobKinds DEF CallbackJob, Job
  <2>2. CASE job[h].op = "CHECKOUT"
    BY <2>2, <1>1, JobKinds DEF CheckoutJob, Job
  <2> QED BY <2>1, <2>2
<1> QED BY <1>3 DEF JobTypes, GoTo

(* Accepting a request keeps the table of jobs typed. *)
LEMMA StartJobs ==
    ASSUME JobTypes, NEW h \in Handlers, NEW j \in Job, Start(h, j)
    PROVE  JobTypes'
BY DEF JobTypes, Start

(* So does ending one. *)
LEMMA FinishJobs ==
    ASSUME JobTypes, NEW h \in Handlers, Finish(h)
    PROVE  JobTypes'
BY DEF JobTypes, Finish, Idle, Job, IdleJob

-----------------------------------------------------------------------------
(* Type correctness *)

USE DEF Note, RecordFailure

(* What an action leaves alone keeps its type. *)
LEMMA Frame ==
    /\ OrderTypes /\ status' = status /\ paymentStatus' = paymentStatus
         /\ refundStatus' = refundStatus /\ checkoutUrl' = checkoutUrl => OrderTypes'
    /\ CouponTypes /\ redemption' = redemption /\ usedCount' = usedCount => CouponTypes'
    /\ RowTypes /\ rows' = rows => RowTypes'
    /\ LogTypes /\ orderEvents' = orderEvents /\ failures' = failures
         /\ webhookEvent' = webhookEvent => LogTypes'
    /\ WorldTypes /\ provider' = provider /\ transfer' = transfer
         /\ overdue' = overdue => WorldTypes'
    /\ JobTypes /\ job' = job => JobTypes'
BY DEF OrderTypes, CouponTypes, RowTypes, LogTypes, WorldTypes, JobTypes

(* A payment row with a new status, or new money, is a payment row. *)
LEMMA RowTyping ==
    ASSUME NEW row \in Row, NEW s \in RowStatus, NEW money \in Links \cup NotALink
    PROVE  WithStatus(row, s) \in Row /\ Settled(row, s, money) \in Row
BY DEF Row, WithStatus, Settled

(* Expiring the waiting rows of an order gives rows. *)
LEMMA ExpiredRowsTyping ==
    ASSUME RowTypes, NEW o \in Orders
    PROVE  ExpireOpenRows(o) \in [RowIds -> Row]
<1>1. ASSUME NEW r \in RowIds
      PROVE  rows[o][r] \in Row /\ WithStatus(rows[o][r], "EXPIRED") \in Row
  <2>1. rows[o][r] \in Row
    BY DEF RowTypes
  <2>2. "EXPIRED" \in RowStatus /\ "NONE" \in Links \cup NotALink
    BY DEF RowStatus, NotALink
  <2> QED BY <2>1, <2>2, RowTyping
<1> QED BY <1>1 DEF ExpireOpenRows

(* Writing a row by id keeps the table of rows typed. *)
LEMMA SetRowTyping ==
    ASSUME RowTypes, NEW o \in Orders, NEW r \in RowIds, NEW row \in Row, SetRow(o, r, row)
    PROVE  RowTypes'
<1>1. [rows[o] EXCEPT ![r] = row] \in [RowIds -> Row]
  BY DEF RowTypes
<1> QED BY <1>1 DEF RowTypes, SetRow

(* Failing a row that waits does too. *)
LEMMA FailRowTyping ==
    ASSUME RowTypes, NEW o \in Orders, NEW r \in RowIds, FailIfWaiting(o, r)
    PROVE  RowTypes'
<1>1. rows[o][r] \in Row /\ "FAILED" \in RowStatus /\ "NONE" \in Links \cup NotALink
  BY DEF RowTypes, RowStatus, NotALink
<1>2. WithStatus(rows[o][r], "FAILED") \in Row
  BY <1>1, RowTyping
<1> QED BY <1>2, SetRowTyping, Frame DEF FailIfWaiting, orderVars, couponVars, worldVars

(* Releasing a coupon never counts it below zero. *)
LEMMA CouponTyping ==
    ASSUME CouponTypes, NEW o \in Orders, ReleaseCoupon(o)
    PROVE  CouponTypes'
BY DEF CouponTypes, ReleaseCoupon

(* create keeps every column typed. *)
LEMMA CreateTyping ==
    ASSUME TypeOK, NEW o \in Orders, NEW c \in Coupons \cup {NoCoupon}, CreateOrder(o, c)
    PROVE  TypeOK'
<1> USE DEF TypeOK
<1>1. [NoRow EXCEPT !.status = "PENDING"] \in Row /\ "PLACEHOLDER" \in RowIds
  BY DEF NoRow, Row, RowStatus, NotALink, RowIds, ServerRows
<1>2. RowTypes'
  BY <1>1, SetRowTyping DEF CreateOrder
<1>3. OrderTypes'
  BY DEF OrderTypes, CreateOrder, PhaseStatus
<1>4. CouponTypes'
  BY DEF CouponTypes, couponVars, CreateOrder
<1> QED BY <1>2, <1>3, <1>4, Frame DEF CreateOrder, orderVars, couponVars, worldVars

(* So do the customer's cancellation and the expiry cron. *)
LEMMA CloseTyping ==
    ASSUME TypeOK, NEW o \in Orders, NEW p \in {"PENDING", "EXPIRED"},
           NEW e \in EventTypes, CloseUnpaid(o, p, e)
    PROVE  TypeOK'
<1> USE DEF TypeOK
<1>1. OrderTypes'
  BY DEF OrderTypes, CloseUnpaid, PhaseStatus
<1>2. CouponTypes'
  BY CouponTyping DEF CloseUnpaid
<1>3. RowTypes'
  BY ExpiredRowsTyping DEF CloseUnpaid, RowTypes
<1>4. LogTypes'
  BY DEF LogTypes, CloseUnpaid
<1> QED BY <1>1, <1>2, <1>3, <1>4, Frame DEF CloseUnpaid, orderVars, couponVars, worldVars

(* Reading a bank notification starts a well-formed claim. *)
LEMMA BankReadTyping ==
    ASSUME TypeOK, NEW h \in Handlers, NEW o \in Orders, NEW op \in {"BANK", "MANUAL"},
           BankRead(h, o, op)
    PROVE  TypeOK'
<1> USE DEF TypeOK
<1>1. [op |-> op, order |-> o] \in Job
  BY DEF Job, ClaimJob
<1>2. JobTypes'
  BY <1>1, StartJobs, Frame DEF BankRead
<1>3. LogTypes'
  BY Frame DEF LogTypes, BankRead, Payments
<1> QED BY <1>2, <1>3, Frame DEF BankRead, orderVars, couponVars, worldVars

(* The fields a request carries are orders, rows and links. *)
LEMMA JobFields ==
    ASSUME JobTypes, NEW h \in Handlers
    PROVE  /\ job[h].op \in {"BANK", "MANUAL", "VOID", "ADMIN", "CHECKOUT", "CALLBACK", "FAILURE"}
                => job[h].order \in Orders
           /\ job[h].op = "ADMIN" => job[h].to \in PhaseStatus
           /\ job[h].op \in {"CHECKOUT", "CALLBACK", "FAILURE"} => job[h].row \in RowIds
           /\ job[h].op = "CHECKOUT" => job[h].link \in Links \cup {NoLink}
           /\ job[h].op = "CALLBACK" => job[h].link \in Links
<1>1. job[h] \in Job
  BY DEF JobTypes
<1> QED BY <1>1, JobKinds
        DEF ClaimJob, AdminJob, CheckoutJob, CallbackJob, FailureJob

(* A row settled with some money stays a row. *)
LEMMA SettleTyping ==
    ASSUME RowTypes, NEW o \in Orders, NEW r \in RowIds, NEW s \in RowStatus,
           NEW money \in Links \cup NotALink, SetRow(o, r, Settled(rows[o][r], s, money))
    PROVE  RowTypes'
<1>1. rows[o][r] \in Row
  BY DEF RowTypes
<1> QED BY <1>1, RowTyping, SetRowTyping

(* Marking an order paid stays within the payment phase. *)
LEMMA PaidTyping ==
    ASSUME OrderTypes, LogTypes, NEW o \in Orders, MarkPaid(o), UNCHANGED <<refundStatus, failures, webhookEvent>>
    PROVE  OrderTypes' /\ LogTypes'
BY DEF OrderTypes, LogTypes, MarkPaid, PhaseStatus, EventTypes

(* The claim of a bank payment keeps every column typed. *)
LEMMA BankClaimTyping ==
    ASSUME TypeOK, NEW h \in Handlers, BankClaim(h)
    PROVE  TypeOK'
<1> USE DEF TypeOK
<1> DEFINE o == job[h].order
<1>1. o \in Orders /\ job[h].op \in NotALink /\ "PAID" \in RowStatus /\ BankRow(o) \in RowIds
  BY JobFields DEF BankClaim, NotALink, RowStatus, BankRow, RowIds, ServerRows
<1>2. RowTypes'
  BY <1>1, SettleTyping, Frame DEF BankClaim
<1>3. OrderTypes' /\ LogTypes'
  BY <1>1, PaidTyping, Frame DEF BankClaim
<1> QED BY <1>2, <1>3, FinishJobs, Frame DEF BankClaim, couponVars, worldVars

(* So does the write of a voided transaction ... *)
LEMMA VoidTyping ==
    ASSUME TypeOK, NEW h \in Handlers, VoidWrite(h)
    PROVE  TypeOK'
<1> USE DEF TypeOK
<1> DEFINE o == job[h].order
<1>1. o \in Orders
  BY JobFields DEF VoidWrite
<1>2. /\ {"PLACEHOLDER", "VOIDED"} \subseteq RowIds
      /\ "EXPIRED" \in RowStatus /\ "VOID" \in Links \cup NotALink
  BY DEF RowIds, ServerRows, RowStatus, NotALink
<1>3. RowTypes'
  BY <1>1, <1>2, SettleTyping, Frame DEF VoidWrite
<1>4. OrderTypes'
  BY <1>1 DEF OrderTypes, VoidWrite, PhaseStatus
<1>5. CouponTypes'
  BY <1>1, CouponTyping, Frame DEF VoidWrite, couponVars
<1>6. LogTypes'
  BY <1>1, Frame DEF LogTypes, VoidWrite, EventTypes
<1> QED BY <1>3, <1>4, <1>5, <1>6, FinishJobs, Frame DEF VoidWrite, worldVars

(* ... and of an administrator. *)
LEMMA AdminTyping ==
    ASSUME TypeOK, NEW h \in Handlers, AdminWrite(h)
    PROVE  TypeOK'
<1> USE DEF TypeOK
<1> DEFINE o == job[h].order
<1>1. o \in Orders /\ job[h].to \in PhaseStatus
  BY JobFields DEF AdminWrite
<1>2. RowTypes'
  BY <1>1, ExpiredRowsTyping, Frame DEF AdminWrite, RowTypes
<1>3. OrderTypes'
  BY <1>1 DEF OrderTypes, AdminWrite
<1>4. CouponTypes'
  BY <1>1, CouponTyping, Frame DEF AdminWrite, couponVars
<1>5. LogTypes'
  BY <1>1 DEF LogTypes, AdminWrite, EventTypes
<1> QED BY <1>2, <1>3, <1>4, <1>5, FinishJobs, Frame DEF AdminWrite, worldVars

(* A request that arrives keeps every column typed. *)
LEMMA ArriveTyping ==
    ASSUME TypeOK, NEW h \in Handlers, Arrive(h)
    PROVE  TypeOK'
<1> USE DEF TypeOK
<1>1. PICK o \in Orders :
        \/ \E op \in {"BANK", "MANUAL"} : BankRead(h, o, op)
        \/ VoidRead(h, o)
        \/ \E to \in PhaseStatus : AdminRead(h, o, to)
        \/ CheckoutRead(h, o)
        \/ \E l \in Links : CallbackStart(h, o, l) \/ FailureRead(h, o, l)
  BY DEF Arrive
<1>2. CASE \E op \in {"BANK", "MANUAL"} : BankRead(h, o, op)
  BY <1>2, BankReadTyping
<1>3. CASE VoidRead(h, o)
  <2>1. [op |-> "VOID", order |-> o] \in Job
    BY DEF Job, ClaimJob
  <2> QED BY <1>3, <2>1, StartJobs, Frame DEF VoidRead, orderVars, couponVars, worldVars
<1>4. ASSUME NEW to \in PhaseStatus, AdminRead(h, o, to)
      PROVE  TypeOK'
  <2>1. [op |-> "ADMIN", order |-> o, to |-> to,
         collected |-> paymentStatus[o] \in CollectedPaymentStatuses,
         refundStatus |-> refundStatus[o]] \in Job
    BY DEF Job, AdminJob, OrderTypes
  <2> QED BY <1>4, <2>1, StartJobs, Frame DEF AdminRead, orderVars, couponVars, worldVars
<1>5. CASE CheckoutRead(h, o)
  <2>1. [op |-> "CHECKOUT", order |-> o, link |-> NoLink,
         row |-> "PLACEHOLDER", at |-> "ROWS"] \in Job
    BY DEF Job, CheckoutJob, RowIds, ServerRows
  <2> QED BY <1>5, <2>1, StartJobs, Frame DEF CheckoutRead, orderVars, couponVars, worldVars
<1>6. ASSUME NEW l \in Links, CallbackStart(h, o, l)
      PROVE  TypeOK'
  <2>1. PICK r \in RowIds :
          Start(h, [op |-> "CALLBACK", order |-> o, link |-> l, row |-> r, at |-> "READ"])
    BY <1>6 DEF CallbackStart, RowOf
  <2>2. [op |-> "CALLBACK", order |-> o, link |-> l, row |-> r, at |-> "READ"] \in Job
    BY DEF Job, CallbackJob
  <2>3. LogTypes'
    BY <1>6 DEF LogTypes, CallbackStart
  <2> QED BY <1>6, <2>1, <2>2, <2>3, StartJobs, Frame
          DEF CallbackStart, orderVars, couponVars, worldVars
<1>7. ASSUME NEW l \in Links, FailureRead(h, o, l)
      PROVE  TypeOK'
  <2>1. PICK r \in RowIds : Start(h, [op |-> "FAILURE", order |-> o, row |-> r])
    BY <1>7 DEF FailureRead, RowOf
  <2>2. [op |-> "FAILURE", order |-> o, row |-> r] \in Job
    BY DEF Job, FailureJob
  <2>3. WorldTypes'
    BY <1>7 DEF WorldTypes, FailureRead
  <2> QED BY <1>7, <2>1, <2>2, <2>3, StartJobs, Frame DEF FailureRead, orderVars, couponVars
<1> QED BY <1>1, <1>2, <1>3, <1>4, <1>5, <1>6, <1>7

(* Every step of a checkout does. *)
LEMMA CheckoutTyping ==
    ASSUME TypeOK, NEW h \in Handlers,
           \/ \E l \in Links : CheckoutRows(h, l)
           \/ \E r \in RowIds : CheckoutReuse(h, r)
           \/ CheckoutSePay(h) \/ CheckoutWrite(h) \/ CheckoutProvider(h)
           \/ CheckoutFail(h) \/ CheckoutSave(h)
    PROVE  TypeOK'
<1> USE DEF TypeOK, InCheckout
<1> DEFINE o == job[h].order
<1>1. /\ job[h].op = "CHECKOUT" /\ job[h] \in CheckoutJob
      /\ o \in Orders /\ job[h].row \in RowIds /\ job[h].link \in Links \cup {NoLink}
  <2>1. job[h].op = "CHECKOUT" /\ job[h] \in Job
    BY DEF JobTypes, CheckoutRows, CheckoutReuse, CheckoutSePay, CheckoutWrite,
           CheckoutProvider, CheckoutFail, CheckoutSave
  <2> QED BY <2>1, JobKinds, JobFields
<1>2. rows[o][job[h].row] \in Row
  BY <1>1 DEF RowTypes
<1>3. ASSUME NEW l \in Links, CheckoutRows(h, l)
      PROVE  TypeOK'
  <2> DEFINE r == IF OpenUnlinkedRow(rows[o]["PLACEHOLDER"]) THEN "PLACEHOLDER" ELSE l
  <2>1. r \in RowIds
    BY DEF RowIds, ServerRows
  <2>2. [job[h] EXCEPT !.link = l, !.at = "WRITE", !.row = r] \in Job
    BY <1>1, <2>1 DEF Job, CheckoutJob
  <2>3. JobTypes'
    BY <1>3, <2>2 DEF JobTypes, CheckoutRows
  <2> QED BY <1>3, <2>3, Frame DEF CheckoutRows, orderVars, couponVars, worldVars
<1>4. ASSUME NEW r \in RowIds, CheckoutReuse(h, r)
      PROVE  TypeOK'
  <2>1. rows[o][r].link \in Links \cup {NoLink}
    BY <1>1 DEF RowTypes, Row
  <2>2. [job[h] EXCEPT !.link = rows[o][r].link, !.row = r, !.at = "PROVIDER"] \in Job
    BY <1>1, <2>1 DEF Job, CheckoutJob
  <2>3. JobTypes'
    BY <1>4, <2>2, FinishJobs DEF JobTypes, CheckoutReuse
  <2> QED BY <1>4, <2>3, Frame DEF CheckoutReuse, orderVars, couponVars, worldVars
<1>5. CASE CheckoutSePay(h)
  BY <1>1, <1>5, GoToJobs, Frame DEF CheckoutSePay, orderVars, couponVars, worldVars
<1>6. CASE CheckoutWrite(h)
  <2>1. /\ [rows[o][job[h].row] EXCEPT !.link = job[h].link, !.url = FALSE] \in Row
        /\ [NoRow EXCEPT !.link = job[h].link, !.status = "PENDING"] \in Row
    BY <1>1, <1>2 DEF Row, NoRow, RowStatus, NotALink
  <2>2. RowTypes'
    BY <1>1, <1>6, <2>1, SetRowTyping DEF CheckoutWrite
  <2> QED BY <1>1, <1>6, <2>2, GoToJobs, Frame DEF CheckoutWrite, orderVars, couponVars, worldVars
<1>7. CASE CheckoutProvider(h)
  <2>1. WorldTypes'
    BY <1>7 DEF WorldTypes, CheckoutProvider
  <2> QED BY <1>1, <1>7, <2>1, GoToJobs, Frame DEF CheckoutProvider, orderVars, couponVars
<1>8. CASE CheckoutFail(h)
  BY <1>1, <1>8, FailRowTyping, FinishJobs, Frame DEF CheckoutFail, orderVars, couponVars, worldVars
<1>9. CASE CheckoutSave(h)
  <2>1. [rows[o][job[h].row] EXCEPT !.url = TRUE] \in Row
    BY <1>2 DEF Row
  <2>2. RowTypes'
    BY <1>1, <1>9, <2>1, SetRowTyping, Frame DEF CheckoutSave
  <2>3. OrderTypes'
    BY <1>9 DEF OrderTypes, CheckoutSave
  <2> QED BY <1>9, <2>2, <2>3, FinishJobs, Frame DEF CheckoutSave, couponVars, worldVars
<1> QED BY <1>3, <1>4, <1>5, <1>6, <1>7, <1>8, <1>9

(* Every step of a callback does. *)
LEMMA CallbackTyping ==
    ASSUME TypeOK, NEW h \in Handlers,
           \/ CallbackRead(h) \/ CallbackClaim(h) \/ CallbackRefund(h)
           \/ CallbackReport(h) \/ CallbackDone(h) \/ CallbackError(h)
    PROVE  TypeOK'
<1> USE DEF TypeOK, InCallback
<1> DEFINE o == job[h].order
<1>1. /\ job[h].op = "CALLBACK"
      /\ o \in Orders /\ job[h].row \in RowIds /\ job[h].link \in Links
  BY JobFields DEF CallbackRead, CallbackClaim, CallbackRefund, CallbackReport,
                   CallbackDone, CallbackError
<1>2. {"PAID", "REFUND_REQUIRED"} \subseteq RowStatus
  BY DEF RowStatus
<1>3. CASE CallbackRead(h)
  <2>1. LogTypes'
    BY <1>1, <1>3 DEF LogTypes, CallbackRead, Payments
  <2>2. JobTypes'
    BY <1>1, <1>3, GoToJobs DEF CallbackRead
  <2> QED BY <1>3, <2>1, <2>2, Frame DEF CallbackRead, orderVars, couponVars, worldVars
<1>4. CASE CallbackClaim(h)
  <2>1. RowTypes'
    BY <1>1, <1>2, <1>4, SettleTyping, Frame DEF CallbackClaim
  <2>2. OrderTypes' /\ LogTypes'
    BY <1>1, <1>4, PaidTyping, Frame DEF CallbackClaim
  <2>3. JobTypes'
    BY <1>1, <1>4, GoToJobs DEF CallbackClaim
  <2> QED BY <1>4, <2>1, <2>2, <2>3, Frame DEF CallbackClaim, couponVars, worldVars
<1>5. CASE CallbackRefund(h)
  <2>1. RowTypes'
    BY <1>1, <1>2, <1>5, SettleTyping, Frame DEF CallbackRefund
  <2>2. LogTypes'
    BY <1>5 DEF LogTypes, CallbackRefund, EventTypes
  <2>3. JobTypes'
    BY <1>1, <1>5, GoToJobs DEF CallbackRefund
  <2> QED BY <1>5, <2>1, <2>2, <2>3, Frame DEF CallbackRefund, orderVars, couponVars, worldVars
<1>6. CASE CallbackReport(h)
  <2>1. LogTypes'
    BY <1>1, <1>6 DEF LogTypes, CallbackReport, Payments
  <2> QED BY <1>1, <1>6, <2>1, GoToJobs, Frame DEF CallbackReport, orderVars, couponVars, worldVars
<1>7. CASE CallbackDone(h)
  <2>1. LogTypes'
    BY <1>7 DEF LogTypes, CallbackDone
  <2> QED BY <1>7, <2>1, FinishJobs, Frame DEF CallbackDone, orderVars, couponVars, worldVars
<1>8. CASE CallbackError(h)
  <2>1. LogTypes'
    BY <1>8 DEF LogTypes, CallbackError
  <2> QED BY <1>8, <2>1, FinishJobs, Frame DEF CallbackError, orderVars, couponVars, worldVars
<1> QED BY <1>3, <1>4, <1>5, <1>6, <1>7, <1>8

(* So does every step that is not part of a request. *)
LEMMA InstantTyping ==
    ASSUME TypeOK, NEW o \in Orders, Instant(o)
    PROVE  TypeOK'
<1> USE DEF TypeOK
<1>1. ASSUME NEW c \in Coupons \cup {NoCoupon}, CreateOrder(o, c)
      PROVE  TypeOK'
  BY <1>1, CreateTyping
<1>2. CASE Cancel(o) \/ ExpireUnpaid(o)
  BY <1>2, CloseTyping DEF Cancel, ExpireUnpaid, Unpaid, EventTypes
<1>3. CASE GetOverdue(o)
  <2>1. WorldTypes'
    BY <1>3 DEF WorldTypes, GetOverdue
  <2> QED BY <1>3, <2>1, Frame DEF GetOverdue, orderVars, couponVars
<1>4. ASSUME NEW amount \in Amounts, Transfer(o, amount)
      PROVE  TypeOK'
  <2>1. WorldTypes'
    BY <1>4, ChannelsAssumption DEF WorldTypes, Transfer
  <2> QED BY <1>4, <2>1, Frame DEF Transfer, orderVars, couponVars
<1>5. ASSUME NEW l \in Links, NEW outcome \in {"COLLECTED", "FAILED"}, LinkEnds(o, l, outcome)
      PROVE  TypeOK'
  <2>1. WorldTypes'
    BY <1>5 DEF WorldTypes, LinkEnds
  <2> QED BY <1>5, <2>1, Frame DEF LinkEnds, orderVars, couponVars
<1>6. ASSUME NEW l \in Links, CallbackNotFound(o, l)
      PROVE  TypeOK'
  <2>1. LogTypes'
    BY <1>6 DEF LogTypes, CallbackNotFound, Payments
  <2> QED BY <1>6, <2>1, Frame DEF CallbackNotFound, orderVars, couponVars, worldVars
<1>7. ASSUME NEW l \in Links, CallbackDuplicate(o, l)
      PROVE  TypeOK'
  BY <1>7, Frame DEF CallbackDuplicate, orderVars, couponVars, worldVars
<1> QED BY <1>1, <1>2, <1>3, <1>4, <1>5, <1>6, <1>7 DEF Instant

(* The empty shop is typed. *)
LEMMA TypeInit == Init => TypeOK
BY DEF Init, TypeOK, OrderTypes, CouponTypes, RowTypes, LogTypes, WorldTypes, JobTypes,
       NoRow, Row, RowStatus, NotALink, RowIds, ServerRows, Idle, Job, IdleJob

(* Typing is inductive on its own. *)
LEMMA TypeStep == TypeOK /\ [Next]_vars => TypeOK'
<1> SUFFICES ASSUME TypeOK, [Next]_vars PROVE TypeOK'
  OBVIOUS
<1>1. CASE UNCHANGED vars
  BY <1>1, Frame DEF vars, orderVars, couponVars, worldVars, TypeOK
<1>2. ASSUME NEW h \in Handlers, Arrive(h) PROVE TypeOK'
  BY <1>2, ArriveTyping
<1>3. ASSUME NEW h \in Handlers, Continue(h) PROVE TypeOK'
  <2>1. CASE FailureWrite(h)
    BY <2>1, JobFields, FailRowTyping, FinishJobs, Frame
       DEF FailureWrite, TypeOK, orderVars, couponVars, worldVars
  <2> QED BY <1>3, <2>1, BankClaimTyping, VoidTyping, AdminTyping, CheckoutTyping,
             CallbackTyping DEF Continue
<1>4. ASSUME NEW h \in Handlers, CallbackError(h) \/ Crash(h) PROVE TypeOK'
  BY <1>4, CallbackTyping, FinishJobs, Frame DEF Crash, TypeOK, orderVars, couponVars, worldVars
<1>5. ASSUME NEW o \in Orders, Instant(o) PROVE TypeOK'
  BY <1>5, InstantTyping
<1> QED BY <1>1, <1>2, <1>3, <1>4, <1>5 DEF Next

(* Every variable keeps the type of its column, for any number of orders,   *)
(* links and requests in progress; in particular a coupon is never counted  *)
(* below zero.                                                              *)
THEOREM TypeCorrect == Spec => []TypeOK
BY TypeInit, TypeStep, PTL DEF Spec

-----------------------------------------------------------------------------
Outcomes == {"PAYMENT_SUCCEEDED", "ORDER_CANCELLED", "ORDER_PAYMENT_EXPIRED"}

\* Nothing has happened to an order that does not exist.
NewOrders ==
    \A o \in Orders : status[o] = "NONE" =>
       /\ redemption[o] = NoCoupon
       /\ orderEvents[o] = {}
       /\ paymentStatus[o] = "NONE"
       /\ \A l \in Links : provider[o][l] = "NONE"

\* What a request remembers is still true when it acts.
JobFact(j) ==
    /\ j.op # "IDLE" => status[j.order] # "NONE"
    /\ j.op = "ADMIN" => /\ j.to # "CREATED"
                         /\ j.collected => paymentStatus[j.order] = "PAID"
JobFacts == \A h \in Handlers : JobFact(job[h])

\* An outcome closes the door to every other.
OutcomeFacts ==
    \A o \in Orders : \A a, b \in orderEvents[o] \cap Outcomes : a = b /\ ~Unpaid(o)

OrderInv == TypeOK /\ NewOrders /\ JobFacts /\ OutcomeFacts

-----------------------------------------------------------------------------
(* What a step can do to orders and coupons *)

SameOrders == UNCHANGED <<status, paymentStatus, redemption, usedCount>>

\* Nothing of interest here: at most a refund is noted.
Quiet ==
    /\ SameOrders
    /\ \A o \in Orders : orderEvents'[o] \cap Outcomes = orderEvents[o] \cap Outcomes
    /\ \A o \in Orders : status[o] = "NONE" => orderEvents'[o] = orderEvents[o]

Paying(o) == Unpaid(o) /\ MarkPaid(o) /\ UNCHANGED <<redemption, usedCount, provider>>

Closing(o) ==
    /\ Unpaid(o)
    /\ \/ CloseUnpaid(o, "PENDING", "ORDER_CANCELLED")
       \/ CloseUnpaid(o, "EXPIRED", "ORDER_PAYMENT_EXPIRED")

Effect ==
    \/ \E o \in Orders, c \in Coupons \cup {NoCoupon} : CreateOrder(o, c)
    \/ \E o \in Orders : Closing(o) \/ Paying(o)
    \/ \E h \in Handlers : VoidWrite(h) \/ AdminWrite(h)
    \/ Quiet

(* Of all the steps only these change what an order is worth to its owner. *)
LEMMA Effects ==
    ASSUME TypeOK, JobFacts, [Next]_vars
    PROVE  Effect
<1>1. CASE UNCHANGED vars
  BY <1>1 DEF vars, orderVars, couponVars, Effect, Quiet, SameOrders
<1>2. ASSUME NEW h \in Handlers, Arrive(h) PROVE Effect
  <2> USE DEF orderVars, couponVars, Quiet, SameOrders
  <2>1. ASSUME NEW o, VoidRead(h, o) \/ CheckoutRead(h, o) PROVE Quiet
    BY <2>1 DEF VoidRead, CheckoutRead
  <2>2. ASSUME NEW o \in Orders, NEW op, BankRead(h, o, op) PROVE Quiet
    BY <2>2 DEF BankRead, TypeOK
  <2>3. ASSUME NEW o, NEW to, AdminRead(h, o, to) PROVE Quiet
    BY <2>3 DEF AdminRead
  <2>4. ASSUME NEW o, NEW l, CallbackStart(h, o, l) \/ FailureRead(h, o, l) PROVE Quiet
    BY <2>4 DEF CallbackStart, FailureRead
  <2>5. PICK o \in Orders :
          \/ \E x : BankRead(h, o, x) \/ AdminRead(h, o, x)
          \/ VoidRead(h, o) \/ CheckoutRead(h, o)
          \/ \E l : CallbackStart(h, o, l) \/ FailureRead(h, o, l)
    BY <1>2, Zenon DEF Arrive
  <2> HIDE DEF Quiet
  <2> QED BY <2>1, <2>2, <2>3, <2>4, <2>5, Zenon DEF Effect
<1> USE DEF TypeOK
<1>3. ASSUME NEW h \in Handlers, Continue(h) PROVE Effect
  <2>1. CASE BankClaim(h)
    <3>1. job[h].order \in Orders
      BY <2>1, JobFields DEF BankClaim
    <3> QED BY <2>1, <3>1
         DEF BankClaim, Effect, Paying, Quiet, SameOrders, couponVars, worldVars
  <2>2. CASE CallbackClaim(h)
    <3>1. job[h].order \in Orders
      BY <2>2, JobFields DEF CallbackClaim, InCallback
    <3> QED BY <2>2, <3>1
         DEF CallbackClaim, Effect, Paying, Quiet, SameOrders, couponVars, worldVars
  <2>3. CASE CallbackRefund(h)
    <3>1. job[h].order \in Orders /\ status[job[h].order] # "NONE"
      BY <2>3, JobFields DEF CallbackRefund, InCallback, JobFacts, JobFact
    <3>2. \A o \in Orders :
            \/ orderEvents'[o] = orderEvents[o]
            \/ /\ o = job[h].order
               /\ orderEvents'[o] = orderEvents[o] \cup {"PAYMENT_REFUND_REQUIRED"}
      BY <2>3, <3>1 DEF CallbackRefund, LogTypes, Note
    <3>3. SameOrders
      BY <2>3 DEF CallbackRefund, SameOrders, orderVars, couponVars
    <3>4. ASSUME NEW o \in Orders
          PROVE  /\ orderEvents'[o] \cap Outcomes = orderEvents[o] \cap Outcomes
                 /\ status[o] = "NONE" => orderEvents'[o] = orderEvents[o]
      <4>1. "PAYMENT_REFUND_REQUIRED" \notin Outcomes
        BY DEF Outcomes
      <4>2. CASE orderEvents'[o] = orderEvents[o]
        BY <4>2
      <4>3. CASE /\ o = job[h].order
                 /\ orderEvents'[o] = orderEvents[o] \cup {"PAYMENT_REFUND_REQUIRED"}
        BY <3>1, <4>1, <4>3
      <4> QED BY <3>2, <4>2, <4>3
    <3> QED BY <3>3, <3>4 DEF Effect, Quiet
  <2>4. CASE \/ \E l \in Links : CheckoutRows(h, l)
             \/ \E r \in RowIds : CheckoutReuse(h, r)
             \/ CheckoutSePay(h) \/ CheckoutWrite(h) \/ CheckoutProvider(h)
             \/ CheckoutFail(h) \/ CheckoutSave(h)
    BY <2>4 DEF CheckoutRows, CheckoutReuse, CheckoutSePay, CheckoutWrite, CheckoutProvider,
       CheckoutFail, CheckoutSave, Effect, Quiet, SameOrders, orderVars, couponVars
  <2>5. CASE CallbackRead(h) \/ CallbackReport(h) \/ CallbackDone(h) \/ FailureWrite(h)
    BY <2>5 DEF CallbackRead, CallbackReport, CallbackDone, FailureWrite,
       Effect, Quiet, SameOrders, orderVars, couponVars
  <2> QED BY <1>3, <2>1, <2>2, <2>3, <2>4, <2>5 DEF Continue, Effect
<1>4. ASSUME NEW h \in Handlers, CallbackError(h) \/ Crash(h) PROVE Effect
  BY <1>4 DEF CallbackError, Crash, Effect, Quiet, SameOrders, orderVars, couponVars
<1>5. ASSUME NEW o \in Orders, Instant(o) PROVE Effect
  <2>1. CASE Cancel(o) \/ ExpireUnpaid(o)
    BY <2>1 DEF Cancel, ExpireUnpaid, Unpaid, Closing, Effect
  <2> QED BY <1>5, <2>1 DEF Instant, GetOverdue, Transfer, LinkEnds, CallbackNotFound,
       CallbackDuplicate, orderVars, couponVars, Effect, Quiet, SameOrders
<1> QED BY <1>1, <1>2, <1>3, <1>4, <1>5 DEF Next

(* An order never stops existing, and never stops being paid. *)
LEMMA Monotone ==
    ASSUME TypeOK, NewOrders, JobFacts, Effect, NEW o \in Orders
    PROVE  /\ status[o] # "NONE" => status'[o] # "NONE"
           /\ paymentStatus[o] = "PAID" => paymentStatus'[o] = "PAID"
<1> USE DEF TypeOK, OrderTypes
<1>1. ASSUME NEW p \in Orders, NEW c \in Coupons \cup {NoCoupon}, CreateOrder(p, c)
      PROVE  /\ status[o] # "NONE" => status'[o] # "NONE"
             /\ paymentStatus[o] = "PAID" => paymentStatus'[o] = "PAID"
  BY <1>1 DEF CreateOrder, NewOrders
<1>2. ASSUME NEW p \in Orders, Closing(p) \/ Paying(p)
      PROVE  /\ status[o] # "NONE" => status'[o] # "NONE"
             /\ paymentStatus[o] = "PAID" => paymentStatus'[o] = "PAID"
  BY <1>2 DEF Closing, CloseUnpaid, Paying, MarkPaid, Unpaid
<1>3. ASSUME NEW h \in Handlers, VoidWrite(h) \/ AdminWrite(h)
      PROVE  /\ status[o] # "NONE" => status'[o] # "NONE"
             /\ paymentStatus[o] = "PAID" => paymentStatus'[o] = "PAID"
  <2>1. AdminWrite(h) => job[h].to \in PhaseStatus
    BY JobFields DEF AdminWrite
  <2> QED BY <1>3, <2>1 DEF VoidWrite, AdminWrite, PhaseStatus
<1> QED BY <1>1, <1>2, <1>3 DEF Effect, Quiet, SameOrders

-----------------------------------------------------------------------------
(* Preservation, part by part *)

(* Only an order that exists gets a link at a gateway. *)
LEMMA LinksOfOrders ==
    ASSUME TypeOK, NewOrders, JobFacts, [Next]_vars, NEW o \in Orders, status[o] = "NONE"
    PROVE  provider'[o] = provider[o]
<1> USE DEF TypeOK, WorldTypes
<1>1. \A l \in Links : provider[o][l] = "NONE"
  BY DEF NewOrders
<1>2. ASSUME NEW h \in Handlers, Arrive(h) PROVE provider'[o] = provider[o]
  <2>1. ASSUME NEW p \in Orders, NEW l \in Links, FailureRead(h, p, l)
        PROVE  provider'[o] = provider[o]
    BY <2>1, <1>1 DEF FailureRead
  <2> QED BY <1>2, <2>1 DEF Arrive, BankRead, VoidRead, AdminRead, CheckoutRead,
       CallbackStart, worldVars
<1>3. ASSUME NEW h \in Handlers, Continue(h) PROVE provider'[o] = provider[o]
  <2>1. CASE CheckoutProvider(h)
    <3>1. job[h].order # o /\ job[h].order \in Orders
      BY <2>1, JobFields DEF CheckoutProvider, InCheckout, JobFacts, JobFact
    <3> QED BY <2>1, <3>1 DEF CheckoutProvider
  <2>2. CASE BankClaim(h) \/ VoidWrite(h) \/ AdminWrite(h)
    BY <2>2 DEF BankClaim, VoidWrite, AdminWrite, worldVars
  <2>3. CASE \/ \E l \in Links : CheckoutRows(h, l)
             \/ \E r \in RowIds : CheckoutReuse(h, r)
             \/ CheckoutSePay(h) \/ CheckoutWrite(h) \/ CheckoutFail(h) \/ CheckoutSave(h)
    BY <2>3 DEF CheckoutRows, CheckoutReuse, CheckoutSePay, CheckoutWrite, CheckoutFail,
       CheckoutSave, worldVars
  <2>4. CASE \/ CallbackRead(h) \/ CallbackClaim(h) \/ CallbackRefund(h)
             \/ CallbackReport(h) \/ CallbackDone(h) \/ FailureWrite(h)
    BY <2>4 DEF CallbackRead, CallbackClaim, CallbackRefund, CallbackReport, CallbackDone,
       FailureWrite, worldVars
  <2> QED BY <1>3, <2>1, <2>2, <2>3, <2>4 DEF Continue
<1>4. ASSUME NEW p \in Orders, Instant(p) PROVE provider'[o] = provider[o]
  <2>1. ASSUME NEW l \in Links, NEW outcome \in {"COLLECTED", "FAILED"},
               LinkEnds(p, l, outcome)
        PROVE  provider'[o] = provider[o]
    BY <2>1, <1>1 DEF LinkEnds
  <2> QED BY <1>4, <2>1 DEF Instant, CreateOrder, Cancel, ExpireUnpaid, CloseUnpaid,
       GetOverdue, Transfer, CallbackNotFound, CallbackDuplicate, worldVars
<1> QED BY <1>2, <1>3, <1>4 DEF Next, CallbackError, Crash, vars, worldVars

\* The part of an order that NewOrders and OutcomeFacts speak about.
SameOrder(o) ==
    /\ status'[o] = status[o]
    /\ paymentStatus'[o] = paymentStatus[o]
    /\ redemption'[o] = redemption[o]
    /\ orderEvents'[o] \cap Outcomes = orderEvents[o] \cap Outcomes

\* The writes of a request or an action are those of one order, p.
WritesOnly(p) ==
    \A o \in Orders \ {p} : SameOrder(o) /\ orderEvents'[o] = orderEvents[o]

(* Updating the four columns of one order leaves the others alone. *)
LEMMA Elsewhere ==
    ASSUME OrderTypes, CouponTypes, LogTypes, NEW p \in Orders,
           \E s : status' = [status EXCEPT ![p] = s],
           paymentStatus' = paymentStatus \/ \E s : paymentStatus' = [paymentStatus EXCEPT ![p] = s],
           orderEvents' = orderEvents \/ \E e : orderEvents' = [orderEvents EXCEPT ![p] = e],
           \/ redemption' = redemption
           \/ \E c : redemption' = [redemption EXCEPT ![p] = c]
    PROVE  WritesOnly(p)
<1> SUFFICES ASSUME NEW o \in Orders \ {p}
             PROVE  SameOrder(o) /\ orderEvents'[o] = orderEvents[o]
  BY DEF WritesOnly
<1>1. status'[o] = status[o]
  BY DEF OrderTypes
<1>2. paymentStatus'[o] = paymentStatus[o]
  BY DEF OrderTypes
<1>3. redemption'[o] = redemption[o]
  BY DEF CouponTypes
<1>4. orderEvents'[o] = orderEvents[o]
  BY DEF LogTypes
<1> QED BY <1>1, <1>2, <1>3, <1>4 DEF SameOrder

(* A step that is not Quiet changes one order only. *)
LEMMA OtherOrders ==
    ASSUME TypeOK, NEW p \in Orders,
           \/ \E c \in Coupons \cup {NoCoupon} : CreateOrder(p, c)
           \/ Closing(p) \/ Paying(p)
           \/ \E h \in Handlers : job[h].order = p /\ (VoidWrite(h) \/ AdminWrite(h))
    PROVE  WritesOnly(p)
<1>0. OrderTypes /\ CouponTypes /\ LogTypes
  BY DEF TypeOK
<1>1. ASSUME NEW c \in Coupons \cup {NoCoupon}, CreateOrder(p, c)
      PROVE  WritesOnly(p)
  BY <1>0, <1>1, Elsewhere DEF CreateOrder, couponVars
<1>2. CASE Closing(p)
  BY <1>0, <1>2, Elsewhere DEF Closing, CloseUnpaid, ReleaseCoupon, Note
<1>3. CASE Paying(p)
  BY <1>0, <1>3, Elsewhere DEF Paying, MarkPaid, Note
<1>4. ASSUME NEW h \in Handlers, job[h].order = p, VoidWrite(h)
      PROVE  WritesOnly(p)
  <2>1. CASE "PAYMENT_CANCELLED" \in orderEvents[p]
    BY <1>4, <2>1 DEF VoidWrite, WritesOnly, SameOrder, couponVars
  <2>2. CASE "PAYMENT_CANCELLED" \notin orderEvents[p]
    BY <1>0, <1>4, <2>2, Elsewhere DEF VoidWrite, ReleaseCoupon, Note
  <2> QED BY <2>1, <2>2
<1>5. ASSUME NEW h \in Handlers, job[h].order = p, AdminWrite(h)
      PROVE  WritesOnly(p)
  BY <1>0, <1>5, Elsewhere DEF AdminWrite, ReleaseCoupon, Note, couponVars
<1> QED BY <1>1, <1>2, <1>3, <1>4, <1>5

\* What happened to one order in a step.
EffectOn(o) ==
    \/ \E c \in Coupons \cup {NoCoupon} : CreateOrder(o, c)
    \/ Closing(o) \/ Paying(o)
    \/ \E h \in Handlers : job[h].order = o /\ (VoidWrite(h) \/ AdminWrite(h))
    \/ SameOrder(o) /\ (status[o] = "NONE" => orderEvents'[o] = orderEvents[o])

(* Seen from one order, a step is its own write or leaves it as it is. *)
LEMMA EffectOnEach ==
    ASSUME TypeOK, Effect, NEW o \in Orders
    PROVE  EffectOn(o)
<1>1. ASSUME NEW h \in Handlers, VoidWrite(h) \/ AdminWrite(h)
      PROVE  EffectOn(o)
  <2>1. job[h].order \in Orders
    BY <1>1, JobFields DEF VoidWrite, AdminWrite, TypeOK
  <2> QED BY <1>1, <2>1, OtherOrders DEF EffectOn, WritesOnly
<1>2. CASE Quiet
  BY <1>2 DEF Quiet, SameOrders, EffectOn, SameOrder
<1>3. ASSUME NEW p \in Orders, Closing(p) \/ Paying(p)
      PROVE  EffectOn(o)
  BY <1>3, OtherOrders DEF EffectOn, WritesOnly
<1>4. ASSUME NEW p \in Orders, NEW c \in Coupons \cup {NoCoupon}, CreateOrder(p, c)
      PROVE  EffectOn(o)
  BY <1>4, OtherOrders DEF EffectOn, WritesOnly
<1> QED BY <1>1, <1>2, <1>3, <1>4 DEF Effect

(* Nothing is written for an order before create. *)
LEMMA NewOrdersStep ==
    ASSUME TypeOK, NewOrders, JobFacts, Effect, [Next]_vars
    PROVE  NewOrders'
<1> SUFFICES ASSUME NEW o \in Orders, status'[o] = "NONE"
             PROVE  /\ redemption'[o] = NoCoupon
                    /\ orderEvents'[o] = {}
                    /\ paymentStatus'[o] = "NONE"
                    /\ \A l \in Links : provider'[o][l] = "NONE"
  BY DEF NewOrders
<1>1. status[o] = "NONE"
  BY Monotone
<1>2. /\ redemption[o] = NoCoupon /\ orderEvents[o] = {} /\ paymentStatus[o] = "NONE"
      /\ \A l \in Links : provider[o][l] = "NONE"
  BY <1>1 DEF NewOrders
<1>3. SameOrder(o) /\ orderEvents'[o] = orderEvents[o]
  <2>1. ~ \E c \in Coupons \cup {NoCoupon} : CreateOrder(o, c)
    BY DEF CreateOrder, TypeOK, OrderTypes
  <2>2. ~ Closing(o) /\ ~ Paying(o)
    BY <1>1 DEF Closing, Paying, Unpaid
  <2>3. ~ \E h \in Handlers : job[h].order = o /\ (VoidWrite(h) \/ AdminWrite(h))
    BY <1>1 DEF JobFacts, JobFact, VoidWrite, AdminWrite
  <2> QED BY <1>1, <2>1, <2>2, <2>3, EffectOnEach DEF EffectOn
<1> QED BY <1>1, <1>2, <1>3, LinksOfOrders DEF SameOrder

\* What the job of a handler can become in a step.
JobEffect(h) ==
    \/ job'[h] = job[h] \/ job'[h] = Idle
    \/ /\ job[h].op \in {"CHECKOUT", "CALLBACK"}
       /\ job'[h].op = job[h].op /\ job'[h].order = job[h].order
    \/ job'[h].order \in Orders /\ JobFact(job'[h])

(* A request starts with true facts and never changes its order. *)
LEMMA JobEffects ==
    ASSUME TypeOK, NewOrders, [Next]_vars, NEW h \in Handlers
    PROVE  JobEffect(h)
<1>0. JobTypes
  BY DEF TypeOK
<1>1. ASSUME NEW g \in Handlers, Arrive(g)
      PROVE  JobEffect(h)
  <2>1. ASSUME NEW j, Start(g, j), j.order \in Orders, JobFact(j)
        PROVE  JobEffect(h)
    BY <1>0, <2>1 DEF Start, JobTypes, JobEffect
  <2>2. ASSUME NEW o \in Orders, NEW op \in {"BANK", "MANUAL"}, BankRead(g, o, op)
        PROVE  JobEffect(h)
    BY <2>1, <2>2 DEF BankRead, Notified, JobFact, JobEffect
  <2>3. ASSUME NEW o \in Orders, VoidRead(g, o) \/ CheckoutRead(g, o)
        PROVE  JobEffect(h)
    BY <2>1, <2>3 DEF VoidRead, CheckoutRead, Unpaid, JobFact
  <2>4. ASSUME NEW o \in Orders, NEW to \in PhaseStatus, AdminRead(g, o, to)
        PROVE  JobEffect(h)
    <3>1. to # "CREATED"
      BY <2>4 DEF AdminRead, AdminTargets, AllowedTargets, VerifiedOnlyStatuses
    <3>2. paymentStatus[o] \in CollectedPaymentStatuses => paymentStatus[o] = "PAID"
      BY DEF TypeOK, OrderTypes, CollectedPaymentStatuses
    <3> QED BY <2>1, <2>4, <3>1, <3>2 DEF AdminRead, JobFact
  <2>5. ASSUME NEW o \in Orders, NEW l \in Links, CallbackStart(g, o, l)
        PROVE  JobEffect(h)
    <3>1. status[o] # "NONE"
      BY <2>5 DEF CallbackStart, Reported, NewOrders
    <3> QED BY <2>1, <2>5, <3>1 DEF CallbackStart, JobFact
  <2>6. ASSUME NEW o \in Orders, NEW l \in Links, FailureRead(g, o, l)
        PROVE  JobEffect(h)
    <3>1. status[o] # "NONE"
      BY <2>6 DEF FailureRead, NewOrders
    <3> QED BY <2>1, <2>6, <3>1 DEF FailureRead, JobFact
  <2> QED BY <1>1, <2>2, <2>3, <2>4, <2>5, <2>6 DEF Arrive
<1>2. ASSUME NEW g \in Handlers, Finish(g)
      PROVE  JobEffect(h)
  BY <1>0, <1>2 DEF Finish, JobTypes, JobEffect
<1>3. ASSUME NEW g \in Handlers, NEW at, GoTo(g, at), job[g].op \in {"CHECKOUT", "CALLBACK"}
      PROVE  JobEffect(h)
  <2>1. job[g] \in CheckoutJob \cup CallbackJob
    BY <1>0, <1>3, JobKinds DEF JobTypes
  <2>2. [job[g] EXCEPT !.at = at].op = job[g].op /\ [job[g] EXCEPT !.at = at].order = job[g].order
    BY <2>1 DEF CheckoutJob, CallbackJob
  <2> QED BY <1>0, <1>3, <2>2 DEF GoTo, JobTypes, JobEffect
<1>4. ASSUME NEW g \in Handlers, NEW l \in Links, CheckoutRows(g, l)
      PROVE  JobEffect(h)
  <2>1. job[g] \in CheckoutJob
    BY <1>0, <1>4, JobKinds DEF CheckoutRows, InCheckout, JobTypes
  <2>2. \A r : LET j == [job[g] EXCEPT !.link = l, !.at = "WRITE", !.row = r]
              IN  j.op = job[g].op /\ j.order = job[g].order
    BY <2>1 DEF CheckoutJob
  <2> QED BY <1>0, <1>4, <2>2 DEF CheckoutRows, InCheckout, JobTypes, JobEffect
<1>5. ASSUME NEW g \in Handlers, NEW r \in RowIds, CheckoutReuse(g, r)
      PROVE  JobEffect(h)
  <2>1. job[g] \in CheckoutJob
    BY <1>0, <1>5, JobKinds DEF CheckoutReuse, InCheckout, JobTypes
  <2>2. \A l : LET j == [job[g] EXCEPT !.link = l, !.row = r, !.at = "PROVIDER"]
              IN  j.op = job[g].op /\ j.order = job[g].order
    BY <2>1 DEF CheckoutJob
  <2>3. CASE Finish(g)
    BY <1>2, <2>3
  <2>4. CASE ~Finish(g)
    <3>1. PICK l : job' = [job EXCEPT ![g].link = l, ![g].row = r, ![g].at = "PROVIDER"]
      BY <1>5, <2>4 DEF CheckoutReuse
    <3>2. job'[g] = [job[g] EXCEPT !.link = l, !.row = r, !.at = "PROVIDER"]
      BY <1>0, <3>1 DEF JobTypes
    <3>3. job[g].op = "CHECKOUT" /\ (g # h => job'[h] = job[h])
      BY <1>0, <1>5, <3>1 DEF CheckoutReuse, InCheckout, JobTypes
    <3> QED BY <2>2, <3>2, <3>3 DEF JobEffect
  <2> QED BY <2>3, <2>4
<1>6. ASSUME NEW g \in Handlers, Continue(g)
      PROVE  JobEffect(h)
  <2>1. CASE BankClaim(g) \/ VoidWrite(g) \/ AdminWrite(g) \/ CheckoutFail(g)
             \/ CheckoutSave(g) \/ CallbackDone(g) \/ FailureWrite(g)
    BY <1>2, <2>1 DEF BankClaim, VoidWrite, AdminWrite, CheckoutFail, CheckoutSave,
       CallbackDone, FailureWrite
  <2>2. CASE CheckoutSePay(g) \/ CheckoutWrite(g) \/ CheckoutProvider(g)
    BY <1>3, <2>2 DEF CheckoutSePay, CheckoutWrite, CheckoutProvider, InCheckout
  <2>3. CASE CallbackRead(g)
    BY <1>3, <2>3 DEF CallbackRead, InCallback
  <2>4. CASE CallbackClaim(g)
    BY <1>3, <2>4 DEF CallbackClaim, InCallback
  <2>5. CASE CallbackRefund(g) \/ CallbackReport(g)
    BY <1>3, <2>5 DEF CallbackRefund, CallbackReport, InCallback
  <2> QED BY <1>4, <1>5, <1>6, <2>1, <2>2, <2>3, <2>4, <2>5 DEF Continue
<1>7. ASSUME NEW o \in Orders, Instant(o)
      PROVE  JobEffect(h)
  BY <1>7 DEF Instant, CreateOrder, Cancel, ExpireUnpaid, CloseUnpaid, GetOverdue, Transfer,
     LinkEnds, CallbackNotFound, CallbackDuplicate, JobEffect
<1> QED BY <1>1, <1>2, <1>6, <1>7 DEF Next, CallbackError, Crash, vars, JobEffect

(* What requests remember stays true while others write. *)
LEMMA JobFactsStep ==
    ASSUME TypeOK, NewOrders, JobFacts, Effect, [Next]_vars
    PROVE  JobFacts'
<1> SUFFICES ASSUME NEW h \in Handlers PROVE JobFact(job[h])'
  BY DEF JobFacts
<1>1. JobTypes
  BY DEF TypeOK
<1>2. JobFact(job[h]) /\ (job[h].op # "IDLE" => job[h].order \in Orders)
  BY <1>1, JobFields DEF JobFacts, JobTypes, Job, IdleJob, ClaimJob, AdminJob, CheckoutJob,
     CallbackJob, FailureJob
<1>3. ASSUME NEW j, j.op # "IDLE" => j.order \in Orders, JobFact(j)
      PROVE  /\ j.op # "IDLE" => status'[j.order] # "NONE"
             /\ j.op = "ADMIN" => /\ j.to # "CREATED"
                                  /\ j.collected => paymentStatus'[j.order] = "PAID"
  BY <1>3, Monotone DEF JobFact
<1> QED BY <1>2, <1>3, JobEffects DEF JobEffect, JobFact, Idle

(* No step adds a second outcome to an order. *)
LEMMA OutcomeStep ==
    ASSUME TypeOK, NewOrders, JobFacts, OutcomeFacts, Effect
    PROVE  OutcomeFacts'
<1> SUFFICES ASSUME NEW o \in Orders
             PROVE  \A a, b \in orderEvents'[o] \cap Outcomes : a = b /\ ~Unpaid(o)'
  BY DEF OutcomeFacts
<1>0. \A a, b \in orderEvents[o] \cap Outcomes : a = b /\ ~Unpaid(o)
  BY DEF OutcomeFacts
<1>t. OrderTypes /\ CouponTypes /\ LogTypes /\ JobTypes
  BY DEF TypeOK
<1>1. ASSUME NEW c \in Coupons \cup {NoCoupon}, CreateOrder(o, c)
      PROVE  orderEvents'[o] = {}
  BY <1>1 DEF CreateOrder, NewOrders
<1>2. CASE Closing(o) \/ Paying(o)
  <2>1. orderEvents[o] \cap Outcomes = {}
    BY <1>0, <1>2 DEF Closing, Paying
  <2>2. status'[o] # "CREATED"
    BY <1>2, <1>t DEF Closing, CloseUnpaid, Paying, MarkPaid, OrderTypes
  <2>3. \E e : orderEvents'[o] = orderEvents[o] \cup {e}
    BY <1>2, <1>t DEF Closing, CloseUnpaid, Paying, MarkPaid, LogTypes, Note
  <2> QED BY <2>1, <2>2, <2>3 DEF Unpaid
<1>3. ASSUME NEW h \in Handlers, job[h].order = o, VoidWrite(h)
      PROVE  \A a, b \in orderEvents'[o] \cap Outcomes : a = b /\ ~Unpaid(o)'
  <2>1. status'[o] = status[o] \/ status'[o] = "CANCELLED"
    BY <1>3, <1>t DEF VoidWrite, OrderTypes
  <2>2. paymentStatus'[o] = paymentStatus[o]
    BY <1>3 DEF VoidWrite
  <2>3. \/ orderEvents'[o] = orderEvents[o]
        \/ orderEvents'[o] = orderEvents[o] \cup {"PAYMENT_CANCELLED"}
    BY <1>3, <1>t DEF VoidWrite, LogTypes, Note
  <2> QED BY <1>0, <2>1, <2>2, <2>3 DEF Outcomes, Unpaid
<1>4. ASSUME NEW h \in Handlers, job[h].order = o, AdminWrite(h)
      PROVE  \A a, b \in orderEvents'[o] \cap Outcomes : a = b /\ ~Unpaid(o)'
  <2>1. status'[o] # "CREATED"
    BY <1>4, <1>t DEF AdminWrite, OrderTypes, JobFacts, JobFact
  <2>2. orderEvents'[o] = orderEvents[o] \cup {"STATUS_CHANGED"}
    BY <1>4, <1>t DEF AdminWrite, LogTypes, Note
  <2> QED BY <1>0, <2>1, <2>2 DEF Outcomes, Unpaid
<1>5. CASE SameOrder(o)
  BY <1>0, <1>5 DEF SameOrder, Unpaid
<1> QED BY <1>1, <1>2, <1>3, <1>4, <1>5, EffectOnEach DEF EffectOn

(* Every write that cancels an unpaid order releases its coupon. *)
LEMMA ReleasedStep ==
    ASSUME TypeOK, JobFacts, ReleasedIfUnpaid, Effect
    PROVE  ReleasedIfUnpaid'
<1> SUFFICES ASSUME NEW o \in Orders, status'[o] = "CANCELLED", paymentStatus'[o] # "PAID"
             PROVE  redemption'[o] = NoCoupon
  BY DEF ReleasedIfUnpaid
<1>t. OrderTypes /\ CouponTypes
  BY DEF TypeOK
<1>0. ReleaseCoupon(o) => redemption'[o] = NoCoupon
  BY <1>t DEF ReleaseCoupon, CouponTypes
<1>1. ASSUME NEW c \in Coupons \cup {NoCoupon}, CreateOrder(o, c) PROVE FALSE
  BY <1>1, <1>t DEF CreateOrder, OrderTypes
<1>2. CASE Closing(o)
  BY <1>0, <1>2 DEF Closing, CloseUnpaid
<1>3. CASE Paying(o)
  BY <1>3, <1>t DEF Paying, MarkPaid, OrderTypes
<1>4. ASSUME NEW h \in Handlers, job[h].order = o, VoidWrite(h)
      PROVE  redemption'[o] = NoCoupon
  BY <1>0, <1>4 DEF VoidWrite, ReleasedIfUnpaid, couponVars
<1>5. ASSUME NEW h \in Handlers, job[h].order = o, AdminWrite(h)
      PROVE  redemption'[o] = NoCoupon
  <2>1. job[h].to = "CANCELLED" /\ ~job[h].collected
    BY <1>5, <1>t DEF AdminWrite, OrderTypes, JobFacts, JobFact
  <2> QED BY <1>0, <1>5, <2>1 DEF AdminWrite, AdminReleases
<1>6. CASE SameOrder(o)
  BY <1>6 DEF SameOrder, ReleasedIfUnpaid
<1> QED BY <1>1, <1>2, <1>3, <1>4, <1>5, <1>6, EffectOnEach DEF EffectOn

-----------------------------------------------------------------------------
(* The use counter of a coupon *)

(* Finitely many orders hold a coupon. *)
LEMMA HoldersFinite ==
    ASSUME NEW c PROVE IsFiniteSet(Holders(c)) /\ Cardinality(Holders(c)) \in Nat
<1>1. Holders(c) \subseteq Orders
  BY DEF Holders
<1> QED BY <1>1, OrdersAssumption, FS_Subset, FS_CardinalityType

(* The conditional UPDATE of create keeps count and limit. *)
LEMMA ClaimCounts ==
    ASSUME CouponTypes, CouponAccounting, NEW o \in Orders, NEW c \in Coupons,
           redemption[o] = NoCoupon, CouponFree(c),
           usedCount' = [usedCount EXCEPT ![c] = @ + 1],
           redemption' = [redemption EXCEPT ![o] = c]
    PROVE  CouponAccounting'
<1> SUFFICES ASSUME NEW d \in Coupons
             PROVE  usedCount'[d] = Cardinality(Holders(d)') /\ usedCount'[d] <= UsageLimit[d]
  BY DEF CouponAccounting
<1>1. UsageLimit[d] \in Nat /\ usedCount[d] \in Nat
      /\ usedCount[d] = Cardinality(Holders(d)) /\ usedCount[d] <= UsageLimit[d]
  BY CouponAssumption DEF CouponTypes, CouponAccounting
<1>2. CASE d = c
  <2>1. Holders(d)' = Holders(d) \cup {o} /\ o \notin Holders(d)
    BY <1>2, CouponAssumption DEF CouponTypes, Holders
  <2>2. Cardinality(Holders(d)') = Cardinality(Holders(d)) + 1
    BY <2>1, HoldersFinite, FS_AddElement
  <2> QED BY <1>1, <1>2, <2>2 DEF CouponFree, CouponTypes
<1>3. CASE d # c
  <2>1. Holders(d)' = Holders(d) /\ usedCount'[d] = usedCount[d]
    BY <1>3, CouponAssumption DEF CouponTypes, Holders
  <2> QED BY <1>1, <2>1
<1> QED BY <1>2, <1>3

(* So does the release, whether or not the order holds a coupon. *)
LEMMA ReleaseCounts ==
    ASSUME CouponTypes, CouponAccounting, NEW o \in Orders, ReleaseCoupon(o)
    PROVE  CouponAccounting'
<1> SUFFICES ASSUME NEW d \in Coupons
             PROVE  usedCount'[d] = Cardinality(Holders(d)') /\ usedCount'[d] <= UsageLimit[d]
  BY DEF CouponAccounting
<1>1. UsageLimit[d] \in Nat /\ usedCount[d] \in Nat
      /\ usedCount[d] = Cardinality(Holders(d)) /\ usedCount[d] <= UsageLimit[d]
  BY CouponAssumption DEF CouponTypes, CouponAccounting
<1>2. CASE redemption[o] = d
  <2>1. Holders(d)' = Holders(d) \ {o} /\ o \in Holders(d)
    BY <1>2, CouponAssumption DEF CouponTypes, Holders, ReleaseCoupon
  <2>2. Cardinality(Holders(d)') = Cardinality(Holders(d)) - 1
    BY <2>1, HoldersFinite, FS_RemoveElement
  <2>3. Holders(d) # {}
    BY <2>1
  <2>4. Cardinality(Holders(d)) # 0
    BY <2>3, HoldersFinite, FS_EmptySet
  <2>5. usedCount'[d] = usedCount[d] - 1
    BY <1>1, <1>2, <2>4, CouponAssumption DEF ReleaseCoupon, CouponTypes
  <2> QED BY <1>1, <2>2, <2>4, <2>5
<1>3. CASE redemption[o] # d
  <2>1. Holders(d)' = Holders(d) /\ usedCount'[d] = usedCount[d]
    BY <1>3, CouponAssumption DEF CouponTypes, Holders, ReleaseCoupon
  <2> QED BY <1>1, <2>1
<1> QED BY <1>2, <1>3

(* Every step keeps the count. *)
LEMMA CountsStep ==
    ASSUME TypeOK, NewOrders, CouponAccounting, Effect
    PROVE  CouponAccounting'
<1>t. CouponTypes /\ JobTypes
  BY DEF TypeOK
<1>0. UNCHANGED couponVars => CouponAccounting'
  BY DEF couponVars, CouponAccounting, Holders
<1>1. ASSUME NEW o \in Orders, NEW c \in Coupons \cup {NoCoupon}, CreateOrder(o, c)
      PROVE  CouponAccounting'
  <2>1. redemption[o] = NoCoupon
    BY <1>1 DEF CreateOrder, NewOrders
  <2> QED BY <1>t, <1>0, <1>1, <2>1, ClaimCounts DEF CreateOrder
<1>2. ASSUME NEW o \in Orders, Closing(o) PROVE CouponAccounting'
  BY <1>t, <1>2, ReleaseCounts DEF Closing, CloseUnpaid
<1>3. ASSUME NEW o \in Orders, Paying(o) PROVE CouponAccounting'
  BY <1>0, <1>3 DEF Paying, couponVars
<1>4. ASSUME NEW h \in Handlers, VoidWrite(h) \/ AdminWrite(h) PROVE CouponAccounting'
  <2>1. job[h].order \in Orders
    BY <1>t, <1>4, JobFields DEF VoidWrite, AdminWrite
  <2>2. ReleaseCoupon(job[h].order) \/ UNCHANGED couponVars
    BY <1>4 DEF VoidWrite, AdminWrite
  <2> QED BY <1>t, <1>0, <2>1, <2>2, ReleaseCounts
<1>5. CASE Quiet
  BY <1>0, <1>5 DEF Quiet, SameOrders, couponVars
<1> QED BY <1>1, <1>2, <1>3, <1>4, <1>5 DEF Effect

-----------------------------------------------------------------------------
(* The theorems *)

SafetyInv == OrderInv /\ ReleasedIfUnpaid /\ CouponAccounting

(* The empty shop satisfies the invariant. *)
LEMMA SafetyInit == Init => SafetyInv
<1> SUFFICES ASSUME Init PROVE SafetyInv
  OBVIOUS
<1>1. TypeOK
  BY TypeInit
<1>2. NewOrders /\ JobFacts /\ OutcomeFacts /\ ReleasedIfUnpaid
  BY DEF Init, NewOrders, JobFacts, JobFact, Idle, OutcomeFacts, ReleasedIfUnpaid
<1>3. ASSUME NEW c \in Coupons
      PROVE  usedCount[c] = Cardinality(Holders(c)) /\ usedCount[c] <= UsageLimit[c]
  <2>1. Holders(c) = {}
    BY CouponAssumption DEF Init, Holders
  <2>2. usedCount[c] = 0 /\ UsageLimit[c] \in Nat
    BY CouponAssumption DEF Init
  <2> QED BY <2>1, <2>2, FS_EmptySet
<1> QED BY <1>1, <1>2, <1>3 DEF SafetyInv, OrderInv, CouponAccounting

(* The invariant is inductive. *)
LEMMA SafetyStep == SafetyInv /\ [Next]_vars => SafetyInv'
<1> SUFFICES ASSUME SafetyInv, [Next]_vars PROVE SafetyInv'
  OBVIOUS
<1>1. TypeOK /\ NewOrders /\ JobFacts /\ OutcomeFacts /\ ReleasedIfUnpaid /\ CouponAccounting
  BY DEF SafetyInv, OrderInv
<1>2. Effect
  BY <1>1, Effects
<1>3. TypeOK'
  BY <1>1, TypeStep
<1>4. NewOrders' /\ JobFacts' /\ OutcomeFacts'
  BY <1>1, <1>2, NewOrdersStep, JobFactsStep, OutcomeStep
<1>5. ReleasedIfUnpaid' /\ CouponAccounting'
  BY <1>1, <1>2, ReleasedStep, CountsStep
<1> QED BY <1>3, <1>4, <1>5 DEF SafetyInv, OrderInv

(* It holds in every reachable state. *)
LEMMA SafetyInvariant == Spec => []SafetyInv
BY SafetyInit, SafetyStep, PTL DEF Spec

(* The use counter of every coupon is the number of orders that hold it and *)
(* stays within the limit, for any number of orders and requests.           *)
THEOREM CouponsCounted == Spec => []CouponAccounting
<1>1. SafetyInv => CouponAccounting
  BY DEF SafetyInv
<1> QED BY <1>1, SafetyInvariant, PTL

(* No order cancelled without payment keeps its coupon, whoever cancels it. *)
THEOREM UnpaidReleased == Spec => []ReleasedIfUnpaid
<1>1. SafetyInv => ReleasedIfUnpaid
  BY DEF SafetyInv
<1> QED BY <1>1, SafetyInvariant, PTL

(* Payment, the customer's cancellation and the cron exclude each other.    *)
THEOREM OutcomesExclusive == Spec => []OneOutcome
<1>1. OutcomeFacts => OneOutcome
  <2> SUFFICES ASSUME OutcomeFacts, NEW o \in Orders
               PROVE  Cardinality(orderEvents[o] \cap Outcomes) <= 1
    BY DEF OneOutcome, Outcomes
  <2>1. CASE orderEvents[o] \cap Outcomes = {}
    BY <2>1, FS_EmptySet
  <2>2. ASSUME NEW a \in orderEvents[o] \cap Outcomes
        PROVE  Cardinality(orderEvents[o] \cap Outcomes) <= 1
    <3>1. orderEvents[o] \cap Outcomes = {a}
      BY DEF OutcomeFacts
    <3>2. Cardinality({a}) = 1
      BY FS_Singleton
    <3> QED BY <3>1, <3>2
  <2> QED BY <2>1, <2>2
<1>2. SafetyInv => OneOutcome
  BY <1>1 DEF SafetyInv, OrderInv
<1> QED BY <1>2, SafetyInvariant, PTL

\* The orders that exist, as the pool of coupons sees them.
Placed == {o \in Orders : status[o] # "NONE"}

(* The pool counts with the same Cardinality. *)
LEMMA PoolCardinality == \A S : Pool!Cardinality(S) = Cardinality(S)
BY DEF Cardinality, Pool!Cardinality

(* Every step is a step of the pool of coupons or leaves it alone. *)
LEMMA PoolStep ==
    ASSUME SafetyInv, [Next]_vars
    PROVE  [Pool!PoolNext]_(Pool!poolVars)
<1>t. TypeOK /\ NewOrders /\ JobFacts /\ CouponAccounting
      /\ OrderTypes /\ CouponTypes /\ JobTypes
  BY DEF SafetyInv, OrderInv, TypeOK
<1>0. Effect
  BY <1>t, Effects
<1>1. ASSUME NEW o \in Orders, ReleaseCoupon(o) \/ redemption' = redemption, status[o] # "NONE",
             \E s : s # "NONE" /\ status' = [status EXCEPT ![o] = s]
      PROVE  Pool!PoolNext \/ UNCHANGED Pool!poolVars
  <2>1. Placed' = Placed
    BY <1>t, <1>1 DEF Placed, OrderTypes
  <2>2. CASE redemption[o] = NoCoupon
    <3>1. redemption' = redemption
      BY <1>t, <1>1, <2>2 DEF ReleaseCoupon, CouponTypes
    <3> QED BY <2>1, <3>1 DEF Pool!poolVars, Placed
  <2>3. CASE redemption[o] # NoCoupon
    BY <1>1, <2>1, <2>3 DEF ReleaseCoupon, Placed, Pool!PoolNext, Pool!Return, Pool!poolVars
  <2> QED BY <2>2, <2>3
<1>2. ASSUME NEW o \in Orders, NEW c \in Coupons \cup {NoCoupon}, CreateOrder(o, c)
      PROVE  Pool!PoolNext
  <2>1. o \notin Placed /\ Placed' = Placed \cup {o}
    BY <1>t, <1>2 DEF Placed, CreateOrder, OrderTypes
  <2>2. redemption' = [redemption EXCEPT ![o] = c]
    BY <1>t, <1>2 DEF CreateOrder, NewOrders, CouponTypes, couponVars
  <2>3. c # NoCoupon => Cardinality(Holders(c)) < UsageLimit[c]
    BY <1>t, <1>2 DEF CreateOrder, CouponFree, CouponAccounting
  <2>4. Pool!Place(o, c)
    BY <2>1, <2>2, <2>3, PoolCardinality DEF Pool!Place, Pool!Holders, Holders, Placed
  <2> QED BY <2>4 DEF Pool!PoolNext
<1>3. ASSUME NEW o \in Orders, Closing(o) \/ Paying(o)
      PROVE  Pool!PoolNext \/ UNCHANGED Pool!poolVars
  BY <1>1, <1>3 DEF Closing, CloseUnpaid, Paying, MarkPaid, Unpaid
<1>4. ASSUME NEW h \in Handlers, AdminWrite(h)
      PROVE  Pool!PoolNext \/ UNCHANGED Pool!poolVars
  <2>1. /\ job[h].order \in Orders /\ status[job[h].order] # "NONE"
        /\ job[h].to \in PhaseStatus
    BY <1>t, <1>4, JobFields DEF AdminWrite, JobFacts, JobFact
  <2>2. job[h].to # "NONE"
    BY <2>1 DEF PhaseStatus
  <2> QED BY <1>1, <1>4, <2>1, <2>2 DEF AdminWrite, couponVars
<1>5. ASSUME NEW h \in Handlers, VoidWrite(h)
      PROVE  Pool!PoolNext \/ UNCHANGED Pool!poolVars
  <2>1. job[h].order \in Orders /\ status[job[h].order] # "NONE"
    BY <1>t, <1>5, JobFields DEF VoidWrite, JobFacts, JobFact
  <2>2. CASE status' = status /\ redemption' = redemption
    BY <2>2 DEF Pool!poolVars
  <2>3. CASE ~(status' = status /\ redemption' = redemption)
    BY <1>1, <1>5, <2>1, <2>3 DEF VoidWrite, couponVars
  <2> QED BY <2>2, <2>3
<1>6. CASE Quiet
  BY <1>6 DEF Quiet, SameOrders, Pool!poolVars
<1> QED BY <1>0, <1>2, <1>3, <1>4, <1>5, <1>6 DEF Effect

(* Orders, redemptions and the use counter implement the pool of coupons.   *)
THEOREM PoolRefined == Spec => ImplementsCouponPool
<1>1. Init => Pool!PoolInit
  BY DEF Init, Pool!PoolInit
<1>2. SafetyInv /\ [Next]_vars => [Pool!PoolNext]_(Pool!poolVars)
  BY PoolStep
<1> QED BY <1>1, <1>2, SafetyInvariant, PTL DEF Spec, ImplementsCouponPool, Pool!PoolSpec

-----------------------------------------------------------------------------
(* Money: an order is paid once, and recorded money stays.  A row is PAID only by a claim,
   which finds the order Unpaid and therefore without money; every other write meets a row
   that waits, or one that never holds money (RowEffects).  What a request about to claim
   relies on stays true while others write (MoneyFacts). *)
\* The rows of an order: which links they may carry, and what is collected on them.
RowFact(o) ==
    /\ \A r \in {"VOIDED", "CONFIRMED"} : rows[o][r].link = NoLink
    /\ rows[o]["VOIDED"].status \in {"NONE", "EXPIRED"}
    /\ rows[o]["CONFIRMED"].status \in {"NONE", "PAID"}
    /\ \A l \in Links : \/ rows[o][l].link = l
                        \/ rows[o][l].link = NoLink /\ rows[o][l].status = "NONE"
    /\ status[o] = "NONE" => \A r \in RowIds : rows[o][r].status = "NONE"
    /\ \A r \in RowIds : rows[o][r].status = "REFUND_REQUIRED" => ~Unpaid(o)
RowFacts == \A o \in Orders : RowFact(o)

\* What a request about to write money or a link relies on.
MoneyFact(j) ==
    /\ j.op = "BANK" => transfer[j.order] = "EXACT"
    /\ j.op = "MANUAL" => transfer[j.order] # "NONE"
    /\ j.op = "CHECKOUT" /\ j.at = "WRITE" =>
          /\ j.link \in Links /\ j.row \in {"PLACEHOLDER", j.link}
          /\ \A r \in RowIds : rows[j.order][r].link # j.link
    /\ j.op = "CALLBACK" =>
          /\ provider[j.order][j.link] = "COLLECTED"
          /\ j.row \in {"PLACEHOLDER", j.link}
          /\ j.row \in Links => rows[j.order][j.row].link = j.row
          /\ j.at \in {"INVALID", "DUPLICATE"} => ~Unpaid(j.order)

\* Nobody else has the link a checkout is about to write.
OwnLinks ==
    \A g, h \in Handlers :
       /\ g # h /\ job[g].op = "CHECKOUT" /\ job[h].op = "CHECKOUT"
       /\ job[g].order = job[h].order /\ job[g].at = "WRITE"
       => job[h].link # job[g].link
MoneyFacts == (\A h \in Handlers : MoneyFact(job[h])) /\ OwnLinks

-----------------------------------------------------------------------------
(* What a step can do to the payment rows of an order *)

\* A row keeps its link and its money; it may stop waiting.
Keeps(old, new) ==
    /\ new.link = old.link
    /\ \/ new.status = old.status /\ new.txn = old.txn
       \/ old.status = "PENDING" /\ new.status \in {"EXPIRED", "FAILED"}

PaidAsBefore(o) == paymentStatus'[o] = "PAID" <=> paymentStatus[o] = "PAID"

\* The other rows of the order are left alone.
OnlyRow(o, r) == \A q \in RowIds \ {r} : rows'[o][q] = rows[o][q]

\* No row collects money, except one that waited and is owed back.
Waits(o) ==
    /\ PaidAsBefore(o)
    /\ \A r \in RowIds :
         \/ Keeps(rows[o][r], rows'[o][r])
         \/ /\ ~Unpaid(o) /\ rows[o][r].status = "PENDING"
            /\ rows'[o][r].status = "REFUND_REQUIRED" /\ rows'[o][r].link = rows[o][r].link

\* The order and its placeholder come to be.
Placing(o) ==
    /\ status[o] = "NONE" /\ status'[o] = "CREATED" /\ paymentStatus'[o] = "PENDING"
    /\ OnlyRow(o, "PLACEHOLDER")
    /\ rows'[o]["PLACEHOLDER"].status = "PENDING"

\* A claim: the order was Unpaid and one row records the money that pays it.
Claiming(o) ==
    /\ Unpaid(o) /\ status'[o] # "NONE" /\ paymentStatus'[o] = "PAID"
    /\ \E r \in RowIds, money \in Links \cup NotALink :
         /\ r # "VOIDED" /\ (r \in Links => rows[o][r].link = r)
         /\ Arrived(o, money)
         /\ rows'[o][r] = Settled(rows[o][r], "PAID", money)
         /\ OnlyRow(o, r)

\* The row of a voided transaction is written.
Voiding(o) ==
    /\ status[o] # "NONE" /\ PaidAsBefore(o)
    /\ rows'[o]["VOIDED"] = Settled(rows[o]["VOIDED"], "EXPIRED", "VOID")
    /\ OnlyRow(o, "VOIDED")

\* A request gives the placeholder, or a row of its own, the link it holds.
Linking(o) ==
    /\ status[o] # "NONE" /\ PaidAsBefore(o)
    /\ \E h \in Handlers : \E l \in Links, r \in RowIds :
         /\ job[h].op = "CHECKOUT" /\ job[h].at = "WRITE"
         /\ job[h].order = o /\ job[h].link = l /\ job'[h].at # "WRITE"
         /\ \A q \in RowIds : rows[o][q].link # l
         /\ rows'[o][r].link = l /\ OnlyRow(o, r)
         /\ \/ /\ r = "PLACEHOLDER"
               /\ rows'[o][r].status = rows[o][r].status
               /\ rows'[o][r].txn = rows[o][r].txn
            \/ r = l /\ rows'[o][r].status = "PENDING"

RowEffect(o) == Waits(o) \/ Placing(o) \/ Claiming(o) \/ Voiding(o) \/ Linking(o)

(* Writing one row by id leaves every other row of every order alone. *)
LEMMA OneRow ==
    ASSUME RowTypes, NEW p \in Orders, NEW r \in RowIds, NEW row, SetRow(p, r, row)
    PROVE  /\ rows'[p][r] = row /\ OnlyRow(p, r)
           /\ \A o \in Orders \ {p} : rows'[o] = rows[o]
BY DEF RowTypes, SetRow, OnlyRow

(* Rows and payment untouched: the order waits. *)
LEMMA Untouched ==
    ASSUME NEW o \in Orders, rows'[o] = rows[o], paymentStatus'[o] = paymentStatus[o]
    PROVE  Waits(o)
BY DEF Waits, PaidAsBefore, Keeps

(* One row is kept or stops waiting: every order waits. *)
LEMMA OneRowWaits ==
    ASSUME RowTypes, NEW p \in Orders, NEW r \in RowIds, NEW row, SetRow(p, r, row),
           UNCHANGED paymentStatus, Keeps(rows[p][r], row), NEW o \in Orders
    PROVE  Waits(o)
<1>1. CASE o = p
  BY <1>1, OneRow DEF Waits, PaidAsBefore, Keeps, OnlyRow
<1>2. CASE o # p
  BY <1>2, OneRow, Untouched
<1> QED BY <1>1, <1>2

(* A row that waits is failed by id. *)
LEMMA FailingWaits ==
    ASSUME RowTypes, NEW p \in Orders, NEW r \in RowIds, FailIfWaiting(p, r),
           UNCHANGED paymentStatus, NEW o \in Orders
    PROVE  Waits(o)
<1>1. CASE rows[p][r].status = "PENDING"
  <2>1. rows[p][r] \in Row
    BY DEF RowTypes
  <2>2. Keeps(rows[p][r], WithStatus(rows[p][r], "FAILED"))
    BY <1>1, <2>1 DEF Keeps, WithStatus, Row
  <2>3. SetRow(p, r, WithStatus(rows[p][r], "FAILED"))
    BY <1>1 DEF FailIfWaiting
  <2> QED BY <2>2, <2>3, OneRowWaits
<1>2. CASE rows[p][r].status # "PENDING"
  BY <1>2, Untouched DEF FailIfWaiting
<1> QED BY <1>1, <1>2

(* The open rows of an order expire with it. *)
LEMMA ExpiringWaits ==
    ASSUME RowTypes, NEW p \in Orders, rows' = [rows EXCEPT ![p] = ExpireOpenRows(p)],
           NEW o \in Orders, PaidAsBefore(o)
    PROVE  Waits(o)
<1>1. CASE o = p
  <2>1. ASSUME NEW r \in RowIds PROVE Keeps(rows[o][r], rows'[o][r])
    <3>1. rows[o][r] \in Row
      BY DEF RowTypes
    <3>2. rows'[o][r] = IF OpenRow(rows[o][r]) THEN WithStatus(rows[o][r], "EXPIRED")
                        ELSE rows[o][r]
      BY <1>1 DEF RowTypes, ExpireOpenRows
    <3> QED BY <3>1, <3>2 DEF Keeps, WithStatus, Row, OpenRow
  <2> QED BY <2>1 DEF Waits
<1>2. CASE o # p
  BY <1>2 DEF RowTypes, Waits, Keeps
<1> QED BY <1>1, <1>2

(* Closing an unpaid order: its rows expire. *)
LEMMA ClosingRows ==
    ASSUME TypeOK, NEW p \in Orders, Cancel(p) \/ ExpireUnpaid(p), NEW o \in Orders
    PROVE  RowEffect(o)
<1>1. RowTypes /\ OrderTypes
  BY DEF TypeOK
<1>2. rows' = [rows EXCEPT ![p] = ExpireOpenRows(p)]
  BY DEF Cancel, ExpireUnpaid, CloseUnpaid
<1>3. PaidAsBefore(o)
  BY <1>1 DEF Cancel, ExpireUnpaid, CloseUnpaid, Unpaid, OrderTypes, PaidAsBefore
<1> QED BY <1>1, <1>2, <1>3, ExpiringWaits DEF RowEffect

(* create writes the placeholder of a new order. *)
LEMMA PlacingRows ==
    ASSUME TypeOK, NEW p \in Orders, NEW c \in Coupons \cup {NoCoupon}, CreateOrder(p, c),
           NEW o \in Orders
    PROVE  RowEffect(o)
<1>1. RowTypes /\ OrderTypes /\ "PLACEHOLDER" \in RowIds
  BY DEF TypeOK, RowIds, ServerRows
<1>2. SetRow(p, "PLACEHOLDER", [NoRow EXCEPT !.status = "PENDING"])
  BY DEF CreateOrder
<1>3. /\ rows'[p]["PLACEHOLDER"] = [NoRow EXCEPT !.status = "PENDING"]
      /\ OnlyRow(p, "PLACEHOLDER") /\ \A q \in Orders \ {p} : rows'[q] = rows[q]
  BY <1>1, <1>2, OneRow
<1>4. CASE o = p
  BY <1>1, <1>3, <1>4 DEF CreateOrder, OrderTypes, NoRow, Placing, RowEffect
<1>5. CASE o # p
  BY <1>1, <1>3, <1>5, Untouched DEF CreateOrder, OrderTypes, RowEffect
<1> QED BY <1>4, <1>5

(* A claim pays one order, on one row. *)
LEMMA ClaimingRows ==
    ASSUME TypeOK, NEW p \in Orders, Unpaid(p), MarkPaid(p), NEW r \in RowIds,
           NEW money \in Links \cup NotALink, SetRow(p, r, Settled(rows[p][r], "PAID", money)),
           r # "VOIDED", r \in Links => rows[p][r].link = r, Arrived(p, money),
           NEW o \in Orders
    PROVE  RowEffect(o)
<1>1. RowTypes /\ OrderTypes
  BY DEF TypeOK
<1>2. /\ rows'[p][r] = Settled(rows[p][r], "PAID", money)
      /\ OnlyRow(p, r) /\ \A q \in Orders \ {p} : rows'[q] = rows[q]
  BY <1>1, OneRow
<1>3. CASE o = p
  BY <1>1, <1>2, <1>3 DEF MarkPaid, OrderTypes, Claiming, RowEffect
<1>4. CASE o # p
  BY <1>1, <1>2, <1>4, Untouched DEF MarkPaid, OrderTypes, RowEffect
<1> QED BY <1>3, <1>4

(* The money of a bank notification, or of an administrator, has arrived. *)
LEMMA BankRows ==
    ASSUME TypeOK, MoneyFacts, NEW h \in Handlers, BankClaim(h), NEW o \in Orders
    PROVE  RowEffect(o)
<1> DEFINE p == job[h].order
<1>1. RowTypes /\ JobTypes /\ p \in Orders
  BY JobFields DEF TypeOK, BankClaim
<1>2. CASE Unpaid(p)
  <2>1. /\ BankRow(p) \in RowIds /\ BankRow(p) # "VOIDED" /\ BankRow(p) \notin Links
    BY LinksAssumption DEF BankRow, RowIds, ServerRows
  <2>2. job[h].op \in Links \cup NotALink /\ Arrived(p, job[h].op)
    BY LinksAssumption DEF BankClaim, NotALink, MoneyFacts, MoneyFact, Arrived
  <2>3. MarkPaid(p) /\ SetRow(p, BankRow(p), Settled(rows[p][BankRow(p)], "PAID", job[h].op))
    BY <1>2 DEF BankClaim
  <2> QED BY <1>1, <1>2, <2>1, <2>2, <2>3, ClaimingRows
<1>3. CASE ~Unpaid(p)
  BY <1>3, Untouched DEF BankClaim, RowEffect
<1> QED BY <1>2, <1>3

(* So has the money of a link the gateway reports. *)
LEMMA CallbackRows ==
    ASSUME TypeOK, MoneyFacts, NEW h \in Handlers, CallbackClaim(h), NEW o \in Orders
    PROVE  RowEffect(o)
<1> DEFINE p == job[h].order
           r == job[h].row
           l == job[h].link
<1>1. JobTypes /\ p \in Orders /\ r \in RowIds /\ l \in Links
  BY JobFields DEF TypeOK, CallbackClaim, InCallback
<1>2. CASE Unpaid(p)
  <2>1. /\ provider[p][l] = "COLLECTED" /\ r \in {"PLACEHOLDER", l}
        /\ r \in Links => rows[p][r].link = r
    BY DEF CallbackClaim, InCallback, MoneyFacts, MoneyFact
  <2>2. r # "VOIDED"
    BY <1>1, <2>1, LinksAssumption DEF ServerRows
  <2>4. Arrived(p, l)
    <3>1. l # "BANK" /\ l # "MANUAL"
      BY <1>1, LinksAssumption DEF NotALink
    <3> QED BY <1>1, <2>1, <3>1 DEF Arrived
  <2>3. MarkPaid(p) /\ SetRow(p, r, Settled(rows[p][r], "PAID", l))
    BY <1>2 DEF CallbackClaim
  <2> QED BY <1>1, <1>2, <2>1, <2>2, <2>3, <2>4, ClaimingRows
<1>3. CASE ~Unpaid(p)
  BY <1>3, Untouched DEF CallbackClaim, RowEffect
<1> QED BY <1>2, <1>3

(* markRefundRequiredIfCollected meets an order that is not Unpaid. *)
LEMMA RefundRows ==
    ASSUME TypeOK, MoneyFacts, NEW h \in Handlers, CallbackRefund(h), NEW o \in Orders
    PROVE  RowEffect(o)
<1> DEFINE p == job[h].order
           r == job[h].row
<1>1. RowTypes /\ JobTypes /\ p \in Orders /\ r \in RowIds /\ paymentStatus' = paymentStatus
  BY JobFields DEF TypeOK, CallbackRefund, InCallback, orderVars
<1>2. ~Unpaid(p)
  BY DEF CallbackRefund, InCallback, MoneyFacts, MoneyFact
<1>3. CASE rows[p][r].status = "PENDING"
  <2>1. SetRow(p, r, Settled(rows[p][r], "REFUND_REQUIRED", job[h].link))
    BY <1>3 DEF CallbackRefund
  <2>2. /\ rows'[p][r] = Settled(rows[p][r], "REFUND_REQUIRED", job[h].link)
        /\ OnlyRow(p, r) /\ \A q \in Orders \ {p} : rows'[q] = rows[q]
    BY <1>1, <2>1, OneRow
  <2>3. rows[p][r] \in Row
    BY <1>1 DEF RowTypes
  <2>4. rows'[p][r].status = "REFUND_REQUIRED" /\ rows'[p][r].link = rows[p][r].link
    BY <2>2, <2>3 DEF Settled, Row
  <2>5. CASE o = p
    BY <1>1, <1>2, <1>3, <2>2, <2>4, <2>5 DEF Waits, PaidAsBefore, Keeps, OnlyRow, RowEffect
  <2>6. CASE o # p
    BY <1>1, <2>2, <2>6, Untouched DEF RowEffect
  <2> QED BY <2>5, <2>6
<1>4. CASE rows[p][r].status # "PENDING"
  BY <1>1, <1>4, Untouched DEF CallbackRefund, RowEffect
<1> QED BY <1>3, <1>4

(* A voided transaction ends the placeholder that waits, or has a row of its own. *)
LEMMA VoidingRows ==
    ASSUME TypeOK, JobFacts, NEW h \in Handlers, VoidWrite(h), NEW o \in Orders
    PROVE  RowEffect(o)
<1> DEFINE p == job[h].order
<1>1. RowTypes /\ JobTypes /\ p \in Orders /\ paymentStatus' = paymentStatus
      /\ status[p] # "NONE" /\ {"PLACEHOLDER", "VOIDED"} \subseteq RowIds
  BY JobFields DEF TypeOK, VoidWrite, JobFacts, JobFact, RowIds, ServerRows
<1>2. CASE "PAYMENT_CANCELLED" \in orderEvents[p]
  BY <1>1, <1>2, Untouched DEF VoidWrite, RowEffect
<1>3. CASE "PAYMENT_CANCELLED" \notin orderEvents[p] /\ OpenUnlinkedRow(rows[p]["PLACEHOLDER"])
  <2>1. SetRow(p, "PLACEHOLDER", Settled(rows[p]["PLACEHOLDER"], "EXPIRED", "VOID"))
    BY <1>3 DEF VoidWrite
  <2>2. rows[p]["PLACEHOLDER"] \in Row
    BY <1>1 DEF RowTypes
  <2>3. Keeps(rows[p]["PLACEHOLDER"], Settled(rows[p]["PLACEHOLDER"], "EXPIRED", "VOID"))
    BY <1>3, <2>2 DEF Keeps, Settled, Row, OpenUnlinkedRow
  <2> QED BY <1>1, <2>1, <2>3, OneRowWaits DEF RowEffect
<1>4. CASE "PAYMENT_CANCELLED" \notin orderEvents[p] /\ ~OpenUnlinkedRow(rows[p]["PLACEHOLDER"])
  <2>1. SetRow(p, "VOIDED", Settled(rows[p]["VOIDED"], "EXPIRED", "VOID"))
    BY <1>4 DEF VoidWrite
  <2>2. /\ rows'[p]["VOIDED"] = Settled(rows[p]["VOIDED"], "EXPIRED", "VOID")
        /\ OnlyRow(p, "VOIDED") /\ \A q \in Orders \ {p} : rows'[q] = rows[q]
    BY <1>1, <2>1, OneRow
  <2>3. CASE o = p
    BY <1>1, <2>2, <2>3 DEF Voiding, PaidAsBefore, RowEffect
  <2>4. CASE o # p
    BY <1>1, <2>2, <2>4, Untouched DEF RowEffect
  <2> QED BY <2>3, <2>4
<1> QED BY <1>2, <1>3, <1>4

(* A checkout writes its link on the placeholder or on a new row. *)
LEMMA LinkingRows ==
    ASSUME TypeOK, JobFacts, MoneyFacts, NEW h \in Handlers, CheckoutWrite(h), NEW o \in Orders
    PROVE  RowEffect(o)
<1> DEFINE p == job[h].order
           r == job[h].row
           l == job[h].link
<1>1. RowTypes /\ JobTypes /\ p \in Orders /\ r \in RowIds /\ paymentStatus' = paymentStatus
      /\ status[p] # "NONE"
  BY JobFields DEF TypeOK, CheckoutWrite, InCheckout, JobFacts, JobFact, orderVars
<1>2. /\ l \in Links /\ r \in {"PLACEHOLDER", l} /\ \A q \in RowIds : rows[p][q].link # l
      /\ job[h].op = "CHECKOUT" /\ job[h].at = "WRITE"
  BY DEF CheckoutWrite, InCheckout, MoneyFacts, MoneyFact
<1>3. job'[h].at # "WRITE"
  <2>1. job[h] \in CheckoutJob
    BY <1>1, <1>2, JobKinds DEF JobTypes
  <2> QED BY <1>1, <2>1 DEF CheckoutWrite, GoTo, JobTypes, CheckoutJob
<1>4. PICK row : /\ SetRow(p, r, row) /\ row.link = l
                 /\ \/ /\ r = "PLACEHOLDER"
                       /\ row.status = rows[p][r].status /\ row.txn = rows[p][r].txn
                    \/ r = l /\ row.status = "PENDING"
  <2>1. rows[p][r] \in Row
    BY <1>1 DEF RowTypes
  <2>2. CASE r = "PLACEHOLDER"
    <3>1. SetRow(p, r, [rows[p][r] EXCEPT !.link = l, !.url = FALSE])
      BY <2>2 DEF CheckoutWrite
    <3>2. LET row == [rows[p][r] EXCEPT !.link = l, !.url = FALSE]
          IN  row.link = l /\ row.status = rows[p][r].status /\ row.txn = rows[p][r].txn
      BY <2>1 DEF Row
    <3> QED BY <2>2, <3>1, <3>2
  <2>3. CASE r # "PLACEHOLDER"
    <3>1. SetRow(p, r, [NoRow EXCEPT !.link = l, !.status = "PENDING"])
      BY <2>3 DEF CheckoutWrite
    <3>2. LET row == [NoRow EXCEPT !.link = l, !.status = "PENDING"]
          IN  row.link = l /\ row.status = "PENDING"
      BY DEF NoRow
    <3> QED BY <1>2, <2>3, <3>1, <3>2
  <2> QED BY <2>2, <2>3
<1>5. rows'[p][r] = row /\ OnlyRow(p, r) /\ \A q \in Orders \ {p} : rows'[q] = rows[q]
  BY <1>1, <1>4, OneRow
<1>6. CASE o = p
  BY <1>1, <1>2, <1>3, <1>4, <1>5, <1>6 DEF Linking, PaidAsBefore, RowEffect
<1>7. CASE o # p
  BY <1>1, <1>5, <1>7, Untouched DEF RowEffect
<1> QED BY <1>6, <1>7

(* The remaining writes of rows: nothing is collected by them. *)
LEMMA WaitingRows ==
    ASSUME TypeOK, NEW h \in Handlers,
           AdminWrite(h) \/ CheckoutFail(h) \/ CheckoutSave(h) \/ FailureWrite(h),
           NEW o \in Orders
    PROVE  RowEffect(o)
<1> DEFINE p == job[h].order
           r == job[h].row
<1>1. RowTypes /\ JobTypes /\ p \in Orders /\ paymentStatus' = paymentStatus
  BY JobFields DEF TypeOK, AdminWrite, CheckoutFail, CheckoutSave, FailureWrite, InCheckout, orderVars
<1>2. CASE AdminWrite(h)
  <2>1. \/ rows' = rows \/ rows' = [rows EXCEPT ![p] = ExpireOpenRows(p)]
    BY <1>2 DEF AdminWrite
  <2> QED BY <1>1, <2>1, ExpiringWaits, Untouched DEF PaidAsBefore, RowEffect
<1>3. CASE CheckoutFail(h) \/ FailureWrite(h)
  <2>1. r \in RowIds /\ FailIfWaiting(p, r)
    BY <1>1, <1>3, JobFields DEF CheckoutFail, FailureWrite, InCheckout
  <2> QED BY <1>1, <2>1, FailingWaits DEF RowEffect
<1>4. CASE CheckoutSave(h)
  <2>1. r \in RowIds
    BY <1>1, <1>4, JobFields DEF CheckoutSave, InCheckout
  <2>2. rows[p][r] \in Row
    BY <1>1, <2>1 DEF RowTypes
  <2>3. Keeps(rows[p][r], [rows[p][r] EXCEPT !.url = TRUE])
    BY <2>2 DEF Keeps, Row
  <2>4. rows' = rows \/ SetRow(p, r, [rows[p][r] EXCEPT !.url = TRUE])
    BY <1>4 DEF CheckoutSave
  <2> QED BY <1>1, <2>1, <2>3, <2>4, OneRowWaits, Untouched DEF RowEffect
<1> QED BY <1>2, <1>3, <1>4

(* Seen from the rows of one order, a step is one of five effects. *)
LEMMA RowEffects ==
    ASSUME TypeOK, JobFacts, MoneyFacts, [Next]_vars, NEW o \in Orders
    PROVE  RowEffect(o)
<1>0. rows' = rows /\ paymentStatus' = paymentStatus => RowEffect(o)
  BY Untouched DEF RowEffect
<1>1. CASE UNCHANGED vars
  BY <1>0, <1>1 DEF vars, orderVars
<1>2. ASSUME NEW h \in Handlers, Arrive(h) PROVE RowEffect(o)
  BY <1>0, <1>2 DEF Arrive, BankRead, VoidRead, AdminRead, CheckoutRead, CallbackStart,
     FailureRead, orderVars
<1>3. ASSUME NEW h \in Handlers, Continue(h) PROVE RowEffect(o)
  <2>1. CASE \/ \E l \in Links : CheckoutRows(h, l)
             \/ \E r \in RowIds : CheckoutReuse(h, r)
             \/ CheckoutSePay(h) \/ CheckoutProvider(h)
             \/ CallbackRead(h) \/ CallbackReport(h) \/ CallbackDone(h)
    BY <1>0, <2>1 DEF CheckoutRows, CheckoutReuse, CheckoutSePay, CheckoutProvider,
       CallbackRead, CallbackReport, CallbackDone, orderVars
  <2> QED BY <1>3, <2>1, BankRows, VoidingRows, LinkingRows, WaitingRows, CallbackRows,
       RefundRows DEF Continue
<1>4. ASSUME NEW h \in Handlers, CallbackError(h) \/ Crash(h) PROVE RowEffect(o)
  BY <1>0, <1>4 DEF CallbackError, Crash, orderVars
<1>5. ASSUME NEW p \in Orders, Instant(p) PROVE RowEffect(o)
  <2>1. CASE GetOverdue(p) \/ (\E amount \in Amounts : Transfer(p, amount))
             \/ \E l \in Links : \/ \E outcome \in {"COLLECTED", "FAILED"} : LinkEnds(p, l, outcome)
                                 \/ CallbackNotFound(p, l) \/ CallbackDuplicate(p, l)
    BY <1>0, <2>1 DEF GetOverdue, Transfer, LinkEnds, CallbackNotFound, CallbackDuplicate,
       orderVars
  <2> QED BY <1>5, <2>1, PlacingRows, ClosingRows DEF Instant
<1> QED BY <1>1, <1>2, <1>3, <1>4, <1>5 DEF Next

-----------------------------------------------------------------------------
(* What stays true *)

(* Money that arrived has arrived: a transfer is never taken back, a link   *)
(* never un-collected.                                                      *)
LEMMA WorldStays ==
    ASSUME TypeOK, [Next]_vars, NEW o \in Orders
    PROVE  /\ transfer[o] # "NONE" => transfer'[o] = transfer[o]
           /\ \A l \in Links : provider[o][l] = "COLLECTED" => provider'[o][l] = "COLLECTED"
<1> DEFINE Stays == /\ transfer[o] # "NONE" => transfer'[o] = transfer[o]
                    /\ \A l \in Links : provider[o][l] = "COLLECTED"
                                           => provider'[o][l] = "COLLECTED"
<1>t. WorldTypes /\ JobTypes
  BY DEF TypeOK
<1>0. provider' = provider /\ transfer' = transfer => Stays
  OBVIOUS
<1>1. ASSUME NEW p \in Orders, NEW l \in Links, NEW end, provider[p][l] # "COLLECTED",
             provider' = [provider EXCEPT ![p][l] = end], transfer' = transfer
      PROVE  Stays
  BY <1>t, <1>1 DEF WorldTypes
<1> HIDE DEF Stays
<1>2. ASSUME NEW h \in Handlers, Arrive(h) PROVE Stays
  <2>1. ASSUME NEW p \in Orders, NEW l \in Links, FailureRead(h, p, l) PROVE Stays
    BY <1>1, <2>1 DEF FailureRead
  <2> QED BY <1>0, <1>2, <2>1 DEF Arrive, BankRead, VoidRead, AdminRead, CheckoutRead,
       CallbackStart, worldVars
<1>3. ASSUME NEW h \in Handlers, Continue(h) PROVE Stays
  <2>1. CASE CheckoutProvider(h)
    <3>1. /\ provider[job[h].order][job[h].link] # "COLLECTED" /\ transfer' = transfer
          /\ provider' = [provider EXCEPT ![job[h].order][job[h].link] = "OPEN"]
      BY <2>1 DEF CheckoutProvider
    <3>2. job[h].order \in Orders /\ job[h].link \in Links \cup {NoLink}
      BY <1>t, <2>1, JobFields DEF CheckoutProvider, InCheckout
    <3>3. CASE job[h].link \in Links
      BY <1>1, <3>1, <3>2, <3>3
    <3>4. CASE job[h].link = NoLink
      BY <1>t, <3>1, <3>2, <3>4, LinksAssumption DEF WorldTypes, Stays
    <3> QED BY <3>2, <3>3, <3>4
  <2>2. CASE BankClaim(h) \/ VoidWrite(h) \/ AdminWrite(h)
    BY <1>0, <2>2 DEF BankClaim, VoidWrite, AdminWrite, worldVars
  <2>3. CASE \/ \E l \in Links : CheckoutRows(h, l)
             \/ \E r \in RowIds : CheckoutReuse(h, r)
             \/ CheckoutSePay(h) \/ CheckoutWrite(h) \/ CheckoutFail(h) \/ CheckoutSave(h)
    BY <1>0, <2>3 DEF CheckoutRows, CheckoutReuse, CheckoutSePay, CheckoutWrite, CheckoutFail,
       CheckoutSave, worldVars
  <2>4. CASE \/ CallbackRead(h) \/ CallbackClaim(h) \/ CallbackRefund(h)
             \/ CallbackReport(h) \/ CallbackDone(h) \/ FailureWrite(h)
    BY <1>0, <2>4 DEF CallbackRead, CallbackClaim, CallbackRefund, CallbackReport, CallbackDone,
       FailureWrite, worldVars
  <2> QED BY <1>3, <2>1, <2>2, <2>3, <2>4 DEF Continue
<1>4. ASSUME NEW p \in Orders, Instant(p) PROVE Stays
  <2>1. ASSUME NEW l \in Links, NEW outcome \in {"COLLECTED", "FAILED"}, LinkEnds(p, l, outcome)
        PROVE  Stays
    BY <1>1, <2>1 DEF LinkEnds
  <2>2. ASSUME NEW amount \in Amounts, Transfer(p, amount) PROVE Stays
    BY <1>t, <2>2 DEF Transfer, WorldTypes, Stays
  <2> QED BY <1>0, <1>4, <2>1, <2>2 DEF Instant, CreateOrder, Cancel, ExpireUnpaid, CloseUnpaid,
       GetOverdue, CallbackNotFound, CallbackDuplicate, worldVars
<1>5. Stays
  BY <1>0, <1>2, <1>3, <1>4 DEF Next, CallbackError, Crash, vars, worldVars
<1> QED BY <1>5 DEF Stays

(* So the money behind a row stays behind it. *)
LEMMA ArrivedStays ==
    ASSUME TypeOK, [Next]_vars, NEW o \in Orders, NEW money, Arrived(o, money)
    PROVE  Arrived(o, money)'
<1>1. money \in Links \/ money \in {"BANK", "MANUAL"}
  BY DEF Arrived
<1>2. CASE money \in Links
  <2>1. money # "BANK" /\ money # "MANUAL"
    BY <1>2, LinksAssumption DEF NotALink
  <2> QED BY <1>2, <2>1, WorldStays DEF Arrived
<1>3. CASE money \in {"BANK", "MANUAL"}
  <2>1. money \notin Links
    BY <1>3, LinksAssumption DEF NotALink
  <2> QED BY <1>3, <2>1, WorldStays DEF Arrived
<1> QED BY <1>1, <1>2, <1>3

(* An order that is no longer Unpaid never is again. *)
LEMMA SettledStays ==
    ASSUME TypeOK, JobFacts, Effect, NEW o \in Orders, status[o] # "NONE", ~Unpaid(o)
    PROVE  ~Unpaid(o)'
<1>t. OrderTypes
  BY DEF TypeOK
<1>1. ~ \E c \in Coupons \cup {NoCoupon} : CreateOrder(o, c)
  BY DEF CreateOrder
<1>2. ~Closing(o) /\ ~Paying(o)
  BY DEF Closing, Paying
<1>3. ASSUME NEW h \in Handlers, job[h].order = o, VoidWrite(h) PROVE ~Unpaid(o)'
  <2>1. paymentStatus' = paymentStatus /\ (status'[o] = status[o] \/ status'[o] = "CANCELLED")
    BY <1>t, <1>3 DEF VoidWrite, OrderTypes
  <2> QED BY <2>1 DEF Unpaid
<1>4. ASSUME NEW h \in Handlers, job[h].order = o, AdminWrite(h) PROVE ~Unpaid(o)'
  <2>1. status'[o] # "CREATED"
    BY <1>t, <1>4 DEF AdminWrite, OrderTypes, JobFacts, JobFact
  <2> QED BY <2>1 DEF Unpaid
<1>5. CASE SameOrder(o)
  BY <1>5 DEF SameOrder, Unpaid
<1> QED BY <1>1, <1>2, <1>3, <1>4, <1>5, EffectOnEach DEF EffectOn

\* What the lemmas about one order start from.
Before == TypeOK /\ NewOrders /\ JobFacts /\ Effect /\ RowFacts /\ PaidOnce

(* An order without money: Unpaid, or not there at all. *)
LEMMA NoMoney ==
    ASSUME Before, NEW o \in Orders, Unpaid(o) \/ status[o] = "NONE", NEW r \in RowIds
    PROVE  rows[o][r].status \notin {"PAID", "REFUND_REQUIRED"}
<1>1. paymentStatus[o] # "PAID"
  BY DEF Before, NewOrders, Unpaid
<1> QED BY <1>1 DEF Before, PaidOnce, PaidRows, RowFacts, RowFact

(* No write makes a row that the facts about rows exclude. *)
LEMMA RowFactStep ==
    ASSUME Before, NEW o \in Orders, RowEffect(o)
    PROVE  RowFact(o)'
<1>1. RowFact(o) /\ rows[o] \in [RowIds -> Row]
  BY DEF Before, RowFacts, TypeOK, RowTypes
<1>2. /\ ServerRows \cup Links = RowIds /\ Links \cap ServerRows = {} /\ NoLink \notin Links
  BY LinksAssumption DEF RowIds
<1>3. status'[o] = "NONE" => status[o] = "NONE"
  BY Monotone DEF Before
<1>4. status[o] # "NONE" /\ ~Unpaid(o) => ~Unpaid(o)'
  BY SettledStays DEF Before
<1>5. ASSUME NEW r \in RowIds, rows[o][r].status # "NONE" PROVE status[o] # "NONE"
  BY <1>1, <1>5 DEF RowFact
<1>6. CASE Waits(o)
  <2>1. ASSUME NEW r \in RowIds
        PROVE  /\ rows'[o][r].link = rows[o][r].link
               /\ rows[o][r].status # "PENDING" => rows'[o][r].status = rows[o][r].status
               /\ rows'[o][r].status = "REFUND_REQUIRED" => ~Unpaid(o)'
    BY <1>1, <1>4, <1>5, <1>6 DEF Waits, Keeps, RowFact
  <2> QED BY <1>1, <1>2, <1>3, <2>1 DEF RowFact, ServerRows
<1>7. CASE Placing(o)
  <2>1. ASSUME NEW r \in RowIds PROVE rows[o][r].status # "REFUND_REQUIRED"
    BY <1>7, NoMoney DEF Placing
  <2>2. "PLACEHOLDER" \notin Links /\ "PLACEHOLDER" \in RowIds
    BY <1>2 DEF ServerRows
  <2> QED BY <1>1, <1>2, <1>7, <2>1, <2>2 DEF Placing, OnlyRow, RowFact, ServerRows
<1>8. CASE Claiming(o)
  <2>1. ASSUME NEW r \in RowIds PROVE rows[o][r].status # "REFUND_REQUIRED"
    BY <1>8, NoMoney DEF Claiming
  <2>2. PICK r \in RowIds, money \in Links \cup NotALink :
          /\ r # "VOIDED" /\ (r \in Links => rows[o][r].link = r)
          /\ rows'[o][r] = Settled(rows[o][r], "PAID", money)
          /\ OnlyRow(o, r)
    BY <1>8 DEF Claiming
  <2>3. rows'[o][r].link = rows[o][r].link /\ rows'[o][r].status = "PAID"
    BY <1>1, <2>2 DEF Settled, Row
  <2>4. status'[o] # "NONE"
    BY <1>8 DEF Claiming
  <2> QED BY <1>1, <1>2, <2>1, <2>2, <2>3, <2>4 DEF OnlyRow, RowFact, ServerRows
<1>9. CASE Voiding(o)
  <2>1. rows'[o]["VOIDED"].link = rows[o]["VOIDED"].link /\ rows'[o]["VOIDED"].status = "EXPIRED"
    BY <1>1, <1>2, <1>9 DEF Voiding, Settled, Row, ServerRows
  <2>2. ASSUME NEW r \in RowIds, rows'[o][r].status = "REFUND_REQUIRED" PROVE ~Unpaid(o)'
    BY <1>1, <1>4, <1>5, <1>9, <2>1, <2>2 DEF Voiding, OnlyRow, RowFact
  <2>3. status'[o] # "NONE"
    BY <1>3, <1>9 DEF Voiding
  <2> QED BY <1>1, <1>2, <1>9, <2>1, <2>2, <2>3 DEF Voiding, OnlyRow, RowFact, ServerRows
<1>10. CASE Linking(o)
  <2>1. PICK l \in Links, r \in RowIds :
          /\ \A q \in RowIds : rows[o][q].link # l
          /\ rows'[o][r].link = l /\ OnlyRow(o, r)
          /\ \/ r = "PLACEHOLDER" /\ rows'[o][r].status = rows[o][r].status
             \/ r = l /\ rows'[o][r].status = "PENDING"
    BY <1>10 DEF Linking
  <2>2. ASSUME NEW q \in RowIds, rows'[o][q].status = "REFUND_REQUIRED" PROVE ~Unpaid(o)'
    BY <1>1, <1>4, <1>5, <2>1, <2>2 DEF OnlyRow, RowFact
  <2>3. status'[o] # "NONE"
    BY <1>3, <1>10 DEF Linking
  <2> QED BY <1>1, <1>2, <2>1, <2>2, <2>3 DEF OnlyRow, RowFact, ServerRows
<1> QED BY <1>6, <1>7, <1>8, <1>9, <1>10 DEF RowEffect

\* The part of PaidOnce about one order.
PaidFact(o) ==
    /\ paymentStatus[o] = "PAID" <=> PaidRows(o) # {}
    /\ \A r, q \in PaidRows(o) : r = q
    /\ \A r \in PaidRows(o) : Arrived(o, rows[o][r].txn)

(* A PAID row that stays as it is keeps its money. *)
LEMMA PaidRowStays ==
    ASSUME TypeOK, [Next]_vars, NEW o \in Orders, NEW r \in RowIds, Arrived(o, rows[o][r].txn),
           rows'[o][r].txn = rows[o][r].txn
    PROVE  Arrived(o, rows[o][r].txn)'
<1>1. PICK money : money = rows[o][r].txn
  OBVIOUS
<1>2. Arrived(o, money)'
  BY <1>1, ArrivedStays
<1> QED BY <1>1, <1>2 DEF Arrived

(* Who pays an order finds it without a PAID row; nobody else makes one. *)
LEMMA PaidStep ==
    ASSUME Before, [Next]_vars, NEW o \in Orders, RowEffect(o)
    PROVE  PaidFact(o)'
<1>1. PaidFact(o) /\ RowFact(o) /\ rows[o] \in [RowIds -> Row] /\ TypeOK
  BY DEF Before, RowFacts, PaidOnce, PaidFact, TypeOK, RowTypes
<1>2. CASE /\ PaidAsBefore(o)
           /\ \A r \in RowIds : /\ rows'[o][r].status = "PAID" <=> rows[o][r].status = "PAID"
                                /\ rows[o][r].status = "PAID" => rows'[o][r].txn = rows[o][r].txn
  <2>1. PaidRows(o)' = PaidRows(o)
    BY <1>2 DEF PaidRows
  <2>2. ASSUME NEW r \in PaidRows(o) PROVE Arrived(o, rows[o][r].txn)'
    <3>1. /\ r \in RowIds /\ rows'[o][r].txn = rows[o][r].txn
          /\ Arrived(o, rows[o][r].txn)
      BY <1>1, <1>2 DEF PaidRows, PaidFact
    <3> QED BY <1>1, <3>1, PaidRowStays
  <2> QED BY <1>1, <1>2, <2>1, <2>2 DEF PaidFact, PaidAsBefore
<1>3. CASE Waits(o)
  BY <1>2, <1>3 DEF Waits, Keeps
<1>4. CASE Placing(o)
  <2>1. ASSUME NEW r \in RowIds PROVE rows[o][r].status # "PAID"
    BY <1>4, NoMoney DEF Placing
  <2>2. ASSUME NEW r \in RowIds PROVE rows'[o][r].status # "PAID"
    BY <1>4, <2>1 DEF Placing, OnlyRow
  <2> QED BY <1>4, <2>2 DEF PaidFact, PaidRows, Placing
<1>5. CASE Claiming(o)
  <2>1. PICK r \in RowIds, money \in Links \cup NotALink :
          /\ Arrived(o, money) /\ rows'[o][r] = Settled(rows[o][r], "PAID", money)
          /\ OnlyRow(o, r)
    BY <1>5 DEF Claiming
  <2>2. rows'[o][r].status = "PAID" /\ rows'[o][r].txn = money
    BY <1>1, <2>1 DEF Settled, Row
  <2>3. ASSUME NEW q \in RowIds PROVE rows[o][q].status # "PAID"
    BY <1>5, NoMoney DEF Claiming
  <2>4. PaidRows(o)' = {r}
    BY <2>1, <2>2, <2>3 DEF PaidRows, OnlyRow
  <2>5. Arrived(o, money)'
    BY <1>1, <2>1, ArrivedStays
  <2>6. Arrived(o, rows[o][r].txn)'
    BY <2>2, <2>5 DEF Arrived
  <2> QED BY <1>5, <2>4, <2>6 DEF PaidFact, Claiming
<1>6. CASE Voiding(o)
  <2>1. "VOIDED" \in RowIds
    BY DEF RowIds, ServerRows
  <2>2. rows'[o]["VOIDED"].status = "EXPIRED" /\ rows[o]["VOIDED"].status # "PAID"
    BY <1>1, <1>6, <2>1 DEF Voiding, Settled, Row, RowFact
  <2> QED BY <1>2, <1>6, <2>2 DEF Voiding, OnlyRow
<1>7. CASE Linking(o)
  <2>1. PICK l \in Links, r \in RowIds :
          /\ \A q \in RowIds : rows[o][q].link # l
          /\ OnlyRow(o, r)
          /\ \/ rows'[o][r].status = rows[o][r].status /\ rows'[o][r].txn = rows[o][r].txn
             \/ r = l /\ rows'[o][r].status = "PENDING"
    BY <1>7 DEF Linking
  <2>2. r = l => rows[o][r].status = "NONE"
    BY <1>1, <2>1 DEF RowFact
  <2> QED BY <1>2, <1>7, <2>1, <2>2 DEF Linking, OnlyRow
<1> QED BY <1>3, <1>4, <1>5, <1>6, <1>7 DEF RowEffect

(* A row with money on record keeps status and money, whatever the step. *)
LEMMA RecordedStep ==
    ASSUME Before, NEW o \in Orders, RowEffect(o), NEW r \in RowIds,
           rows[o][r].status \in {"PAID", "REFUND_REQUIRED"}
    PROVE  rows'[o][r].status = rows[o][r].status /\ rows'[o][r].txn = rows[o][r].txn
<1>1. RowFact(o)
  BY DEF Before, RowFacts
<1>2. ~Unpaid(o) /\ status[o] # "NONE"
  BY NoMoney
<1>3. CASE Waits(o)
  BY <1>3 DEF Waits, Keeps
<1>4. CASE Voiding(o)
  BY <1>1, <1>4 DEF Voiding, OnlyRow, RowFact
<1>5. CASE Linking(o)
  <2>1. PICK l \in Links, q \in RowIds :
          /\ \A p \in RowIds : rows[o][p].link # l
          /\ OnlyRow(o, q)
          /\ \/ rows'[o][q].status = rows[o][q].status /\ rows'[o][q].txn = rows[o][q].txn
             \/ q = l /\ rows'[o][q].status = "PENDING"
    BY <1>5 DEF Linking
  <2>2. q = l => rows[o][q].status = "NONE"
    BY <1>1, <2>1 DEF RowFact
  <2> QED BY <2>1, <2>2 DEF OnlyRow
<1> QED BY <1>2, <1>3, <1>4, <1>5 DEF RowEffect, Placing, Claiming

-----------------------------------------------------------------------------
(* What requests rely on *)

\* Only the request of g goes on; what it relies on next holds already, and
\* nobody has the link it takes.
Acts(g) ==
    /\ \A h \in Handlers \ {g} : job'[h] = job[h]
    /\ MoneyFact(job'[g]) /\ (job'[g].op # "IDLE" => status[job'[g].order] # "NONE")
    /\ \A h \in Handlers \ {g} :
         job'[g].op = "CHECKOUT" /\ job[h].op = "CHECKOUT" /\ job'[g].order = job[h].order =>
           /\ job'[g].at = "WRITE" => job[h].link # job'[g].link
           /\ job[h].at = "WRITE" => job'[g].link # job[h].link

(* A request ends. *)
LEMMA Finishing ==
    ASSUME JobTypes, NEW g \in Handlers, Finish(g)
    PROVE  Acts(g)
<1>1. job'[g].op = "IDLE"
  BY DEF Finish, JobTypes, Idle
<1> QED BY <1>1 DEF Finish, JobTypes, Acts, MoneyFact

(* A request begins: it holds no link a checkout is about to write. *)
LEMMA Starting ==
    ASSUME JobTypes, NEW g \in Handlers, NEW j, Start(g, j), MoneyFact(j),
           status[j.order] # "NONE", j.op = "CHECKOUT" => j.link = NoLink /\ j.at = "ROWS",
           MoneyFacts
    PROVE  Acts(g)
<1>1. job'[g] = j /\ \A h \in Handlers \ {g} : job'[h] = job[h]
  BY DEF Start, JobTypes
<1>2. ASSUME NEW h \in Handlers, job[h].op = "CHECKOUT", job[h].at = "WRITE"
      PROVE  job[h].link # NoLink
  BY <1>2, LinksAssumption DEF MoneyFacts, MoneyFact
<1> QED BY <1>1, <1>2 DEF Acts, MoneyFact

(* A checkout goes on with its link. *)
LEMMA CheckoutGoesOn ==
    ASSUME JobTypes, MoneyFacts, JobFacts, NEW g \in Handlers, NEW at \in {"PROVIDER", "SAVE"},
           job[g].op = "CHECKOUT", GoTo(g, at)
    PROVE  Acts(g)
<1>1. job[g] \in CheckoutJob
  BY JobKinds DEF JobTypes
<1>2. /\ job'[g].op = "CHECKOUT" /\ job'[g].order = job[g].order /\ job'[g].link = job[g].link
      /\ job'[g].at = at /\ \A h \in Handlers \ {g} : job'[h] = job[h]
  BY <1>1 DEF GoTo, JobTypes, CheckoutJob
<1>3. status[job[g].order] # "NONE"
  BY DEF JobFacts, JobFact
<1> QED BY <1>2, <1>3 DEF Acts, MoneyFact, MoneyFacts, OwnLinks

(* A callback goes on; it says that the order is settled only if it is. *)
LEMMA CallbackGoesOn ==
    ASSUME JobTypes, MoneyFacts, JobFacts, NEW g \in Handlers, NEW at,
           job[g].op = "CALLBACK", GoTo(g, at),
           at \in {"INVALID", "DUPLICATE"} => ~Unpaid(job[g].order)
    PROVE  Acts(g)
<1>1. job[g] \in CallbackJob
  BY JobKinds DEF JobTypes
<1>2. /\ job'[g].op = "CALLBACK" /\ job'[g].order = job[g].order /\ job'[g].link = job[g].link
      /\ job'[g].row = job[g].row
      /\ job'[g].at = at /\ \A h \in Handlers \ {g} : job'[h] = job[h]
  BY <1>1 DEF GoTo, JobTypes, CallbackJob
<1>3. status[job[g].order] # "NONE"
  BY DEF JobFacts, JobFact
<1> QED BY <1>2, <1>3 DEF Acts, MoneyFact, MoneyFacts

(* A link is found on the placeholder or on its own row. *)
LEMMA RowsOfLink ==
    ASSUME RowFacts, NEW o \in Orders, NEW l \in Links, NEW r \in RowOf(o, l)
    PROVE  r \in {"PLACEHOLDER", l} /\ (r \in Links => rows[o][r].link = r)
<1>1. r \in RowIds /\ rows[o][r].link = l /\ l # NoLink
  BY LinksAssumption DEF RowOf
<1> QED BY <1>1 DEF RowFacts, RowFact, RowIds, ServerRows

(* The requests that arrive. *)
LEMMA Arriving ==
    ASSUME TypeOK, NewOrders, JobFacts, RowFacts, MoneyFacts, NEW g \in Handlers, Arrive(g)
    PROVE  Acts(g) \/ job' = job
<1>t. JobTypes
  BY DEF TypeOK
<1>1. ASSUME NEW o \in Orders, NEW op \in {"BANK", "MANUAL"}, BankRead(g, o, op)
      PROVE  Acts(g) \/ job' = job
  <2>1. CASE Start(g, [op |-> op, order |-> o]) /\ (op = "MANUAL" \/ transfer[o] = "EXACT")
    <3>1. MoneyFact([op |-> op, order |-> o]) /\ status[o] # "NONE"
      BY <1>1, <2>1 DEF BankRead, Notified, MoneyFact
    <3> QED BY <1>t, <2>1, <3>1, Starting
  <2> QED BY <1>1, <2>1 DEF BankRead
<1>2. ASSUME NEW o \in Orders, VoidRead(g, o) PROVE Acts(g)
  <2>1. MoneyFact([op |-> "VOID", order |-> o]) /\ status[o] # "NONE"
    BY <1>2 DEF VoidRead, Unpaid, MoneyFact
  <2> QED BY <1>t, <1>2, <2>1, Starting DEF VoidRead
<1>3. ASSUME NEW o \in Orders, NEW to \in PhaseStatus, AdminRead(g, o, to) PROVE Acts(g)
  <2> DEFINE j == [op |-> "ADMIN", order |-> o, to |-> to,
                   collected |-> paymentStatus[o] \in CollectedPaymentStatuses,
                   refundStatus |-> refundStatus[o]]
  <2>1. MoneyFact(j) /\ status[o] # "NONE" /\ j.op = "ADMIN" /\ j.order = o
    BY <1>3 DEF AdminRead, MoneyFact
  <2>2. Start(g, j)
    BY <1>3 DEF AdminRead
  <2> HIDE DEF j
  <2> QED BY <1>t, <2>1, <2>2, Starting
<1>4. ASSUME NEW o \in Orders, CheckoutRead(g, o) PROVE Acts(g)
  <2> DEFINE j == [op |-> "CHECKOUT", order |-> o, link |-> NoLink,
                   row |-> "PLACEHOLDER", at |-> "ROWS"]
  <2>1. MoneyFact(j) /\ status[o] # "NONE" /\ j.op = "CHECKOUT" /\ j.order = o
        /\ j.link = NoLink /\ j.at = "ROWS"
    BY <1>4 DEF CheckoutRead, Unpaid, MoneyFact
  <2>2. Start(g, j)
    BY <1>4 DEF CheckoutRead
  <2> HIDE DEF j
  <2> QED BY <1>t, <2>1, <2>2, Starting
<1>5. ASSUME NEW o \in Orders, NEW l \in Links, CallbackStart(g, o, l) PROVE Acts(g)
  <2>1. PICK r \in RowOf(o, l) :
          Start(g, [op |-> "CALLBACK", order |-> o, link |-> l, row |-> r, at |-> "READ"])
    BY <1>5 DEF CallbackStart
  <2> DEFINE j == [op |-> "CALLBACK", order |-> o, link |-> l, row |-> r, at |-> "READ"]
  <2>2. provider[o][l] = "COLLECTED" /\ status[o] # "NONE"
    BY <1>5 DEF CallbackStart, Reported, NewOrders
  <2>3. MoneyFact(j) /\ j.op = "CALLBACK" /\ j.order = o
    BY <2>1, <2>2, RowsOfLink DEF MoneyFact
  <2>4. Start(g, j)
    BY <2>1
  <2> HIDE DEF j
  <2> QED BY <1>t, <2>2, <2>3, <2>4, Starting
<1>6. ASSUME NEW o \in Orders, NEW l \in Links, FailureRead(g, o, l) PROVE Acts(g)
  <2>1. PICK r \in RowIds : Start(g, [op |-> "FAILURE", order |-> o, row |-> r])
    BY <1>6 DEF FailureRead, RowOf
  <2>2. status[o] # "NONE"
    BY <1>6 DEF FailureRead, NewOrders
  <2>3. MoneyFact([op |-> "FAILURE", order |-> o, row |-> r])
    BY DEF MoneyFact
  <2> QED BY <1>t, <2>1, <2>2, <2>3, Starting
<1> QED BY <1>1, <1>2, <1>3, <1>4, <1>5, <1>6 DEF Arrive

(* The requests that go on. *)
LEMMA GoingOn ==
    ASSUME TypeOK, JobFacts, RowFacts, MoneyFacts, NEW g \in Handlers, Continue(g)
    PROVE  Acts(g)
<1>t. JobTypes /\ RowTypes
  BY DEF TypeOK
<1>1. CASE BankClaim(g) \/ VoidWrite(g) \/ AdminWrite(g) \/ CheckoutFail(g)
           \/ CheckoutSave(g) \/ CallbackDone(g) \/ FailureWrite(g)
  BY <1>t, <1>1, Finishing DEF BankClaim, VoidWrite, AdminWrite, CheckoutFail, CheckoutSave,
     CallbackDone, FailureWrite
<1>2. CASE CheckoutSePay(g) \/ CheckoutWrite(g) \/ CheckoutProvider(g)
  BY <1>t, <1>2, CheckoutGoesOn DEF CheckoutSePay, CheckoutWrite, CheckoutProvider, InCheckout
<1>3. CASE CallbackRead(g)
  <2>1. paymentStatus[job[g].order] = "PAID" => ~Unpaid(job[g].order)
    BY DEF Unpaid
  <2> QED BY <1>t, <1>3, <2>1, CallbackGoesOn DEF CallbackRead, InCallback
<1>4. CASE CallbackClaim(g)
  BY <1>t, <1>4, CallbackGoesOn DEF CallbackClaim, InCallback
<1>5. CASE CallbackRefund(g) \/ CallbackReport(g)
  BY <1>t, <1>5, CallbackGoesOn DEF CallbackRefund, CallbackReport, InCallback
<1>6. ASSUME NEW l \in Links, CheckoutRows(g, l) PROVE Acts(g)
  <2> DEFINE o == job[g].order
  <2>1. job[g] \in CheckoutJob /\ status[o] # "NONE"
    BY <1>t, <1>6, JobKinds DEF CheckoutRows, InCheckout, JobTypes, JobFacts, JobFact
  <2>2. PICK r : /\ job' = [job EXCEPT ![g].link = l, ![g].at = "WRITE", ![g].row = r]
                 /\ r \in {"PLACEHOLDER", l}
    BY <1>6 DEF CheckoutRows
  <2>3. /\ job'[g].op = "CHECKOUT" /\ job'[g].order = o /\ job'[g].link = l
        /\ job'[g].row = r /\ \A h \in Handlers \ {g} : job'[h] = job[h]
    BY <1>t, <2>1, <2>2 DEF JobTypes, CheckoutJob
  <2>4. /\ \A q \in RowIds : rows[o][q].link # l
        /\ \A h \in Handlers : job[h].op = "CHECKOUT" /\ job[h].order = o => job[h].link # l
    BY <1>6 DEF CheckoutRows, FreshLink
  <2> QED BY <2>1, <2>2, <2>3, <2>4 DEF Acts, MoneyFact
<1>7. ASSUME NEW r \in RowIds, CheckoutReuse(g, r) PROVE Acts(g)
  <2> DEFINE o == job[g].order
  <2>1. job[g] \in CheckoutJob /\ status[o] # "NONE"
    BY <1>t, <1>7, JobKinds DEF CheckoutReuse, InCheckout, JobTypes, JobFacts, JobFact
  <2>2. CASE Finish(g)
    BY <1>t, <2>2, Finishing
  <2>3. CASE job' = [job EXCEPT ![g].link = rows[o][r].link, ![g].row = r, ![g].at = "PROVIDER"]
    <3>1. /\ job'[g].op = "CHECKOUT" /\ job'[g].order = o /\ job'[g].link = rows[o][r].link
          /\ job'[g].at = "PROVIDER" /\ \A h \in Handlers \ {g} : job'[h] = job[h]
      BY <1>t, <2>1, <2>3 DEF JobTypes, CheckoutJob
    <3>2. ASSUME NEW h \in Handlers, job[h].op = "CHECKOUT", job[h].order = o, job[h].at = "WRITE"
          PROVE  job[h].link # rows[o][r].link
      BY <3>2 DEF MoneyFacts, MoneyFact
    <3> QED BY <2>1, <3>1, <3>2 DEF Acts, MoneyFact
  <2> QED BY <1>7, <2>2, <2>3 DEF CheckoutReuse
<1> QED BY <1>1, <1>2, <1>3, <1>4, <1>5, <1>6, <1>7 DEF Continue

(* In every step at most one request moves. *)
LEMMA OneActs ==
    ASSUME TypeOK, NewOrders, JobFacts, RowFacts, MoneyFacts, [Next]_vars
    PROVE  job' = job \/ \E g \in Handlers : Acts(g)
<1>t. JobTypes
  BY DEF TypeOK
<1>1. ASSUME NEW g \in Handlers, CallbackError(g) \/ Crash(g) PROVE Acts(g)
  BY <1>t, <1>1, Finishing DEF CallbackError, Crash
<1>2. ASSUME NEW o \in Orders, Instant(o) PROVE job' = job
  BY <1>2 DEF Instant, CreateOrder, Cancel, ExpireUnpaid, CloseUnpaid, GetOverdue, Transfer,
     LinkEnds, CallbackNotFound, CallbackDuplicate
<1> QED BY <1>1, <1>2, Arriving, GoingOn DEF Next, vars

(* What a request relies on stays true while others write, unless a         *)
(* checkout takes the link it was about to write.                           *)
LEMMA StillTrue ==
    ASSUME Before, [Next]_vars, \A o \in Orders : RowEffect(o), NEW j, MoneyFact(j),
           j.op # "IDLE" => j.order \in Orders /\ status[j.order] # "NONE",
           j.op = "CALLBACK" => j.link \in Links,
           \A h \in Handlers :
              /\ job[h].op = "CHECKOUT" /\ job[h].at = "WRITE" /\ job'[h].at # "WRITE"
              /\ job[h].order = j.order /\ j.op = "CHECKOUT" /\ j.at = "WRITE"
              => job[h].link # j.link
    PROVE  /\ j.op = "BANK" => transfer'[j.order] = "EXACT"
           /\ j.op = "MANUAL" => transfer'[j.order] # "NONE"
           /\ j.op = "CHECKOUT" /\ j.at = "WRITE" =>
                 /\ j.link \in Links /\ j.row \in {"PLACEHOLDER", j.link}
                 /\ \A r \in RowIds : rows'[j.order][r].link # j.link
           /\ j.op = "CALLBACK" =>
                 /\ provider'[j.order][j.link] = "COLLECTED"
                 /\ j.row \in {"PLACEHOLDER", j.link}
                 /\ j.row \in Links => rows'[j.order][j.row].link = j.row
                 /\ j.at \in {"INVALID", "DUPLICATE"} => ~Unpaid(j.order)'
<1> DEFINE o == j.order
<1>t. TypeOK /\ JobFacts /\ Effect /\ RowFacts /\ RowTypes
  BY DEF Before, TypeOK
<1>1. CASE j.op \in {"BANK", "MANUAL"}
  <2>1. o \in Orders
    BY <1>1
  <2>2. transfer[o] # "NONE" => transfer'[o] = transfer[o]
    BY <1>t, <2>1, WorldStays
  <2> QED BY <1>1, <2>2 DEF MoneyFact
<1>2. CASE j.op = "CHECKOUT" /\ j.at = "WRITE"
  <2>1. /\ o \in Orders /\ status[o] # "NONE" /\ j.link \in Links
        /\ \A r \in RowIds : rows[o][r].link # j.link
    BY <1>2 DEF MoneyFact
  <2>2. rows[o] \in [RowIds -> Row] /\ "VOIDED" \in RowIds
    BY <1>t, <2>1 DEF RowTypes, RowIds, ServerRows
  <2>3. CASE Waits(o)
    BY <1>2, <2>1, <2>3 DEF Waits, Keeps, MoneyFact
  <2>4. CASE Claiming(o)
    <3>1. PICK r \in RowIds, money \in Links \cup NotALink :
            rows'[o][r] = Settled(rows[o][r], "PAID", money) /\ OnlyRow(o, r)
      BY <2>4 DEF Claiming
    <3>2. rows'[o][r].link = rows[o][r].link
      BY <2>2, <3>1 DEF Settled, Row
    <3> QED BY <1>2, <2>1, <3>1, <3>2 DEF OnlyRow, MoneyFact
  <2>5. CASE Voiding(o)
    <3>1. rows'[o]["VOIDED"].link = rows[o]["VOIDED"].link
      BY <2>2, <2>5 DEF Voiding, Settled, Row
    <3> QED BY <1>2, <2>1, <2>2, <2>5, <3>1 DEF Voiding, OnlyRow, MoneyFact
  <2>6. CASE Linking(o)
    <3>1. PICK h \in Handlers, l \in Links, r \in RowIds :
            /\ job[h].op = "CHECKOUT" /\ job[h].at = "WRITE"
            /\ job[h].order = o /\ job[h].link = l /\ job'[h].at # "WRITE"
            /\ rows'[o][r].link = l /\ OnlyRow(o, r)
      BY <2>6 DEF Linking
    <3>2. l # j.link
      BY <1>2, <3>1
    <3> QED BY <1>2, <2>1, <3>1, <3>2 DEF OnlyRow, MoneyFact
  <2>7. ~Placing(o)
    BY <2>1 DEF Placing
  <2> QED BY <1>2, <2>1, <2>3, <2>4, <2>5, <2>6, <2>7 DEF RowEffect, MoneyFact
<1>3. CASE j.op = "CALLBACK"
  <2>1. /\ o \in Orders /\ status[o] # "NONE" /\ j.link \in Links
        /\ provider[o][j.link] = "COLLECTED" /\ j.row \in {"PLACEHOLDER", j.link}
        /\ j.row \in Links => rows[o][j.row].link = j.row
        /\ j.at \in {"INVALID", "DUPLICATE"} => ~Unpaid(o)
    BY <1>3 DEF MoneyFact
  <2>2. provider'[o][j.link] = "COLLECTED"
    BY <1>t, <2>1, WorldStays
  <2>3. j.at \in {"INVALID", "DUPLICATE"} => ~Unpaid(o)'
    BY <1>t, <2>1, SettledStays
  <2>4. ASSUME j.row \in Links PROVE rows'[o][j.row].link = j.row
    <3>1. rows[o][j.row].link = j.row /\ j.row \in RowIds /\ rows[o] \in [RowIds -> Row]
          /\ j.row \notin ServerRows
      BY <1>t, <2>1, <2>4, LinksAssumption DEF RowIds, RowTypes
    <3>2. CASE Waits(o)
      BY <3>1, <3>2 DEF Waits, Keeps
    <3>3. CASE Claiming(o)
      <4>1. PICK r \in RowIds, money \in Links \cup NotALink :
              rows'[o][r] = Settled(rows[o][r], "PAID", money) /\ OnlyRow(o, r)
        BY <3>3 DEF Claiming
      <4>2. rows'[o][r].link = rows[o][r].link
        BY <3>1, <4>1 DEF Settled, Row
      <4> QED BY <3>1, <4>1, <4>2 DEF OnlyRow
    <3>4. CASE Voiding(o)
      BY <3>1, <3>4 DEF Voiding, OnlyRow, ServerRows
    <3>5. CASE Linking(o)
      BY <3>1, <3>5 DEF Linking, OnlyRow, ServerRows
    <3>6. ~Placing(o)
      BY <2>1 DEF Placing
    <3> QED BY <2>1, <3>2, <3>3, <3>4, <3>5, <3>6 DEF RowEffect
  <2> QED BY <1>3, <2>1, <2>2, <2>3, <2>4
<1> QED BY <1>1, <1>2, <1>3

(* No request loses what it relies on. *)
LEMMA MoneyFactsStep ==
    ASSUME Before, MoneyFacts, [Next]_vars, \A o \in Orders : RowEffect(o), JobTypes'
    PROVE  MoneyFacts'
<1>t. TypeOK /\ JobFacts /\ NewOrders /\ RowFacts /\ JobTypes
  BY DEF Before, TypeOK
<1>1. PICK g : job' = job \/ (g \in Handlers /\ Acts(g))
  BY <1>t, OneActs
<1>2. ASSUME NEW h \in Handlers
      PROVE  /\ MoneyFact(job'[h])
             /\ job'[h].op # "IDLE" => job'[h].order \in Orders /\ status[job'[h].order] # "NONE"
             /\ job'[h].op = "CALLBACK" => job'[h].link \in Links
  <2>1. job'[h] \in Job
    BY DEF JobTypes
  <2>2. /\ job'[h].op # "IDLE" => job'[h].order \in Orders
        /\ job'[h].op = "CALLBACK" => job'[h].link \in Links
    BY <2>1 DEF Job, IdleJob, ClaimJob, AdminJob, CheckoutJob, CallbackJob, FailureJob
  <2>3. MoneyFact(job[h]) /\ (job[h].op # "IDLE" => status[job[h].order] # "NONE")
    BY <1>t DEF MoneyFacts, JobFacts, JobFact
  <2>4. CASE job'[h] = job[h]
    BY <2>2, <2>3, <2>4 DEF MoneyFact
  <2>5. CASE h = g /\ Acts(g)
    BY <2>2, <2>5 DEF Acts
  <2> QED BY <1>1, <2>4, <2>5 DEF Acts
<1>3. ASSUME NEW h \in Handlers, NEW k \in Handlers,
             job[k].op = "CHECKOUT", job[k].at = "WRITE", job'[k].at # "WRITE",
             job[k].order = job'[h].order, job'[h].op = "CHECKOUT", job'[h].at = "WRITE"
      PROVE  job[k].link # job'[h].link
  <2>1. k # h /\ job' # job
    BY <1>3
  <2>2. g \in Handlers /\ Acts(g)
    BY <1>1, <2>1
  <2>3. CASE h = g
    BY <1>3, <2>1, <2>2, <2>3 DEF Acts
  <2>4. CASE h # g
    <3>1. job'[h] = job[h]
      BY <2>2, <2>4 DEF Acts
    <3> QED BY <1>3, <2>1, <3>1 DEF MoneyFacts, OwnLinks
  <2> QED BY <2>3, <2>4
<1>4. ASSUME NEW h \in Handlers PROVE MoneyFact(job[h])'
  <2>1. /\ job'[h].op = "BANK" => transfer'[job'[h].order] = "EXACT"
        /\ job'[h].op = "MANUAL" => transfer'[job'[h].order] # "NONE"
        /\ job'[h].op = "CHECKOUT" /\ job'[h].at = "WRITE" =>
              /\ job'[h].link \in Links /\ job'[h].row \in {"PLACEHOLDER", job'[h].link}
              /\ \A r \in RowIds : rows'[job'[h].order][r].link # job'[h].link
        /\ job'[h].op = "CALLBACK" =>
              /\ provider'[job'[h].order][job'[h].link] = "COLLECTED"
              /\ job'[h].row \in {"PLACEHOLDER", job'[h].link}
              /\ job'[h].row \in Links => rows'[job'[h].order][job'[h].row].link = job'[h].row
              /\ job'[h].at \in {"INVALID", "DUPLICATE"} =>
                    ~(status'[job'[h].order] = "CREATED" /\ paymentStatus'[job'[h].order] = "PENDING")
    <3>1. PICK j : j = job'[h]
      OBVIOUS
    <3>2. /\ MoneyFact(j)
          /\ j.op # "IDLE" => j.order \in Orders /\ status[j.order] # "NONE"
          /\ j.op = "CALLBACK" => j.link \in Links
      BY <1>2, <3>1
    <3>3. \A k \in Handlers :
            /\ job[k].op = "CHECKOUT" /\ job[k].at = "WRITE" /\ job'[k].at # "WRITE"
            /\ job[k].order = j.order /\ j.op = "CHECKOUT" /\ j.at = "WRITE"
            => job[k].link # j.link
      BY <1>3, <3>1
    <3> QED BY <3>1, <3>2, <3>3, StillTrue DEF Unpaid
  <2> QED BY <2>1 DEF MoneyFact, Unpaid
<1>5. OwnLinks'
  <2> SUFFICES ASSUME NEW h \in Handlers, NEW k \in Handlers, h # k,
                      job'[h].op = "CHECKOUT", job'[k].op = "CHECKOUT",
                      job'[h].order = job'[k].order, job'[h].at = "WRITE"
               PROVE  job'[k].link # job'[h].link
    BY DEF OwnLinks
  <2>1. CASE job'[h] = job[h] /\ job'[k] = job[k]
    BY <2>1 DEF MoneyFacts, OwnLinks
  <2>2. CASE g \in Handlers /\ Acts(g) /\ (h = g \/ k = g)
    BY <2>2 DEF Acts
  <2> QED BY <1>1, <2>1, <2>2 DEF Acts
<1> QED BY <1>4, <1>5 DEF MoneyFacts

-----------------------------------------------------------------------------
(* The theorems *)

MoneyInv == SafetyInv /\ RowFacts /\ MoneyFacts /\ PaidOnce

(* The empty shop satisfies the invariant. *)
LEMMA MoneyInit == Init => MoneyInv
<1> SUFFICES ASSUME Init PROVE MoneyInv
  OBVIOUS
<1>1. ASSUME NEW o \in Orders, NEW r \in RowIds
      PROVE  rows[o][r].status = "NONE" /\ rows[o][r].link = NoLink
  BY <1>1 DEF Init, NoRow
<1>2. {"VOIDED", "CONFIRMED"} \subseteq RowIds /\ Links \subseteq RowIds
  BY DEF RowIds, ServerRows
<1>3. RowFacts
  BY <1>1, <1>2 DEF RowFacts, RowFact
<1>4. MoneyFacts
  BY DEF Init, MoneyFacts, MoneyFact, OwnLinks, Idle
<1>5. PaidOnce
  BY <1>1 DEF Init, PaidOnce, PaidRows
<1> QED BY <1>3, <1>4, <1>5, SafetyInit DEF MoneyInv

\* What the invariant gives to a step.
LEMMA StepFacts ==
    ASSUME MoneyInv, [Next]_vars
    PROVE  Before /\ MoneyFacts /\ \A o \in Orders : RowEffect(o)
<1>1. TypeOK /\ NewOrders /\ JobFacts /\ RowFacts /\ PaidOnce /\ MoneyFacts
  BY DEF MoneyInv, SafetyInv, OrderInv
<1> QED BY <1>1, Effects, RowEffects DEF Before

(* The invariant is inductive. *)
LEMMA MoneyStep == MoneyInv /\ [Next]_vars => MoneyInv'
<1> SUFFICES ASSUME MoneyInv, [Next]_vars PROVE MoneyInv'
  OBVIOUS
<1>1. Before /\ MoneyFacts /\ \A o \in Orders : RowEffect(o)
  BY StepFacts
<1>2. SafetyInv' /\ JobTypes'
  BY SafetyStep DEF MoneyInv, SafetyInv, OrderInv, TypeOK
<1>3. RowFacts'
  BY <1>1, RowFactStep DEF RowFacts
<1>4. PaidOnce'
  BY <1>1, PaidStep DEF PaidOnce, PaidFact
<1>5. MoneyFacts'
  BY <1>1, <1>2, MoneyFactsStep
<1> QED BY <1>2, <1>3, <1>4, <1>5 DEF MoneyInv

(* It holds in every reachable state. *)
LEMMA MoneyInvariant == Spec => []MoneyInv
BY MoneyInit, MoneyStep, PTL DEF Spec

(* payment_status is PAID exactly when exactly one payment row is, and the  *)
(* money of that row arrived, for any number of orders, links and requests. *)
THEOREM MoneyPaidOnce == Spec => []PaidOnce
<1>1. MoneyInv => PaidOnce
  BY DEF MoneyInv
<1> QED BY <1>1, MoneyInvariant, PTL

(* No checkout, void, expiry or report writes over a row that records money. *)
THEOREM MoneyStays == Spec => RecordedMoneyStays
<1> DEFINE Stays == \A o \in Orders, r \in RowIds :
          rows[o][r].status \in {"PAID", "REFUND_REQUIRED"} =>
             /\ rows'[o][r].status = rows[o][r].status
             /\ rows'[o][r].txn = rows[o][r].txn
<1>1. MoneyInv /\ [Next]_vars => [Stays]_vars
  BY StepFacts, RecordedStep
<1> QED BY <1>1, MoneyInvariant, PTL DEF Spec, RecordedMoneyStays

=============================================================================
