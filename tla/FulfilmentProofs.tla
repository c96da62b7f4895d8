-------------------------- MODULE FulfilmentProofs --------------------------
(***************************************************************************)
(* Theorems about Fulfilment for any number of items, requests, disputes   *)
(* and carrier events.                                                     *)
(***************************************************************************)
EXTENDS Fulfilment, TLAPS

OnTheWay == {"SHIPPING", "DELIVERED"}

\* What a request read is still good for: a status it is about to write is not the
\* carrier's, a refund it found required is required, an event it read was recorded.
GoodJob(j) ==
    /\ j \in Job
    /\ j.at \in {"CHECK", "STATUS", "RESOLVE"}
         => j.to \notin OnTheWay /\ (~j.owes => refundStatus = "REQUIRED")
    /\ j.at \in {"EVENT", "FOUND", "TRACK"} => j.key[2] \in DOMAIN history
    /\ j.at \in {"SAVE", "ASK"} => history # <<>>

RowTypes ==
    /\ review \in [Items -> {"NONE", "OPEN", "SUBMITTED", "RESOLVED", "CLOSED"}]
    /\ dispute \in [Disputes -> {"NONE", "OPEN", "RESOLVED"}]
    /\ shipment \in Shipment \cup {NoShipment}
    /\ seen \subseteq Key

Parcel ==
    /\ history \in Seq(Raw) /\ Len(history) <= MaxEvents
    /\ shipment.code => history # <<>>

OrderFacts ==
    /\ status \in Phase /\ refundStatus \in {"NONE", "REQUIRED"}
    /\ GivenUpOwesRefund /\ OnTheWayIsPickedUp

Jobs == job \in [Handlers -> Job] /\ \A h \in Handlers : GoodJob(job[h])

FulfilmentInv == RowTypes /\ Parcel /\ OrderFacts /\ Jobs /\ errors \in 0..MaxErrors

USE FulfilmentAssumption

\* Events are only added.
Recorded == \/ history' = history
            \/ \E raw \in Raw : history' = Append(history, raw)

-----------------------------------------------------------------------------
(* Types of what is read and written *)

LEMMA NoJobTyped == NoJob \in Job
<1>1. <<"", 0>> \in Key
  <2>1. 0 \in 0..MaxEvents /\ "" \in {"WEBHOOK", "AUTO_SYNC", ""}
    OBVIOUS
  <2> QED BY <2>1 DEF Key
<1>2. {} \in SUBSET Items /\ {} \in SUBSET Disputes
  OBVIOUS
<1> QED BY <1>1, <1>2 DEF NoJob, Job, Stage, Phase

LEMMA NoJobGood == GoodJob(NoJob)
BY NoJobTyped DEF GoodJob, NoJob

(* What the carrier reports is a status, and one of a parcel that left the shop, or was
   delivered, only if it was picked up. *)
LEMMA Reported ==
    ASSUME NEW raw \in Raw
    PROVE  /\ mapStatus(raw) \in ShipmentStatus
           /\ mapStatus(raw) \in LeftShop \cup {"DELIVERED"}
                => raw \notin {"ready_to_pick", "cancel"}
BY DEF mapStatus, Raw, ShipmentStatus, LeftShop

LEMMA FollowsCarrier ==
    ASSUME NEW os, NEW ss, NEW to, to = orderStatusForShipment(os, ss), to # os
    PROVE  /\ os \in {"READY_TO_SHIP", "SHIPPING"} /\ to \in OnTheWay
           /\ ss \in LeftShop \cup {"DELIVERED"}
           /\ to = "SHIPPING" => os = "READY_TO_SHIP"
BY DEF orderStatusForShipment, OnTheWay

(* An administrator's target is never the carrier's. *)
LEMMA TargetsAreNotOnTheWay ==
    ASSUME NEW s, NEW to \in AllowedTargets(s)
    PROVE  to \notin OnTheWay
BY DEF AllowedTargets, VerifiedOnlyStatuses, OnTheWay

(* What is recorded stays recorded. *)
LEMMA HistoryGrows ==
    ASSUME history \in Seq(Raw), Recorded
    PROVE  /\ history' \in Seq(Raw)
           /\ DOMAIN history \subseteq DOMAIN history'
           /\ \A k \in DOMAIN history : history'[k] = history[k]
           /\ history # <<>> => history' # <<>>
           /\ PickedUp => PickedUp'
<1>1. CASE history' = history
  BY <1>1 DEF PickedUp
<1>2. ASSUME NEW raw \in Raw, history' = Append(history, raw)
      PROVE  /\ history' \in Seq(Raw)
             /\ DOMAIN history \subseteq DOMAIN history'
             /\ \A k \in DOMAIN history : history'[k] = history[k]
             /\ history' # <<>>
  <2>1. DOMAIN history = 1..Len(history) /\ Len(history) \in Nat
    OBVIOUS
  <2>2. Len(history') = Len(history) + 1
    BY <1>2
  <2> QED BY <1>2, <2>1, <2>2
<1>3. CASE \E raw \in Raw : history' = Append(history, raw)
  BY <1>2, <1>3 DEF PickedUp
<1> QED BY <1>1, <1>3 DEF Recorded

(* A good job in the place of another keeps all jobs good, while refunds stay required
   and events stay recorded. *)
LEMMA JobsStayGood ==
    ASSUME FulfilmentInv, NEW h \in Handlers, NEW j, Set(h, j), GoodJob(j)',
           refundStatus = "REQUIRED" => refundStatus' = "REQUIRED", Recorded
    PROVE  Jobs'
<1>1. DOMAIN history \subseteq DOMAIN history' /\ (history # <<>> => history' # <<>>)
  BY HistoryGrows DEF FulfilmentInv, Parcel
<1>2. j \in Job
  BY DEF GoodJob
<1>3. \A g \in Handlers : job'[g] = IF g = h THEN j ELSE job[g]
  BY DEF Set, FulfilmentInv, Jobs
<1>4. job' \in [Handlers -> Job]
  BY <1>2 DEF Set, FulfilmentInv, Jobs
<1>5. ASSUME NEW g \in Handlers
      PROVE  GoodJob(job[g])' 
  <2>1. CASE g = h
    <3>1. job'[g] = j
      BY <1>3, <2>1
    <3> QED BY <3>1 DEF GoodJob
  <2>2. CASE g # h
    <3>1. job'[g] = job[g] /\ GoodJob(job[g])
      BY <1>3, <2>2 DEF FulfilmentInv, Jobs
    <3> QED BY <3>1, <1>1 DEF GoodJob
  <2> QED BY <2>1, <2>2
<1> QED BY <1>4, <1>5 DEF Jobs

(* A request that only reads, or ends. *)
LEMMA ReadingStep ==
    ASSUME FulfilmentInv, NEW h \in Handlers, NEW j, Set(h, j), GoodJob(j),
           UNCHANGED <<tables, history, errors>>
    PROVE  FulfilmentInv'
<1>1. GoodJob(j)'
  BY DEF GoodJob, tables, orderVars
<1>2. Jobs'
  BY <1>1, JobsStayGood DEF Recorded, tables, orderVars
<1> QED BY <1>2 DEF FulfilmentInv, RowTypes, Parcel, OrderFacts, tables, orderVars,
                    GivenUpOwesRefund, OnTheWayIsPickedUp, PickedUp

(* A request that writes rows around the order, and ends. *)
LEMMA WritingStep ==
    ASSUME FulfilmentInv, NEW h \in Handlers, NEW j, Set(h, j), GoodJob(j)',
           RowTypes', shipment'.code => history' # <<>>,
           Recorded, Len(history') <= MaxEvents,
           UNCHANGED orderVars, errors' \in 0..MaxErrors
    PROVE  FulfilmentInv'
<1>1. Jobs'
  BY JobsStayGood DEF orderVars
<1>2. history' \in Seq(Raw) /\ (PickedUp => PickedUp')
  BY HistoryGrows DEF FulfilmentInv, Parcel
<1> QED BY <1>1, <1>2 DEF FulfilmentInv, Parcel, OrderFacts, orderVars,
                    GivenUpOwesRefund, OnTheWayIsPickedUp
(* A request that writes the status. *)
LEMMA StatusStep ==
    ASSUME FulfilmentInv, NEW h \in Handlers, Done(h), RowTypes',
           status' \in Phase, refundStatus' \in {refundStatus, "REQUIRED"},
           status' \in {"CANCELLED", "RETURNED"} => refundStatus' = "REQUIRED",
           status' \in OnTheWay => PickedUp,
           shipment'.code => history # <<>>, UNCHANGED <<history, errors>>
    PROVE  FulfilmentInv'
<1>1. GoodJob(NoJob)'
  BY NoJobTyped DEF GoodJob, NoJob
<1>2. Jobs'
  BY <1>1, JobsStayGood DEF Done, Recorded, FulfilmentInv, OrderFacts
<1> QED BY <1>2 DEF FulfilmentInv, Parcel, OrderFacts, GivenUpOwesRefund,
                    OnTheWayIsPickedUp, OnTheWay, PickedUp

(* The writes to the row of the shipment. *)
LEMMA ShipmentWrites ==
    ASSUME NEW r \in Shipment \cup {NoShipment}, NEW s \in ShipmentStatus,
           NEW raw \in Raw
    PROVE  /\ [r EXCEPT !.status = s] \in Shipment
           /\ [r EXCEPT !.status = s].code = r.code
           /\ [r EXCEPT !.status = s, !.raw = raw] \in Shipment
           /\ [r EXCEPT !.status = s, !.raw = raw].code = r.code
           /\ [r EXCEPT !.status = s, !.raw = raw, !.code = TRUE] \in Shipment
<1> DEFINE Wide == [status : ShipmentStatus \cup {"NONE"}, raw : Raw \cup {""},
                    at : 0..MaxEvents, code : BOOLEAN]
<1>1. r \in Wide
  <2>1. Shipment \subseteq Wide
    BY DEF Shipment
  <2>2. NoShipment \in Wide
    <3>1. 0 \in 0..MaxEvents
      OBVIOUS
    <3> QED BY <3>1 DEF NoShipment
  <2> QED BY <2>1, <2>2
<1> QED BY <1>1 DEF Shipment

Follows(r, s, raw, k) == [r EXCEPT !.status = s, !.raw = raw, !.at = k]
LEMMA ShipmentFollows ==
    ASSUME NEW r \in Shipment \cup {NoShipment}, NEW s \in ShipmentStatus,
           NEW raw \in Raw, NEW k \in 0..MaxEvents
    PROVE  Follows(r, s, raw, k) \in Shipment /\ Follows(r, s, raw, k).code = r.code
<1> DEFINE Wide == [status : ShipmentStatus \cup {"NONE"}, raw : Raw \cup {""},
                    at : 0..MaxEvents, code : BOOLEAN]
<1>1. r \in Wide
  <2>1. Shipment \subseteq Wide
    BY DEF Shipment
  <2>2. NoShipment \in Wide
    <3>1. 0 \in 0..MaxEvents
      OBVIOUS
    <3> QED BY <3>1 DEF NoShipment
  <2> QED BY <2>1, <2>2
<1> QED BY <1>1 DEF Shipment, Follows

-----------------------------------------------------------------------------
(* Actions *)

(* The jobs that requests start with, and go on with. *)
WithTarget(at, from, to, owes) ==
    [NoJob EXCEPT !.at = at, !.from = from, !.to = to, !.owes = owes]
LEMMA JobWithTarget ==
    ASSUME NEW at \in {"CHECK", "STATUS"}, NEW from \in Phase, NEW to \in Phase,
           NEW owes \in BOOLEAN
    PROVE  LET j == WithTarget(at, from, to, owes)
           IN  j \in Job /\ j.at = at /\ j.to = to /\ j.owes = owes
<1>1. at \in Stage
  BY DEF Stage
<1>2. \A i \in Job :
        LET j == [i EXCEPT !.at = at, !.from = from, !.to = to, !.owes = owes]
        IN  j \in Job /\ j.at = at /\ j.to = to /\ j.owes = owes
  BY <1>1 DEF Job
<1> QED BY <1>2, NoJobTyped DEF WithTarget

LEMMA JobWithItem ==
    ASSUME NEW at \in {"OPEN", "SUBMIT"}, NEW i \in Items
    PROVE  LET j == [NoJob EXCEPT !.at = at, !.item = {i}] IN j \in Job /\ j.at = at
<1>1. \A k \in Job : LET j == [k EXCEPT !.at = at, !.item = {i}] IN j \in Job /\ j.at = at
  BY DEF Job, Stage
<1> QED BY <1>1, NoJobTyped

LEMMA JobWithRow ==
    ASSUME NEW at \in {"ROW", "ASK"}, NEW old \in Shipment \cup {NoShipment}
    PROVE  LET j == [NoJob EXCEPT !.at = at, !.old = old] IN j \in Job /\ j.at = at
<1>1. \A k \in Job : LET j == [k EXCEPT !.at = at, !.old = old] IN j \in Job /\ j.at = at
  BY DEF Job, Stage
<1> QED BY <1>1, NoJobTyped

LEMMA JobAt ==
    ASSUME NEW i \in Job, NEW at \in Stage
    PROVE  /\ [i EXCEPT !.at = at] \in Job
           /\ [i EXCEPT !.at = at].at = at /\ [i EXCEPT !.at = at].to = i.to
           /\ [i EXCEPT !.at = at].owes = i.owes
BY DEF Job

Reads(from, old, key) ==
    [NoJob EXCEPT !.at = "EVENT", !.from = from, !.old = old, !.key = key]
LEMMA JobWithEvent ==
    ASSUME NEW from \in Phase, NEW old \in Shipment \cup {NoShipment}, NEW key \in Key
    PROVE  /\ Reads(from, old, key) \in Job
           /\ Reads(from, old, key).at = "EVENT" /\ Reads(from, old, key).key = key
<1>1. \A i \in Job :
        LET j == [i EXCEPT !.at = "EVENT", !.from = from, !.old = old, !.key = key]
        IN  j \in Job /\ j.at = "EVENT" /\ j.key = key
  BY DEF Job, Stage
<1> QED BY <1>1, NoJobTyped DEF Reads

LEMMA JobWithKey ==
    ASSUME NEW at \in {"FOUND", "TRACK"}, NEW key \in Key
    PROVE  LET j == [NoJob EXCEPT !.at = at, !.key = key]
           IN  j \in Job /\ j.at = at /\ j.key = key
<1>1. \A i \in Job : LET j == [i EXCEPT !.at = at, !.key = key]
                     IN  j \in Job /\ j.at = at /\ j.key = key
  BY DEF Job, Stage
<1> QED BY <1>1, NoJobTyped

OfCron(i, from, old) == [i EXCEPT !.at = "EVENT", !.from = from, !.old = old]
LEMMA JobOfCron ==
    ASSUME NEW i \in Job, NEW from \in Phase, NEW old \in Shipment \cup {NoShipment}
    PROVE  LET j == OfCron(i, from, old)
           IN  j \in Job /\ j.at = "EVENT" /\ j.key = i.key
BY DEF Job, Stage, OfCron

Resolving(to, d, owes) ==
    [NoJob EXCEPT !.at = "RESOLVE", !.to = to, !.dispute = {d}, !.owes = owes]
LEMMA JobResolving ==
    ASSUME NEW to \in Phase, NEW d \in Disputes, NEW owes \in BOOLEAN
    PROVE  LET j == Resolving(to, d, owes)
           IN  j \in Job /\ j.at = "RESOLVE" /\ j.to = to /\ j.owes = owes
<1>1. \A i \in Job :
        LET j == [i EXCEPT !.at = "RESOLVE", !.to = to, !.dispute = {d}, !.owes = owes]
        IN  j \in Job /\ j.at = "RESOLVE" /\ j.to = to /\ j.owes = owes
  BY DEF Job, Stage
<1> QED BY <1>1, NoJobTyped DEF Resolving

LEMMA StatusSteps ==
    ASSUME FulfilmentInv, NEW h \in Handlers,
           (\E to \in Phase : StatusRead(h, to)) \/ StatusCheck(h) \/ StatusWrite(h)
    PROVE  FulfilmentInv'
<1>1. job[h] \in Job /\ GoodJob(job[h]) /\ status \in Phase
      /\ refundStatus \in {"NONE", "REQUIRED"}
  BY DEF FulfilmentInv, Jobs, OrderFacts
<1>2. ASSUME NEW to \in Phase, StatusRead(h, to)
      PROVE  FulfilmentInv'
  <2> DEFINE at == IF status = "MEASUREMENT_REVIEW" /\ to = "MEASUREMENT_CONFIRMED"
                   THEN "CHECK" ELSE "STATUS"
             owes == refundStatus = "NONE"
             j == WithTarget(at, status, to, owes)
  <2>1. at \in {"CHECK", "STATUS"}
    OBVIOUS
  <2>2. j \in Job /\ j.at = at /\ j.to = to /\ j.owes = owes
    <3>1. owes \in BOOLEAN
      OBVIOUS
    <3> HIDE DEF at, owes
    <3> QED BY <1>1, <1>2, <2>1, <3>1, JobWithTarget
  <2>3. to \notin OnTheWay
    BY <1>2, TargetsAreNotOnTheWay DEF StatusRead
  <2>4. GoodJob(j)
    <3> HIDE DEF j
    <3> QED BY <1>1, <2>1, <2>2, <2>3 DEF GoodJob
  <2>5. Set(h, j) /\ UNCHANGED <<tables, history, errors>>
    BY <1>2 DEF StatusRead, Start, WithTarget
  <2> HIDE DEF j
  <2> QED BY <2>4, <2>5, ReadingStep
<1>3. CASE StatusCheck(h)
  <2>1. CASE \E i \in Items : review[i] = "OPEN"
    BY <1>3, <2>1, NoJobGood, ReadingStep DEF StatusCheck, Done
  <2>2. CASE ~\E i \in Items : review[i] = "OPEN"
    <3> DEFINE j == [job[h] EXCEPT !.at = "STATUS"]
    <3>1. j \in Job /\ j.at = "STATUS" /\ j.to = job[h].to /\ j.owes = job[h].owes
      <4>1. "STATUS" \in Stage
        BY DEF Stage
      <4> QED BY <1>1, <4>1, JobAt
    <3>2. GoodJob(j)
      <4> HIDE DEF j
      <4> QED BY <1>1, <1>3, <3>1 DEF StatusCheck, At, GoodJob
    <3>3. Set(h, j) /\ UNCHANGED <<tables, history, errors>>
      BY <1>3, <2>2 DEF StatusCheck
    <3> HIDE DEF j
    <3> QED BY <3>2, <3>3, ReadingStep
  <2> QED BY <2>1, <2>2
<1>4. CASE StatusWrite(h)
  <2>1. job[h].to \in Phase /\ job[h].to \notin OnTheWay
        /\ (~job[h].owes => refundStatus = "REQUIRED")
    BY <1>1, <1>4 DEF StatusWrite, At, GoodJob, Job
  <2>2. review' \in [Items -> {"NONE", "OPEN", "SUBMITTED", "RESOLVED", "CLOSED"}]
    BY <1>4 DEF StatusWrite, ReviewsAfter, resolveSubmittedMeasurementReviews,
                closeMeasurementReviews, FulfilmentInv, RowTypes
  <2>3. dispute' \in [Disputes -> {"NONE", "OPEN", "RESOLVED"}]
    BY <1>4 DEF StatusWrite, CloseDisputes, FulfilmentInv, RowTypes
  <2>4. RowTypes'
    BY <1>4, <2>2, <2>3 DEF StatusWrite, FulfilmentInv, RowTypes
  <2>5. status' = job[h].to
        /\ refundStatus' = IF NeedsRefund(job[h].to, job[h].owes) THEN "REQUIRED"
                           ELSE refundStatus
    BY <1>4 DEF StatusWrite
  <2>6. status' \in {"CANCELLED", "RETURNED"} => refundStatus' = "REQUIRED"
    BY <2>1, <2>5 DEF NeedsRefund
  <2>7. Done(h) /\ UNCHANGED <<shipment, history, errors>>
    BY <1>4 DEF StatusWrite
  <2> QED BY <2>1, <2>4, <2>5, <2>6, <2>7, StatusStep DEF FulfilmentInv, Parcel
<1> QED BY <1>2, <1>3, <1>4

LEMMA ReviewSteps ==
    ASSUME FulfilmentInv, NEW h \in Handlers,
           \/ \E i \in Items : RequestRead(h, i) \/ ReopenRead(h, i) \/ SubmitRead(h, i)
           \/ ReviewWrite(h) \/ SubmitWrite(h)
    PROVE  FulfilmentInv'
<1>1. ASSUME NEW i \in Items, NEW at \in {"OPEN", "SUBMIT"},
             Set(h, [NoJob EXCEPT !.at = at, !.item = {i}]),
             UNCHANGED <<tables, history, errors>>
      PROVE  FulfilmentInv'
  <2> DEFINE j == [NoJob EXCEPT !.at = at, !.item = {i}]
  <2>1. j \in Job /\ j.at = at
    BY <1>1, JobWithItem
  <2>2. Set(h, j)
    BY <1>1
  <2> HIDE DEF j
  <2>3. GoodJob(j)
    BY <1>1, <2>1 DEF GoodJob
  <2> QED BY <1>1, <2>2, <2>3, ReadingStep
<1>2. ASSUME NEW i \in Items, RequestRead(h, i) \/ ReopenRead(h, i) \/ SubmitRead(h, i)
      PROVE  FulfilmentInv'
  BY <1>1, <1>2 DEF RequestRead, ReopenRead, ReviewRead, SubmitRead, Start
<1>3. CASE ReviewWrite(h) \/ SubmitWrite(h)
  <2>1. review' \in [Items -> {"NONE", "OPEN", "SUBMITTED", "RESOLVED", "CLOSED"}]
    BY <1>3 DEF ReviewWrite, SubmitWrite, FulfilmentInv, RowTypes
  <2>2. Set(h, NoJob) /\ UNCHANGED <<orderVars, dispute, shipment, seen, history, errors>>
    BY <1>3 DEF ReviewWrite, SubmitWrite, Done
  <2>3. GoodJob(NoJob)'
    BY NoJobTyped DEF GoodJob, NoJob
  <2> QED BY <2>1, <2>2, <2>3, WritingStep DEF FulfilmentInv, RowTypes, Parcel, Recorded
<1> QED BY <1>2, <1>3
LEMMA ShipmentSteps ==
    ASSUME FulfilmentInv, NEW h \in Handlers,
           \/ CreateRead(h) \/ CreateRow(h) \/ CreateCall(h) \/ CreateError(h)
           \/ CreateFail(h) \/ CreateSave(h)
    PROVE  FulfilmentInv'
<1>1. job[h] \in Job /\ GoodJob(job[h]) /\ shipment \in Shipment \cup {NoShipment}
      /\ history \in Seq(Raw) /\ Len(history) <= MaxEvents /\ errors \in 0..MaxErrors
  BY DEF FulfilmentInv, Jobs, RowTypes, Parcel
<1>2. GoodJob(NoJob)'
  BY NoJobTyped DEF GoodJob, NoJob
<1>3. ASSUME NEW at \in Stage \ {"CHECK", "STATUS", "RESOLVE", "EVENT", "FOUND", "TRACK"},
             Set(h, [job[h] EXCEPT !.at = at]),
             at \in {"SAVE", "ASK"} => history' # <<>>,
             RowTypes', shipment'.code => history' # <<>>,
             Recorded, Len(history') <= MaxEvents,
             UNCHANGED orderVars, errors' \in 0..MaxErrors
      PROVE  FulfilmentInv'
  <2>1. PICK j \in Job : Set(h, j) /\ j.at = at
    <3>1. at \in Stage
      BY <1>3
    <3> QED BY <1>1, <1>3, <3>1, JobAt
  <2>2. GoodJob(j)'
    BY <1>3, <2>1 DEF GoodJob
  <2> QED BY <1>3, <2>1, <2>2, WritingStep
<1>4. CASE CreateRead(h)
  <2> DEFINE j == [NoJob EXCEPT !.at = "ROW", !.old = shipment]
  <2>1. j \in Job /\ j.at = "ROW"
    BY <1>1, JobWithRow
  <2>2. Set(h, j) /\ UNCHANGED <<tables, history, errors>>
    BY <1>4 DEF CreateRead, Start
  <2> HIDE DEF j
  <2>3. GoodJob(j)
    BY <2>1 DEF GoodJob
  <2> QED BY <2>2, <2>3, ReadingStep
<1>5. CASE CreateRow(h)
  <2> DEFINE row == [NoShipment EXCEPT !.status = "PENDING"]
  <2>1. row \in Shipment /\ ~row.code
    <3>1. "PENDING" \in ShipmentStatus /\ ~NoShipment.code
      BY DEF ShipmentStatus, NoShipment
    <3> QED BY <3>1, ShipmentWrites DEF Raw
  <2>2. shipment' = shipment \/ shipment' = row
    BY <1>5 DEF CreateRow
  <2>3. RowTypes' /\ (shipment'.code => history # <<>>)
    <3> HIDE DEF row
    <3> QED BY <1>5, <2>1, <2>2 DEF CreateRow, FulfilmentInv, RowTypes, Parcel
  <2>4. Set(h, NoJob) \/ Set(h, [job[h] EXCEPT !.at = "CALL"])
    BY <1>5 DEF CreateRow, Done
  <2>5. UNCHANGED <<orderVars, history, errors>>
    BY <1>5 DEF CreateRow
  <2>6. CASE Set(h, NoJob)
    BY <1>1, <1>2, <2>3, <2>5, <2>6, WritingStep DEF Recorded
  <2>7. CASE Set(h, [job[h] EXCEPT !.at = "CALL"])
    BY <1>1, <1>3, <2>3, <2>5, <2>7 DEF Stage, Recorded
  <2> QED BY <2>4, <2>6, <2>7
<1>6. CASE CreateCall(h)
  <2>1. history = <<>> /\ history' = <<"ready_to_pick">> /\ "ready_to_pick" \in Raw
        /\ MaxEvents > 0
    BY <1>6 DEF CreateCall, Raw
  <2>2. Recorded /\ history' # <<>> /\ Len(history') <= MaxEvents
    BY <2>1 DEF Recorded
  <2>3. RowTypes' /\ UNCHANGED orderVars /\ errors' = errors
    BY <1>6 DEF CreateCall, tables, FulfilmentInv, RowTypes
  <2>4. Set(h, [job[h] EXCEPT !.at = "SAVE"])
    BY <1>6 DEF CreateCall
  <2> QED BY <1>1, <1>3, <2>2, <2>3, <2>4 DEF Stage
<1>7. CASE CreateError(h)
  <2>1. \/ history' = history
        \/ /\ history = <<>> /\ history' = <<"ready_to_pick">> /\ "ready_to_pick" \in Raw
           /\ MaxEvents > 0
    BY <1>7 DEF CreateError, Raw
  <2>2. Recorded /\ Len(history') <= MaxEvents /\ (history # <<>> => history' # <<>>)
    <3>1. history = <<>> => Append(history, "ready_to_pick") = <<"ready_to_pick">>
      OBVIOUS
    <3>2. CASE history' = history
      BY <1>1, <3>2 DEF Recorded
    <3>3. CASE history' # history
      <4>1. history' = Append(history, "ready_to_pick") /\ "ready_to_pick" \in Raw
        BY <2>1, <3>1, <3>3
      <4>2. Len(history') <= MaxEvents /\ history' # <<>>
        BY <2>1, <3>3
      <4> QED BY <4>1, <4>2 DEF Recorded
    <3> QED BY <3>2, <3>3
  <2>3. RowTypes' /\ UNCHANGED orderVars /\ shipment' = shipment
        /\ errors' \in 0..MaxErrors
    BY <1>1, <1>7 DEF CreateError, tables, FulfilmentInv, RowTypes
  <2>4. Set(h, [job[h] EXCEPT !.at = "FAIL"])
    BY <1>7 DEF CreateError
  <2> QED BY <1>1, <1>3, <2>2, <2>3, <2>4 DEF Stage, FulfilmentInv, Parcel
<1>8. CASE CreateFail(h)
  <2>1. shipment' = [shipment EXCEPT !.status = "FAILED"]
    BY <1>8 DEF CreateFail
  <2>2. shipment' \in Shipment /\ shipment'.code = shipment.code
    BY <1>1, <2>1, ShipmentWrites DEF ShipmentStatus, Raw
  <2>3. Set(h, NoJob) /\ UNCHANGED <<orderVars, review, dispute, seen, history, errors>>
    BY <1>8 DEF CreateFail, Done
  <2> QED BY <1>1, <1>2, <2>2, <2>3, WritingStep
          DEF FulfilmentInv, RowTypes, Parcel, Recorded
<1>9. CASE CreateSave(h)
  <2>1. shipment' = [shipment EXCEPT !.status = "READY_TO_PICK",
                                     !.raw = "ready_to_pick", !.code = TRUE]
    BY <1>9 DEF CreateSave
  <2>2. shipment' \in Shipment
    BY <1>1, <2>1, ShipmentWrites DEF ShipmentStatus, Raw
  <2>3. Set(h, NoJob) /\ UNCHANGED <<orderVars, review, dispute, seen, history, errors>>
    BY <1>9 DEF CreateSave, Done
  <2>4. history # <<>>
    BY <1>1, <1>9 DEF CreateSave, At, GoodJob
  <2> QED BY <1>1, <1>2, <2>2, <2>3, <2>4, WritingStep
          DEF FulfilmentInv, RowTypes, Recorded
<1> QED BY <1>4, <1>5, <1>6, <1>7, <1>8, <1>9

LEMMA CancelSteps ==
    ASSUME FulfilmentInv, NEW h \in Handlers,
           CancelRead(h) \/ CancelCall(h) \/ CancelWrite(h)
    PROVE  FulfilmentInv'
<1>1. job[h] \in Job /\ GoodJob(job[h]) /\ shipment \in Shipment \cup {NoShipment}
      /\ history \in Seq(Raw) /\ Len(history) <= MaxEvents /\ errors \in 0..MaxErrors
  BY DEF FulfilmentInv, Jobs, RowTypes, Parcel
<1>2. GoodJob(NoJob)'
  BY NoJobTyped DEF GoodJob, NoJob
<1>3. ASSUME NEW i \in Job, NEW at \in {"RECALL", "CANCEL"}
      PROVE  [i EXCEPT !.at = at] \in Job /\ [i EXCEPT !.at = at].at = at
  BY <1>3 DEF Job, Stage
<1>4. CASE CancelRead(h)
  <2> DEFINE at == IF shipment.code THEN "RECALL" ELSE "CANCEL"
             j == [NoJob EXCEPT !.at = at]
  <2>1. at \in {"RECALL", "CANCEL"}
    OBVIOUS
  <2>2. j \in Job /\ j.at = at
    <3> HIDE DEF at
    <3> QED BY <1>3, <2>1, NoJobTyped
  <2>3. Set(h, j) /\ UNCHANGED <<tables, history, errors>>
    BY <1>4 DEF CancelRead, Start
  <2>4. GoodJob(j)
    <3> HIDE DEF j
    <3> QED BY <2>1, <2>2 DEF GoodJob
  <2> HIDE DEF j
  <2> QED BY <2>3, <2>4, ReadingStep
<1>5. CASE CancelCall(h)
  <2>1. CASE Current = "ready_to_pick" /\ Len(history) < MaxEvents
    <3>1. [job[h] EXCEPT !.at = "CANCEL"] \in Job
          /\ [job[h] EXCEPT !.at = "CANCEL"].at = "CANCEL"
      BY <1>1, <1>3
    <3>2. PICK j \in Job : Set(h, j) /\ j.at = "CANCEL"
      BY <1>5, <2>1, <3>1 DEF CancelCall
    <3>3. history' = Append(history, "cancel") /\ UNCHANGED <<tables, errors>>
      BY <1>5, <2>1 DEF CancelCall
    <3>4. Recorded /\ Len(history') <= MaxEvents /\ (history # <<>> => history' # <<>>)
      BY <1>1, <2>1, <3>3 DEF Recorded, Raw
    <3>5. GoodJob(j)'
      BY <3>2 DEF GoodJob
    <3> QED BY <1>1, <3>2, <3>3, <3>4, <3>5, WritingStep
            DEF tables, FulfilmentInv, RowTypes, Parcel
  <2>2. CASE ~(Current = "ready_to_pick" /\ Len(history) < MaxEvents)
    BY <1>5, <2>2, NoJobGood, ReadingStep DEF CancelCall, Done
  <2> QED BY <2>1, <2>2
<1>6. CASE CancelWrite(h)
  <2>1. \/ shipment' = [shipment EXCEPT !.status = "CANCELLED"]
        \/ shipment' = [shipment EXCEPT !.status = "CANCELLED", !.raw = "cancel"]
    BY <1>6 DEF CancelWrite
  <2>2. shipment' \in Shipment /\ shipment'.code = shipment.code
    <3>1. "CANCELLED" \in ShipmentStatus /\ "cancel" \in Raw
      BY DEF ShipmentStatus, Raw
    <3>2. CASE shipment' = [shipment EXCEPT !.status = "CANCELLED"]
      BY <1>1, <3>1, <3>2, ShipmentWrites
    <3>3. CASE shipment' = [shipment EXCEPT !.status = "CANCELLED", !.raw = "cancel"]
      BY <1>1, <3>1, <3>3, ShipmentWrites
    <3> QED BY <2>1, <3>2, <3>3
  <2>3. Set(h, NoJob) /\ UNCHANGED <<orderVars, review, dispute, seen, history, errors>>
    BY <1>6 DEF CancelWrite, Done
  <2>4. RowTypes'
    BY <2>2, <2>3 DEF FulfilmentInv, RowTypes
  <2>5. (shipment'.code => history' # <<>>) /\ Len(history') <= MaxEvents
        /\ errors' \in 0..MaxErrors /\ Recorded
    BY <1>1, <2>2, <2>3 DEF FulfilmentInv, Parcel, Recorded
  <2> QED BY <1>2, <2>3, <2>4, <2>5, WritingStep
<1> QED BY <1>4, <1>5, <1>6
LEMMA EventSteps ==
    ASSUME FulfilmentInv, NEW h \in Handlers,
           (\E k \in 1..MaxEvents : WebhookRead(h, k)) \/ EventWrite(h)
    PROVE  FulfilmentInv'
<1>1. job[h] \in Job /\ GoodJob(job[h]) /\ shipment \in Shipment \cup {NoShipment}
      /\ history \in Seq(Raw) /\ Len(history) <= MaxEvents /\ status \in Phase
      /\ refundStatus \in {"NONE", "REQUIRED"} /\ seen \subseteq Key
  BY DEF FulfilmentInv, Jobs, RowTypes, Parcel, OrderFacts
<1>2. ASSUME NEW k \in 1..MaxEvents, WebhookRead(h, k)
      PROVE  FulfilmentInv'
  <2> DEFINE key == <<"WEBHOOK", k>>
             j == Reads(status, shipment, key)
  <2>1. key \in Key /\ key[2] = k
    <3>1. k \in 0..MaxEvents /\ "WEBHOOK" \in {"WEBHOOK", "AUTO_SYNC", ""}
      BY <1>2
    <3> QED BY <3>1 DEF Key
  <2>2. j \in Job /\ j.at = "EVENT" /\ j.key = key
    <3>1. status \in Phase /\ shipment \in Shipment \cup {NoShipment} /\ key \in Key
      BY <1>1, <2>1
    <3> HIDE DEF key
    <3> QED BY <3>1, JobWithEvent
  <2>3. k \in DOMAIN history /\ Set(h, j) /\ UNCHANGED <<tables, history, errors>>
    BY <1>2 DEF WebhookRead, Start, Reads
  <2> HIDE DEF j, key
  <2>4. GoodJob(j)
    BY <2>1, <2>2, <2>3 DEF GoodJob
  <2> QED BY <2>3, <2>4, ReadingStep
<1>3. CASE EventWrite(h)
  <2> DEFINE k == job[h].key[2]
             to == FollowsOrder(job[h])
             row == Follows(shipment, mapStatus(history[k]), history[k], k)
  <2>1. k \in DOMAIN history /\ job[h].key \in Key
    BY <1>1, <1>3 DEF EventWrite, At, GoodJob, Job
  <2>2. history[k] \in Raw /\ k \in 0..MaxEvents
    BY <1>1, <2>1
  <2>3. row \in Shipment /\ row.code = shipment.code
    <3>1. mapStatus(history[k]) \in ShipmentStatus
      BY <2>2, Reported
    <3> HIDE DEF k
    <3> QED BY <1>1, <2>2, <3>1, ShipmentFollows
  <2>4. /\ seen' = seen \cup {job[h].key}
        /\ \/ UNCHANGED <<shipment, status>>
           \/ /\ shipment' = row
              /\ (status' = status) \/ (status' = to /\ to # job[h].from)
        /\ Done(h) /\ UNCHANGED <<refundStatus, review, dispute, history, errors>>
    <3>1. CASE job[h].key \in seen \/ Stale(job[h])
      BY <1>3, <3>1 DEF EventWrite
    <3>2. CASE ~(job[h].key \in seen \/ Stale(job[h]))
      <4>1. shipment' = row
        BY <1>3, <3>2 DEF EventWrite, Follows
      <4>2. status' = IF to # job[h].from /\ StatusUnmoved(job[h]) THEN to ELSE status
        BY <1>3, <3>2 DEF EventWrite
      <4>3. /\ seen' = seen \cup {job[h].key} /\ Done(h)
            /\ UNCHANGED <<refundStatus, review, dispute, history, errors>>
        BY <1>3 DEF EventWrite
      <4> HIDE DEF row, to
      <4> QED BY <4>1, <4>2, <4>3
    <3> QED BY <3>1, <3>2
  <2>5. shipment' \in Shipment \cup {NoShipment} /\ shipment'.code = shipment.code
    <3> HIDE DEF row
    <3> QED BY <1>1, <2>3, <2>4
  <2>6. RowTypes'
    BY <1>1, <2>1, <2>4, <2>5 DEF FulfilmentInv, RowTypes
  <2>7. ASSUME status' # status
        PROVE  status' \in OnTheWay /\ PickedUp
    <3>1. status' = to /\ to # job[h].from
      BY <2>4, <2>7
    <3>2. status' \in OnTheWay /\ mapStatus(history[k]) \in LeftShop \cup {"DELIVERED"}
      BY <3>1, FollowsCarrier DEF FollowsOrder
    <3>3. history[k] \notin {"ready_to_pick", "cancel"}
      BY <2>2, <3>2, Reported
    <3> QED BY <2>1, <3>2, <3>3 DEF PickedUp
  <2>8. /\ status' \in Phase
        /\ status' \in {"CANCELLED", "RETURNED"} => refundStatus' = "REQUIRED"
        /\ status' \in OnTheWay => PickedUp
    BY <1>1, <2>4, <2>7 DEF FulfilmentInv, OrderFacts, GivenUpOwesRefund,
                          OnTheWayIsPickedUp, OnTheWay, Phase
  <2> QED BY <1>1, <2>4, <2>5, <2>6, <2>8, StatusStep DEF FulfilmentInv, Parcel
<1> QED BY <1>2, <1>3

LEMMA SyncSteps ==
    ASSUME FulfilmentInv, NEW h \in Handlers,
           SyncRead(h) \/ SyncAsk(h) \/ SyncFound(h) \/ TrackRead(h) \/ TrackWrite(h)
    PROVE  FulfilmentInv'
<1>1. job[h] \in Job /\ GoodJob(job[h]) /\ shipment \in Shipment \cup {NoShipment}
      /\ history \in Seq(Raw) /\ Len(history) <= MaxEvents /\ status \in Phase
      /\ errors \in 0..MaxErrors
  BY DEF FulfilmentInv, Jobs, RowTypes, Parcel, OrderFacts
<1>2. CASE SyncRead(h)
  <2> DEFINE j == [NoJob EXCEPT !.at = "ASK", !.old = shipment]
  <2>1. j \in Job /\ j.at = "ASK"
    BY <1>1, JobWithRow
  <2>2. history # <<>> /\ Set(h, j) /\ UNCHANGED <<tables, history, errors>>
    BY <1>2 DEF SyncRead, Start, FulfilmentInv, Parcel
  <2> HIDE DEF j
  <2>3. GoodJob(j)
    BY <2>1, <2>2 DEF GoodJob
  <2> QED BY <2>2, <2>3, ReadingStep
<1>3. CASE SyncAsk(h)
  <2> DEFINE key == <<"AUTO_SYNC", Len(history)>>
             j == [NoJob EXCEPT !.at = "FOUND", !.key = key]
  <2>1. history # <<>>
    BY <1>1, <1>3 DEF SyncAsk, At, GoodJob
  <2>2. key \in Key /\ key[2] = Len(history) /\ Len(history) \in DOMAIN history
    <3>1. Len(history) \in 0..MaxEvents /\ Len(history) \in DOMAIN history
      BY <1>1, <2>1
    <3>2. "AUTO_SYNC" \in {"WEBHOOK", "AUTO_SYNC", ""}
      OBVIOUS
    <3> QED BY <3>1, <3>2 DEF Key
  <2>3. j \in Job /\ j.at = "FOUND" /\ j.key = key
    <3> HIDE DEF key
    <3> QED BY <2>2, JobWithKey
  <2>4. (Set(h, j) \/ Set(h, NoJob)) /\ UNCHANGED <<tables, history, errors>>
    BY <1>3 DEF SyncAsk, Done
  <2> HIDE DEF j, key
  <2>5. GoodJob(j)
    BY <2>2, <2>3 DEF GoodJob
  <2>6. CASE Set(h, j)
    BY <2>4, <2>5, <2>6, ReadingStep
  <2>7. CASE Set(h, NoJob)
    BY <2>4, <2>7, NoJobGood, ReadingStep
  <2> QED BY <2>4, <2>6, <2>7
<1>4. CASE SyncFound(h)
  <2> DEFINE j == OfCron(job[h], status, shipment)
  <2>1. j \in Job /\ j.at = "EVENT" /\ j.key = job[h].key
    BY <1>1, JobOfCron
  <2>2. Set(h, j) /\ UNCHANGED <<tables, history, errors>>
    BY <1>4 DEF SyncFound, OfCron
  <2>3. job[h].key[2] \in DOMAIN history
    BY <1>1, <1>4 DEF SyncFound, At, GoodJob
  <2> HIDE DEF j
  <2>4. GoodJob(j)
    BY <2>1, <2>3 DEF GoodJob
  <2> QED BY <2>2, <2>4, ReadingStep
<1>5. CASE TrackRead(h)
  <2> DEFINE key == <<"", Len(history)>>
             j == [NoJob EXCEPT !.at = "TRACK", !.key = key]
  <2>1. history # <<>> /\ Set(h, j) /\ UNCHANGED <<tables, history, errors>>
    BY <1>5 DEF TrackRead, Start
  <2>2. key \in Key /\ key[2] = Len(history) /\ Len(history) \in DOMAIN history
    <3>1. Len(history) \in 0..MaxEvents /\ Len(history) \in DOMAIN history
      BY <1>1, <2>1
    <3>2. "" \in {"WEBHOOK", "AUTO_SYNC", ""}
      OBVIOUS
    <3> QED BY <3>1, <3>2 DEF Key
  <2>3. j \in Job /\ j.at = "TRACK" /\ j.key = key
    <3> HIDE DEF key
    <3> QED BY <2>2, JobWithKey
  <2> HIDE DEF j, key
  <2>4. GoodJob(j)
    BY <2>2, <2>3 DEF GoodJob
  <2> QED BY <2>1, <2>4, ReadingStep
<1>6. CASE TrackWrite(h)
  <2> DEFINE raw == history[job[h].key[2]]
  <2>1. job[h].key[2] \in DOMAIN history
    BY <1>1, <1>6 DEF TrackWrite, At, GoodJob
  <2>2. raw \in Raw /\ mapStatus(raw) \in ShipmentStatus
    <3>1. raw \in Raw
      BY <1>1, <2>1
    <3> QED BY <3>1, Reported
  <2>3. shipment' = [shipment EXCEPT !.status = mapStatus(raw)]
    BY <1>6 DEF TrackWrite
  <2>4. shipment' \in Shipment /\ shipment'.code = shipment.code
    <3> HIDE DEF raw
    <3> QED BY <1>1, <2>2, <2>3, ShipmentWrites
  <2>5. Set(h, NoJob) /\ UNCHANGED <<orderVars, review, dispute, seen, history, errors>>
    BY <1>6 DEF TrackWrite, Done
  <2>6. GoodJob(NoJob)'
    BY NoJobTyped DEF GoodJob, NoJob
  <2>7. shipment'.code => history # <<>>
    BY <2>4 DEF FulfilmentInv, Parcel
  <2> QED BY <1>1, <2>4, <2>5, <2>6, <2>7, WritingStep
          DEF FulfilmentInv, RowTypes, Recorded
<1> QED BY <1>2, <1>3, <1>4, <1>5, <1>6

LEMMA DeliverySteps ==
    ASSUME FulfilmentInv, NEW h \in Handlers,
           \/ ConfirmRead(h) \/ ConfirmWrite(h) \/ DisputeRead(h) \/ DisputeWrite(h)
           \/ \E to \in {"CANCELLED", "COMPLETED"} : ResolveRead(h, to)
           \/ ResolveWrite(h)
    PROVE  FulfilmentInv'
<1>1. job[h] \in Job /\ GoodJob(job[h]) /\ status \in Phase
      /\ refundStatus \in {"NONE", "REQUIRED"}
      /\ dispute \in [Disputes -> {"NONE", "OPEN", "RESOLVED"}]
      /\ (shipment.code => history # <<>>)
  BY DEF FulfilmentInv, Jobs, RowTypes, OrderFacts, Parcel
<1>2. CASE ConfirmRead(h) \/ DisputeRead(h)
  <2>1. ASSUME NEW at \in {"CONFIRM", "DISPUTE"}
        PROVE  GoodJob([NoJob EXCEPT !.at = at])
    <3>1. at \in Stage
      BY <2>1 DEF Stage
    <3>2. [NoJob EXCEPT !.at = at] \in Job /\ [NoJob EXCEPT !.at = at].at = at
      BY <3>1, NoJobTyped, JobAt
    <3> QED BY <2>1, <3>2 DEF GoodJob
  <2>2. PICK at \in {"CONFIRM", "DISPUTE"} : Set(h, [NoJob EXCEPT !.at = at])
    BY <1>2 DEF ConfirmRead, DisputeRead, Start
  <2>3. UNCHANGED <<tables, history, errors>>
    BY <1>2 DEF ConfirmRead, DisputeRead
  <2> QED BY <2>1, <2>2, <2>3, ReadingStep
<1>3. CASE ConfirmWrite(h)
  <2>1. RowTypes'
    BY <1>1, <1>3 DEF ConfirmWrite, CloseDisputes, FulfilmentInv, RowTypes
  <2> QED BY <1>1, <1>3, <2>1, StatusStep DEF ConfirmWrite, Phase, OnTheWay
<1>4. CASE DisputeWrite(h)
  <2>1. RowTypes' /\ (status' = status \/ status' = "DELIVERY_DISPUTED")
    BY <1>1, <1>4 DEF DisputeWrite, FulfilmentInv, RowTypes
  <2>2. Done(h) /\ UNCHANGED <<refundStatus, review, shipment, seen, history, errors>>
    BY <1>4 DEF DisputeWrite
  <2>3. /\ status' \in Phase
        /\ status' \in {"CANCELLED", "RETURNED"} => refundStatus' = "REQUIRED"
        /\ status' \in OnTheWay => PickedUp
    BY <1>1, <2>1, <2>2 DEF FulfilmentInv, OrderFacts, GivenUpOwesRefund,
                          OnTheWayIsPickedUp, OnTheWay, Phase
  <2>4. shipment'.code => history # <<>>
    BY <1>1, <2>2
  <2>5. refundStatus' \in {refundStatus, "REQUIRED"}
    BY <2>2
  <2> QED BY <2>1, <2>2, <2>3, <2>4, <2>5, StatusStep
<1>5. ASSUME NEW to \in {"CANCELLED", "COMPLETED"}, ResolveRead(h, to)
      PROVE  FulfilmentInv'
  <2>1. PICK d \in Disputes :
          Start(h, [NoJob EXCEPT !.at = "RESOLVE", !.to = to, !.dispute = {d},
                                 !.owes = refundStatus = "NONE"])
    BY <1>5 DEF ResolveRead, OpenDisputes
  <2> DEFINE owes == refundStatus = "NONE"
             j == Resolving(to, d, owes)
  <2>2. to \in Phase /\ to \notin OnTheWay
    BY <1>5 DEF Phase, OnTheWay
  <2>3. j \in Job /\ j.at = "RESOLVE" /\ j.to = to /\ j.owes = owes
    <3>1. owes \in BOOLEAN
      OBVIOUS
    <3> HIDE DEF owes
    <3> QED BY <2>2, <3>1, JobResolving
  <2>4. Set(h, j) /\ UNCHANGED <<tables, history, errors>>
    BY <1>5, <2>1 DEF ResolveRead, Start, Resolving
  <2> HIDE DEF j
  <2>5. GoodJob(j)
    BY <1>1, <2>2, <2>3 DEF GoodJob
  <2> QED BY <2>4, <2>5, ReadingStep
<1>6. CASE ResolveWrite(h)
  <2>1. job[h].to \in Phase /\ job[h].to \notin OnTheWay
        /\ (~job[h].owes => refundStatus = "REQUIRED")
    BY <1>1, <1>6 DEF ResolveWrite, At, GoodJob, Job
  <2>2. RowTypes'
    BY <1>1, <1>6 DEF ResolveWrite, CloseDisputes, FulfilmentInv, RowTypes
  <2>3. status' = job[h].to
        /\ refundStatus' = IF NeedsRefund(job[h].to, job[h].owes) THEN "REQUIRED"
                           ELSE refundStatus
    BY <1>6 DEF ResolveWrite
  <2>4. status' \in {"CANCELLED", "RETURNED"} => refundStatus' = "REQUIRED"
    BY <2>1, <2>3 DEF NeedsRefund
  <2>5. Done(h) /\ UNCHANGED <<shipment, history, errors>>
    BY <1>6 DEF ResolveWrite
  <2> QED BY <1>1, <2>1, <2>2, <2>3, <2>4, <2>5, StatusStep
<1> QED BY <1>2, <1>3, <1>4, <1>5, <1>6

(* The carrier moves the parcel, or a request is lost. *)
LEMMA OutsideSteps ==
    ASSUME FulfilmentInv, CarrierMoves \/ (\E h \in Handlers : Crash(h)) \/ UNCHANGED vars
    PROVE  FulfilmentInv'
<1>1. CASE CarrierMoves
  <2>1. history \in Seq(Raw) /\ history # <<>>
    BY <1>1 DEF CarrierMoves, FulfilmentInv, Parcel
  <2>2. Current \in Raw
    BY <2>1 DEF Current
  <2>3. CarrierNext(Current) \subseteq Raw
    BY <2>2 DEF CarrierNext, Raw
  <2>4. Recorded /\ Len(history') <= MaxEvents
    BY <1>1, <2>1, <2>3 DEF CarrierMoves, Recorded
  <2>5. /\ history' \in Seq(Raw) /\ DOMAIN history \subseteq DOMAIN history'
        /\ history' # <<>> /\ (PickedUp => PickedUp')
    BY <2>1, <2>4, HistoryGrows
  <2>6. UNCHANGED <<tables, job, errors>>
    BY <1>1 DEF CarrierMoves
  <2>7. \A h \in Handlers : GoodJob(job[h])'
    BY <2>5, <2>6 DEF FulfilmentInv, Jobs, GoodJob, tables, orderVars
  <2> QED BY <2>4, <2>5, <2>6, <2>7
          DEF FulfilmentInv, RowTypes, Parcel, OrderFacts, Jobs, tables, orderVars,
              GivenUpOwesRefund, OnTheWayIsPickedUp
<1>2. ASSUME NEW h \in Handlers, Crash(h)
      PROVE  FulfilmentInv'
  <2>1. GoodJob(NoJob)'
    BY NoJobTyped DEF GoodJob, NoJob
  <2>2. Set(h, NoJob) /\ UNCHANGED <<tables, history>> /\ errors' \in 0..MaxErrors
    BY <1>2 DEF Crash, Done, FulfilmentInv
  <2> QED BY <2>1, <2>2, WritingStep
          DEF FulfilmentInv, RowTypes, Parcel, Recorded, tables
<1>3. CASE UNCHANGED vars
  BY <1>3 DEF vars, tables, orderVars, FulfilmentInv, RowTypes, Parcel, OrderFacts, Jobs,
              GoodJob, GivenUpOwesRefund, OnTheWayIsPickedUp, PickedUp
<1> QED BY <1>1, <1>2, <1>3

-----------------------------------------------------------------------------
(* Theorems *)

LEMMA FulfilmentInvHolds == Spec => []FulfilmentInv
<1>1. Init => FulfilmentInv
  <2> SUFFICES ASSUME Init PROVE FulfilmentInv
    OBVIOUS
  <2>1. RowTypes
    BY DEF Init, RowTypes
  <2>2. Parcel
    <3>1. history \in Seq(Raw) /\ Len(history) = 0
      BY DEF Init
    <3>2. ~shipment.code
      BY DEF Init, NoShipment
    <3> QED BY <3>1, <3>2 DEF Parcel
  <2>3. OrderFacts
    BY DEF Init, OrderFacts, Phase, GivenUpOwesRefund, OnTheWayIsPickedUp
  <2>4. Jobs
    BY NoJobTyped, NoJobGood DEF Init, Jobs
  <2> QED BY <2>1, <2>2, <2>3, <2>4 DEF Init, FulfilmentInv
<1>2. FulfilmentInv /\ [Next]_vars => FulfilmentInv'
  <2> SUFFICES ASSUME FulfilmentInv, [Next]_vars PROVE FulfilmentInv'
    OBVIOUS
  <2>1. ASSUME NEW h \in Administrators, AdministratorStep(h) PROVE FulfilmentInv'
    BY <2>1, StatusSteps, ReviewSteps, ShipmentSteps, CancelSteps, DeliverySteps
       DEF AdministratorStep, Handlers
  <2>2. ASSUME NEW h \in Customers, CustomerStep(h) PROVE FulfilmentInv'
    BY <2>2, ReviewSteps, DeliverySteps DEF CustomerStep, Handlers
  <2>3. ASSUME NEW h \in Trackers, TrackerStep(h) PROVE FulfilmentInv'
    BY <2>3, SyncSteps DEF TrackerStep, Handlers
  <2>4. ASSUME NEW h \in Webhooks, WebhookStep(h) PROVE FulfilmentInv'
    BY <2>4, EventSteps DEF WebhookStep, Handlers
  <2>5. ASSUME NEW h \in Crons, SyncStep(h) PROVE FulfilmentInv'
    BY <2>5, EventSteps, SyncSteps DEF SyncStep, Handlers
  <2> QED BY <2>1, <2>2, <2>3, <2>4, <2>5, OutsideSteps DEF Next
<1> QED BY <1>1, <1>2, PTL DEF Spec

(* However many administrators, customers, webhooks and runs of the cron act on the order
   at once: it is on its way or delivered only if its parcel was picked up. *)
THEOREM OnTheWayWasPickedUp == Spec => []OnTheWayIsPickedUp
BY FulfilmentInvHolds, PTL DEF FulfilmentInv, OrderFacts

(* A paid order that is cancelled or returned owes its money, although updateStatus and
   resolveDeliveryDispute decide so from a refund status read before their transaction. *)
THEOREM RefundIsOwed == Spec => []GivenUpOwesRefund
BY FulfilmentInvHolds, PTL DEF FulfilmentInv, OrderFacts

-----------------------------------------------------------------------------
(* The carrier only moves an order forward *)

ForwardStep ==
    /\ status' = "SHIPPING"  => status \in {"READY_TO_SHIP", "SHIPPING"}
    /\ status' = "DELIVERED" => status \in {"READY_TO_SHIP", "SHIPPING", "DELIVERED"}

LEMMA EventMovesForward ==
    ASSUME NEW h, EventWrite(h)
    PROVE  ForwardStep
<1> DEFINE to == FollowsOrder(job[h])
<1>1. status' = status \/ (status' = to /\ to # job[h].from /\ status = job[h].from)
  <2>1. CASE job[h].key \in seen \/ Stale(job[h])
    BY <2>1 DEF EventWrite
  <2>2. CASE ~(job[h].key \in seen \/ Stale(job[h]))
    <3>1. status' = IF to # job[h].from /\ StatusUnmoved(job[h]) THEN to ELSE status
      BY <2>2 DEF EventWrite
    <3> HIDE DEF to
    <3> QED BY <3>1 DEF StatusUnmoved
  <2> QED BY <2>1, <2>2
<1>2. CASE status' = status
  BY <1>2 DEF ForwardStep
<1>3. CASE status' = to /\ to # job[h].from /\ status = job[h].from
  <2> DEFINE from == job[h].from
             s == mapStatus(history[job[h].key[2]])
  <2>1. to = orderStatusForShipment(from, s) /\ to # from
    BY <1>3 DEF FollowsOrder
  <2> HIDE DEF to, s, from
  <2>2. from \in {"READY_TO_SHIP", "SHIPPING"}
    BY <2>1, FollowsCarrier
  <2>3. status \in {"READY_TO_SHIP", "SHIPPING"}
    BY <1>3, <2>2 DEF from
  <2> QED BY <2>3 DEF ForwardStep
<1> QED BY <1>1, <1>2, <1>3

LEMMA RequestMovesForward ==
    ASSUME FulfilmentInv, NEW h \in Handlers,
           StatusWrite(h) \/ ResolveWrite(h) \/ ConfirmWrite(h) \/ DisputeWrite(h)
    PROVE  ForwardStep
<1>1. GoodJob(job[h])
  BY DEF FulfilmentInv, Jobs
<1>2. CASE StatusWrite(h) \/ ResolveWrite(h)
  <2>1. job[h].at \in {"STATUS", "RESOLVE"} /\ status' = job[h].to
    BY <1>2 DEF StatusWrite, ResolveWrite, At
  <2>2. status' \notin OnTheWay
    BY <1>1, <2>1 DEF GoodJob
  <2> QED BY <2>2 DEF ForwardStep, OnTheWay
<1>3. CASE ConfirmWrite(h)
  BY <1>3 DEF ConfirmWrite, ForwardStep
<1>4. CASE DisputeWrite(h)
  <2>1. status' = status \/ status' = "DELIVERY_DISPUTED"
    BY <1>4 DEF DisputeWrite
  <2> QED BY <2>1 DEF ForwardStep
<1> QED BY <1>2, <1>3, <1>4

LEMMA StepMovesForward ==
    ASSUME FulfilmentInv, [Next]_vars
    PROVE  ForwardStep
<1>1. ASSUME UNCHANGED status
      PROVE  ForwardStep
  BY <1>1 DEF ForwardStep
<1>2. CASE UNCHANGED vars
  BY <1>1, <1>2 DEF vars, tables, orderVars
<1>3. ASSUME NEW h \in Administrators, AdministratorStep(h)
      PROVE  ForwardStep
  <2>1. \/ UNCHANGED status
        \/ StatusWrite(h) \/ ResolveWrite(h)
    BY <1>3 DEF AdministratorStep, tables, orderVars, StatusRead, StatusCheck, RequestRead,
         ReopenRead, ReviewRead, ReviewWrite, CreateRead, CreateRow, CreateCall, CreateError,
         CreateFail, CreateSave, CancelRead, CancelCall, CancelWrite, ResolveRead
  <2> QED BY <1>1, <2>1, RequestMovesForward DEF Handlers
<1>4. ASSUME NEW h \in Customers, CustomerStep(h)
      PROVE  ForwardStep
  <2>1. UNCHANGED status \/ ConfirmWrite(h) \/ DisputeWrite(h)
    BY <1>4 DEF CustomerStep, tables, orderVars, SubmitRead, SubmitWrite, ConfirmRead, DisputeRead
  <2> QED BY <1>1, <2>1, RequestMovesForward DEF Handlers
<1>5. ASSUME NEW h, WebhookStep(h) \/ SyncStep(h) \/ TrackerStep(h)
      PROVE  ForwardStep
  <2>1. UNCHANGED status \/ EventWrite(h)
    BY <1>5 DEF WebhookStep, SyncStep, TrackerStep, tables, orderVars, WebhookRead, SyncRead,
         SyncAsk, SyncFound, TrackRead, TrackWrite
  <2> QED BY <1>1, <2>1, EventMovesForward
<1>6. CASE CarrierMoves \/ \E h \in Handlers : Crash(h)
  BY <1>1, <1>6 DEF CarrierMoves, Crash, tables, orderVars
<1> QED BY <1>2, <1>3, <1>4, <1>5, <1>6 DEF Next

(* Whatever two events of the carrier, two administrators and the customer race for, an
   order that was cancelled, disputed, returned or completed is never called back to
   SHIPPING or DELIVERED, by handleShippingStatus or by any other handler. *)
THEOREM CarrierOnlyForward == Spec => CarrierNeverCallsBack
<1>1. FulfilmentInv /\ [Next]_vars => ForwardStep
  BY StepMovesForward
<1>2. []FulfilmentInv /\ [][Next]_vars => [][ForwardStep]_vars
  BY <1>1, PTL
<1> QED BY <1>2, FulfilmentInvHolds, PTL DEF Spec, CarrierNeverCallsBack, ForwardStep
=============================================================================
